--------------------------- MODULE MemoryRetrieval ---------------------------
(* retrieve of MemoryRetriever: what a plan should know.  Memories are found *)
(* by keyword, then by importance, in two selects with other requests in     *)
(* between; thresholds, an order and a budget of tokens make the result.     *)
(* Semantic search, with an optional library, is left out.                   *)
EXTENDS Integers, FiniteSets, Sequences, Functions

CONSTANTS
  Memory,
  Importance, Sure, Fresh, Size,  \* of a memory: its scores, whether it is of
                                  \* the last seven days, its length in tokens
  MinImportance,                  \* retrieval.min_importance
  MaxResults,                     \* retrieval.max_results
  TokenBudget                     \* retrieval.max_total_tokens

VARIABLES
  active,   \* memories of the user and edition that are active
  at,       \* of the search: idle, fill, done
  topic,    \* memories that hold a keyword of the goal
  found,    \* what the keywords found
  result,
  seen      \* what was active at one of its selects

vars == <<active, at, topic, found, result, seen>>

Init ==
  /\ active \in SUBSET Memory
  /\ at = "idle" /\ topic = {} /\ found = {} /\ result = <<>> /\ seen = {}

Write(m) == /\ m \notin active /\ active' = active \cup {m}
            /\ UNCHANGED <<at, topic, found, result, seen>>
Disable(m) == /\ m \in active /\ active' = active \ {m}
              /\ UNCHANGED <<at, topic, found, result, seen>>

\* ORDER BY importance DESC LIMIT n: ties are cut anywhere.
Tops(S, n) ==
  {T \in SUBSET S :
     /\ Cardinality(T) = (IF Cardinality(S) < n THEN Cardinality(S) ELSE n)
     /\ \A m \in T, k \in S \ T : Importance[m] >= Importance[k]}

\* _keyword_search.
SearchKeywords(matching) ==
  /\ at = "idle"
  /\ found' \in Tops(active \cap matching, MaxResults)
  /\ topic' = matching /\ seen' = active
  /\ at' = "fill" /\ UNCHANGED <<active, result>>

\* Decay within seven days is less than the boost.
Score(m) == Importance[m] * (IF Fresh[m] THEN 13 ELSE 10)

\* The sum of the sizes.
Tokens(s) ==
  LET sum[n \in 0..Len(s)] == IF n = 0 THEN 0 ELSE sum[n - 1] + Size[s[n]]
  IN  sum[Len(s)]

\* Thresholds are applied to what the selects have left.
Fits(m) == Importance[m] >= MinImportance /\ Sure[m]

Ordered(S) ==
  {s \in Bijection(1..Cardinality(S), S) :
     \A i, j \in DOMAIN s : i < j => Score(s[i]) >= Score(s[j])}


\* The budget ends the list at the first memory that exceeds it.
Within(s) ==
  SubSeq(s, 1, CHOOSE n \in 0..Len(s) :
                 /\ Tokens(SubSeq(s, 1, n)) <= TokenBudget
                 /\ n < Len(s) => Tokens(SubSeq(s, 1, n + 1)) > TokenBudget)

Cut(s) == SubSeq(s, 1, IF Len(s) < MaxResults THEN Len(s) ELSE MaxResults)

\* Faulty variant: the places that are left are filled before the keywords.
FillOnly(n) == Tops({m \in active : Importance[m] >= MinImportance}, 2 * n)

\* _recent_high_importance, for the places that are left, if any.
Fill(n) ==
  IF n = 0 THEN {found}
  ELSE {found \cup more :
          more \in Tops({m \in active \ found : Importance[m] >= MinImportance},
                        2 * n)}

Retrieve ==
  /\ at = "fill"
  /\ \E all \in Fill(MaxResults - Cardinality(found)) :
       \E s \in Ordered({m \in all : Fits(m)}) : result' = Within(Cut(s))
  /\ seen' = seen \cup active /\ at' = "done"
  /\ UNCHANGED <<active, topic, found>>

EndSearch ==
  /\ at = "done" /\ at' = "idle"
  /\ topic' = {} /\ found' = {} /\ result' = <<>> /\ seen' = {}
  /\ UNCHANGED active

Next ==
  \/ \E m \in Memory : Write(m) \/ Disable(m)
  \/ \E matching \in SUBSET Memory : SearchKeywords(matching)
  \/ Retrieve \/ EndSearch

Spec == Init /\ [][Next]_vars

-----------------------------------------------------------------------------
(* Properties.                                                              *)

(* The variables are in their ranges.                                       *)
TypeOK ==
  /\ active \subseteq Memory /\ found \subseteq Memory /\ seen \subseteq Memory
  /\ at \in {"idle", "fill", "done"}

(* The result is within the limits; each of it passes the thresholds and was *)
(* active at a select; and a memory that the keywords found and that passes  *)
(* is left out only behind memories with a score as high, even if it was     *)
(* disabled meanwhile (retrieve, _enforce_budget of retriever.py).           *)
RetrievedIsBest ==
  at = "done" =>
    /\ Tokens(result) <= TokenBudget /\ Len(result) <= MaxResults
    /\ \A i \in DOMAIN result : Fits(result[i]) /\ result[i] \in seen
    /\ \A m \in found :
         \/ ~Fits(m) \/ \E i \in DOMAIN result : result[i] = m
         \/ \A i \in DOMAIN result : Score(result[i]) >= Score(m)
=============================================================================
