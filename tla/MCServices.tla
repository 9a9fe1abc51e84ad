----------------------------- MODULE MCServices -----------------------------
(***************************************************************************)
(* Fourteen parts of the control core that share no state, on small        *)
(* instances: in each behaviour one of them, the focus, makes the steps.   *)
(* The same model values serve several parts.                              *)
(*                                                                         *)
(* The module holds the proofs about the parts as well, for all values of  *)
(* the constants that the named assumptions allow: after the instance of a *)
(* part its inductive invariant, a lemma that the first state has it, one  *)
(* that every step keeps it, and one that it implies the properties.  The  *)
(* theorems at the end put the parts together.                             *)
(***************************************************************************)
EXTENDS GrantIssuer, Integers, Filter, FiniteSetTheorems, SequenceTheorems,
        WellFoundedInduction, TLC, TLAPS

CONSTANTS
  Client, Route, Config, MaxClients, MaxTime,
  Calls, Chain, Configured, MaxFailures, MaxRetries,
  Job, Editor,
  OneShot, Thread, NoThread, Torn,
  Length, MaxRecovery, MaxOverdue,
  Peer, NoPeer, MaxInstances, MaxServes,
  Callback, State, NoState, MaxChanges,
  Key, NoContext, Closer, NoKey, Download,
  Caller, Connector, Url, NoUrl, MaxProcesses, MaxRequests,
  Plugin, Admin, MaxObjects,
  Unset, MaxEdits, MaxRestarts,
  Delegation, Together, MaxDepth, MaxConcurrent,
  Agent, Everybody, Proposal, Option, QueueSize, MaxLog, MaxProposals,
  MaxMessages,
  g1, g2, h1, h2, c1, c2, r1, r2, a1, a2, p1, p2, p3, j1, j2, j3, e1, e2,
  o1, o2, t1, t2

VARIABLES
  focus,
  now, config, requests, history,
  health, call,
  status, context, editor, raced,
  sched, current, stopped, marks, file, runs, lost, doubled,
  task, outcome, pc, at, recovery, rows, token, begun, acted, result, writing,
  overdue,
  halted, loop, serving, accept, peer, conn, shaken, registered, closing, after,
  late, overlapped,
  real, changes, callbacks, last, poll, watching, ending, joining, queue, told,
  fresh, paired,
  creating, contexts, open, partitions, dirs, leaving, download, verdict,
  crossed, unclosed, unwiped,
  process, child, base, client, connected, sent, known, coroutine, parting,
  shifted, tangled, moved,
  listed, loaded, errors, failed, instance, made, request, emission, mixed,
  steady,
  yamlFile, policyFile, yaml, tools, imported, engine, torn, answer, edits,
  restarts,
  active, run,
  posted, queues, log, proposed, votes, announcing, got, dropped

-----------------------------------------------------------------------------
(* What the proofs use of numbers, sequences and kept elements.            *)

\* The order of the natural numbers, as a relation.
Smaller == {p \in Nat \X Nat : p[1] < p[2]}

\* Of natural numbers there is a least.
LEMMA Least ==
  ASSUME NEW S, S \subseteq Nat, S # {}
  PROVE  \E x \in S : \A y \in S : x <= y
<1>1. IsWellFoundedOn(Smaller, Nat)
  BY NatLessThanWellFounded DEF OpToRel, Smaller
<1>2. \E x \in S : \A y \in S : ~(<<y, x>> \in Smaller)
  BY <1>1, WFMin
<1>3. ASSUME NEW x \in S, NEW y \in S, ~(<<y, x>> \in Smaller)
      PROVE  x <= y
  <2>1. x \in Nat /\ y \in Nat OBVIOUS
  <2>2. <<y, x>> \in Nat \X Nat BY <2>1
  <2>3. ~(y < x) BY <1>3, <2>2 DEF Smaller
  <2> QED BY <2>1, <2>3
<1>4. QED
  BY <1>2, <1>3

\* Induction, over a set instead of a predicate.
LEMMA Induct ==
  ASSUME NEW S, 0 \in S, \A n \in Nat : n \in S => n + 1 \in S
  PROVE  \A n \in Nat : n \in S
<1> SUFFICES ASSUME Nat \ S # {} PROVE FALSE
  OBVIOUS
<1>1. PICK x \in Nat \ S : \A y \in Nat \ S : x <= y
  BY Least
<1>2. x # 0 /\ x - 1 \in Nat
  OBVIOUS
<1>3. x - 1 \in S
  BY <1>1, <1>2
<1>4. (x - 1) + 1 \in S BY <1>2, <1>3
<1>5. QED BY <1>4

\* How what is kept of the first n elements comes of what is kept before.
KeepStep(s, kept, f, n) ==
  IF n = 0 THEN <<>>
  ELSE IF s[n] \in kept THEN Append(f[n - 1], s[n]) ELSE f[n - 1]

\* f is what Keep computes, up to n.
KeepsTo(s, kept, f, n) == f = [k \in 0..n |-> KeepStep(s, kept, f, k)]

\* Keep computes something.
LEMMA KeepExists ==
  ASSUME NEW s, NEW kept
  PROVE  \A n \in Nat : \E f : KeepsTo(s, kept, f, n)
<1> DEFINE S == {n \in Nat : \E f : KeepsTo(s, kept, f, n)}
<1>1. 0 \in S
  <2> DEFINE f == [k \in 0..0 |-> <<>>]
  <2>1. \A k \in 0..0 : KeepStep(s, kept, f, k) = <<>>
    BY DEF KeepStep
  <2> QED
    BY <2>1 DEF KeepsTo
<1>2. ASSUME NEW n \in Nat, n \in S
      PROVE  n + 1 \in S
  <2>1. PICK f : KeepsTo(s, kept, f, n)
    BY <1>2
  <2> DEFINE g == [k \in 0..n + 1 |-> KeepStep(s, kept, f, k)]
  <2>2. \A k \in 0..n : g[k] = f[k]
    <3>1. \A k \in 0..n : k \in 0..n + 1 /\ f[k] = KeepStep(s, kept, f, k)
      BY <2>1 DEF KeepsTo
    <3> QED
      BY <3>1
  <2>3. \A k \in 0..n + 1 : k = 0 \/ k - 1 \in 0..n
    OBVIOUS
  <2>4. \A k \in 0..n + 1 : KeepStep(s, kept, g, k) = KeepStep(s, kept, f, k)
    <3> TAKE k \in 0..n + 1
    <3> HIDE DEF g
    <3>1. k = 0 \/ g[k - 1] = f[k - 1]
      BY <2>2, <2>3
    <3> QED
      BY <3>1 DEF KeepStep
  <2>5. KeepsTo(s, kept, g, n + 1)
    BY <2>4 DEF KeepsTo
  <2> QED
    BY <2>5
<1> HIDE DEF S
<1>3. \A n \in Nat : n \in S
  BY <1>1, <1>2, Induct
<1> QED
  BY <1>3 DEF S

\* What it computes, up to n.
KeepFrom(s, kept, n) == CHOOSE f : KeepsTo(s, kept, f, n)

\* It is computed element by element.
LEMMA KeepFromStep ==
  ASSUME NEW s, NEW kept, NEW n \in Nat, NEW k \in 0..n
  PROVE  KeepFrom(s, kept, n)[k] = KeepStep(s, kept, KeepFrom(s, kept, n), k)
<1> DEFINE f == KeepFrom(s, kept, n)
<1>1. KeepsTo(s, kept, f, n)
  BY KeepExists DEF KeepFrom
<1> HIDE DEF f
<1> QED
  BY <1>1 DEF KeepsTo, f

\* Keep is the last of it.
LEMMA KeepIsLast ==
  ASSUME NEW s, NEW kept
  PROVE  Keep(s, kept) = KeepFrom(s, kept, Len(s))[Len(s)]
BY DEF Keep, KeepFrom, KeepsTo, KeepStep

\* What is kept of a prefix does not depend on the rest.
LEMMA SamePrefix ==
  ASSUME NEW s, NEW t, NEW kept, NEW m \in Nat, NEW n \in Nat, m <= n,
         \A i \in 1..m : t[i] = s[i]
  PROVE  \A k \in 0..m : KeepFrom(t, kept, n)[k] = KeepFrom(s, kept, m)[k]
<1> DEFINE S == {k \in Nat : k <= m => KeepFrom(t, kept, n)[k] = KeepFrom(s, kept, m)[k]}
<1>1. 0 \in S
  BY KeepFromStep DEF KeepStep
<1>2. ASSUME NEW k \in Nat, k \in S
      PROVE  k + 1 \in S
  <2> SUFFICES ASSUME k + 1 <= m
               PROVE  KeepFrom(t, kept, n)[k + 1] = KeepFrom(s, kept, m)[k + 1]
    OBVIOUS
  <2>1. k <= m /\ k + 1 \in 1..m /\ k + 1 \in 0..n /\ k + 1 \in 0..m
        /\ (k + 1) - 1 = k /\ k + 1 # 0
    OBVIOUS
  <2>2. KeepFrom(t, kept, n)[k] = KeepFrom(s, kept, m)[k]
    BY <1>2, <2>1
  <2> QED
    BY <2>1, <2>2, KeepFromStep DEF KeepStep
<1> HIDE DEF S
<1>3. \A k \in Nat : k \in S
  BY <1>1, <1>2, Induct
<1> QED
  BY <1>3 DEF S

\* Nothing is kept of nothing.
LEMMA KeepEmpty == \A kept : Keep(<<>>, kept) = <<>>
<1>1. Len(<<>>) = 0
  BY EmptySeq
<1> QED
  BY <1>1, KeepIsLast, KeepFromStep DEF KeepStep

\* Keep decides on the elements one by one.
LEMMA KeepAppend ==
  ASSUME NEW Y, NEW s \in Seq(Y), NEW x \in Y, NEW kept
  PROVE  Keep(Append(s, x), kept)
           = IF x \in kept THEN Append(Keep(s, kept), x) ELSE Keep(s, kept)
<1> DEFINE n == Len(s)
           t == Append(s, x)
<1>1. n \in Nat /\ Len(t) = n + 1 /\ t[n + 1] = x /\ \A i \in 1..n : t[i] = s[i]
  BY AppendProperties, LenProperties
<1> HIDE DEF n, t
<1>2. n <= n + 1 /\ n \in 0..n /\ n + 1 \in 0..n + 1 /\ n + 1 \in Nat
      /\ n + 1 # 0 /\ (n + 1) - 1 = n
  BY <1>1
<1>3. KeepFrom(t, kept, n + 1)[n] = KeepFrom(s, kept, n)[n]
  BY <1>1, <1>2, SamePrefix
<1>4. KeepFrom(t, kept, n + 1)[n + 1] = KeepStep(t, kept, KeepFrom(t, kept, n + 1), n + 1)
  BY <1>2, KeepFromStep
<1>5. Keep(t, kept) = KeepFrom(t, kept, n + 1)[n + 1] /\ Keep(s, kept) = KeepFrom(s, kept, n)[n]
  BY <1>1, KeepIsLast DEF n
<1> QED
  BY <1>1, <1>2, <1>3, <1>4, <1>5 DEF KeepStep, t

\* Induction over sequences, element by element.
LEMMA SeqInduct ==
  ASSUME NEW Y, NEW S, <<>> \in S,
         \A s \in Seq(Y), x \in Y : s \in S => Append(s, x) \in S
  PROVE  Seq(Y) \subseteq S
<1> DEFINE Z == {n \in Nat : \A s \in Seq(Y) : Len(s) = n => s \in S}
<1>1. 0 \in Z
  BY EmptySeq
<1>2. ASSUME NEW n \in Nat, n \in Z
      PROVE  n + 1 \in Z
  <2> SUFFICES ASSUME NEW s \in Seq(Y), Len(s) = n + 1
               PROVE  s \in S
    OBVIOUS
  <2> DEFINE h == SubSeq(s, 1, n)
  <2>1. s[n + 1] \in Y
    BY ElementOfSeq
  <2>2. h \in Seq(Y) /\ Len(h) = n /\ \A i \in 1..n : h[i] = s[i]
    <3>1. \A i \in 1..n : s[i] \in Y
      BY ElementOfSeq
    <3>2. h \in Seq(Y) /\ Len(h) = n
      BY <3>1, SubSeqProperties
    <3> QED
      BY <3>2, SubSeqProperties
  <2>3. h \in S
    BY <1>2, <2>2
  <2> HIDE DEF h
  <2>4. Append(h, s[n + 1]) \in S
    BY <2>1, <2>2, <2>3
  <2>5. s = Append(h, s[n + 1])
    <3>1. /\ Append(h, s[n + 1]) \in Seq(Y) /\ Len(Append(h, s[n + 1])) = n + 1
          /\ Append(h, s[n + 1])[n + 1] = s[n + 1]
          /\ \A i \in 1..n : Append(h, s[n + 1])[i] = h[i]
      BY <2>1, <2>2, AppendProperties
    <3>2. \A i \in 1..n + 1 : Append(h, s[n + 1])[i] = s[i]
      BY <2>2, <3>1
    <3> QED
      BY <3>1, <3>2, SeqEqual
  <2> QED
    BY <2>4, <2>5
<1> HIDE DEF Z
<1>3. \A n \in Nat : n \in Z
  BY <1>1, <1>2, Induct
<1>4. \A s \in Seq(Y) : Len(s) \in Z
  BY <1>3, LenProperties
<1> QED
  BY <1>4 DEF Z

\* An appended element is the only new one.
LEMMA RangeAppended ==
  ASSUME NEW Y, NEW s \in Seq(Y), NEW x \in Y
  PROVE  Range(Append(s, x)) = Range(s) \cup {x}
<1>1. /\ Append(s, x) \in Seq(Y) /\ Len(Append(s, x)) = Len(s) + 1 /\ Len(s) \in Nat
      /\ Append(s, x)[Len(s) + 1] = x
      /\ \A i \in 1..Len(s) : Append(s, x)[i] = s[i]
  BY AppendProperties, LenProperties
<1>2. /\ Range(Append(s, x)) = {Append(s, x)[i] : i \in 1..Len(s) + 1}
      /\ Range(s) = {s[i] : i \in 1..Len(s)}
  BY <1>1, RangeEquality
<1>3. \A i \in 1..Len(s) + 1 : i \in 1..Len(s) \/ i = Len(s) + 1
  BY <1>1
<1>4. Len(s) + 1 \in 1..Len(s) + 1 /\ 1..Len(s) \subseteq 1..Len(s) + 1
  BY <1>1
<1>5. {Append(s, x)[i] : i \in 1..Len(s) + 1} = {s[i] : i \in 1..Len(s)} \cup {x}
  BY <1>1, <1>3, <1>4
<1> QED
  BY <1>2, <1>5

\* Keep keeps elements of the sequence, those that are to be kept.
LEMMA KeepSeq ==
  ASSUME NEW Y, NEW s \in Seq(Y), NEW kept
  PROVE  /\ Keep(s, kept) \in Seq(Y)
         /\ Len(Keep(s, kept)) \in Nat /\ Len(Keep(s, kept)) <= Len(s)
         /\ Range(Keep(s, kept)) = Range(s) \cap kept
<1> DEFINE S == {q \in Seq(Y) : /\ Keep(q, kept) \in Seq(Y)
                                /\ Len(Keep(q, kept)) <= Len(q)
                                /\ Range(Keep(q, kept)) = Range(q) \cap kept}
<1>1. <<>> \in S
  <2>1. /\ <<>> \in Seq(Y) /\ Len(<<>>) = 0 /\ DOMAIN <<>> = {}
    BY EmptySeq
  <2>2. Range(<<>>) = {}
    BY <2>1 DEF Range
  <2> DEFINE e == <<>>
  <2>3. Keep(e, kept) = e
    BY KeepEmpty
  <2>4. e \in Seq(Y) /\ Len(e) <= Len(e) /\ Range(e) = Range(e) \cap kept
    BY <2>1, <2>2
  <2> HIDE DEF e
  <2>5. e \in S
    BY <2>3, <2>4
  <2> QED
    BY <2>5 DEF e
<1>2. ASSUME NEW q \in Seq(Y), NEW x \in Y, q \in S
      PROVE  Append(q, x) \in S
  <2> DEFINE k == Keep(q, kept)
  <2>1. k \in Seq(Y) /\ Len(k) <= Len(q) /\ Range(k) = Range(q) \cap kept
    BY <1>2
  <2>2. Keep(Append(q, x), kept) = IF x \in kept THEN Append(k, x) ELSE k
    BY KeepAppend
  <2> HIDE DEF k, S
  <2>3. /\ Append(q, x) \in Seq(Y) /\ Len(Append(q, x)) = Len(q) + 1 /\ Len(q) \in Nat
        /\ Range(Append(q, x)) = Range(q) \cup {x}
    BY AppendProperties, RangeAppended, LenProperties
  <2>4. /\ Append(k, x) \in Seq(Y) /\ Len(Append(k, x)) = Len(k) + 1 /\ Len(k) \in Nat
        /\ Range(Append(k, x)) = Range(k) \cup {x}
    BY <2>1, AppendProperties, RangeAppended, LenProperties
  <2>5. CASE x \in kept
    <3>1. Keep(Append(q, x), kept) = Append(k, x)
      BY <2>2, <2>5
    <3>2. Len(Append(k, x)) <= Len(Append(q, x))
      BY <2>1, <2>3, <2>4
    <3>3. Range(Append(k, x)) = Range(Append(q, x)) \cap kept
      BY <2>1, <2>3, <2>4, <2>5
    <3> QED
      BY <2>3, <2>4, <3>1, <3>2, <3>3 DEF S
  <2>6. CASE x \notin kept
    BY <2>1, <2>2, <2>3, <2>4, <2>6 DEF S
  <2> QED
    BY <2>5, <2>6
<1> HIDE DEF S
<1>3. Seq(Y) \subseteq S
  BY <1>1, <1>2, SeqInduct
<1>4. s \in S
  BY <1>3
<1>5. Keep(s, kept) \in Seq(Y)
  BY <1>4 DEF S
<1> QED
  BY <1>4, <1>5, LenProperties DEF S

\* Of two cuts the smaller one counts.
LEMMA KeepKeep ==
  ASSUME NEW Y, NEW s \in Seq(Y), NEW W, NEW D, D \subseteq W
  PROVE  Keep(Keep(s, W), D) = Keep(s, D)
<1> DEFINE S == {q \in Seq(Y) : Keep(Keep(q, W), D) = Keep(q, D)}
<1>1. <<>> \in S
  BY KeepEmpty, EmptySeq
<1>2. ASSUME NEW q \in Seq(Y), NEW x \in Y, q \in S
      PROVE  Append(q, x) \in S
  <2>1. Keep(q, W) \in Seq(Y)
    BY KeepSeq
  <2>2. /\ Keep(Append(q, x), W) = IF x \in W THEN Append(Keep(q, W), x) ELSE Keep(q, W)
        /\ Keep(Append(q, x), D) = IF x \in D THEN Append(Keep(q, D), x) ELSE Keep(q, D)
    BY KeepAppend
  <2>3. Keep(Append(Keep(q, W), x), D)
          = IF x \in D THEN Append(Keep(Keep(q, W), D), x) ELSE Keep(Keep(q, W), D)
    BY <2>1, KeepAppend
  <2>4. Append(q, x) \in Seq(Y)
    BY AppendProperties
  <2> QED
    BY <1>2, <2>2, <2>3, <2>4
<1> HIDE DEF S
<1>3. Seq(Y) \subseteq S
  BY <1>1, <1>2, SeqInduct
<1> QED
  BY <1>3 DEF S

\* W sequence without values is empty.
LEMMA EmptyRange ==
  ASSUME NEW Y, NEW s \in Seq(Y), Range(s) = {}
  PROVE  s = <<>>
<1>1. Len(s) \in Nat /\ Range(s) = {s[i] : i \in 1..Len(s)}
  BY LenProperties, RangeEquality
<1>2. Len(s) = 0
  <2> SUFFICES ASSUME Len(s) > 0 PROVE FALSE
    BY <1>1
  <2>1. 1 \in 1..Len(s)
    BY <1>1
  <2> QED
    BY <1>1, <2>1
<1> QED
  BY <1>2, EmptySeq

\* No element is smaller than one before it.
Ascending(s) == \A i, j \in 1..Len(s) : i <= j => s[i] <= s[j]

\* What is appended to an ascending sequence is not smaller than any.
LEMMA AscendingAppended ==
  ASSUME NEW s \in Seq(Nat), NEW x \in Nat
  PROVE  Ascending(Append(s, x)) <=> Ascending(s) /\ \A y \in Range(s) : y <= x
<1> DEFINE t == Append(s, x)
           n == Len(s)
<1>1. /\ n \in Nat /\ t \in Seq(Nat) /\ Len(t) = n + 1 /\ t[n + 1] = x
      /\ \A i \in 1..n : t[i] = s[i] /\ s[i] \in Nat
  BY AppendProperties, LenProperties, ElementOfSeq
<1>2. Range(s) = {s[i] : i \in 1..n}
  BY RangeEquality
<1> HIDE DEF t, n
<1>3. \A i \in 1..n + 1 : i \in 1..n \/ i = n + 1
  BY <1>1
<1>4. n + 1 \in 1..n + 1 /\ \A i \in 1..n : i \in 1..n + 1 /\ i <= n + 1 /\ ~(n + 1 <= i)
  BY <1>1
<1>5. ASSUME Ascending(t) PROVE Ascending(s) /\ \A y \in Range(s) : y <= x
  <2>1. \A i, j \in 1..n + 1 : i <= j => t[i] <= t[j]
    BY <1>1, <1>5 DEF Ascending
  <2>2. \A i, j \in 1..n : i <= j => s[i] <= s[j]
    BY <1>1, <1>4, <2>1
  <2>3. \A i \in 1..n : s[i] <= x
    BY <1>1, <1>4, <2>1
  <2> QED
    BY <1>2, <2>2, <2>3 DEF Ascending, n
<1>6. ASSUME Ascending(s), \A y \in Range(s) : y <= x PROVE Ascending(t)
  <2>1. \A i, j \in 1..n : i <= j => s[i] <= s[j]
    BY <1>6 DEF Ascending, n
  <2>2. \A i \in 1..n : s[i] <= x
    BY <1>2, <1>6
  <2>3. \A i, j \in 1..n + 1 : i <= j => t[i] <= t[j]
    BY <1>1, <1>3, <1>4, <2>1, <2>2
  <2> QED
    BY <1>1, <2>3 DEF Ascending
<1> QED
  BY <1>5, <1>6 DEF t

\* What is kept of an ascending sequence ascends.
LEMMA KeepAscends ==
  ASSUME NEW s \in Seq(Nat), NEW kept, Ascending(s)
  PROVE  Ascending(Keep(s, kept))
<1> DEFINE S == {q \in Seq(Nat) : Ascending(q) => Ascending(Keep(q, kept))}
<1>1. <<>> \in S
  BY KeepEmpty, EmptySeq DEF Ascending
<1>2. ASSUME NEW q \in Seq(Nat), NEW x \in Nat, q \in S
      PROVE  Append(q, x) \in S
  <2> SUFFICES ASSUME Ascending(Append(q, x))
               PROVE  Ascending(Keep(Append(q, x), kept))
    BY AppendProperties
  <2>1. Ascending(q) /\ \A y \in Range(q) : y <= x
    BY AscendingAppended
  <2>2. Keep(q, kept) \in Seq(Nat) /\ Range(Keep(q, kept)) \subseteq Range(q)
    BY KeepSeq
  <2>3. Ascending(Keep(q, kept))
    BY <1>2, <2>1
  <2>4. Ascending(Append(Keep(q, kept), x))
    BY <2>1, <2>2, <2>3, AscendingAppended
  <2> QED
    BY <2>3, <2>4, KeepAppend
<1> HIDE DEF S
<1>3. Seq(Nat) \subseteq S
  BY <1>1, <1>2, SeqInduct
<1> QED
  BY <1>3 DEF S

\* What is so of the empty sequence.
LEMMA OfEmpty ==
  Range(<<>>) = {} /\ Ascending(<<>>) /\ Len(<<>>) = 0 /\ \A Y : <<>> \in Seq(Y)
<1>1. DOMAIN <<>> = {} /\ Len(<<>>) = 0 /\ \A Y : <<>> \in Seq(Y)
  BY EmptySeq
<1>2. Range(<<>>) = {}
  BY <1>1 DEF Range
<1> QED
  BY <1>1, <1>2 DEF Ascending

\* A sequence over a set is one over a larger set.
LEMMA WiderSeq ==
  ASSUME NEW Y, NEW V, Y \subseteq V, NEW s \in Seq(Y)
  PROVE  s \in Seq(V)
BY ElementOfSeq, LenProperties

\* Only what a sequence holds matters to what is kept of it.
LEMMA KeepSame ==
  ASSUME NEW Y, NEW s \in Seq(Y), NEW W, NEW D, Range(s) \cap W = Range(s) \cap D
  PROVE  Keep(s, W) = Keep(s, D)
<1> DEFINE S == {q \in Seq(Y) : Range(q) \cap W = Range(q) \cap D => Keep(q, W) = Keep(q, D)}
<1>1. <<>> \in S
  BY KeepEmpty, EmptySeq
<1>2. ASSUME NEW q \in Seq(Y), NEW x \in Y, q \in S
      PROVE  Append(q, x) \in S
  <2> SUFFICES ASSUME Range(Append(q, x)) \cap W = Range(Append(q, x)) \cap D
               PROVE  Keep(Append(q, x), W) = Keep(Append(q, x), D)
    BY AppendProperties
  <2>1. Range(Append(q, x)) = Range(q) \cup {x}
    BY RangeAppended
  <2>2. Keep(q, W) = Keep(q, D) /\ (x \in W <=> x \in D)
    BY <1>2, <2>1
  <2>3. /\ Keep(Append(q, x), W) = IF x \in W THEN Append(Keep(q, W), x) ELSE Keep(q, W)
        /\ Keep(Append(q, x), D) = IF x \in D THEN Append(Keep(q, D), x) ELSE Keep(q, D)
    BY KeepAppend
  <2> QED
    BY <2>2, <2>3
<1> HIDE DEF S
<1>3. Seq(Y) \subseteq S
  BY <1>1, <1>2, SeqInduct
<1> QED
  BY <1>3 DEF S

\* A part of a sequence has elements of the sequence.
LEMMA RangeOfPart ==
  ASSUME NEW Y, NEW s \in Seq(Y), NEW m \in 1..Len(s) + 1, NEW n \in m - 1..Len(s)
  PROVE  /\ SubSeq(s, m, n) \in Seq(Y) /\ Len(SubSeq(s, m, n)) = n - m + 1
         /\ Range(SubSeq(s, m, n)) \subseteq Range(s)
         /\ \A i \in 1..n - m + 1 : SubSeq(s, m, n)[i] = s[m + i - 1]
<1>0. Len(s) \in Nat /\ Range(s) = {s[i] : i \in 1..Len(s)}
  BY LenProperties, RangeEquality
<1>1. /\ SubSeq(s, m, n) \in Seq(Y) /\ Len(SubSeq(s, m, n)) = n - m + 1
      /\ \A i \in 1..n - m + 1 : SubSeq(s, m, n)[i] = s[m + i - 1]
  <2>1. \A i \in m..n : s[i] \in Y
    BY <1>0, ElementOfSeq
  <2>2. m \in Int /\ n \in Int /\ m <= n + 1
    BY <1>0
  <2>3. SubSeq(s, m, n) \in Seq(Y) /\ Len(SubSeq(s, m, n)) = n - m + 1
    BY <1>0, <2>1, <2>2, SubSeqProperties
  <2>4. \A i \in 1..n - m + 1 : SubSeq(s, m, n)[i] = s[m + i - 1]
    BY <1>0, <2>1, <2>2, SubSeqProperties
  <2> QED
    BY <2>3, <2>4
<1> DEFINE t == SubSeq(s, m, n)
<1>2. Range(t) = {t[i] : i \in 1..n - m + 1}
  BY <1>1, RangeEquality
<1> HIDE DEF t
<1>3. \A i \in 1..n - m + 1 : m + i - 1 \in 1..Len(s)
  BY <1>0
<1>4. Range(t) \subseteq Range(s)
  BY <1>0, <1>1, <1>2, <1>3 DEF t
<1> QED
  BY <1>1, <1>4 DEF t

\* The head of a list and what follows it are what it holds.
LEMMA RangeHeadTail ==
  ASSUME NEW U, NEW s \in Seq(U), s # <<>>
  PROVE  /\ Head(s) \in U /\ Tail(s) \in Seq(U) /\ Len(Tail(s)) = Len(s) - 1
         /\ Range(s) = {Head(s)} \cup Range(Tail(s))
<1>1. /\ Head(s) \in U /\ Head(s) = s[1]
      /\ Tail(s) \in Seq(U) /\ Len(Tail(s)) = Len(s) - 1
      /\ \A i \in 1..Len(s) - 1 : Tail(s)[i] = s[i + 1]
      /\ Len(s) \in Nat /\ Len(s) >= 1
  BY HeadTailProperties, LenProperties, EmptySeq
<1> DEFINE t == Tail(s)
<1>2. Range(s) = {s[i] : i \in 1..Len(s)} /\ Range(t) = {t[i] : i \in 1..Len(s) - 1}
  BY <1>1, RangeEquality
<1> HIDE DEF t
<1>3. \A i \in 1..Len(s) : i = 1 \/ (i - 1 \in 1..Len(s) - 1 /\ s[i] = t[i - 1])
  BY <1>1 DEF t
<1>4. \A i \in 1..Len(s) - 1 : i + 1 \in 1..Len(s) /\ t[i] = s[i + 1]
  BY <1>1 DEF t
<1>5. Range(s) = {s[1]} \cup Range(t)
  BY <1>1, <1>2, <1>3, <1>4
<1> QED
  BY <1>1, <1>5 DEF t

\* Two lists together hold what each of them holds.
LEMMA RangeJoined ==
  ASSUME NEW U, NEW s \in Seq(U), NEW t \in Seq(U)
  PROVE  s \o t \in Seq(U) /\ Range(s \o t) = Range(s) \cup Range(t)
<1> DEFINE u == s \o t
           m == Len(s)
           n == Len(t)
<1>1. /\ m \in Nat /\ n \in Nat /\ u \in Seq(U) /\ Len(u) = m + n
      /\ \A i \in 1..m + n : u[i] = IF i <= m THEN s[i] ELSE t[i - m]
  BY ConcatProperties, LenProperties
<1>2. /\ Range(u) = {u[i] : i \in 1..m + n}
      /\ Range(s) = {s[i] : i \in 1..m} /\ Range(t) = {t[i] : i \in 1..n}
  BY <1>1, RangeEquality
<1> HIDE DEF u, m, n
<1>3. \A i \in 1..m + n : (i \in 1..m /\ u[i] = s[i]) \/ (i - m \in 1..n /\ u[i] = t[i - m])
  BY <1>1
<1>4. \A i \in 1..m : i \in 1..m + n /\ u[i] = s[i]
  BY <1>1
<1>5. \A i \in 1..n : i + m \in 1..m + n /\ u[i + m] = t[i]
  <2>1. \A i \in 1..n : i + m \in 1..m + n /\ ~(i + m <= m) /\ (i + m) - m = i
    BY <1>1
  <2> QED
    BY <1>1, <2>1
<1>6. Range(u) = Range(s) \cup Range(t)
  BY <1>2, <1>3, <1>4, <1>5
<1> QED
  BY <1>1, <1>6 DEF u

-----------------------------------------------------------------------------
(* GrantIssuer.                                                            *)

LockOK ==
  /\ writer = Nobody => draft = row
  /\ \A h \in Holder :
       /\ holder[h].pc = "won" => writer = h
       /\ writer = h =>
            /\ holder[h].pc = "won"
            /\ row[holder[h].grant] = "issued"
            /\ draft = [row EXCEPT ![holder[h].grant] = "consumed"]

IInv == TypeOK /\ LockOK /\ UsedOnce

-----------------------------------------------------------------------------
\* A transaction that commits at once takes grants neither into nor out of
\* "consumed".
LEMMA CommitStep ==
  ASSUME IInv, NEW update \in [Grant -> Status], Commit(update),
         \A g \in Grant : update[g] = "consumed" <=> row[g] = "consumed"
  PROVE  IInv'
<1>1. TypeOK'
  BY DEF IInv, TypeOK, Commit
<1>2. LockOK'
  BY NobodyAssumption DEF IInv, LockOK, Commit
<1>3. UsedOnce'
  BY DEF IInv, UsedOnce, Commit
<1> QED
  BY <1>1, <1>2, <1>3 DEF IInv

\* issue, revoke and expire_stale.
LEMMA RowSteps ==
  ASSUME IInv, (\E g \in Grant : Issue(g) \/ Revoke(g)) \/ ExpireStale
  PROVE  IInv'
<1>1. row \in [Grant -> Status]
  BY DEF IInv, TypeOK
<1>2. ASSUME NEW g \in Grant, Issue(g)
      PROVE  IInv'
  BY <1>1, <1>2, CommitStep DEF Issue, Status
<1>3. ASSUME NEW g \in Grant, Revoke(g)
      PROVE  IInv'
  BY <1>1, <1>3, CommitStep DEF Revoke, Status
<1>4. CASE ExpireStale
  BY <1>1, <1>4, CommitStep DEF ExpireStale, Status
<1> QED
  BY <1>2, <1>3, <1>4

\* verify and the passing of time write nothing.
LEMMA VerifyStep ==
  ASSUME IInv, NEW h \in Holder, NEW g \in Grant, Verify(h, g)
  PROVE  IInv'
<1>1. TypeOK'
  BY DEF IInv, TypeOK, Verify, HolderState
<1>2. LockOK'
  BY DEF IInv, TypeOK, LockOK, Verify
<1>3. UsedOnce'
  BY DEF IInv, UsedOnce, Verify
<1> QED
  BY <1>1, <1>2, <1>3 DEF IInv

\* Nor does the passing of time.
LEMMA LapseStep ==
  ASSUME IInv, (\E g \in Grant : Lapse(g)) \/ UNCHANGED vars
  PROVE  IInv'
BY DEF IInv, TypeOK, LockOK, UsedOnce, Lapse, vars

\* consume: the update finds the row issued and takes the lock, or it does not
\* and changes nothing.
LEMMA ConsumeStep ==
  ASSUME IInv, NEW h \in Holder, Consume(h)
  PROVE  IInv'
<1> DEFINE g == holder[h].grant
<1>1. holder[h] \in HolderState /\ g \in Grant /\ holder[h].pc = "verified" /\ writer = Nobody
  BY DEF IInv, TypeOK, Consume, HolderState
<1>2. CASE /\ row[g] = "issued"
           /\ writer' = h
           /\ draft' = [row EXCEPT ![g] = "consumed"]
           /\ holder' = [holder EXCEPT ![h].pc = "won"]
  <2>1. TypeOK'
    BY <1>1, <1>2 DEF IInv, TypeOK, Consume, HolderState, Status
  <2>2. LockOK'
    BY <1>1, <1>2, NobodyAssumption DEF IInv, TypeOK, LockOK, Consume, HolderState
  <2>3. UsedOnce'
    BY DEF IInv, UsedOnce, Consume
  <2> QED
    BY <2>1, <2>2, <2>3 DEF IInv
<1>3. CASE holder' = [holder EXCEPT ![h].pc = "idle"] /\ UNCHANGED <<writer, draft>>
  <2>1. TypeOK'
    BY <1>1, <1>3 DEF IInv, TypeOK, Consume, HolderState
  <2>2. LockOK'
    BY <1>1, <1>3, NobodyAssumption DEF IInv, TypeOK, LockOK, Consume, HolderState
  <2>3. UsedOnce'
    BY DEF IInv, UsedOnce, Consume
  <2> QED
    BY <2>1, <2>2, <2>3 DEF IInv
<1> QED
  BY <1>2, <1>3 DEF Consume

\* The end of the holder's transaction: what it commits is its one consumption.
LEMMA EndStep ==
  ASSUME IInv, NEW h \in Holder, End(h)
  PROVE  IInv'
<1> DEFINE g == holder[h].grant
<1>1. /\ writer = h /\ h # Nobody
      /\ holder[h] \in HolderState /\ g \in Grant
      /\ row[g] = "issued" /\ draft = [row EXCEPT ![g] = "consumed"]
      /\ used[g] = 0
  <2>1. used[g] # 1 /\ used[g] <= 1 /\ used[g] \in Nat
    BY DEF IInv, TypeOK, LockOK, UsedOnce, End, HolderState
  <2> QED
    BY <2>1, NobodyAssumption DEF IInv, TypeOK, LockOK, End, HolderState
<1>2. /\ writer' = Nobody /\ lapsed' = lapsed
      /\ holder' = [holder EXCEPT ![h].pc = "idle"]
      /\ \/ row' = draft /\ draft' = draft /\ used' = [used EXCEPT ![g] = 1]
         \/ row' = row /\ draft' = row /\ used' = used
  BY <1>1 DEF End, IInv, TypeOK
<1>3. TypeOK'
  BY <1>1, <1>2 DEF IInv, TypeOK, HolderState
<1>4. LockOK'
  BY <1>1, <1>2, NobodyAssumption DEF IInv, TypeOK, LockOK, HolderState
<1>5. UsedOnce'
  BY <1>1, <1>2 DEF IInv, TypeOK, UsedOnce
<1> QED
  BY <1>3, <1>4, <1>5 DEF IInv

-----------------------------------------------------------------------------
\* It holds where no grant is issued.
LEMMA InitIInv == Init => IInv
<1> SUFFICES ASSUME Init PROVE IInv
  OBVIOUS
<1> DEFINE idle == {[pc |-> "idle", grant |-> g] : g \in Grant}
<1>1. \A st \in idle : st \in HolderState /\ st.pc = "idle"
  BY DEF HolderState
<1>2. holder \in [Holder -> idle]
  BY DEF Init
<1> HIDE DEF idle
<1>3. holder \in [Holder -> HolderState] /\ \A h \in Holder : holder[h].pc = "idle"
  BY <1>1, <1>2
<1>4. /\ row = [g \in Grant |-> "none"] /\ used = [g \in Grant |-> 0]
      /\ lapsed = {} /\ writer = Nobody /\ draft = row
  BY DEF Init
<1>5. TypeOK
  BY <1>3, <1>4 DEF TypeOK, Status
<1>6. LockOK
  BY <1>3, <1>4, NobodyAssumption DEF LockOK
<1>7. UsedOnce
  <2> SUFFICES ASSUME NEW g \in Grant
               PROVE  /\ used[g] <= 1
                      /\ used[g] # 1
                      /\ row[g] # "consumed"
    BY DEF UsedOnce
  <2>1. used[g] = 0 /\ row[g] = "none"
    BY <1>4
  <2> QED
    BY <2>1
<1> QED
  BY <1>5, <1>6, <1>7 DEF IInv

\* Each step of the issuer and of the holders keeps it.
LEMMA NextIInv == IInv /\ [Next]_vars => IInv'
BY RowSteps, VerifyStep, LapseStep, ConsumeStep, EndStep DEF Next

\* So it holds always.
LEMMA IInvAlways == Spec => []IInv
BY InitIInv, NextIInv, PTL DEF Spec

-----------------------------------------------------------------------------
\* The rows, the transactions and the holders keep their types.
THEOREM TypeCorrect == Spec => []TypeOK
<1>1. IInv => TypeOK
  BY DEF IInv
<1> QED
  BY <1>1, IInvAlways, PTL

\* However many holders of one handle race, and whatever revocations, sweeps and
\* rollbacks come between, consume succeeds once per grant, and only for one
\* that is neither revoked nor swept.
THEOREM GrantsAreUsedOnce == Spec => []UsedOnce
<1>1. IInv => UsedOnce
  BY DEF IInv
<1> QED
  BY <1>1, IInvAlways, PTL

-----------------------------------------------------------------------------
(* SubAgents.                                                              *)

\* One of the runs is called by a sub-agent's sub-agent.
A == INSTANCE SubAgents
       WITH Run <- Delegation, DepthOf <- [r \in Delegation |-> IF r = e2 THEN 2 ELSE 1],
            Plans <- {<<"tool", "blocked">>, <<"tool", "tool">>, <<"missing">>}

\* What the planner asks for, and where a run stands.
StepKind == {"tool", "blocked", "missing"}
RunPc == {"idle", "planning", "tool", "succeeded", "failed", "refused", "cancelled"}

\* The runs keep their ranges.
RunRecord ==
  [pc : RunPc, plan : Seq(StepKind), left : Seq(StepKind), results : Seq(A!Status),
   acted : Nat, others : Nat]

DelegationTypes == run \in [Delegation -> RunRecord]

\* The first n steps of a plan whose tool may be executed.
ToolSteps(p, n) == {i \in 1 .. n : p[i] = "tool"}

\* The first n steps of p are behind: each tool of them was executed, and only
\* tools have the result "success".
Behind(p, left, results, n) ==
  /\ n \in Nat /\ n + Len(left) = Len(p)
  /\ \A i \in 1 .. Len(left) : left[i] = p[n + i]
  /\ A!Range(results) \subseteq {"success"} => \A i \in 1 .. n : p[i] = "tool"

\* What the record r of a run says is true.
RunOK(r) ==
  /\ r.pc = "tool" =>
       /\ Behind(r.plan, r.left, r.results, Len(r.plan) - Len(r.left))
       /\ r.left # <<>> /\ r.left[1] = "tool"
       /\ r.acted = Cardinality(ToolSteps(r.plan, Len(r.plan) - Len(r.left) + 1))
  /\ r.pc \in {"idle", "planning", "refused"} => r.acted = 0
  /\ r.pc = "succeeded" =>
       /\ \A i \in 1 .. Len(r.plan) : r.plan[i] = "tool"
       /\ r.acted = Len(r.plan)
  /\ r.acted <= Cardinality(ToolSteps(r.plan, Len(r.plan)))

\* A gathered run is refused only with others under way.
FitsOK(d, r) ==
  d \in Together /\ r.pc = "refused" /\ (IF d = e2 THEN 2 ELSE 1) < MaxDepth => r.others > 0

\* What a step of the runs preserves.
DelegationInv ==
  /\ DelegationTypes /\ A!CountIsTrue
  /\ \A d \in Delegation : RunOK(run[d]) /\ FitsOK(d, run[d])

\* There are finitely many runs; those that are gathered are runs.
DelegationAssumption ==
  /\ IsFiniteSet(Delegation) /\ Together \subseteq Delegation
  /\ MaxConcurrent \in Nat /\ MaxDepth \in Nat

\* How many tools the first steps of a plan have.
LEMMA ToolStepsCount ==
  ASSUME NEW p \in Seq(StepKind), NEW n \in Nat, n <= Len(p)
  PROVE  /\ IsFiniteSet(ToolSteps(p, n)) /\ Cardinality(ToolSteps(p, n)) \in Nat
         /\ Cardinality(ToolSteps(p, n)) <= Cardinality(ToolSteps(p, Len(p)))
         /\ (\A i \in 1 .. n : p[i] = "tool") => Cardinality(ToolSteps(p, n)) = n
         /\ n < Len(p) /\ p[n + 1] = "tool" =>
              Cardinality(ToolSteps(p, n + 1)) = Cardinality(ToolSteps(p, n)) + 1
         /\ \A m \in 0 .. n : (\A i \in m + 1 .. n : p[i] # "tool") =>
              Cardinality(ToolSteps(p, n)) = Cardinality(ToolSteps(p, m))
<1>0. Len(p) \in Nat
  OBVIOUS
<1>1. IsFiniteSet(1 .. Len(p)) /\ IsFiniteSet(1 .. n) /\ Cardinality(1 .. n) = n
  BY <1>0, FS_Interval
<1>2. ToolSteps(p, Len(p)) \in SUBSET (1 .. Len(p)) /\ ToolSteps(p, n) \in SUBSET ToolSteps(p, Len(p))
  BY <1>0 DEF ToolSteps
<1>3. IsFiniteSet(ToolSteps(p, Len(p)))
  BY <1>1, <1>2, FS_Subset
<1>4. /\ IsFiniteSet(ToolSteps(p, n))
      /\ Cardinality(ToolSteps(p, n)) <= Cardinality(ToolSteps(p, Len(p)))
  BY <1>2, <1>3, FS_Subset
<1>5. Cardinality(ToolSteps(p, n)) \in Nat
  BY <1>4, FS_CardinalityType
<1>6. (\A i \in 1 .. n : p[i] = "tool") => ToolSteps(p, n) = 1 .. n
  BY DEF ToolSteps
<1>7. n < Len(p) /\ p[n + 1] = "tool" =>
        ToolSteps(p, n + 1) = ToolSteps(p, n) \cup {n + 1} /\ n + 1 \notin ToolSteps(p, n)
  BY DEF ToolSteps
<1>8. n < Len(p) /\ p[n + 1] = "tool" =>
        Cardinality(ToolSteps(p, n + 1)) = Cardinality(ToolSteps(p, n)) + 1
  BY <1>4, <1>7, FS_AddElement
<1>9. \A m \in 0 .. n : (\A i \in m + 1 .. n : p[i] # "tool") => ToolSteps(p, n) = ToolSteps(p, m)
  BY DEF ToolSteps
<1> QED
  BY <1>1, <1>4, <1>5, <1>6, <1>8, <1>9

\* What a run notes of the steps it passes over, and the rest of its plan.
Noted(left, results, skipped) == results \o [i \in 1 .. skipped |-> A!ResultOf(left[i])]
Rest(left, skipped) == SubSeq(left, skipped + 1, Len(left))

\* A run that passes over steps up to a tool, or to the end, stays true.
LEMMA GoesOn ==
  ASSUME NEW p \in Seq(StepKind), NEW left \in Seq(StepKind),
         NEW results \in Seq(A!Status), NEW n, Behind(p, left, results, n),
         NEW skipped \in 0 .. Len(left),
         \A i \in 1 .. skipped : left[i] # "tool",
         skipped < Len(left) => left[skipped + 1] = "tool",
         NEW noted, noted = Noted(left, results, skipped),
         NEW rest, rest = Rest(left, skipped)
  PROVE  /\ noted \in Seq(A!Status) /\ rest \in Seq(StepKind)
         /\ Behind(p, rest, noted, n + skipped)
         /\ rest = <<>> =>
              /\ Cardinality(ToolSteps(p, n)) = Cardinality(ToolSteps(p, Len(p)))
              /\ A!Range(noted) \subseteq {"success"} =>
                   /\ \A i \in 1 .. Len(p) : p[i] = "tool"
                   /\ Cardinality(ToolSteps(p, n)) = Len(p)
         /\ rest # <<>> =>
              /\ rest[1] = "tool"
              /\ Cardinality(ToolSteps(p, n + skipped + 1)) = Cardinality(ToolSteps(p, n)) + 1
<1> DEFINE more == [i \in 1 .. skipped |-> A!ResultOf(left[i])]
<1>1. /\ n \in Nat /\ n + Len(left) = Len(p) /\ skipped \in Nat /\ Len(left) \in Nat
      /\ Len(p) \in Nat /\ n + skipped <= Len(p) /\ n <= Len(p) /\ skipped <= Len(left)
      /\ n + skipped \in Nat
  BY DEF Behind
<1>2. more \in Seq({"blocked", "not_found"}) /\ Len(more) = skipped
  BY <1>1 DEF A!ResultOf
<1>13. noted = results \o more
  BY DEF Noted
<1>3. /\ more \in Seq(A!Status) /\ noted \in Seq(A!Status) /\ Len(noted) = Len(results) + skipped
      /\ Len(results) \in Nat
      /\ \A i \in 1 .. Len(results) + skipped :
           noted[i] = IF i <= Len(results) THEN results[i] ELSE more[i - Len(results)]
  <2>1. more \in Seq(A!Status)
    BY <1>2, SeqMonotonic DEF A!Status
  <2> HIDE DEF more
  <2> QED
    <3>1. Len(results) \in Nat /\ skipped \in Nat
      BY <1>1, LenProperties
    <3>2. /\ results \o more \in Seq(A!Status)
          /\ Len(results \o more) = Len(results) + Len(more)
          /\ \A i \in 1 .. Len(results) + Len(more) : (results \o more)[i] =
               IF i <= Len(results) THEN results[i] ELSE more[i - Len(results)]
      BY <2>1, ConcatProperties
    <3> QED
      BY <1>2, <1>13, <2>1, <3>1, <3>2
<1>4. /\ rest \in Seq(StepKind) /\ Len(rest) = Len(left) - skipped
      /\ \A i \in 1 .. Len(rest) : rest[i] = left[skipped + i]
  <2>1. \A i \in skipped + 1 .. Len(left) : left[i] \in StepKind
    BY <1>1, ElementOfSeq
  <2>2. skipped + 1 \in Int /\ Len(left) \in Int
    BY <1>1
  <2>3. /\ rest \in Seq(StepKind)
        /\ Len(rest) = IF skipped + 1 <= Len(left) THEN Len(left) - (skipped + 1) + 1 ELSE 0
        /\ \A i \in 1 .. Len(left) - (skipped + 1) + 1 : rest[i] = left[(skipped + 1) + i - 1]
    BY <2>1, <2>2, SubSeqProperties DEF Rest
  <2> QED
    BY <1>1, <2>3
<1> HIDE DEF more
<1>5. rest = <<>> <=> skipped = Len(left)
  <2>1. rest = <<>> <=> Len(rest) = 0
    BY <1>4, EmptySeq
  <2> QED
    BY <1>1, <1>4, <2>1
<1>6. A!Range(noted) \subseteq {"success"} => A!Range(results) \subseteq {"success"} /\ skipped = 0
  <2> SUFFICES ASSUME A!Range(noted) \subseteq {"success"}
               PROVE  A!Range(results) \subseteq {"success"} /\ skipped = 0
    OBVIOUS
  <2>1. \A i \in 1 .. Len(noted) : noted[i] = "success"
    <3>1. DOMAIN noted = 1 .. Len(noted)
      BY <1>3
    <3> QED
      BY <3>1 DEF A!Range
  <2>2. \A i \in 1 .. Len(results) : results[i] = "success"
    <3> TAKE i \in 1 .. Len(results)
    <3>1. i \in 1 .. Len(results) + skipped /\ i <= Len(results)
      BY <1>1, <1>3
    <3> QED
      BY <1>3, <2>1, <3>1
  <2>3. A!Range(results) \subseteq {"success"}
    BY <2>2 DEF A!Range
  <2>4. ASSUME skipped > 0 PROVE FALSE
    <3>1. /\ Len(results) + 1 \in 1 .. Len(results) + skipped /\ 1 \in 1 .. Len(more)
          /\ ~ Len(results) + 1 <= Len(results) /\ (Len(results) + 1) - Len(results) = 1
      BY <1>1, <1>2, <1>3, <2>4
    <3>2. more[1] = "success"
      BY <1>3, <2>1, <3>1
    <3>3. more[1] \in {"blocked", "not_found"}
      BY <1>2, <3>1, ElementOfSeq
    <3> QED
      BY <3>2, <3>3
  <2> QED
    BY <1>1, <2>3, <2>4
<1>7. \A i \in 1 .. skipped : p[n + i] = left[i] /\ p[n + i] # "tool"
  BY <1>1 DEF Behind
<1>8. \A i \in n + 1 .. n + skipped : p[i] # "tool"
  <2> TAKE i \in n + 1 .. n + skipped
  <2>1. i - n \in 1 .. skipped /\ n + (i - n) = i
    BY <1>1
  <2> QED
    BY <1>7, <2>1
<1>9. Behind(p, rest, noted, n + skipped)
  <2>1. n + skipped \in Nat /\ (n + skipped) + Len(rest) = Len(p)
    <3>1. Len(rest) = Len(left) - skipped
      BY <1>4
    <3>2. (n + skipped) + (Len(left) - skipped) = n + Len(left)
      BY <1>1
    <3> QED
      BY <1>1, <3>1, <3>2
  <2>2. \A i \in 1 .. Len(rest) : rest[i] = p[(n + skipped) + i]
    <3> TAKE i \in 1 .. Len(rest)
    <3>1. skipped + i \in 1 .. Len(left) /\ n + (skipped + i) = (n + skipped) + i
      BY <1>1, <1>4
    <3> QED
      BY <1>4, <3>1 DEF Behind
  <2>3. A!Range(noted) \subseteq {"success"} => \A i \in 1 .. n + skipped : p[i] = "tool"
    BY <1>1, <1>6 DEF Behind
  <2> QED
    BY <2>1, <2>2, <2>3 DEF Behind
<1>10. Cardinality(ToolSteps(p, n + skipped)) = Cardinality(ToolSteps(p, n))
  <2>1. n \in 0 .. n + skipped
    BY <1>1
  <2> QED
    BY <1>1, <1>8, <2>1, ToolStepsCount
<1>11. ASSUME rest = <<>>
       PROVE  /\ Cardinality(ToolSteps(p, n)) = Cardinality(ToolSteps(p, Len(p)))
              /\ A!Range(noted) \subseteq {"success"} =>
                   /\ \A i \in 1 .. Len(p) : p[i] = "tool"
                   /\ Cardinality(ToolSteps(p, n)) = Len(p)
  <2>1. n + skipped = Len(p)
    BY <1>1, <1>5, <1>11
  <2>2. A!Range(noted) \subseteq {"success"} => \A i \in 1 .. Len(p) : p[i] = "tool"
    BY <1>9, <2>1 DEF Behind
  <2>3. A!Range(noted) \subseteq {"success"} => Cardinality(ToolSteps(p, Len(p))) = Len(p)
    <3>1. Len(p) \in Nat /\ Len(p) <= Len(p)
      BY <1>1
    <3> QED
      BY <2>2, <3>1, ToolStepsCount
  <2> QED
    BY <1>10, <2>1, <2>2, <2>3
<1>12. ASSUME rest # <<>>
       PROVE  /\ rest[1] = "tool"
              /\ Cardinality(ToolSteps(p, n + skipped + 1)) = Cardinality(ToolSteps(p, n)) + 1
  <2>0. skipped < Len(left) /\ skipped + 1 \in 1 .. Len(left) /\ 1 \in 1 .. Len(rest)
    BY <1>1, <1>4, <1>5, <1>12
  <2>1. skipped < Len(left) /\ rest[1] = left[skipped + 1] /\ skipped + 1 \in 1 .. Len(left)
    BY <1>4, <2>0
  <2>2. p[n + (skipped + 1)] = "tool"
    BY <2>1 DEF Behind
  <2>3. n + skipped < Len(p) /\ p[(n + skipped) + 1] = "tool"
    BY <1>1, <2>1, <2>2
  <2>4. Cardinality(ToolSteps(p, (n + skipped) + 1)) = Cardinality(ToolSteps(p, n + skipped)) + 1
    BY <1>1, <2>3, ToolStepsCount
  <2> QED
    BY <1>1, <1>10, <2>1, <2>4
<1> QED
  BY <1>3, <1>4, <1>9, <1>11, <1>12

\* The module counts as this one does.
LEMMA SameCount == \A S : A!Cardinality(S) = Cardinality(S)
BY DEF A!Cardinality, Cardinality

\* Finitely many runs are under way.
LEMMA BodyIsFinite ==
  ASSUME DelegationAssumption
  PROVE  IsFiniteSet(A!InBody) /\ Cardinality(A!InBody) \in Nat
BY FS_Subset, FS_CardinalityType DEF DelegationAssumption, A!InBody

\* It is enough for what StepsAreSettled says of SubAgents.
LEMMA DelegationHolds ==
  ASSUME DelegationAssumption, DelegationInv
  PROVE  A!CountIsTrue /\ A!SuccessIsTrue /\ A!TogetherFits
<1>1. ASSUME NEW d \in Delegation
      PROVE  /\ run[d].plan \in Seq(StepKind) /\ DOMAIN run[d].plan = 1 .. Len(run[d].plan)
             /\ ToolSteps(run[d].plan, Len(run[d].plan)) =
                  {i \in DOMAIN run[d].plan : run[d].plan[i] = "tool"}
  <2>1. run[d].plan \in Seq(StepKind)
    BY <1>1 DEF DelegationInv, DelegationTypes, RunRecord
  <2> QED
    BY <2>1, LenProperties DEF ToolSteps
<1>2. A!SuccessIsTrue
  BY <1>1, SameCount DEF DelegationInv, RunOK, A!SuccessIsTrue
<1>3. A!TogetherFits
  BY DEF DelegationInv, DelegationAssumption, FitsOK, A!TogetherFits
<1> QED
  BY <1>2, <1>3 DEF DelegationInv

\* A run that has not begun says nothing false.
LEMMA IdleIsOK == A!Idle \in RunRecord /\ RunOK(A!Idle) /\ A!Idle.pc = "idle"
<1>1. <<>> \in Seq(StepKind) /\ <<>> \in Seq(A!Status) /\ Len(<<>>) = 0
  BY EmptySeq
<1>2. Cardinality(ToolSteps(<<>>, Len(<<>>))) \in Nat
  <2>1. ToolSteps(<<>>, Len(<<>>)) = {}
    BY <1>1 DEF ToolSteps
  <2> QED
    BY <2>1, FS_EmptySet
<1> QED
  BY <1>1, <1>2 DEF A!Idle, RunRecord, RunPc, RunOK

\* It holds where the runner begins.
LEMMA InitDelegation ==
  ASSUME DelegationAssumption, A!Init
  PROVE  DelegationInv
<1>1. A!Idle \in RunRecord /\ RunOK(A!Idle) /\ A!Idle.pc = "idle"
  BY IdleIsOK
<1>2. \A d \in Delegation : run[d] = A!Idle
  BY DEF A!Init
<1>3. DelegationTypes
  BY <1>1 DEF A!Init, DelegationTypes
<1>4. A!InBody = {}
  BY <1>1, <1>2 DEF A!InBody
<1>5. A!CountIsTrue
  BY <1>4, FS_EmptySet, SameCount DEF A!CountIsTrue, A!Init, DelegationAssumption
<1> QED
  BY <1>1, <1>2, <1>3, <1>5 DEF DelegationInv, FitsOK

\* The places at which a run counts.
InBodyPc == {"planning", "tool"}

\* One run changes, and the count with it.
LEMMA OneRunChanges ==
  ASSUME DelegationAssumption, DelegationInv, NEW d \in Delegation, NEW e \in RunRecord,
         run' = [run EXCEPT ![d] = e], RunOK(e), FitsOK(d, e),
         active' = active + (IF e.pc \in InBodyPc THEN 1 ELSE 0)
                          - (IF run[d].pc \in InBodyPc THEN 1 ELSE 0),
         active' <= MaxConcurrent
  PROVE  DelegationInv'
<1>1. /\ DelegationTypes' /\ run'[d] = e
      /\ \A f \in Delegation : f # d => run'[f] = run[f]
  BY DEF DelegationInv, DelegationTypes
<1>2. A!InBody' = IF e.pc \in InBodyPc THEN A!InBody \cup {d} ELSE A!InBody \ {d}
  BY <1>1 DEF A!InBody, InBodyPc
<1>3. d \in A!InBody <=> run[d].pc \in InBodyPc
  BY DEF A!InBody, InBodyPc
<1>4. active = Cardinality(A!InBody) /\ active \in Nat
  BY BodyIsFinite, SameCount DEF DelegationInv, A!CountIsTrue
<1>5. active' = Cardinality(A!InBody')
  <2>1. CASE e.pc \in InBodyPc
    <3>1. Cardinality(A!InBody \cup {d}) =
            IF d \in A!InBody THEN Cardinality(A!InBody) ELSE Cardinality(A!InBody) + 1
      BY BodyIsFinite, FS_AddElement
    <3>2. active' = active + 1 - (IF d \in A!InBody THEN 1 ELSE 0)
      BY <1>3, <2>1
    <3> QED
      BY <1>2, <1>4, <2>1, <3>1, <3>2
  <2>2. CASE e.pc \notin InBodyPc
    <3>1. Cardinality(A!InBody \ {d}) =
            IF d \in A!InBody THEN Cardinality(A!InBody) - 1 ELSE Cardinality(A!InBody)
      BY BodyIsFinite, FS_RemoveElement
    <3>2. active' = active + 0 - (IF d \in A!InBody THEN 1 ELSE 0)
      BY <1>3, <2>2
    <3> QED
      BY <1>2, <1>4, <2>2, <3>1, <3>2
  <2> QED
    BY <2>1, <2>2
<1>6. A!CountIsTrue'
  BY <1>5, SameCount DEF A!CountIsTrue
<1>7. \A f \in Delegation : RunOK(run'[f]) /\ FitsOK(f, run'[f])
  BY <1>1 DEF DelegationInv
<1> QED
  BY <1>1, <1>6, <1>7 DEF DelegationInv, RunOK, FitsOK, Behind, ToolSteps

\* Only the place of a run changes, and perhaps what it saw of the others.
LEMMA PlaceChanges ==
  ASSUME DelegationAssumption, DelegationInv, NEW d \in Delegation, NEW e,
         run' = [run EXCEPT ![d] = e], e.pc \in {"planning", "failed", "cancelled", "refused"},
         e \in RunRecord, e.plan = run[d].plan, e.acted = run[d].acted,
         e.pc \in {"planning", "refused"} => run[d].pc = "idle",
         e.pc = "refused" /\ d \in Together /\ (IF d = e2 THEN 2 ELSE 1) < MaxDepth =>
           e.others > 0,
         active' = active + (IF e.pc \in InBodyPc THEN 1 ELSE 0)
                          - (IF run[d].pc \in InBodyPc THEN 1 ELSE 0),
         active' <= MaxConcurrent
  PROVE  DelegationInv'
<1>1. RunOK(e)
  BY DEF DelegationInv, RunOK
<1>2. FitsOK(d, e)
  BY DEF FitsOK
<1> QED
  BY <1>1, <1>2, OneRunChanges

\* A run goes on in its plan, or ends.
LEMMA Proceeds ==
  ASSUME DelegationAssumption, DelegationInv, NEW d \in Delegation, run[d].pc \in InBodyPc,
         NEW p \in Seq(StepKind), NEW left \in Seq(StepKind),
         NEW results \in Seq(A!Status), NEW n, Behind(p, left, results, n),
         run[d].acted = Cardinality(ToolSteps(p, n)),
         A!Proceed(d, p, left, results)
  PROVE  DelegationInv'
<1>1. PICK skipped \in 0 .. Len(left) :
        /\ \A i \in 1 .. skipped : left[i] # "tool"
        /\ skipped < Len(left) => left[skipped + 1] = "tool"
        /\ LET noted == results \o [i \in 1 .. skipped |-> A!ResultOf(left[i])]
               rest == SubSeq(left, skipped + 1, Len(left))
           IN  /\ run' = [run EXCEPT
                    ![d].plan = p, ![d].left = rest, ![d].results = noted,
                    ![d].pc = IF rest = <<>> THEN A!Outcome(noted) ELSE "tool",
                    ![d].acted = IF rest = <<>> THEN @ ELSE @ + 1]
               /\ active' = IF rest = <<>> THEN active - 1 ELSE active
  BY DEF A!Proceed
<1>2. PICK noted : noted = Noted(left, results, skipped)
  OBVIOUS
<1>3. PICK rest : rest = Rest(left, skipped)
  OBVIOUS
<1>4. /\ noted \in Seq(A!Status) /\ rest \in Seq(StepKind)
      /\ Behind(p, rest, noted, n + skipped)
      /\ rest = <<>> =>
           /\ Cardinality(ToolSteps(p, n)) = Cardinality(ToolSteps(p, Len(p)))
           /\ A!Range(noted) \subseteq {"success"} =>
                /\ \A i \in 1 .. Len(p) : p[i] = "tool"
                /\ Cardinality(ToolSteps(p, n)) = Len(p)
      /\ rest # <<>> =>
           /\ rest[1] = "tool"
           /\ Cardinality(ToolSteps(p, n + skipped + 1)) = Cardinality(ToolSteps(p, n)) + 1
  <2>1. /\ \A i \in 1 .. skipped : left[i] # "tool"
        /\ skipped < Len(left) => left[skipped + 1] = "tool"
    BY <1>1
  <2> QED
    BY <1>2, <1>3, <2>1, GoesOn
<1>5. /\ run' = [run EXCEPT
           ![d].plan = p, ![d].left = rest, ![d].results = noted,
           ![d].pc = IF rest = <<>> THEN A!Outcome(noted) ELSE "tool",
           ![d].acted = IF rest = <<>> THEN @ ELSE @ + 1]
      /\ active' = IF rest = <<>> THEN active - 1 ELSE active
  BY <1>1, <1>2, <1>3 DEF Noted, Rest
<1> DEFINE place == IF rest = <<>> THEN A!Outcome(noted) ELSE "tool"
           count == IF rest = <<>> THEN run[d].acted ELSE run[d].acted + 1
<1>6. PICK e : e = [run[d] EXCEPT !.plan = p, !.left = rest, !.results = noted,
                                  !.pc = place, !.acted = count]
  OBVIOUS
<1>7. run' = [run EXCEPT ![d] = e]
  BY <1>5, <1>6 DEF DelegationInv, DelegationTypes
<1>8. /\ e.plan = p /\ e.left = rest /\ e.results = noted /\ e.pc = place
      /\ e.acted = count /\ e.others = run[d].others /\ e \in RunRecord
  <2>1. place \in RunPc
    BY DEF A!Outcome, RunPc
  <2>2. run[d] \in RunRecord
    BY DEF DelegationInv, DelegationTypes
  <2>3. count \in Nat
    BY <2>2 DEF RunRecord
  <2> HIDE DEF place, count
  <2> QED
    BY <1>4, <1>6, <2>1, <2>2, <2>3 DEF RunRecord
<1>9. n \in Nat /\ skipped \in Nat /\ Len(p) \in Nat /\ n <= Len(p) /\ Len(left) \in Nat
  BY DEF Behind
<1>10. RunOK(e)
  <2>1. CASE rest = <<>>
    <3>1. e.pc \in {"succeeded", "failed"} /\ e.acted = Cardinality(ToolSteps(p, n))
      BY <1>8, <2>1 DEF A!Outcome
    <3>2. e.pc = "succeeded" => A!Range(noted) \subseteq {"success"}
      BY <1>8, <2>1 DEF A!Outcome
    <3>3. Cardinality(ToolSteps(p, n)) <= Cardinality(ToolSteps(p, Len(p)))
      BY <1>9, ToolStepsCount
    <3> HIDE DEF place, count
    <3> QED
      BY <1>4, <1>8, <2>1, <3>1, <3>2, <3>3 DEF RunOK
  <2>2. CASE rest # <<>>
    <3>1. e.pc = "tool" /\ e.acted = Cardinality(ToolSteps(p, n)) + 1
      BY <1>8, <2>2
    <3>2. Len(rest) \in Nat \ {0} /\ n + skipped = Len(p) - Len(rest)
      <4>1. Len(rest) \in Nat \ {0}
        BY <1>4, <2>2, EmptySeq
      <4>2. (n + skipped) + Len(rest) = Len(p)
        BY <1>4 DEF Behind
      <4> QED
        BY <1>9, <4>1, <4>2
    <3>3. n + skipped + 1 \in Nat /\ n + skipped + 1 <= Len(p)
      BY <1>9, <3>2
    <3>4. Cardinality(ToolSteps(p, n + skipped + 1)) <= Cardinality(ToolSteps(p, Len(p)))
      BY <3>3, ToolStepsCount
    <3> HIDE DEF place, count
    <3> QED
      BY <1>4, <1>8, <2>2, <3>1, <3>2, <3>4 DEF RunOK
  <2> QED
    BY <2>1, <2>2
<1>11. FitsOK(d, e)
  <2>1. e.pc # "refused"
    BY <1>8 DEF A!Outcome
  <2> QED
    BY <2>1 DEF FitsOK
<1>12. active \in Nat /\ active <= MaxConcurrent /\ MaxConcurrent \in Nat
  BY BodyIsFinite, SameCount DEF DelegationInv, A!CountIsTrue, DelegationAssumption
<1>13. /\ active' = active + (IF e.pc \in InBodyPc THEN 1 ELSE 0)
                           - (IF run[d].pc \in InBodyPc THEN 1 ELSE 0)
       /\ active' <= MaxConcurrent
  <2>1. e.pc \in InBodyPc <=> rest # <<>>
    BY <1>8 DEF A!Outcome, InBodyPc
  <2> QED
    BY <1>5, <1>12, <2>1
<1> HIDE DEF place, count
<1> QED
  BY <1>7, <1>8, <1>10, <1>11, <1>13, OneRunChanges

\* What is known of one run.
LEMMA DelegationFacts ==
  ASSUME DelegationAssumption, DelegationInv, NEW d \in Delegation
  PROVE  /\ run[d] \in RunRecord /\ RunOK(run[d]) /\ FitsOK(d, run[d])
         /\ active \in Nat /\ active <= MaxConcurrent /\ MaxConcurrent \in Nat
         /\ active = Cardinality(A!InBody) /\ IsFiniteSet(A!InBody)
         /\ d \in A!InBody <=> run[d].pc \in InBodyPc
BY BodyIsFinite, SameCount
   DEF DelegationInv, DelegationTypes, A!CountIsTrue, DelegationAssumption, A!InBody, InBodyPc

\* A run is let in.
LEMMA EnterStep ==
  ASSUME DelegationAssumption, DelegationInv, NEW d \in Delegation, A!Enter(d)
  PROVE  DelegationInv'
<1>1. /\ run[d].pc = "idle" /\ active < MaxConcurrent /\ active' = active + 1
      /\ run' = [run EXCEPT ![d].pc = "planning"]
  BY DEF A!Enter
<1>2. PICK e : e = [run[d] EXCEPT !.pc = "planning"]
  OBVIOUS
<1>3. /\ run' = [run EXCEPT ![d] = e] /\ e.pc = "planning" /\ e.plan = run[d].plan
      /\ e.acted = run[d].acted /\ e \in RunRecord
  BY <1>1, <1>2 DEF DelegationInv, DelegationTypes, RunRecord, RunPc
<1>4. active \in Nat /\ MaxConcurrent \in Nat
  BY DelegationFacts
<1> QED
  <2>1. /\ active' = active + (IF e.pc \in InBodyPc THEN 1 ELSE 0)
                           - (IF run[d].pc \in InBodyPc THEN 1 ELSE 0)
        /\ active' <= MaxConcurrent
    BY <1>1, <1>3, <1>4 DEF InBodyPc
  <2>2. e.pc = "planning"
    BY <1>3
  <2> QED
    BY <1>1, <1>3, <2>1, <2>2, PlaceChanges

\* It is refused.
LEMMA RefuseStep ==
  ASSUME DelegationAssumption, DelegationInv, NEW d \in Delegation, A!Refuse(d)
  PROVE  DelegationInv'
<1> DEFINE seen == A!Cardinality(A!InBody \ Together)
           shared == Cardinality(A!InBody \cap Together)
<1>1. /\ run[d].pc = "idle" /\ active' = active
      /\ run' = [run EXCEPT ![d].pc = "refused", ![d].others = seen]
      /\ d \in Together => A!Permits < MaxConcurrent
      /\ (IF d = e2 THEN 2 ELSE 1) >= MaxDepth \/ active >= MaxConcurrent
  BY DEF A!Refuse
<1>2. /\ active \in Nat /\ active <= MaxConcurrent /\ MaxConcurrent \in Nat
      /\ active = Cardinality(A!InBody) /\ IsFiniteSet(A!InBody)
  BY DelegationFacts
<1>3. seen = active - shared /\ seen \in Nat /\ A!Permits = shared
  <2>1. Cardinality(A!InBody \ Together) = Cardinality(A!InBody) - Cardinality(A!InBody \cap Together)
    BY <1>2, FS_Difference
  <2>2. IsFiniteSet(A!InBody \ Together)
    BY <1>2, FS_Difference
  <2> QED
    BY <1>2, <2>1, <2>2, SameCount, FS_CardinalityType DEF A!Permits
<1>4. shared \in Nat
  <2>1. A!InBody \cap Together \in SUBSET A!InBody
    OBVIOUS
  <2> QED
    BY <1>2, <2>1, FS_Subset, FS_CardinalityType
<1> HIDE DEF seen, shared
<1>5. d \in Together /\ (IF d = e2 THEN 2 ELSE 1) < MaxDepth => seen > 0
  <2>1. SUFFICES ASSUME d \in Together, (IF d = e2 THEN 2 ELSE 1) < MaxDepth
                 PROVE  seen > 0
    OBVIOUS
  <2>2. active >= MaxConcurrent
    BY <1>1, <2>1 DEF DelegationAssumption
  <2> QED
    BY <1>1, <1>2, <1>3, <1>4, <2>1, <2>2
<1>6. PICK e : e = [run[d] EXCEPT !.pc = "refused", !.others = seen]
  OBVIOUS
<1>7. /\ run' = [run EXCEPT ![d] = e] /\ e.pc = "refused" /\ e.plan = run[d].plan
      /\ e.acted = run[d].acted /\ e.others = seen /\ e \in RunRecord
  BY <1>1, <1>3, <1>6 DEF DelegationInv, DelegationTypes, RunRecord, RunPc
<1> QED
  <2>1. /\ active' = active + (IF e.pc \in InBodyPc THEN 1 ELSE 0)
                           - (IF run[d].pc \in InBodyPc THEN 1 ELSE 0)
        /\ active' <= MaxConcurrent
    BY <1>1, <1>2, <1>7 DEF InBodyPc
  <2> QED
    BY <1>1, <1>5, <1>7, <2>1, PlaceChanges

\* It fails or is cancelled.
LEMMA EndsStep ==
  ASSUME DelegationAssumption, DelegationInv, NEW d \in Delegation, run[d].pc \in InBodyPc,
         NEW place \in {"failed", "cancelled"}, A!Ends(d, place)
  PROVE  DelegationInv'
<1>1. active' = active - 1 /\ run' = [run EXCEPT ![d].pc = place]
  BY DEF A!Ends
<1>2. PICK e : e = [run[d] EXCEPT !.pc = place]
  OBVIOUS
<1>3. /\ run' = [run EXCEPT ![d] = e] /\ e.pc = place /\ e.plan = run[d].plan
      /\ e.acted = run[d].acted /\ e \in RunRecord
  BY <1>1, <1>2 DEF DelegationInv, DelegationTypes, RunRecord, RunPc
<1>4. active \in Nat /\ active <= MaxConcurrent /\ MaxConcurrent \in Nat
  BY DelegationFacts
<1> QED
  <2>1. /\ active' = active + (IF e.pc \in InBodyPc THEN 1 ELSE 0)
                           - (IF run[d].pc \in InBodyPc THEN 1 ELSE 0)
        /\ active' <= MaxConcurrent
    BY <1>1, <1>3, <1>4 DEF InBodyPc
  <2> QED
    BY <1>1, <1>3, <2>1, PlaceChanges

\* Its planner answers or raises.
LEMMA PlannedStep ==
  ASSUME DelegationAssumption, DelegationInv, NEW d \in Delegation, A!Planned(d)
  PROVE  DelegationInv'
<1>1. run[d].pc = "planning" /\ run[d].pc \in InBodyPc
  BY DEF A!Planned, InBodyPc
<1>2. CASE A!Ends(d, "failed")
  BY <1>1, <1>2, EndsStep
<1>3. ASSUME NEW p \in {<<"tool", "blocked">>, <<"tool", "tool">>, <<"missing">>},
             A!Proceed(d, p, p, <<>>)
      PROVE  DelegationInv'
  <2>1. p \in Seq(StepKind)
    <3>1. <<"tool", "blocked">> \in Seq(StepKind)
      BY DEF StepKind
    <3>2. <<"tool", "tool">> \in Seq(StepKind)
      BY DEF StepKind
    <3>3. <<"missing">> \in Seq(StepKind)
      BY DEF StepKind
    <3> QED
      BY <1>3, <3>1, <3>2, <3>3
  <2>2. <<>> \in Seq(A!Status)
    BY EmptySeq
  <2>3. Behind(p, p, <<>>, 0)
    BY <2>1 DEF Behind
  <2>4. run[d].acted = Cardinality(ToolSteps(p, 0))
    <3>1. run[d].acted = 0
      BY <1>1, DelegationFacts DEF RunOK
    <3>2. ToolSteps(p, 0) = {}
      BY DEF ToolSteps
    <3> QED
      BY <3>1, <3>2, FS_EmptySet
  <2> QED
    BY <1>1, <1>3, <2>1, <2>2, <2>3, <2>4, Proceeds
<1> QED
  BY <1>2, <1>3 DEF A!Planned

\* Its tool returns or raises.
LEMMA ExecutedStep ==
  ASSUME DelegationAssumption, DelegationInv, NEW d \in Delegation, A!Executed(d)
  PROVE  DelegationInv'
<1>1. run[d].pc = "tool" /\ run[d].pc \in InBodyPc
  BY DEF A!Executed, InBodyPc
<1>2. PICK s \in {"success", "failed", "error"} :
        A!Proceed(d, run[d].plan, Tail(run[d].left), Append(run[d].results, s))
  BY DEF A!Executed
<1>3. PICK p : p = run[d].plan
  OBVIOUS
<1>4. PICK left : left = run[d].left
  OBVIOUS
<1>5. PICK results : results = run[d].results
  OBVIOUS
<1> DEFINE n == Len(p) - Len(left)
<1>6. /\ p \in Seq(StepKind) /\ left \in Seq(StepKind) /\ results \in Seq(A!Status)
      /\ Behind(p, left, results, n) /\ left # <<>> /\ left[1] = "tool"
      /\ run[d].acted = Cardinality(ToolSteps(p, n + 1))
  BY <1>1, <1>3, <1>4, <1>5, DelegationFacts DEF RunOK, RunRecord
<1> HIDE DEF n
<1>7. /\ Tail(left) \in Seq(StepKind) /\ Len(Tail(left)) = Len(left) - 1
      /\ \A i \in 1 .. Len(Tail(left)) : Tail(left)[i] = left[i + 1]
      /\ Len(left) \in Nat \ {0}
  BY <1>6, HeadTailProperties, EmptySeq
<1>8. /\ Append(results, s) \in Seq(A!Status)
      /\ A!Range(Append(results, s)) \subseteq {"success"} => A!Range(results) \subseteq {"success"}
  <2>1. s \in A!Status
    BY DEF A!Status
  <2>2. /\ Append(results, s) \in Seq(A!Status) /\ Len(Append(results, s)) = Len(results) + 1
        /\ Len(results) \in Nat
        /\ \A i \in 1 .. Len(results) : Append(results, s)[i] = results[i]
    BY <1>6, <2>1, AppendProperties, LenProperties
  <2>3. A!Range(Append(results, s)) \subseteq {"success"} =>
          \A i \in 1 .. Len(results) : results[i] = "success"
    <3>1. DOMAIN Append(results, s) = 1 .. Len(results) + 1
      BY <2>2, LenProperties
    <3>2. 1 .. Len(results) \subseteq DOMAIN Append(results, s)
      BY <2>2, <3>1
    <3> QED
      BY <2>2, <3>2 DEF A!Range
  <2>4. DOMAIN results = 1 .. Len(results)
    BY <1>6, LenProperties
  <2> QED
    BY <2>2, <2>3, <2>4 DEF A!Range
<1>9. Behind(p, Tail(left), Append(results, s), n + 1)
  <2>1. n \in Nat /\ n + Len(left) = Len(p) /\ p[n + 1] = "tool"
    BY <1>6, <1>7 DEF Behind
  <2>2. n + 1 \in Nat /\ (n + 1) + Len(Tail(left)) = Len(p)
    BY <1>7, <2>1
  <2>3. \A i \in 1 .. Len(Tail(left)) : Tail(left)[i] = p[(n + 1) + i]
    <3> TAKE i \in 1 .. Len(Tail(left))
    <3>1. i + 1 \in 1 .. Len(left) /\ n + (i + 1) = (n + 1) + i
      BY <1>7, <2>1
    <3> QED
      BY <1>6, <1>7, <3>1 DEF Behind
  <2>4. A!Range(Append(results, s)) \subseteq {"success"} => \A i \in 1 .. n + 1 : p[i] = "tool"
    <3>1. A!Range(results) \subseteq {"success"} => \A i \in 1 .. n : p[i] = "tool"
      BY <1>6 DEF Behind
    <3> QED
      BY <1>8, <2>1, <3>1
  <2> QED
    BY <2>2, <2>3, <2>4 DEF Behind
<1>10. A!Proceed(d, p, Tail(left), Append(results, s))
  BY <1>2, <1>3, <1>4, <1>5
<1> QED
  BY <1>1, <1>6, <1>7, <1>8, <1>9, <1>10, Proceeds

\* The runs that are gathered are cancelled with their caller.
LEMMA CancelAllStep ==
  ASSUME DelegationAssumption, DelegationInv, A!CancelAll
  PROVE  DelegationInv'
<1> DEFINE hit == {d \in Together : run[d].pc \in {"idle", "planning", "tool"}}
<1>1. /\ run' = [d \in Delegation |-> IF d \in hit THEN [run[d] EXCEPT !.pc = "cancelled"]
                                                    ELSE run[d]]
      /\ active' = active - A!Cardinality(hit \cap A!InBody)
  BY DEF A!CancelAll
<1>2. ASSUME NEW d \in Delegation
      PROVE  /\ run'[d] \in RunRecord /\ RunOK(run'[d]) /\ FitsOK(d, run'[d])
             /\ run'[d].pc = IF d \in hit THEN "cancelled" ELSE run[d].pc
  <2>1. CASE d \in hit
    <3>1. PICK e : e = [run[d] EXCEPT !.pc = "cancelled"]
      OBVIOUS
    <3>2. /\ run'[d] = e /\ e.pc = "cancelled" /\ e.plan = run[d].plan
          /\ e.acted = run[d].acted /\ e \in RunRecord
      BY <1>1, <2>1, <3>1, DelegationFacts DEF RunRecord, RunPc
    <3>3. RunOK(e) /\ FitsOK(d, e)
      BY <3>2, DelegationFacts DEF RunOK, FitsOK
    <3> QED
      BY <2>1, <3>2, <3>3
  <2>2. CASE d \notin hit
    BY <1>1, <2>2, DelegationFacts
  <2> QED
    BY <2>1, <2>2
<1>3. A!InBody' = A!InBody \ (hit \cap A!InBody)
  BY <1>2 DEF A!InBody
<1> HIDE DEF hit
<1>4. /\ active \in Nat /\ active <= MaxConcurrent /\ MaxConcurrent \in Nat
      /\ active = Cardinality(A!InBody) /\ IsFiniteSet(A!InBody)
  BY BodyIsFinite, SameCount DEF DelegationInv, A!CountIsTrue, DelegationAssumption
<1>5. A!InBody \cap (hit \cap A!InBody) = hit \cap A!InBody
  OBVIOUS
<1>6. Cardinality(A!InBody \ (hit \cap A!InBody)) =
        Cardinality(A!InBody) - Cardinality(A!InBody \cap (hit \cap A!InBody))
  BY <1>4, FS_Difference
<1>7. Cardinality(hit \cap A!InBody) \in Nat
  BY <1>4, <1>5, FS_Subset, FS_CardinalityType
<1>8. active' = Cardinality(A!InBody') /\ active' <= MaxConcurrent
  <2>1. A!Cardinality(hit \cap A!InBody) = Cardinality(hit \cap A!InBody)
    BY SameCount
  <2>2. Cardinality(A!InBody') = active - Cardinality(hit \cap A!InBody)
    BY <1>3, <1>4, <1>5, <1>6
  <2> QED
    BY <1>1, <1>4, <1>7, <2>1, <2>2
<1>9. A!CountIsTrue'
  BY <1>8, SameCount DEF A!CountIsTrue
<1>10. DelegationTypes'
  BY <1>1, <1>2 DEF DelegationTypes
<1> QED
  BY <1>2, <1>9, <1>10 DEF DelegationInv, RunOK, FitsOK, Behind, ToolSteps

\* It is called anew.
LEMMA AgainStep ==
  ASSUME DelegationAssumption, DelegationInv, NEW d \in Delegation, A!Again(d)
  PROVE  DelegationInv'
<1>1. /\ run[d].pc \notin InBodyPc /\ active' = active
      /\ run' = [run EXCEPT ![d] = A!Idle]
  BY DEF A!Again, InBodyPc
<1>2. A!Idle \in RunRecord /\ RunOK(A!Idle) /\ A!Idle.pc = "idle"
  BY IdleIsOK
<1>3. FitsOK(d, A!Idle)
  BY <1>2 DEF FitsOK
<1>4. /\ active' = active + (IF A!Idle.pc \in InBodyPc THEN 1 ELSE 0)
                          - (IF run[d].pc \in InBodyPc THEN 1 ELSE 0)
      /\ active' <= MaxConcurrent
  BY <1>1, <1>2, DelegationFacts DEF InBodyPc
<1> QED
  BY <1>1, <1>2, <1>3, <1>4, OneRunChanges

\* The runs keep it with each of their steps.
LEMMA NextDelegation ==
  ASSUME DelegationAssumption, DelegationInv, [A!Next]_(A!vars)
  PROVE  DelegationInv'
<1>1. CASE UNCHANGED A!vars
  BY <1>1 DEF A!vars, DelegationInv, DelegationTypes, A!CountIsTrue, A!InBody,
              RunOK, FitsOK, Behind, ToolSteps
<1>2. CASE A!CancelAll
  BY <1>2, CancelAllStep
<1>3. ASSUME NEW d \in Delegation,
             A!Enter(d) \/ A!Refuse(d) \/ A!Planned(d) \/ A!Executed(d) \/ A!Cancel(d)
               \/ A!Again(d)
      PROVE  DelegationInv'
  <2>1. CASE A!Enter(d)
    BY <2>1, EnterStep
  <2>2. CASE A!Refuse(d)
    BY <2>2, RefuseStep
  <2>3. CASE A!Planned(d)
    BY <2>3, PlannedStep
  <2>4. CASE A!Executed(d)
    BY <2>4, ExecutedStep
  <2>5. CASE A!Cancel(d)
    BY <2>5, EndsStep DEF A!Cancel, InBodyPc
  <2>6. CASE A!Again(d)
    BY <2>6, AgainStep
  <2> QED
    BY <1>3, <2>1, <2>2, <2>3, <2>4, <2>5, <2>6
<1> QED
  BY <1>1, <1>2, <1>3 DEF A!Next

-----------------------------------------------------------------------------
(* PlanRunner.                                                             *)

P == INSTANCE PlanRunner

\* The loop, the rows and the tools keep their ranges.
PlanTypes ==
  /\ task \in {"EXECUTING", "CANCELLED", "COMPLETED", "FAILED"}
  /\ outcome \in {"ok", "failed", "cancelled"}
  /\ pc \in {"next", "policy", "verify", "mark", "tool", "record", "result", "recover", "end"}
  /\ at \in (1..(Length + 1)) \X P!Part
  /\ recovery \in [steps : 0..MaxRecovery, begun : 0..MaxRecovery, failed : BOOLEAN]
  /\ recovery.begun <= recovery.steps
  /\ rows \in [P!Row -> P!Status]
  /\ token \in [P!Row -> {"none", "issued", "used"}]
  /\ acted \subseteq begun /\ begun \subseteq {r \in P!Row : token[r] = "used"}
  /\ result \in BOOLEAN
  /\ writing \subseteq P!Row \X {"EXECUTING", "COMPLETED", "FAILED"}
  /\ overdue \subseteq P!Row

\* Where the loop stands.
WhereOK ==
  /\ pc \in {"next", "end"} => at[2] = P!FirstTry
  /\ pc \notin {"next", "end"} => outcome = "ok" /\ at[1] \in P!Index
  /\ pc = "recover" \/ P!Recovering => at[2] = P!RecoveryPart(recovery.begun)
  /\ task = "COMPLETED" => pc = "end" /\ outcome = "ok"
  /\ pc = "end" => at[1] = Length + 1

\* The rows the loop has not come to are not there, and have no token; those
\* with a token are neither absent nor rejected.
Ahead(r) ==
  r[1] > at[1] \/ (r[1] = at[1] /\ r[2] > at[2]) \/ (r = at /\ pc = "next")

TokensOK ==
  /\ \A r \in P!Row : Ahead(r) => rows[r] = "none" /\ token[r] = "none"
  /\ \A r \in P!Row : token[r] # "none" => rows[r] \notin {"none", "REJECTED"}
  /\ pc = "policy" => token[at] = "none" /\ rows[at] = "PENDING"
  /\ pc \in {"verify", "mark", "tool", "record", "result"} => token[at] # "none"
  /\ pc \in {"mark", "tool", "record"} => token[at] = "used"
  /\ pc \in {"tool", "record"} => at \in begun

\* Results, rows and late writes say what the tools have done.
ResultsOK ==
  /\ pc \in {"record", "result"} /\ result => at \in acted
  /\ pc = "result" /\ ~result /\ rows[at] = "COMPLETED" => at \in overdue
  /\ \A w \in writing :
       token[w[1]] = "used" /\ w[1] \in overdue /\ (w[2] = "COMPLETED" => w[1] \in acted)

\* What is behind in a recovery that has not failed was rejected or has acted.
RecoveryOK ==
  pc = "recover" \/ P!Recovering =>
    /\ rows[<<at[1], P!SecondTry>>] # "none"
    /\ ~recovery.failed =>
         \A k \in 1..recovery.begun :
           \/ k = recovery.begun /\ pc # "recover"
           \/ rows[<<at[1], P!RecoveryPart(k)>>] = "REJECTED"
           \/ <<at[1], P!RecoveryPart(k)>> \in acted

\* While nothing has failed all that is behind is settled; and what was behind
\* a step that was begun stays so.
SettledOK ==
  /\ outcome = "ok" => \A i \in P!Index : i < at[1] => P!Settled(i)
  /\ \A i, j \in P!Index : i < j /\ <<j, P!FirstTry>> \in begun => P!Settled(i)

\* The lengths of a plan and of a recovery are numbers.
PlanAssumption == Length \in Nat /\ MaxRecovery \in Nat

\* What a step of the loop preserves.
PlanInv ==
  PlanTypes /\ WhereOK /\ TokensOK /\ ResultsOK /\ RecoveryOK /\ SettledOK /\ P!RowsAreTrue

\* Which rows there are where the loop stands.
LEMMA Places ==
  ASSUME PlanAssumption, PlanTypes
  PROVE  /\ at[1] \in Nat /\ at[2] \in Nat /\ at = <<at[1], at[2]>> /\ at[2] \in P!Part
         /\ \A r \in P!Row : r = <<r[1], r[2]>> /\ r[1] \in P!Index /\ r[2] \in P!Part
         /\ \A i \in P!Index, p \in P!Part : <<i, p>> \in P!Row
         /\ at[1] \in P!Index =>
              /\ at \in P!Row /\ P!NextIndex \in (1..(Length + 1)) \X P!Part
              /\ P!NextIndex[1] = at[1] + 1 /\ P!NextIndex[2] = P!FirstTry
         /\ P!FirstTry = 1 /\ P!SecondTry = 2 /\ 1 \in P!Part /\ 2 \in P!Part
         /\ \A k \in 1..MaxRecovery : P!RecoveryPart(k) \in P!Part
         /\ \A k : P!RecoveryPart(k) = 2 + k
         /\ \A p \in P!Part : p \in Nat
         /\ \A i \in P!Index : i \in Nat /\ i <= Length
         /\ \A k \in 1..recovery.begun :
              k \in 1..MaxRecovery /\ (at[1] \in P!Index => <<at[1], 2 + k>> \in P!Row)
         /\ recovery.begun \in Nat
         /\ P!Recovering <=> at[2] > 2
BY DEF PlanAssumption, PlanTypes, P!Row, P!Index, P!NextIndex, P!FirstTry, P!SecondTry, P!RecoveryPart, P!Part, P!Recovering

\* It holds where a task begins.
LEMMA InitPlan == PlanAssumption /\ P!Init => PlanInv
<1> SUFFICES ASSUME PlanAssumption, P!Init PROVE PlanInv
  OBVIOUS
<1>1. PlanTypes
  <2>1. at \in (1..(Length + 1)) \X P!Part
    BY DEF P!Init, PlanAssumption, P!Part, P!FirstTry
  <2>2. /\ recovery \in [steps : 0..MaxRecovery, begun : 0..MaxRecovery, failed : BOOLEAN]
        /\ recovery.begun <= recovery.steps
    BY DEF P!Init, PlanAssumption, P!NoRecovery
  <2>3. rows \in [P!Row -> P!Status] /\ token \in [P!Row -> {"none", "issued", "used"}]
    BY DEF P!Init, P!Status
  <2> QED
    BY <2>1, <2>2, <2>3 DEF P!Init, PlanTypes
<1>2. WhereOK
  BY DEF P!Init, WhereOK, P!Recovering
<1>3. TokensOK
  BY DEF P!Init, TokensOK
<1>4. ResultsOK
  BY DEF P!Init, ResultsOK
<1>5. RecoveryOK
  BY DEF P!Init, RecoveryOK, P!Recovering
<1>6. SettledOK
  BY DEF P!Init, SettledOK, P!Index
<1>7. P!RowsAreTrue
  BY <1>1, Places DEF P!Init, P!RowsAreTrue
<1> QED
  BY <1>1, <1>2, <1>3, <1>4, <1>5, <1>6, <1>7 DEF PlanInv

\* The ranges.
LEMMA PlanTypesStep ==
  ASSUME PlanAssumption, PlanInv, P!Next
  PROVE  PlanTypes'
<1> USE DEF PlanInv
<1>1. CASE P!SkipStep \/ P!SeeCancelled \/ P!BeginStep \/ P!Allow \/ P!Refuse
  BY <1>1, Places DEF PlanTypes, WhereOK, TokensOK, P!Status, P!NoRecovery, P!Recorded,
     P!SkipStep, P!SeeCancelled, P!BeginStep, P!Allow, P!Refuse
<1>2. CASE P!Reject
  BY <1>2, Places DEF PlanTypes, WhereOK, TokensOK, P!Status, P!NoRecovery, P!Recorded,
     P!Reject
<1>3. CASE P!Verify \/ P!StartTool \/ P!Record \/ P!Act
           \/ (\E ok \in BOOLEAN : P!Return(ok))
  BY <1>3, Places DEF PlanTypes, WhereOK, TokensOK, P!Status, P!NoRecovery, P!Recorded,
     P!Verify, P!StartTool, P!Record, P!Act, P!Return
<1>4. CASE P!CutTool
  BY <1>4, Places DEF PlanTypes, WhereOK, TokensOK, P!Status, P!NoRecovery, P!Recorded,
     P!CutTool
<1>5. CASE P!LateWrite \/ P!Done \/ P!GiveUp \/ P!RejectRecovery
  BY <1>5, Places DEF PlanTypes, WhereOK, TokensOK, P!Status, P!NoRecovery, P!Recorded,
     P!LateWrite, P!Done, P!GiveUp, P!RejectRecovery
<1>6. CASE P!RecoveryResult \/ P!Finalize \/ P!Cancel
  BY <1>6, Places DEF PlanTypes, WhereOK, TokensOK, P!Status, P!NoRecovery, P!Recorded,
     P!RecoveryResult, P!Finalize, P!Cancel
<1>7. CASE P!CutMark
  <2>1. at \in P!Row
    BY <1>7, Places DEF PlanTypes, WhereOK, P!CutMark
  <2>2. <<at, "EXECUTING">> \in P!Row \X {"EXECUTING", "COMPLETED", "FAILED"}
    BY <2>1
  <2> QED
    BY <1>7, <2>1, <2>2 DEF PlanTypes, P!CutMark
<1>8. CASE P!CutRecord
  <2>1. at \in P!Row
    BY <1>8, Places DEF PlanTypes, WhereOK, P!CutRecord
  <2>2. <<at, P!Recorded>> \in P!Row \X {"EXECUTING", "COMPLETED", "FAILED"}
    BY <2>1 DEF P!Recorded
  <2>3. writing' \subseteq P!Row \X {"EXECUTING", "COMPLETED", "FAILED"}
    BY <1>8, <2>2 DEF PlanTypes, P!CutRecord
  <2> QED
    BY <1>8, <2>1, <2>3 DEF PlanTypes, P!Status, P!CutRecord
<1>9. CASE P!Retry
  <2> DEFINE r == <<at[1], P!SecondTry>>
  <2>1. /\ r \in P!Row /\ r \in (1..(Length + 1)) \X P!Part
        /\ r[1] = at[1] /\ r[2] = 2 /\ at[2] = 1
    BY <1>9, Places DEF PlanTypes, WhereOK, P!Retry
  <2> HIDE DEF r
  <2>2. /\ at' = r /\ rows' = [rows EXCEPT ![r] = "PENDING"]
        /\ token' = [token EXCEPT ![r] = "issued"]
        /\ begun' \subseteq {q \in P!Row : token'[q] = "used"}
    BY <1>9, <2>1, Places DEF PlanTypes, TokensOK, Ahead, P!Retry, r
  <2> QED
    BY <1>9, <2>1, <2>2 DEF PlanTypes, P!Status, P!Retry
<1>10. CASE P!TryReplan
  <2>1. PICK n \in 0..MaxRecovery : recovery' = [steps |-> n, begun |-> 0, failed |-> FALSE]
    BY <1>10 DEF P!TryReplan
  <2>2. /\ recovery' \in [steps : 0..MaxRecovery, begun : 0..MaxRecovery, failed : BOOLEAN]
        /\ recovery'.begun <= recovery'.steps
    BY <2>1 DEF PlanAssumption
  <2> QED
    BY <1>10, <2>2 DEF PlanTypes, P!TryReplan
<1>11. CASE P!BeginRecovery
  <2> DEFINE r == <<at[1], P!RecoveryPart(recovery.begun + 1)>>
  <2>1. recovery.begun + 1 \in 1..MaxRecovery /\ recovery.begun + 1 <= recovery.steps
    BY <1>11 DEF PlanTypes, PlanAssumption, P!BeginRecovery
  <2>2. r \in P!Row /\ r \in (1..(Length + 1)) \X P!Part
    BY <1>11, <2>1, Places DEF PlanTypes, WhereOK, P!BeginRecovery
  <2> HIDE DEF r
  <2>3. at' = r /\ rows' = [rows EXCEPT ![r] = "PENDING"]
    BY <1>11 DEF P!BeginRecovery, r
  <2>4. PICK q : q = [recovery EXCEPT !.begun = recovery.begun + 1]
    OBVIOUS
  <2>5. /\ q \in [steps : 0..MaxRecovery, begun : 0..MaxRecovery, failed : BOOLEAN]
        /\ q.begun = recovery.begun + 1 /\ q.steps = recovery.steps
    BY <2>1, <2>4 DEF PlanTypes
  <2>6. recovery' = q
    BY <1>11, <2>4 DEF P!BeginRecovery
  <2> QED
    BY <1>11, <2>1, <2>2, <2>3, <2>5, <2>6 DEF PlanTypes, P!Status, P!BeginRecovery
<1>12. CASE P!EndRecovery
  <2>1. /\ P!NoRecovery \in [steps : 0..MaxRecovery, begun : 0..MaxRecovery, failed : BOOLEAN]
        /\ P!NoRecovery.begun <= P!NoRecovery.steps
    BY DEF P!NoRecovery, PlanAssumption
  <2> QED
    BY <1>12, <2>1, Places DEF PlanTypes, WhereOK, P!EndRecovery
<1> QED
  BY <1>1, <1>2, <1>3, <1>4, <1>5, <1>6, <1>7, <1>8, <1>9, <1>10, <1>11, <1>12 DEF P!Next

\* Where the loop stands.
LEMMA WhereStep ==
  ASSUME PlanAssumption, PlanInv, P!Next
  PROVE  WhereOK'
<1> USE DEF PlanInv
<1>1. CASE P!SkipStep \/ P!SeeCancelled \/ P!BeginStep \/ P!Allow \/ P!Refuse
  BY <1>1, Places DEF PlanTypes, WhereOK, P!Recovering, P!NoRecovery, P!Index,
     PlanAssumption, P!SkipStep, P!SeeCancelled, P!BeginStep, P!Allow, P!Refuse
<1>2. CASE P!Reject \/ P!Verify \/ P!StartTool \/ P!Record \/ P!Act
  BY <1>2, Places DEF PlanTypes, WhereOK, P!Recovering, P!NoRecovery, P!Index,
     PlanAssumption, P!Reject, P!Verify, P!StartTool, P!Record, P!Act
<1>3. CASE (\E ok \in BOOLEAN : P!Return(ok)) \/ P!CutMark \/ P!CutTool \/ P!CutRecord
           \/ P!LateWrite
  BY <1>3, Places DEF PlanTypes, WhereOK, P!Recovering, P!NoRecovery, P!Index,
     PlanAssumption, P!Return, P!CutMark, P!CutTool, P!CutRecord, P!LateWrite
<1>4. CASE P!Done \/ P!Retry \/ P!GiveUp \/ P!TryReplan \/ P!BeginRecovery
  BY <1>4, Places DEF PlanTypes, WhereOK, P!Recovering, P!NoRecovery, P!Index,
     PlanAssumption, P!Done, P!Retry, P!GiveUp, P!TryReplan, P!BeginRecovery
<1>5. CASE P!RejectRecovery \/ P!RecoveryResult \/ P!EndRecovery \/ P!Finalize \/ P!Cancel
  BY <1>5, Places DEF PlanTypes, WhereOK, P!Recovering, P!NoRecovery, P!Index,
     PlanAssumption, P!RejectRecovery, P!RecoveryResult, P!EndRecovery, P!Finalize, P!Cancel
<1> QED
  BY <1>1, <1>2, <1>3, <1>4, <1>5 DEF P!Next

\* What the row of the present part says.
LEMMA TokensStep ==
  ASSUME PlanAssumption, PlanInv, P!Next
  PROVE  TokensOK'
<1> USE DEF PlanInv
<1>1. CASE P!SkipStep \/ P!SeeCancelled \/ P!BeginStep \/ P!Allow \/ P!Refuse
  BY <1>1, Places DEF PlanTypes, WhereOK, TokensOK, Ahead, P!Recorded, P!SkipStep,
     P!SeeCancelled, P!BeginStep, P!Allow, P!Refuse
<1>2. CASE P!Reject \/ P!Verify \/ P!StartTool \/ P!Record \/ P!Act
  BY <1>2, Places DEF PlanTypes, WhereOK, TokensOK, Ahead, P!Recorded, P!Reject, P!Verify,
     P!StartTool, P!Record, P!Act
<1>3. CASE (\E ok \in BOOLEAN : P!Return(ok)) \/ P!CutMark \/ P!CutTool \/ P!CutRecord
           \/ P!Done
  BY <1>3, Places DEF PlanTypes, WhereOK, TokensOK, Ahead, P!Recorded, P!Return, P!CutMark,
     P!CutTool, P!CutRecord, P!Done
<1>4. CASE P!Retry \/ P!GiveUp \/ P!TryReplan \/ P!RejectRecovery \/ P!RecoveryResult
  BY <1>4, Places DEF PlanTypes, WhereOK, TokensOK, Ahead, P!Recorded, P!Retry, P!GiveUp,
     P!TryReplan, P!RejectRecovery, P!RecoveryResult
<1>5. CASE P!EndRecovery \/ P!Finalize \/ P!Cancel
  BY <1>5, Places DEF PlanTypes, WhereOK, TokensOK, Ahead, P!Recorded, P!EndRecovery,
     P!Finalize, P!Cancel
<1>6. CASE P!LateWrite
  <2>1. PICK w \in writing : rows' = [rows EXCEPT ![w[1]] = w[2]]
    BY <1>6 DEF P!LateWrite
  <2>2. w[1] \in P!Row /\ token[w[1]] # "none" /\ w[2] \notin {"none", "REJECTED"}
    BY DEF PlanTypes, ResultsOK
  <2>3. /\ token' = token /\ at' = at /\ pc' = pc /\ begun' = begun
        /\ rows \in [P!Row -> P!Status]
    BY <1>6 DEF P!LateWrite, PlanTypes
  <2>4. pc = "policy" => w[1] # at
    BY <2>2 DEF TokensOK
  <2>5. \A r \in P!Row : Ahead(r) => w[1] # r
    BY <2>2 DEF TokensOK
  <2>6. rows[at] = rows'[at] \/ w[1] = at
    BY <2>1, <2>2, <2>3
  <2> QED
    BY <2>1, <2>2, <2>3, <2>4, <2>5, <2>6 DEF TokensOK, Ahead
<1>7. CASE P!BeginRecovery
  <2> DEFINE r == <<at[1], P!RecoveryPart(recovery.begun + 1)>>
  <2>1. /\ recovery.begun + 1 \in 1..MaxRecovery /\ at[1] \in P!Index
        /\ at[2] = 2 + recovery.begun /\ pc = "recover"
    BY <1>7, Places DEF PlanTypes, WhereOK, PlanAssumption, P!BeginRecovery
  <2>2. r \in P!Row /\ r[1] = at[1] /\ r[2] = at[2] + 1
    BY <2>1, Places DEF PlanTypes
  <2> HIDE DEF r
  <2>3. /\ at' = r /\ rows' = [rows EXCEPT ![r] = "PENDING"] /\ token' = token
        /\ pc' = "policy" /\ begun' = begun /\ rows \in [P!Row -> P!Status]
        /\ acted' = acted /\ overdue' = overdue
    BY <1>7 DEF P!BeginRecovery, PlanTypes, r

  <2>4. rows[r] = "none" /\ token[r] = "none"
    BY <2>2, Places DEF PlanTypes, TokensOK, Ahead
  <2>5. \A q \in P!Row : Ahead(q)' => Ahead(q) /\ q # r
    BY <2>2, <2>3, Places DEF PlanTypes, Ahead
  <2>6. rows'[r] = "PENDING" /\ \A q \in P!Row : q # r => rows'[q] = rows[q]
    BY <2>2, <2>3
  <2> QED
    BY <2>2, <2>3, <2>4, <2>5, <2>6 DEF TokensOK
<1> QED
  BY <1>1, <1>2, <1>3, <1>4, <1>5, <1>6, <1>7 DEF P!Next

\* What results, rows and late writes say.
LEMMA ResultsStep ==
  ASSUME PlanAssumption, PlanInv, P!Next
  PROVE  ResultsOK'
<1> USE DEF PlanInv
<1>1. CASE P!SkipStep \/ P!SeeCancelled \/ P!BeginStep \/ P!Allow \/ P!Refuse
  BY <1>1, Places DEF PlanTypes, WhereOK, TokensOK, ResultsOK, P!Recorded, P!SkipStep,
     P!SeeCancelled, P!BeginStep, P!Allow, P!Refuse
<1>2. CASE P!Reject \/ P!Verify \/ P!StartTool \/ P!Record \/ P!Act
  BY <1>2, Places DEF PlanTypes, WhereOK, TokensOK, ResultsOK, P!Recorded, P!Reject,
     P!Verify, P!StartTool, P!Record, P!Act
<1>3. CASE (\E ok \in BOOLEAN : P!Return(ok)) \/ P!CutMark \/ P!CutTool \/ P!CutRecord
           \/ P!LateWrite
  BY <1>3, Places DEF PlanTypes, WhereOK, TokensOK, ResultsOK, P!Recorded, P!Return,
     P!CutMark, P!CutTool, P!CutRecord, P!LateWrite
<1>4. CASE P!Done \/ P!GiveUp \/ P!TryReplan \/ P!BeginRecovery \/ P!RejectRecovery
  BY <1>4, Places DEF PlanTypes, WhereOK, TokensOK, ResultsOK, P!Recorded, P!Done, P!GiveUp,
     P!TryReplan, P!BeginRecovery, P!RejectRecovery
<1>5. CASE P!RecoveryResult \/ P!EndRecovery \/ P!Finalize \/ P!Cancel
  BY <1>5, Places DEF PlanTypes, WhereOK, TokensOK, ResultsOK, P!Recorded, P!RecoveryResult,
     P!EndRecovery, P!Finalize, P!Cancel
<1>6. CASE P!Retry
  <2> DEFINE r == <<at[1], P!SecondTry>>
  <2>1. r \in P!Row /\ r[1] = at[1] /\ r[2] = 2 /\ at[2] = 1 /\ at \in P!Row
    BY <1>6, Places DEF PlanTypes, WhereOK, P!Retry
  <2> HIDE DEF r
  <2>2. /\ at' = r /\ pc' = "verify" /\ token' = [token EXCEPT ![r] = "issued"]
        /\ writing' = writing /\ overdue' = overdue /\ acted' = acted
    BY <1>6 DEF P!Retry, r
  <2>3. token[r] = "none"
    BY <2>1 DEF TokensOK, Ahead
  <2> QED
    BY <2>1, <2>2, <2>3 DEF PlanTypes, ResultsOK
<1> QED
  BY <1>1, <1>2, <1>3, <1>4, <1>5, <1>6 DEF P!Next

\* What is known of the recovery.
LEMMA RecoveryStep ==
  ASSUME PlanAssumption, PlanInv, P!Next
  PROVE  RecoveryOK'
<1> USE DEF PlanInv
<1>1. CASE P!SkipStep \/ P!SeeCancelled \/ P!BeginStep \/ P!Allow \/ P!Refuse
  BY <1>1, Places DEF PlanTypes, WhereOK, TokensOK, RecoveryOK, ResultsOK, P!Recovering,
     P!SkipStep, P!SeeCancelled, P!BeginStep, P!Allow, P!Refuse
<1>2. CASE P!Reject \/ P!Verify \/ P!StartTool \/ P!Record \/ P!Act
  BY <1>2, Places DEF PlanTypes, WhereOK, TokensOK, RecoveryOK, ResultsOK, P!Recovering,
     P!Reject, P!Verify, P!StartTool, P!Record, P!Act
<1>3. CASE (\E ok \in BOOLEAN : P!Return(ok)) \/ P!CutMark \/ P!CutTool \/ P!CutRecord
           \/ P!Done
  BY <1>3, Places DEF PlanTypes, WhereOK, TokensOK, RecoveryOK, ResultsOK, P!Recovering,
     P!Return, P!CutMark, P!CutTool, P!CutRecord, P!Done
<1>4. CASE P!Retry \/ P!GiveUp \/ P!RejectRecovery \/ P!EndRecovery \/ P!Finalize
  BY <1>4, Places DEF PlanTypes, WhereOK, TokensOK, RecoveryOK, ResultsOK, P!Recovering,
     P!Retry, P!GiveUp, P!RejectRecovery, P!EndRecovery, P!Finalize
<1>5. CASE P!Cancel
  BY <1>5, Places DEF PlanTypes, WhereOK, TokensOK, RecoveryOK, ResultsOK, P!Recovering,
     P!Cancel
<1>6. CASE P!LateWrite
  <2>1. PICK w \in writing : rows' = [rows EXCEPT ![w[1]] = w[2]]
    BY <1>6 DEF P!LateWrite
  <2>2. w[1] \in P!Row /\ token[w[1]] # "none" /\ w[2] \notin {"none", "REJECTED"}
    BY DEF PlanTypes, ResultsOK
  <2>3. at' = at /\ pc' = pc /\ recovery' = recovery /\ acted' = acted
    BY <1>6 DEF P!LateWrite
  <2>4. \A q \in P!Row : /\ rows[q] # "none" => rows'[q] # "none"
                         /\ rows[q] = "REJECTED" => rows'[q] = "REJECTED"
    BY <2>1, <2>2 DEF PlanTypes, TokensOK
  <2>5. pc = "recover" \/ P!Recovering => at[1] \in P!Index /\ <<at[1], 2>> \in P!Row
    BY Places DEF PlanTypes, WhereOK
  <2> QED
    BY <2>3, <2>4, <2>5, Places DEF RecoveryOK, P!Recovering
<1>7. CASE P!TryReplan
  <2>1. /\ recovery'.begun = 0 /\ at' = at /\ pc' = "recover" /\ rows' = rows
        /\ at = <<at[1], P!SecondTry>>
    BY <1>7, Places DEF PlanTypes, P!TryReplan
  <2>2. rows[at] # "none"
    BY <1>7, Places DEF PlanTypes, WhereOK, TokensOK, P!TryReplan
  <2> QED
    BY <2>1, <2>2, Places DEF RecoveryOK, P!Recovering
<1>8. CASE P!BeginRecovery
  <2> DEFINE r == <<at[1], P!RecoveryPart(recovery.begun + 1)>>
  <2>1. /\ recovery.begun + 1 \in 1..MaxRecovery /\ at[1] \in P!Index
        /\ at[2] = 2 + recovery.begun /\ pc = "recover"
    BY <1>8, Places DEF PlanTypes, WhereOK, PlanAssumption, P!BeginRecovery
  <2>2. r \in P!Row /\ r[1] = at[1] /\ r[2] = at[2] + 1
    BY <2>1, Places DEF PlanTypes
  <2> HIDE DEF r
  <2>3. /\ at' = r /\ rows' = [rows EXCEPT ![r] = "PENDING"] /\ token' = token
        /\ pc' = "policy" /\ begun' = begun /\ rows \in [P!Row -> P!Status]
        /\ acted' = acted /\ overdue' = overdue
    BY <1>8 DEF P!BeginRecovery, PlanTypes, r

  <2>4. rows[r] = "none"
    BY <2>2, Places DEF PlanTypes, TokensOK, Ahead
  <2>5. recovery'.begun = recovery.begun + 1 /\ recovery'.failed = recovery.failed
    BY <1>8 DEF PlanTypes, P!BeginRecovery
  <2>6. \A q \in P!Row : q # r => rows'[q] = rows[q]
    BY <2>2, <2>3
  <2>7. /\ <<at[1], 2>> # r /\ at'[1] = at[1]
        /\ \A k \in 1..recovery.begun : <<at[1], 2 + k>> # r
    BY <2>1, <2>2, <2>3 DEF PlanTypes
  <2>8. rows'[<<at'[1], 2>>] # "none"
    BY <2>1, <2>6, <2>7, Places DEF RecoveryOK
  <2>9. ASSUME ~recovery.failed, NEW k \in 1..recovery.begun
        PROVE  \/ rows'[<<at'[1], 2 + k>>] = "REJECTED"
               \/ <<at'[1], 2 + k>> \in acted'
    BY <2>1, <2>3, <2>6, <2>7, <2>9, Places DEF RecoveryOK
  <2> QED
    BY <2>1, <2>3, <2>5, <2>8, <2>9, Places DEF RecoveryOK
<1>9. CASE P!RecoveryResult
  <2>1. /\ recovery'.begun = recovery.begun /\ recovery'.failed = (recovery.failed \/ ~result)
    BY <1>9 DEF PlanTypes, P!RecoveryResult
  <2>2. /\ at' = at /\ rows' = rows /\ acted' = acted /\ P!Recovering
        /\ at[2] = P!RecoveryPart(recovery.begun) /\ (result => at \in acted)
    BY <1>9 DEF P!RecoveryResult, WhereOK, ResultsOK
  <2> QED
    BY <2>1, <2>2, Places DEF PlanTypes, RecoveryOK
<1> QED
  BY <1>1, <1>2, <1>3, <1>4, <1>5, <1>6, <1>7, <1>8, <1>9 DEF P!Next

\* A write to one row keeps what the rows say if it is true, and is not the first
\* of a second try whose first one has succeeded.
LEMMA OneRow ==
  ASSUME PlanAssumption, PlanTypes, P!RowsAreTrue, NEW q \in P!Row, NEW s,
         rows' = [rows EXCEPT ![q] = s], acted \subseteq acted', overdue \subseteq overdue',
         s = "COMPLETED" => q \in acted',
         q[2] = 1 /\ s = "COMPLETED" => q \in overdue' \/ rows[<<q[1], 2>>] = "none",
         q[2] = 2 /\ rows[q] = "none" /\ rows[<<q[1], 1>>] = "COMPLETED" => <<q[1], 1>> \in overdue'
  PROVE  P!RowsAreTrue'
<1>1. \A r \in P!Row : rows'[r] = IF r = q THEN s ELSE rows[r]
  BY DEF PlanTypes
<1> SUFFICES ASSUME NEW i \in P!Index
             PROVE  /\ \A p \in P!Part : rows'[<<i, p>>] = "COMPLETED" => <<i, p>> \in acted'
                    /\ rows'[<<i, 1>>] = "COMPLETED" /\ rows'[<<i, 2>>] # "none"
                         => <<i, 1>> \in overdue'
  BY Places DEF P!RowsAreTrue
<1>2. \A p \in P!Part : rows'[<<i, p>>] = "COMPLETED" => <<i, p>> \in acted'
  BY <1>1, Places DEF P!RowsAreTrue
<1>3. ASSUME rows'[<<i, 1>>] = "COMPLETED", rows'[<<i, 2>>] # "none"
      PROVE  <<i, 1>> \in overdue'
  <2>1. <<i, 1>> \in P!Row /\ <<i, 2>> \in P!Row
    BY Places
  <2>2. CASE q = <<i, 1>>
    <3>1. q[1] = i /\ q[2] = 1 /\ s = "COMPLETED" /\ rows[<<i, 2>>] # "none"
      BY <1>1, <1>3, <2>1, <2>2
    <3> QED
      BY <2>2, <3>1
  <2>3. CASE q = <<i, 2>>
    <3>1. q[1] = i /\ q[2] = 2 /\ rows[<<i, 1>>] = "COMPLETED"
      BY <1>1, <1>3, <2>1, <2>3
    <3> QED
      BY <2>3, <3>1, Places DEF P!RowsAreTrue
  <2>4. CASE q # <<i, 1>> /\ q # <<i, 2>>
    BY <1>1, <1>3, <2>1, <2>4, Places DEF P!RowsAreTrue
  <2> QED
    BY <2>2, <2>3, <2>4
<1> QED
  BY <1>2, <1>3

\* The rows are true of the tools.
LEMMA RowsStep ==
  ASSUME PlanAssumption, PlanInv, P!Next
  PROVE  P!RowsAreTrue'
<1> USE DEF PlanInv
<1>1. CASE P!SeeCancelled \/ P!Allow \/ P!Verify \/ P!Act \/ (\E ok \in BOOLEAN : P!Return(ok))
           \/ P!CutMark \/ P!Done \/ P!GiveUp \/ P!TryReplan \/ P!RecoveryResult
           \/ P!EndRecovery \/ P!Finalize \/ P!Cancel
  BY <1>1 DEF P!RowsAreTrue, P!SeeCancelled, P!Allow, P!Verify, P!Act, P!Return, P!CutMark,
     P!Done, P!GiveUp, P!TryReplan, P!RecoveryResult, P!EndRecovery, P!Finalize, P!Cancel
<1>2. ASSUME NEW s, rows' = [rows EXCEPT ![at] = s], at \in P!Row,
             acted' = acted, overdue \subseteq overdue',
             s = "COMPLETED" => at \in acted,
             at[2] = 2 => rows[at] # "none"
      PROVE  P!RowsAreTrue'
  <2>1. at[2] = 1 => rows[<<at[1], 2>>] = "none"
    BY <1>2, Places DEF PlanTypes, TokensOK, Ahead
  <2> QED
    BY <1>2, <2>1, OneRow
<1>3. CASE P!SkipStep \/ P!BeginStep
  <2>1. /\ at \in P!Row /\ at[2] = 1 /\ acted' = acted /\ overdue' = overdue
        /\ rows' = [rows EXCEPT ![at] = "SKIPPED"] \/ rows' = [rows EXCEPT ![at] = "PENDING"]
    BY <1>3, Places DEF PlanTypes, WhereOK, P!SkipStep, P!BeginStep
  <2> QED
    BY <1>2, <2>1
<1>4. CASE P!Refuse
  <2>1. PICK mark \in {"PENDING", "REJECTED"} : rows' = [rows EXCEPT ![at] = mark]
    BY <1>4 DEF P!Refuse
  <2>2. at \in P!Row /\ acted' = acted /\ overdue' = overdue /\ rows[at] = "PENDING"
    BY <1>4, Places DEF PlanTypes, WhereOK, TokensOK, P!Refuse
  <2> QED
    BY <1>2, <2>1, <2>2
<1>5. CASE P!RejectRecovery
  BY <1>2, <1>5, Places DEF PlanTypes, WhereOK, TokensOK, P!RejectRecovery
<1>6. CASE P!Reject
  BY <1>2, <1>6, Places DEF PlanTypes, WhereOK, TokensOK, P!Reject
<1>7. CASE P!StartTool
  BY <1>2, <1>7, Places DEF PlanTypes, WhereOK, TokensOK, P!StartTool
<1>8. CASE P!Record
  BY <1>2, <1>8, Places DEF PlanTypes, WhereOK, TokensOK, ResultsOK, P!Record, P!Recorded
<1>9. CASE P!CutTool
  BY <1>2, <1>9, Places DEF PlanTypes, WhereOK, TokensOK, P!CutTool
<1>10. CASE P!CutRecord
  BY <1>2, <1>10, Places DEF PlanTypes, WhereOK, TokensOK, P!CutRecord
<1>11. CASE P!LateWrite
  <2>1. PICK w \in writing : rows' = [rows EXCEPT ![w[1]] = w[2]]
    BY <1>11 DEF P!LateWrite
  <2>2. /\ w[1] \in P!Row /\ rows[w[1]] # "none" /\ w[1] \in overdue
        /\ w[2] = "COMPLETED" => w[1] \in acted
    BY DEF PlanTypes, TokensOK, ResultsOK
  <2>3. acted' = acted /\ overdue' = overdue
    BY <1>11 DEF P!LateWrite
  <2> QED
    BY <2>1, <2>2, <2>3, OneRow
<1>12. CASE P!Retry
  <2> DEFINE r == <<at[1], P!SecondTry>>
  <2>1. /\ r \in P!Row /\ r[1] = at[1] /\ r[2] = 2 /\ at = <<at[1], 1>>
        /\ pc = "result" /\ ~result
    BY <1>12, Places DEF PlanTypes, WhereOK, P!Retry
  <2>2. rows' = [rows EXCEPT ![r] = "PENDING"] /\ overdue' = overdue /\ acted' = acted
    BY <1>12 DEF P!Retry
  <2> HIDE DEF r
  <2> QED
    BY <2>1, <2>2, OneRow DEF ResultsOK
<1>13. CASE P!BeginRecovery
  <2> DEFINE r == <<at[1], P!RecoveryPart(recovery.begun + 1)>>
  <2>1. /\ recovery.begun + 1 \in 1..MaxRecovery /\ at[1] \in P!Index
        /\ at[2] = 2 + recovery.begun /\ pc = "recover"
    BY <1>13, Places DEF PlanTypes, WhereOK, PlanAssumption, P!BeginRecovery
  <2>2. r \in P!Row /\ r[1] = at[1] /\ r[2] = at[2] + 1
    BY <2>1, Places DEF PlanTypes
  <2> HIDE DEF r
  <2>3. /\ at' = r /\ rows' = [rows EXCEPT ![r] = "PENDING"] /\ token' = token
        /\ pc' = "policy" /\ begun' = begun /\ rows \in [P!Row -> P!Status]
        /\ acted' = acted /\ overdue' = overdue
    BY <1>13 DEF P!BeginRecovery, PlanTypes, r
  <2>4. r[2] # 1 /\ r[2] # 2
    BY <2>1, <2>2, Places DEF PlanTypes
  <2> QED
    BY <2>2, <2>3, <2>4, OneRow
<1> QED
  BY <1>1, <1>3, <1>4, <1>5, <1>6, <1>7, <1>8, <1>9, <1>10, <1>11, <1>12, <1>13 DEF P!Next


\* What is settled behind the loop stays settled.
LEMMA SettledStays ==
  ASSUME PlanAssumption, PlanInv, P!Next, NEW i \in P!Index, i < at[1], P!Settled(i)
  PROVE  P!Settled(i)'
<1> USE DEF PlanInv
<1>1. acted \subseteq acted'
  BY DEF P!Next, P!SkipStep, P!SeeCancelled, P!BeginStep, P!Allow, P!Refuse, P!Reject, P!Verify,
     P!StartTool, P!Record, P!Act, P!Return, P!CutMark, P!CutTool, P!CutRecord, P!LateWrite,
     P!Done, P!Retry, P!GiveUp, P!TryReplan, P!BeginRecovery, P!RejectRecovery,
     P!RecoveryResult, P!EndRecovery, P!Finalize, P!Cancel
<1>2. ASSUME NEW r \in P!Row, r[1] = i
      PROVE  \/ rows'[r] = rows[r]
             \/ rows[r] \notin {"none", "REJECTED"} /\ rows'[r] # "none"
  <2>1. CASE P!SkipStep \/ P!BeginStep \/ P!Refuse \/ P!Reject \/ P!StartTool \/ P!Record
             \/ P!CutTool \/ P!CutRecord \/ P!RejectRecovery
    <3>1. PICK s : rows' = [rows EXCEPT ![at] = s]
      BY <2>1 DEF P!SkipStep, P!BeginStep, P!Refuse, P!Reject, P!StartTool, P!Record,
         P!CutTool, P!CutRecord, P!RejectRecovery
    <3> QED
      BY <1>2, <3>1, Places DEF PlanTypes
  <2>2. CASE P!LateWrite
    <3>1. PICK w \in writing : rows' = [rows EXCEPT ![w[1]] = w[2]]
      BY <2>2 DEF P!LateWrite
    <3>2. w[1] \in P!Row /\ rows[w[1]] \notin {"none", "REJECTED"} /\ w[2] # "none"
      BY DEF PlanTypes, TokensOK, ResultsOK
    <3> QED
      BY <1>2, <3>1, <3>2 DEF PlanTypes
  <2>3. CASE P!Retry \/ P!BeginRecovery
    <3>1. PICK p, s : rows' = [rows EXCEPT ![<<at[1], p>>] = s]
      BY <2>3 DEF P!Retry, P!BeginRecovery
    <3>2. r # <<at[1], p>>
      BY <1>2, Places DEF PlanTypes
    <3> QED
      BY <1>2, <3>1, <3>2 DEF PlanTypes
  <2>4. CASE UNCHANGED rows
    BY <2>4
  <2>5. \/ P!SkipStep \/ P!BeginStep \/ P!Refuse \/ P!Reject \/ P!StartTool \/ P!Record
        \/ P!CutTool \/ P!CutRecord \/ P!RejectRecovery \/ P!LateWrite \/ P!Retry
        \/ P!BeginRecovery \/ UNCHANGED rows
    BY DEF P!Next, P!SeeCancelled, P!Allow, P!Verify, P!Act, P!Return, P!CutMark, P!Done,
       P!GiveUp, P!TryReplan, P!RecoveryResult, P!EndRecovery, P!Finalize, P!Cancel
  <2> QED
    BY <2>1, <2>2, <2>3, <2>4, <2>5
<1>3. /\ <<i, P!SecondTry>> \in P!Row /\ <<i, P!SecondTry>>[1] = i
      /\ \A k \in 1..MaxRecovery : <<i, P!RecoveryPart(k)>> \in P!Row /\ <<i, P!RecoveryPart(k)>>[1] = i
  BY Places
<1>4. rows[<<i, P!SecondTry>>] # "none" => rows'[<<i, P!SecondTry>>] # "none"
  BY <1>2, <1>3
<1>5. \A k \in 1..MaxRecovery :
        rows[<<i, P!RecoveryPart(k)>>] \in {"none", "REJECTED"} =>
          rows'[<<i, P!RecoveryPart(k)>>] \in {"none", "REJECTED"}
  BY <1>2, <1>3
<1> QED
  BY <1>1, <1>4, <1>5 DEF P!Settled

\* What is behind the loop is settled.
LEMMA SettledStep ==
  ASSUME PlanAssumption, PlanInv, P!Next
  PROVE  SettledOK'
<1> USE DEF PlanInv
<1>1. \A i \in P!Index, j \in P!Index : <<j, P!FirstTry>> \in begun /\ i < j => i < at[1]
  <2> SUFFICES ASSUME NEW i \in P!Index, NEW j \in P!Index, <<j, P!FirstTry>> \in begun, i < j
               PROVE  i < at[1]
    OBVIOUS
  <2>1. PICK r : r = <<j, P!FirstTry>>
    OBVIOUS
  <2>2. r \in P!Row /\ r[1] = j /\ token[r] # "none"
    BY <2>1, Places DEF PlanTypes
  <2>3. ~(j > at[1])
    BY <2>2 DEF TokensOK, Ahead
  <2> QED
    BY <2>3, Places
<1>2. ASSUME begun' = begun
      PROVE  \A i, j \in P!Index : i < j /\ <<j, P!FirstTry>> \in begun' => P!Settled(i)'
  BY <1>1, <1>2, SettledStays DEF SettledOK
<1>3. ASSUME at'[1] = at[1], outcome' = "ok" => outcome = "ok"
      PROVE  outcome' = "ok" => \A i \in P!Index : i < at'[1] => P!Settled(i)'
  BY <1>3, SettledStays DEF SettledOK
<1>4. CASE P!SkipStep \/ P!SeeCancelled \/ P!Refuse \/ P!GiveUp
  BY <1>2, <1>4 DEF SettledOK, P!SkipStep, P!SeeCancelled, P!Refuse, P!GiveUp
<1>5. CASE P!BeginStep \/ P!Allow \/ P!Reject \/ P!Verify \/ P!Record \/ P!Act
           \/ (\E ok \in BOOLEAN : P!Return(ok)) \/ P!CutMark \/ P!CutTool \/ P!CutRecord
           \/ P!LateWrite
  <2>1. begun' = begun /\ at' = at /\ outcome' = outcome
    BY <1>5 DEF P!BeginStep, P!Allow, P!Reject, P!Verify, P!Record, P!Act, P!Return, P!CutMark,
       P!CutTool, P!CutRecord, P!LateWrite
  <2> QED
    BY <1>2, <1>3, <2>1 DEF SettledOK
<1>6. CASE P!Retry \/ P!TryReplan \/ P!BeginRecovery \/ P!RejectRecovery \/ P!RecoveryResult
           \/ P!Finalize \/ P!Cancel
  <2>1. begun' = begun /\ at'[1] = at[1] /\ outcome' = outcome
    BY <1>6 DEF P!Retry, P!TryReplan, P!BeginRecovery, P!RejectRecovery, P!RecoveryResult,
       P!Finalize, P!Cancel
  <2> QED
    BY <1>2, <1>3, <2>1 DEF SettledOK
<1>7. CASE P!StartTool
  <2>1. at' = at /\ outcome' = outcome /\ begun' = begun \cup {at} /\ outcome = "ok"
    BY <1>7 DEF P!StartTool, WhereOK
  <2>2. \A i, j \in P!Index : i < j /\ <<j, P!FirstTry>> \in begun' => P!Settled(i)'
    <3> SUFFICES ASSUME NEW i \in P!Index, NEW j \in P!Index, i < j, <<j, P!FirstTry>> \in begun'
                 PROVE  P!Settled(i)'
      OBVIOUS
    <3>1. CASE <<j, P!FirstTry>> \in begun
      BY <1>1, <3>1, SettledStays DEF SettledOK
    <3>2. CASE <<j, P!FirstTry>> = at
      <4>1. at[1] = j
        BY <3>2
      <4> QED
        BY <2>1, <4>1, SettledStays DEF SettledOK
    <3> QED
      BY <2>1, <3>1, <3>2
  <2> QED
    BY <1>3, <2>1, <2>2 DEF SettledOK
<1>8. ASSUME begun' = begun, at' = P!NextIndex, outcome = "ok",
             NEW n \in P!Index, n = at[1], outcome' = "ok" => P!Settled(n)'
      PROVE  SettledOK'
  <2>1. \A i \in P!Index : i < at'[1] => i < at[1] \/ i = n
    BY <1>8, Places DEF PlanTypes
  <2>2. outcome' = "ok" => \A i \in P!Index : i < at'[1] => P!Settled(i)'
    BY <1>8, <2>1, SettledStays DEF SettledOK
  <2> QED
    BY <1>2, <1>8, <2>2 DEF SettledOK
<1>9. CASE P!Done
  <2>1. PICK n \in P!Index : n = at[1]
    BY <1>9 DEF WhereOK, P!Done
  <2>2. <<n, P!FirstTry>> \in acted' \/ <<n, P!SecondTry>> \in acted'
    BY <1>9, <2>1, Places DEF PlanTypes, ResultsOK, P!Done, P!Recovering
  <2>3. P!Settled(n)'
    BY <2>2 DEF P!Settled
  <2> QED
    BY <1>8, <1>9, <2>1, <2>3 DEF WhereOK, P!Done
<1>10. CASE P!EndRecovery
  <2>1. /\ pc = "recover" /\ recovery.begun = recovery.steps /\ acted' = acted /\ rows' = rows
        /\ at[1] \in P!Index /\ outcome = "ok" /\ at' = P!NextIndex /\ begun' = begun
        /\ outcome' = "ok" => ~recovery.failed
    BY <1>10 DEF P!EndRecovery, WhereOK
  <2>2. PICK n \in P!Index : n = at[1]
    BY <2>1
  <2>3. ASSUME ~recovery.failed
        PROVE  P!Settled(n)'
    <3>1. /\ rows[<<at[1], P!SecondTry>>] # "none"
          /\ \A k \in 1..recovery.begun :
               \/ rows[<<at[1], P!RecoveryPart(k)>>] = "REJECTED"
               \/ <<at[1], P!RecoveryPart(k)>> \in acted
      BY <2>1, <2>3 DEF RecoveryOK
    <3>2. ASSUME NEW k \in 1..MaxRecovery, k > recovery.begun
          PROVE  rows[<<at[1], P!RecoveryPart(k)>>] = "none"
      <4>1. PICK r : r = <<at[1], P!RecoveryPart(k)>>
        OBVIOUS
      <4>2. r \in P!Row /\ r[1] = at[1] /\ r[2] = 2 + k /\ at[2] = 2 + recovery.begun
        BY <2>1, <4>1, Places DEF PlanTypes, WhereOK
      <4>3. Ahead(r)
        BY <3>2, <4>2, Places DEF PlanTypes, Ahead
      <4> QED
        BY <4>1, <4>2, <4>3 DEF TokensOK
    <3>3. \A k \in 1..MaxRecovery : k \in 1..recovery.begun \/ k > recovery.begun
      BY Places DEF PlanTypes
    <3> QED
      BY <2>1, <2>2, <3>1, <3>2, <3>3 DEF P!Settled
  <2> QED
    BY <1>8, <2>1, <2>2, <2>3
<1> QED
  BY <1>4, <1>5, <1>6, <1>7, <1>9, <1>10 DEF P!Next

\* Each step of the loop keeps it.
LEMMA NextPlan == PlanAssumption /\ PlanInv /\ [P!Next]_(P!vars) => PlanInv'
<1> SUFFICES ASSUME PlanAssumption, PlanInv, [P!Next]_(P!vars) PROVE PlanInv'
  OBVIOUS
<1>1. CASE P!Next
  BY <1>1, PlanTypesStep, WhereStep, TokensStep, ResultsStep, RecoveryStep, SettledStep, RowsStep
     DEF PlanInv
<1>2. CASE UNCHANGED P!vars
  BY <1>2 DEF P!vars, PlanInv, PlanTypes, WhereOK, TokensOK, Ahead, ResultsOK, RecoveryOK,
     SettledOK, P!RowsAreTrue, P!Settled, P!Recovering
<1> QED
  BY <1>1, <1>2

\* It is enough for what StepsAreSettled says of PlanRunner.
LEMMA PlanSettles == PlanAssumption /\ PlanInv => P!EarlierIsSettled /\ P!RowsAreTrue
<1> SUFFICES ASSUME PlanAssumption, PlanInv, NEW i \in P!Index,
                    task = "COMPLETED" \/ \E j \in i + 1..Length : <<j, P!FirstTry>> \in begun
             PROVE  P!Settled(i)
  BY DEF PlanInv, P!EarlierIsSettled
<1>1. CASE task = "COMPLETED"
  BY <1>1, Places DEF PlanInv, WhereOK, SettledOK, PlanAssumption
<1>2. ASSUME NEW j \in i + 1..Length, <<j, P!FirstTry>> \in begun
      PROVE  P!Settled(i)
  <2>1. j \in P!Index /\ i < j
    BY DEF P!Index, PlanAssumption
  <2> QED
    BY <1>2, <2>1 DEF PlanInv, SettledOK
<1> QED
  BY <1>1, <1>2

-----------------------------------------------------------------------------
(* SessionMonitor.                                                         *)

M == INSTANCE SessionMonitor
       WITH stopped <- ending, current <- watching, doubled <- paired

\* Where a thread that polls stands.
PollState ==
  [pc : {"none", "wait", "emit", "ended"}, previous : State \cup {NoState},
   state : State \cup {NoState}]
CallOnLoop == [to : Callback, state : State \cup {NoState}]

\* The threads, the queue and what was told keep their ranges.
MonitorTypes ==
  /\ real \in State /\ last \in State \cup {NoState}
  /\ callbacks \in Seq(Callback) /\ queue \in Seq(CallOnLoop)
  /\ poll \in [Thread -> PollState]
  /\ watching \in Thread \cup {NoThread}
  /\ told \in [Callback -> State \cup {NoState}]
  /\ paired \in BOOLEAN
  /\ \A i, j \in DOMAIN callbacks : callbacks[i] = callbacks[j] => i = j

\* One thread at a time knows what the monitor has seen last.
OneThread ==
  /\ \A t, u \in Thread : M!Alive(t) /\ M!Alive(u) => t = u
  /\ \A t \in Thread :
       /\ poll[t].pc = "wait" => poll[t].previous = last
       /\ poll[t].pc = "emit" => poll[t].state = last

\* Unless it is about to tell it, the callbacks have been told that, or will be.
LastIsTold ==
  last # NoState /\ (\A t \in Thread : poll[t].pc # "emit") =>
    \A i \in DOMAIN callbacks : callbacks[i] \notin fresh => M!WillBeTold(callbacks[i], last)

\* What a step of the monitor preserves; once two threads poll, only the types.
MonitorInv == MonitorTypes /\ (~paired => OneThread /\ LastIsTold)

\* It holds where the monitor begins.
LEMMA InitMonitor == M!Init => MonitorInv
<1> SUFFICES ASSUME M!Init PROVE MonitorInv
  OBVIOUS
<1>1. MonitorTypes
  <2>1. PICK r : r = [pc |-> "none", previous |-> NoState, state |-> NoState]
    OBVIOUS
  <2>2. r \in PollState
    BY <2>1 DEF PollState
  <2>3. poll = [t \in Thread |-> r]
    BY <2>1 DEF M!Init
  <2>4. told \in [Callback -> State \cup {NoState}]
    BY DEF M!Init
  <2>5. callbacks = <<>> /\ queue = <<>>
    BY DEF M!Init
  <2>6. /\ callbacks \in Seq(Callback) /\ queue \in Seq(CallOnLoop)
        /\ \A i, j \in DOMAIN callbacks : callbacks[i] = callbacks[j] => i = j
    BY <2>5
  <2>7. /\ real \in State /\ last = NoState /\ watching = NoThread /\ paired = FALSE
    BY DEF M!Init
  <2>8. poll \in [Thread -> PollState]
    BY <2>2, <2>3
  <2> QED
    BY <2>4, <2>6, <2>7, <2>8 DEF MonitorTypes
<1>2. OneThread
  BY DEF M!Init, OneThread, M!Alive
<1>3. LastIsTold
  BY DEF M!Init, LastIsTold
<1> QED
  BY <1>1, <1>2, <1>3 DEF MonitorInv

\* What leaves the callbacks, the queue and the last state, and begins no thread.
LEMMA StillTold ==
  ASSUME LastIsTold, last' = last, callbacks' = callbacks, queue' = queue, told' = told,
         fresh' = fresh,
         (\A t \in Thread : poll'[t].pc # "emit") => \A t \in Thread : poll[t].pc # "emit"
  PROVE  LastIsTold'
BY DEF LastIsTold, M!WillBeTold

\* Changes of the session, and callbacks that come and go.
LEMMA QuietSteps ==
  ASSUME MonitorInv, M!Change \/ M!BeginStop \/ M!EndStop \/ UNCHANGED M!vars
  PROVE  MonitorInv'
<1>1. MonitorTypes'
  BY DEF MonitorInv, MonitorTypes, M!Change, M!BeginStop, M!EndStop, M!vars
<1>2. OneThread => OneThread'
  BY DEF OneThread, M!Alive, M!Change, M!BeginStop, M!EndStop, M!vars
<1>3. LastIsTold => LastIsTold'
  BY StillTold DEF M!Change, M!BeginStop, M!EndStop, M!vars
<1>4. paired' = paired
  BY DEF M!Change, M!BeginStop, M!EndStop, M!vars
<1> QED
  BY <1>1, <1>2, <1>3, <1>4 DEF MonitorInv

\* start and stop.
LEMMA WatchSteps ==
  ASSUME MonitorInv, NEW b \in Callback, M!Watch(b)
  PROVE  MonitorInv'
<1>1. /\ callbacks' = Append(callbacks, b) /\ fresh' = fresh \cup {b}
      /\ \A i \in DOMAIN callbacks : callbacks[i] # b
      /\ last' = last /\ queue' = queue /\ told' = told /\ real' = real
      /\ callbacks \in Seq(Callback)
  BY DEF M!Watch, MonitorInv, MonitorTypes
<1>2. /\ DOMAIN callbacks' = 1 .. Len(callbacks) + 1 /\ DOMAIN callbacks = 1 .. Len(callbacks)
      /\ \A i \in 1 .. Len(callbacks) : callbacks'[i] = callbacks[i]
      /\ callbacks'[Len(callbacks) + 1] = b /\ callbacks' \in Seq(Callback)
      /\ Len(callbacks) \in Nat
  BY <1>1
<1>3. \A i, j \in DOMAIN callbacks' : callbacks'[i] = callbacks'[j] => i = j
  BY <1>1, <1>2 DEF MonitorInv, MonitorTypes
<1>4. LastIsTold /\ (\A t \in Thread : poll'[t].pc = "emit" <=> poll[t].pc = "emit") => LastIsTold'
  <2>1. \A i \in DOMAIN callbacks' : callbacks'[i] \notin fresh' =>
          i \in DOMAIN callbacks /\ callbacks'[i] = callbacks[i] /\ callbacks[i] \notin fresh
    BY <1>1, <1>2
  <2> QED
    BY <1>1, <2>1 DEF LastIsTold, M!WillBeTold
<1>5. CASE UNCHANGED <<poll, watching, ending, paired>>
  <2>1. MonitorTypes'
    BY <1>1, <1>2, <1>3, <1>5 DEF MonitorInv, MonitorTypes
  <2>2. OneThread => OneThread'
    BY <1>1, <1>5 DEF OneThread, M!Alive
  <2> QED
    BY <1>4, <1>5, <2>1, <2>2 DEF MonitorInv
<1>6. ASSUME NEW t \in Thread, poll[t].pc = "none",
             poll' = [poll EXCEPT ![t] = [pc |-> "wait", previous |-> last, state |-> NoState]],
             watching' = t,
             paired' = (paired \/ \E u \in Thread : M!Alive(u))
      PROVE  MonitorInv'
  <2>1. PICK r : r = [pc |-> "wait", previous |-> last, state |-> NoState]
    OBVIOUS
  <2>2. r \in PollState /\ r.pc = "wait" /\ r.previous = last
    BY <2>1 DEF PollState, MonitorInv, MonitorTypes
  <2>3. /\ poll' = [poll EXCEPT ![t] = r] /\ poll \in [Thread -> PollState]
        /\ poll' \in [Thread -> PollState]
    BY <1>6, <2>1, <2>2 DEF MonitorInv, MonitorTypes
  <2>4. MonitorTypes'
    BY <1>1, <1>2, <1>3, <1>6, <2>3 DEF MonitorInv, MonitorTypes
  <2>5. ASSUME ~paired'
        PROVE  OneThread' /\ LastIsTold'
    <3>1. ~paired /\ OneThread /\ LastIsTold /\ \A u \in Thread : ~M!Alive(u)
      BY <1>6, <2>5 DEF MonitorInv
    <3>2. OneThread'
      BY <1>1, <2>2, <2>3, <3>1 DEF OneThread, M!Alive
    <3>3. LastIsTold'
      BY <1>4, <1>6, <2>2, <2>3, <3>1
    <3> QED
      BY <3>2, <3>3
  <2> QED
    BY <2>4, <2>5 DEF MonitorInv
<1> QED
  BY <1>5, <1>6 DEF M!Watch

\* A round of the poll loop, up to what it tells.
LEMMA PollSteps ==
  ASSUME MonitorInv, NEW t \in Thread, M!Poll(t)
  PROVE  MonitorInv'
<1>0. /\ poll \in [Thread -> PollState] /\ poll[t] \in PollState /\ poll[t].pc = "wait"
      /\ callbacks' = callbacks /\ queue' = queue /\ told' = told /\ fresh' = fresh
      /\ paired' = paired /\ watching' = watching /\ real' = real /\ real \in State
  BY DEF M!Poll, MonitorInv, MonitorTypes
<1>1. CASE ending
  <2>1. PICK r : r = [poll[t] EXCEPT !.pc = "ended"]
    OBVIOUS
  <2>2. r \in PollState /\ r.pc = "ended"
    BY <1>0, <2>1 DEF PollState
  <2>3. poll' = [poll EXCEPT ![t] = r] /\ last' = last /\ poll' \in [Thread -> PollState]
    BY <1>0, <1>1, <2>1, <2>2 DEF M!Poll
  <2>4. MonitorTypes'
    BY <1>0, <2>3 DEF MonitorInv, MonitorTypes
  <2>5. OneThread => OneThread'
    BY <1>0, <2>2, <2>3 DEF OneThread, M!Alive
  <2>6. LastIsTold => LastIsTold'
    BY <1>0, <2>2, <2>3, StillTold
  <2> QED
    BY <1>0, <2>4, <2>5, <2>6 DEF MonitorInv
<1>2. CASE ~ending
  <2>1. PICK r : r = [poll[t] EXCEPT !.state = real,
                                     !.pc = IF poll[t].previous = real THEN "wait" ELSE "emit"]
    OBVIOUS
  <2>2. /\ r \in PollState /\ r.state = real /\ r.previous = poll[t].previous
        /\ r.pc = IF poll[t].previous = real THEN "wait" ELSE "emit"
    BY <1>0, <2>1 DEF PollState
  <2>3. poll' = [poll EXCEPT ![t] = r] /\ last' = real /\ poll' \in [Thread -> PollState]
    BY <1>0, <1>2, <2>1, <2>2 DEF M!Poll
  <2>4. MonitorTypes'
    BY <1>0, <2>3 DEF MonitorInv, MonitorTypes
  <2>5. OneThread => OneThread'
    BY <1>0, <2>2, <2>3 DEF OneThread, M!Alive
  <2>6. OneThread /\ LastIsTold => LastIsTold'
    <3>1. CASE poll[t].previous = real
      <4>1. OneThread => last = real
        BY <1>0, <3>1 DEF OneThread
      <4> QED
        BY <1>0, <2>2, <2>3, <3>1, <4>1, StillTold
    <3>2. CASE poll[t].previous # real
      BY <2>2, <2>3, <3>2 DEF LastIsTold
    <3> QED
      BY <3>1, <3>2
  <2> QED
    BY <1>0, <2>4, <2>5, <2>6 DEF MonitorInv
<1> QED
  BY <1>1, <1>2

\* _emit, callback by callback.
LEMMA EmitSteps ==
  ASSUME MonitorInv, NEW t \in Thread, M!Emit(t)
  PROVE  MonitorInv'
<1> DEFINE new == [i \in DOMAIN callbacks |-> [to |-> callbacks[i], state |-> poll[t].state]]
           n == Len(queue)
           m == Len(callbacks)
<1>0. /\ poll \in [Thread -> PollState] /\ poll[t] \in PollState /\ poll[t].pc = "emit"
      /\ callbacks' = callbacks /\ queue' = queue \o new /\ told' = told /\ fresh' = {}
      /\ paired' = paired /\ watching' = watching /\ real' = real /\ last' = last
      /\ callbacks \in Seq(Callback) /\ queue \in Seq(CallOnLoop)
  BY DEF M!Emit, MonitorInv, MonitorTypes
<1>1. /\ DOMAIN callbacks = 1 .. m /\ m \in Nat /\ n \in Nat
      /\ \A i \in 1 .. m : callbacks[i] \in Callback
  BY <1>0
<1>2. /\ new \in Seq(CallOnLoop) /\ Len(new) = m
      /\ \A i \in 1 .. m : new[i] = [to |-> callbacks[i], state |-> poll[t].state]
  BY <1>0, <1>1 DEF CallOnLoop, PollState
<1>3. /\ queue' \in Seq(CallOnLoop) /\ Len(queue') = n + m
      /\ \A i \in 1 .. m : queue'[n + i] = [to |-> callbacks[i], state |-> poll[t].state]
  BY <1>0, <1>1, <1>2
<1>4. PICK r : r = [poll[t] EXCEPT !.pc = "wait", !.previous = poll[t].state]
  OBVIOUS
<1>5. r \in PollState /\ r.pc = "wait" /\ r.previous = poll[t].state
  BY <1>0, <1>4 DEF PollState
<1>6. poll' = [poll EXCEPT ![t] = r] /\ poll' \in [Thread -> PollState]
  BY <1>0, <1>4, <1>5 DEF M!Emit
<1>7. MonitorTypes'
  BY <1>0, <1>3, <1>6 DEF MonitorInv, MonitorTypes
<1>8. OneThread => OneThread'
  BY <1>0, <1>5, <1>6 DEF OneThread, M!Alive
<1>9. OneThread => LastIsTold'
  <2> SUFFICES ASSUME OneThread, NEW i \in 1 .. m
               PROVE  M!WillBeTold(callbacks[i], last)'
    BY <1>0, <1>1 DEF LastIsTold
  <2>1. queue'[n + i] = [to |-> callbacks[i], state |-> last]
    BY <1>0, <1>3 DEF OneThread
  <2>2. \A j \in n + i + 1 .. n + m : queue'[j].to # callbacks[i]
    <3> SUFFICES ASSUME NEW j \in n + i + 1 .. n + m
                 PROVE  queue'[j].to # callbacks[i]
      OBVIOUS
    <3>1. j - n \in 1 .. m /\ j = n + (j - n) /\ j - n # i
      BY <1>1
    <3>2. queue'[j] = [to |-> callbacks[j - n], state |-> poll[t].state]
      BY <1>3, <3>1
    <3>3. callbacks[j - n] # callbacks[i]
      BY <1>1, <3>1 DEF MonitorInv, MonitorTypes
    <3> QED
      BY <3>2, <3>3
  <2>3. n + i \in DOMAIN queue'
    BY <1>1, <1>3
  <2> QED
    BY <1>0, <1>3, <2>1, <2>2, <2>3 DEF M!WillBeTold
<1> QED
  BY <1>0, <1>7, <1>8, <1>9 DEF MonitorInv

\* The event loop makes the calls that were queued.
LEMMA DeliverSteps ==
  ASSUME MonitorInv, M!Deliver
  PROVE  MonitorInv'
<1>0. /\ queue \in Seq(CallOnLoop) /\ queue # <<>>
      /\ told' = [told EXCEPT ![Head(queue).to] = Head(queue).state]
      /\ told \in [Callback -> State \cup {NoState}]
      /\ queue' = Tail(queue) /\ callbacks' = callbacks /\ poll' = poll /\ fresh' = fresh
      /\ paired' = paired /\ watching' = watching /\ real' = real /\ last' = last
  BY DEF M!Deliver, MonitorInv, MonitorTypes
<1>1. /\ Len(queue) \in Nat \ {0} /\ Head(queue) = queue[1] /\ queue[1] \in CallOnLoop
      /\ Len(queue') = Len(queue) - 1 /\ queue' \in Seq(CallOnLoop)
      /\ \A i \in 1 .. Len(queue) - 1 : queue'[i] = queue[i + 1]
      /\ DOMAIN queue = 1 .. Len(queue) /\ DOMAIN queue' = 1 .. Len(queue) - 1
  BY <1>0
<1>2. queue[1].to \in Callback /\ queue[1].state \in State \cup {NoState}
  BY <1>1 DEF CallOnLoop
<1>3. MonitorTypes'
  BY <1>0, <1>1, <1>2 DEF MonitorInv, MonitorTypes
<1>4. OneThread => OneThread'
  BY <1>0 DEF OneThread, M!Alive
<1>5. ASSUME NEW b \in Callback, NEW s, M!WillBeTold(b, s)
      PROVE  \/ told'[b] = s /\ \A i \in DOMAIN queue' : queue'[i].to # b
             \/ \E i \in DOMAIN queue' :
                  /\ queue'[i] = [to |-> b, state |-> s]
                  /\ \A j \in i + 1 .. Len(queue') : queue'[j].to # b
  <2>1. CASE told[b] = s /\ \A i \in DOMAIN queue : queue[i].to # b
    BY <1>0, <1>1, <2>1
  <2>2. ASSUME NEW i \in DOMAIN queue, queue[i] = [to |-> b, state |-> s],
               \A j \in i + 1 .. Len(queue) : queue[j].to # b
        PROVE  \/ told'[b] = s /\ \A k \in DOMAIN queue' : queue'[k].to # b
               \/ \E k \in DOMAIN queue' :
                    /\ queue'[k] = [to |-> b, state |-> s]
                    /\ \A j \in k + 1 .. Len(queue') : queue'[j].to # b
    <3>1. CASE i = 1
      <4>1. told'[b] = s
        BY <1>0, <1>1, <2>2, <3>1
      <4>2. \A k \in DOMAIN queue' : queue'[k].to # b
        BY <1>1, <2>2, <3>1
      <4> QED
        BY <4>1, <4>2
    <3>2. CASE i > 1
      <4>1. i - 1 \in DOMAIN queue' /\ queue'[i - 1] = [to |-> b, state |-> s]
        BY <1>1, <2>2, <3>2
      <4>2. \A j \in (i - 1) + 1 .. Len(queue') : queue'[j].to # b
        BY <1>1, <2>2, <3>2
      <4> QED
        BY <4>1, <4>2
    <3> QED
      BY <1>1, <3>1, <3>2
  <2> QED
    BY <1>5, <2>1, <2>2 DEF M!WillBeTold
<1>6. LastIsTold => LastIsTold'
  <2> SUFFICES ASSUME LastIsTold, last # NoState, \A t \in Thread : poll[t].pc # "emit",
                      NEW i \in DOMAIN callbacks, callbacks[i] \notin fresh
               PROVE  M!WillBeTold(callbacks[i], last)'
    BY <1>0 DEF LastIsTold
  <2>1. callbacks[i] \in Callback /\ M!WillBeTold(callbacks[i], last)
    BY DEF LastIsTold, MonitorInv, MonitorTypes
  <2> DEFINE b == callbacks[i]
  <2>2. \/ told'[b] = last /\ \A k \in DOMAIN queue' : queue'[k].to # b
        \/ \E k \in DOMAIN queue' :
             /\ queue'[k] = [to |-> b, state |-> last]
             /\ \A j \in k + 1 .. Len(queue') : queue'[j].to # b
    BY <1>5, <2>1
  <2>3. last' = last /\ callbacks'[i] = b
    BY <1>0
  <2> QED
    BY <2>2, <2>3 DEF M!WillBeTold
<1> QED
  BY <1>0, <1>3, <1>4, <1>6 DEF MonitorInv

\* Each step of the monitor keeps it.
LEMMA NextMonitor == MonitorInv /\ [M!Next]_(M!vars) => MonitorInv'
BY QuietSteps, WatchSteps, PollSteps, EmitSteps, DeliverSteps DEF M!Next

\* It is enough for what DesktopIsServed says of SessionMonitor.
LEMMA MonitorTells == MonitorInv => M!CallbacksAreCurrent
<1> SUFFICES ASSUME MonitorInv, NEW b \in Callback, NEW t \in Thread,
                    poll[t].pc = "wait", poll[t].previous # NoState, b \notin fresh, ~paired,
                    NEW i \in DOMAIN callbacks, callbacks[i] = b
             PROVE  M!WillBeTold(b, poll[t].previous)
  BY DEF M!CallbacksAreCurrent
<1>1. poll[t].previous = last /\ \A u \in Thread : poll[u].pc # "emit"
  BY DEF MonitorInv, OneThread, M!Alive
<1> QED
  BY <1>1 DEF MonitorInv, LastIsTold

-----------------------------------------------------------------------------
(* BrowserIsolation.                                                       *)

B == INSTANCE BrowserIsolation
       WITH Call <- Calls, NoCall <- NoContext, closing <- leaving, file <- download

\* The calls, contexts and closes keep their ranges.
BrowserTypes ==
  /\ creating \in
       [Calls -> [key : Key \cup {NoKey}, pc : {"none", "new", "headers", "done", "failed"}]]
  /\ contexts \in [Key -> Calls \cup {NoContext}]
  /\ open \subseteq Calls /\ partitions \subseteq Key /\ dirs \subseteq Key
  /\ leaving \in
       [Closer -> [key : Key \cup {NoKey}, context : Calls \cup {NoContext},
                   all : BOOLEAN, pc : {"none", "close", "wipe"}]]

\* What is open was opened for a key, what is registered or taken out was done.
CallsOK ==
  /\ \A c \in Calls :
       /\ creating[c].pc = "none" <=> creating[c].key = NoKey
       /\ creating[c].pc \in {"none", "new"} => c \notin open
  /\ \A k \in Key : contexts[k] # NoContext =>
       creating[contexts[k]].pc = "done" /\ creating[contexts[k]].key = k
  /\ \A d \in Closer :
       /\ leaving[d].pc = "none" => leaving[d] = B!NotClosing
       /\ leaving[d].context # NoContext => creating[leaving[d].context].pc = "done"
       /\ leaving[d].pc = "wipe" => leaving[d].context \notin open \ unclosed

\* Calls that could disturb each other have met: two that make a context of one
\* key, one with a context that is registered meanwhile or with a close.
MetOK ==
  \A c \in Calls :
    /\ c \in B!Making(creating[c].key) =>
         /\ \A e \in B!Making(creating[c].key) : e = c \/ c \in crossed
         /\ contexts[creating[c].key] # NoContext =>
              c \in crossed /\ contexts[creating[c].key] \in crossed
         /\ \A d \in Closer : leaving[d].key = creating[c].key => c \in crossed
         /\ c \in crossed \/ creating[c].key \in partitions
    /\ \A k \in Key : contexts[k] = c =>
         /\ \A d \in Closer : leaving[d].key = k => c \in crossed
         /\ c \in crossed \/ k \in partitions

\* Where a partition is, a directory is; and what was not wiped is known.
WipedOK == partitions \subseteq dirs /\ dirs \subseteq partitions \cup unwiped

\* A download is outside the quarantine only after a clean verdict.
DownloadsOK ==
  /\ download \in
       [Download -> [content : B!Content, at : SUBSET {"quarantine", "workspace"}]]
  /\ verdict \in [Download -> {"none", "clean", "blocked"}]
  /\ \A f \in Download :
       /\ verdict[f] = "none" => download[f].at \subseteq {"quarantine"}
       /\ verdict[f] = "clean" => download[f].content = "clean" /\ download[f].at # {}
       /\ verdict[f] = "blocked" => download[f].at = {"quarantine"}

\* What a step of the broker preserves.
BrowserInv ==
  BrowserTypes /\ CallsOK /\ MetOK /\ WipedOK /\ DownloadsOK /\ B!OpenIsKnown

\* What stands for no context and for no key is none.
BrowserAssumption == NoContext \notin Calls /\ NoKey \notin Key

\* It holds where the broker begins.
LEMMA InitBrowser == BrowserAssumption /\ B!Init => BrowserInv
<1> SUFFICES ASSUME BrowserAssumption, B!Init PROVE BrowserInv
  OBVIOUS
<1>1. BrowserTypes
  BY DEF B!Init, BrowserTypes, B!Idle, B!NotClosing
<1>2. CallsOK
  BY DEF B!Init, CallsOK, B!Idle, B!NotClosing
<1>3. MetOK
  BY DEF B!Init, MetOK, B!Making, B!Idle, BrowserAssumption
<1>4. WipedOK
  BY DEF B!Init, WipedOK
<1>5. DownloadsOK
  BY DEF B!Init, DownloadsOK, B!Content
<1>6. B!OpenIsKnown
  BY DEF B!Init, B!OpenIsKnown
<1> QED
  BY <1>1, <1>2, <1>3, <1>4, <1>5, <1>6 DEF BrowserInv

\* The downloads and the contexts do not touch each other.
LEMMA DownloadSteps ==
  ASSUME BrowserInv, NEW f \in Download, B!Quarantine(f) \/ B!Check(f) \/ B!Release(f)
  PROVE  BrowserInv'
<1> DEFINE Fields == [content : B!Content, at : SUBSET {"quarantine", "workspace"}]
<1>0. download[f] \in Fields
  BY DEF BrowserInv, DownloadsOK
<1>1. DownloadsOK'
  <2>1. CASE B!Quarantine(f)
    <3>1. PICK r : /\ download' = [download EXCEPT ![f] = r]
                   /\ r \in Fields /\ r.at = {"quarantine"} /\ verdict' = verdict
      BY <2>1 DEF B!Quarantine
    <3>2. download[f].at = {}
      BY <2>1 DEF B!Quarantine
    <3> QED
      BY <3>1, <3>2 DEF BrowserInv, DownloadsOK
  <2>2. CASE B!Check(f)
    BY <2>2 DEF BrowserInv, DownloadsOK, B!Check
  <2>3. CASE B!Release(f)
    <3>1. PICK places \in {{"workspace"}, {"quarantine", "workspace"}} :
            download' = [download EXCEPT ![f].at = places]
      BY <2>3 DEF B!Release
    <3>2. PICK r : r = [download[f] EXCEPT !.at = places]
      OBVIOUS
    <3>3. r \in Fields /\ r.at = places /\ r.content = download[f].content
      BY <1>0, <3>2
    <3>4. /\ download' = [download EXCEPT ![f] = r] /\ verdict' = verdict
          /\ verdict[f] = "clean"
      BY <2>3, <3>1, <3>2 DEF B!Release
    <3> QED
      BY <3>3, <3>4 DEF BrowserInv, DownloadsOK
  <2> QED
    BY <2>1, <2>2, <2>3
<1>2. (BrowserTypes /\ CallsOK /\ MetOK /\ WipedOK /\ B!OpenIsKnown)'
  BY DEF BrowserInv, BrowserTypes, CallsOK, MetOK, WipedOK, B!OpenIsKnown, B!Making,
     B!Quarantine, B!Check, B!Release, B!Others
<1> QED
  BY <1>1, <1>2 DEF BrowserInv

\* They stay as they are with the other steps.
LEMMA DownloadsStay == DownloadsOK /\ UNCHANGED B!Downloads => DownloadsOK'
BY DEF DownloadsOK, B!Downloads

\* get_context finds a context, or begins to make one.
LEMMA GetSteps ==
  ASSUME BrowserAssumption, BrowserInv, NEW c \in Calls, NEW k \in Key, B!GetContext(c, k)
  PROVE  BrowserInv'
<1>1. BrowserTypes'
  BY DEF BrowserInv, BrowserTypes, B!GetContext
<1>2. CallsOK'
  BY DEF BrowserInv, BrowserTypes, CallsOK, BrowserAssumption, B!GetContext
<1>3. MetOK'
  BY DEF BrowserInv, BrowserTypes, CallsOK, MetOK, B!Making, BrowserAssumption, B!GetContext
<1>4. WipedOK' /\ DownloadsOK'
  BY DownloadsStay DEF BrowserInv, WipedOK, B!GetContext
<1>5. B!OpenIsKnown'
  BY DEF BrowserInv, BrowserTypes, CallsOK, B!OpenIsKnown, B!GetContext
<1> QED
  BY <1>1, <1>2, <1>3, <1>4, <1>5 DEF BrowserInv

\* A close takes a context out, or finds none.
LEMMA BeginSteps ==
  ASSUME BrowserAssumption, BrowserInv, NEW c \in Calls, NEW k \in Key, B!BeginContext(c, k)
  PROVE  BrowserInv'
<1>1. BrowserTypes'
  BY DEF BrowserInv, BrowserTypes, B!BeginContext
<1>2. CallsOK'
  BY DEF BrowserInv, BrowserTypes, CallsOK, BrowserAssumption, B!BeginContext
<1>3. MetOK'
  BY DEF BrowserInv, BrowserTypes, CallsOK, MetOK, B!Making, BrowserAssumption, B!BeginContext
<1>4. WipedOK' /\ DownloadsOK'
  BY DownloadsStay DEF BrowserInv, WipedOK, B!BeginContext
<1>5. B!OpenIsKnown'
  BY DEF BrowserInv, BrowserTypes, CallsOK, B!OpenIsKnown, B!BeginContext
<1> QED
  BY <1>1, <1>2, <1>3, <1>4, <1>5 DEF BrowserInv

\* The awaits of the making of a context.
LEMMA MakingSteps ==
  ASSUME BrowserAssumption, BrowserInv, NEW c \in Calls,
         B!Opened(c) \/ B!Register(c) \/ B!CreateFails(c)
  PROVE  BrowserInv'
<1>1. BrowserTypes'
  BY DEF BrowserInv, BrowserTypes, CallsOK, BrowserAssumption, B!Opened, B!Register, B!CreateFails
<1>2. CallsOK'
  BY DEF BrowserInv, BrowserTypes, CallsOK, BrowserAssumption, B!Opened, B!Register, B!CreateFails
<1>3. MetOK'
  BY DEF BrowserInv, BrowserTypes, CallsOK, MetOK, B!Making, BrowserAssumption,
     B!Opened, B!Register, B!CreateFails
<1>4. WipedOK' /\ DownloadsOK'
  BY DownloadsStay DEF BrowserInv, WipedOK, B!Opened, B!Register, B!CreateFails
<1>5. B!OpenIsKnown'
  BY DEF BrowserInv, BrowserTypes, CallsOK, MetOK, B!Making, B!OpenIsKnown, BrowserAssumption,
     B!Opened, B!Register, B!CreateFails
<1> QED
  BY <1>1, <1>2, <1>3, <1>4, <1>5 DEF BrowserInv

\* The end of a close.
LEMMA LeaveSteps ==
  ASSUME BrowserAssumption, BrowserInv, NEW d \in Closer, NEW k \in Key, NEW all \in BOOLEAN,
         B!BeginClose(d, k, all)
  PROVE  BrowserInv'
<1>1. BrowserTypes'
  BY DEF BrowserInv, BrowserTypes, B!BeginClose
<1>2. CallsOK'
  BY DEF BrowserInv, BrowserTypes, CallsOK, BrowserAssumption, B!BeginClose
<1>3. MetOK'
  BY DEF BrowserInv, BrowserTypes, CallsOK, MetOK, B!Making, BrowserAssumption, B!BeginClose
<1>4. WipedOK' /\ DownloadsOK'
  BY DownloadsStay DEF BrowserInv, WipedOK, B!BeginClose
<1>5. B!OpenIsKnown'
  BY DEF BrowserInv, BrowserTypes, CallsOK, B!OpenIsKnown, BrowserAssumption, B!BeginClose, B!NotClosing
<1> QED
  BY <1>1, <1>2, <1>3, <1>4, <1>5 DEF BrowserInv

\* The awaits of a close.
LEMMA CloseContextSteps ==
  ASSUME BrowserAssumption, BrowserInv, NEW d \in Closer,
         B!CloseContext(d) \/ B!CloseFails(d) \/ B!Wipe(d)
  PROVE  BrowserInv'
<1> DEFINE Fields == [key : Key \cup {NoKey}, context : Calls \cup {NoContext},
                     all : BOOLEAN, pc : {"none", "close", "wipe"}]
           taken == leaving[d].context
<1>1. leaving[d] \in Fields /\ leaving[d].pc \in {"close", "wipe"} /\ B!NotClosing \in Fields
  BY DEF BrowserInv, BrowserTypes, B!CloseContext, B!CloseFails, B!Wipe, B!NotClosing
<1>2. PICK r : /\ r \in Fields
               /\ leaving' = [leaving EXCEPT ![d] = r]
               /\ \/ /\ leaving[d].pc = "close" /\ r.pc = "wipe"
                     /\ r.key = leaving[d].key /\ r.context = taken
                     /\ taken \notin open' \ unclosed'
                  \/ r = B!NotClosing /\ taken \notin open' \ unclosed'
  <2>1. PICK t : t = [leaving[d] EXCEPT !.pc = "wipe"]
    OBVIOUS
  <2>2. /\ t \in Fields /\ t.pc = "wipe" /\ t.key = leaving[d].key
        /\ t.context = leaving[d].context
    BY <1>1, <2>1
  <2>3. CASE B!CloseContext(d)
    <3>1. leaving' = [leaving EXCEPT ![d] = t]
      BY <2>1, <2>3 DEF B!CloseContext
    <3> QED
      BY <1>1, <2>2, <2>3, <3>1 DEF B!CloseContext
  <2>4. CASE B!CloseFails(d)
    <3>1. leaving' = [leaving EXCEPT ![d] = IF leaving[d].all THEN t ELSE B!NotClosing]
      BY <2>1, <2>4 DEF B!CloseFails, BrowserInv, BrowserTypes
    <3> QED
      BY <1>1, <2>2, <2>4, <3>1 DEF B!CloseFails
  <2>5. CASE B!Wipe(d)
    BY <1>1, <2>5 DEF B!Wipe, BrowserInv, CallsOK
  <2> QED
    BY <2>3, <2>4, <2>5
<1>3. /\ creating' = creating /\ contexts' = contexts /\ open' \subseteq open
      /\ crossed \subseteq crossed' /\ unclosed \subseteq unclosed'
      /\ open \ {taken} \subseteq open'
      /\ download' = download /\ verdict' = verdict
  BY DEF B!CloseContext, B!CloseFails, B!Wipe, B!Downloads
<1>4. BrowserTypes'
  BY <1>2, <1>3 DEF BrowserInv, BrowserTypes, B!CloseContext, B!CloseFails, B!Wipe
<1>5. CallsOK'
  <2>1. ASSUME NEW e \in Closer
        PROVE  /\ leaving'[e].pc = "none" => leaving'[e] = B!NotClosing
               /\ leaving'[e].context # NoContext => creating[leaving'[e].context].pc = "done"
               /\ leaving'[e].pc = "wipe" => leaving'[e].context \notin open' \ unclosed'
    <3>1. CASE e = d
      <4>1. leaving'[e] = r
        BY <1>2, <3>1 DEF BrowserInv, BrowserTypes
      <4>2. taken # NoContext => creating[taken].pc = "done"
        BY DEF BrowserInv, CallsOK
      <4>3. CASE r.pc = "wipe" /\ r.context = taken /\ taken \notin open' \ unclosed'
        BY <4>1, <4>2, <4>3
      <4>4. CASE r = B!NotClosing
        BY <4>1, <4>4 DEF B!NotClosing
      <4> QED
        BY <1>2, <4>3, <4>4
    <3>2. CASE e # d
      BY <1>2, <1>3, <3>2 DEF BrowserInv, BrowserTypes, CallsOK
    <3> QED
      BY <3>1, <3>2
  <2> QED
    BY <1>3, <2>1 DEF BrowserInv, CallsOK
<1>6. \/ partitions' = partitions
      \/ /\ partitions' = partitions \ {leaving[d].key}
         /\ B!Making(leaving[d].key) \subseteq crossed'
  <2>1. CASE B!CloseContext(d) \/ B!CloseFails(d)
    BY <2>1 DEF B!CloseContext, B!CloseFails
  <2>2. CASE B!Wipe(d)
    BY <2>2, Zenon DEF B!Wipe
  <2> QED
    BY <2>1, <2>2
<1>7. MetOK'
  <2>1. \A e \in Closer : leaving'[e].key \in {leaving[e].key, NoKey}
    BY <1>2 DEF BrowserInv, BrowserTypes, B!NotClosing
  <2>2. \A c \in Calls : c \in B!Making(creating[c].key) => creating[c].key \in Key
    BY DEF BrowserInv, BrowserTypes, CallsOK, B!Making
  <2>3. ASSUME NEW c \in Calls, c \in B!Making(creating[c].key)
        PROVE  /\ \A e \in B!Making(creating[c].key) : e = c \/ c \in crossed'
               /\ contexts[creating[c].key] # NoContext =>
                    c \in crossed' /\ contexts[creating[c].key] \in crossed'
               /\ \A e \in Closer : leaving'[e].key = creating[c].key => c \in crossed'
               /\ c \in crossed' \/ creating[c].key \in partitions'
    BY <1>3, <1>6, <2>1, <2>2, <2>3 DEF BrowserInv, MetOK, BrowserAssumption
  <2>4. ASSUME NEW c \in Calls, NEW k \in Key, contexts[k] = c
        PROVE  /\ \A e \in Closer : leaving'[e].key = k => c \in crossed'
               /\ c \in crossed' \/ k \in partitions'
    BY <1>3, <1>6, <2>1, <2>4 DEF BrowserInv, MetOK, BrowserAssumption
  <2> QED
    BY <1>3, <2>3, <2>4 DEF MetOK, B!Making
<1>8. WipedOK' /\ DownloadsOK'
  BY DownloadsStay DEF BrowserInv, WipedOK, B!CloseContext, B!CloseFails, B!Wipe
<1>9. B!OpenIsKnown'
  BY DEF BrowserInv, BrowserTypes, CallsOK, B!OpenIsKnown, BrowserAssumption,
     B!CloseContext, B!CloseFails, B!Wipe, B!NotClosing
<1> QED
  BY <1>4, <1>5, <1>7, <1>8, <1>9 DEF BrowserInv

\* Each step of the broker keeps it.
LEMMA NextBrowser == BrowserAssumption /\ BrowserInv /\ [B!Next]_(B!vars) => BrowserInv'
<1> SUFFICES ASSUME BrowserAssumption, BrowserInv, [B!Next]_(B!vars) PROVE BrowserInv'
  OBVIOUS
<1>1. CASE UNCHANGED B!vars
  BY <1>1 DEF B!vars, BrowserInv, BrowserTypes, CallsOK, MetOK, WipedOK, DownloadsOK,
     B!OpenIsKnown, B!Making
<1> QED
  BY <1>1, DownloadSteps, GetSteps, BeginSteps, MakingSteps, LeaveSteps, CloseContextSteps
     DEF B!Next

\* It is enough for what DesktopIsServed says of BrowserIsolation.
LEMMA BrowserKeeps == BrowserAssumption /\ BrowserInv => B!OpenIsKnown /\ B!DirectoriesFollow /\ B!OnlyCleanIsReleased
BY DEF BrowserInv, BrowserTypes, MetOK, WipedOK, DownloadsOK, B!DirectoriesFollow, B!OnlyCleanIsReleased, BrowserAssumption

-----------------------------------------------------------------------------
(* PipeServer.                                                             *)

I == INSTANCE PipeServer WITH stopped <- halted

\* The client of an accept loop is its own, and has no thread yet.
PeersOK ==
  /\ \A k \in I!Serve : accept[k] \in {"connected", "publish"} =>
       peer[k] \in Peer /\ conn[peer[k]] = "none"
  /\ \A k, n \in I!Serve : peer[k] \in Peer /\ peer[k] = peer[n] => k = n
  /\ \A k \in I!Serve : accept[k] \notin {"connected", "publish"} => peer[k] = NoPeer
  /\ \A k \in I!Serve : serving[k] = "none" => accept[k] = "none"

\* The threads, connections and clients keep their ranges.
PipeTypes ==
  /\ halted \in BOOLEAN /\ loop \in BOOLEAN /\ overlapped \in BOOLEAN
  /\ serving \in [I!Serve -> {"none", "waiting", "over"}]
  /\ accept \in
       [I!Serve -> {"none", "top", "listen", "connected", "publish", "ended"}]
  /\ peer \in [I!Serve -> Peer \cup {NoPeer}]
  /\ conn \in [Peer -> {"none", "toRead", "reading", "check", "handling",
                          "leaving", "gone"}]
  /\ registered \subseteq Peer /\ late \subseteq Peer
  /\ closing \in [waits : BOOLEAN, threads : SUBSET Peer]
  /\ after \in [Peer -> 0..2]

\* The event stays set while close waits, so what it does not join is late.
CloseOK == closing.waits => halted /\ registered \subseteq closing.threads \cup late

\* A connection that has handled a request since the event was set is not back
\* at its read.
AfterOK ==
  \A c \in Peer :
    /\ ~halted => after[c] = 0
    /\ after[c] <= 1 /\ (after[c] = 1 => conn[c] \in {"check", "leaving", "gone"})

\* Unless two calls of serve overlapped, at most one waits in its loop.
OneServe ==
  ~overlapped =>
    \A k, n \in I!Serve : serving[k] = "waiting" /\ serving[n] = "waiting" => k = n

\* What a step of the server preserves.
PipeInv ==
  /\ PipeTypes /\ PeersOK /\ CloseOK /\ AfterOK /\ OneServe
  /\ I!ThreadsAreKnown /\ I!ServedHasLoop

\* It holds where the server begins.
LEMMA InitPipe == NoPeer \notin Peer /\ I!Init => PipeInv
<1> SUFFICES ASSUME NoPeer \notin Peer, I!Init PROVE PipeInv
  OBVIOUS
<1>1. closing.waits = FALSE /\ closing \in [waits : BOOLEAN, threads : SUBSET Peer]
  BY DEF I!Init
<1>2. PeersOK
  BY DEF I!Init, PeersOK
<1>3. I!ThreadsAreKnown /\ I!ServedHasLoop
  BY DEF I!Init, I!ThreadsAreKnown, I!ServedHasLoop, I!Open
<1>4. after \in [Peer -> 0..2] /\ \A c \in Peer : after[c] = 0
  BY DEF I!Init
<1>5. /\ serving \in [I!Serve -> {"none", "waiting", "over"}]
      /\ \A k \in I!Serve : serving[k] = "none"
      /\ accept \in [I!Serve -> {"none", "top", "listen", "connected", "publish", "ended"}]
      /\ peer \in [I!Serve -> Peer \cup {NoPeer}]
      /\ conn \in [Peer -> {"none", "toRead", "reading", "check", "handling", "leaving", "gone"}]
  BY DEF I!Init
<1>6. /\ halted = FALSE /\ loop = FALSE /\ overlapped = FALSE
      /\ registered = {} /\ late = {}
  BY DEF I!Init
<1>7. PipeTypes
  BY <1>1, <1>4, <1>5, <1>6 DEF PipeTypes
<1>8. CloseOK
  BY <1>1 DEF CloseOK
<1>9. AfterOK
  BY <1>4 DEF AfterOK
<1>10. OneServe
  BY <1>5 DEF OneServe
<1> QED
  BY <1>2, <1>3, <1>7, <1>8, <1>9, <1>10 DEF PipeInv

\* serve, stop and the end of a serve.
LEMMA ServeSteps ==
  ASSUME NoPeer \notin Peer, PipeInv, NEW k \in I!Serve,
         I!BeginServe(k) \/ I!EndServe(k) \/ I!CancelServe(k)
  PROVE  PipeInv'
<1>1. CASE I!BeginServe(k)
  <2>1. /\ halted' = FALSE /\ loop' = TRUE /\ after' = [c \in Peer |-> 0]
        /\ serving' = [serving EXCEPT ![k] = "waiting"]
        /\ accept' = [accept EXCEPT ![k] = "top"]
        /\ peer' = peer /\ conn' = conn /\ registered' = registered
        /\ closing' = closing /\ late' = late /\ ~closing.waits
        /\ overlapped' = (overlapped \/ \E j \in I!Serve : serving[j] = "waiting")
    BY <1>1 DEF I!BeginServe
  <2>2. PeersOK'
    BY <1>1, <2>1 DEF PipeInv, PipeTypes, PeersOK, I!BeginServe
  <2>3. I!ThreadsAreKnown' /\ I!ServedHasLoop'
    BY <2>1 DEF PipeInv, I!ThreadsAreKnown, I!ServedHasLoop, I!Open
  <2>4. OneServe'
    BY <2>1 DEF PipeInv, PipeTypes, OneServe
  <2>5. after' \in [Peer -> 0..2] /\ \A c \in Peer : after'[c] = 0
    BY <2>1
  <2>6. /\ serving' \in [I!Serve -> {"none", "waiting", "over"}]
        /\ accept' \in [I!Serve -> {"none", "top", "listen", "connected", "publish", "ended"}]
        /\ overlapped' \in BOOLEAN
    BY <2>1 DEF PipeInv, PipeTypes
  <2>7. PipeTypes'
    BY <2>1, <2>5, <2>6 DEF PipeInv, PipeTypes
  <2>8. CloseOK'
    BY <2>1 DEF CloseOK
  <2>9. AfterOK'
    BY <2>5 DEF AfterOK
  <2> QED
    BY <2>2, <2>3, <2>4, <2>7, <2>8, <2>9 DEF PipeInv
<1>2. CASE I!EndServe(k)
  BY <1>2 DEF I!EndServe, PipeInv, PipeTypes, PeersOK, CloseOK, AfterOK, OneServe, I!ThreadsAreKnown, I!ServedHasLoop, I!Open
<1>3. CASE I!CancelServe(k)
  BY <1>3 DEF I!CancelServe, I!Cancelled, PipeInv, PipeTypes, PeersOK, CloseOK, AfterOK, OneServe, I!ThreadsAreKnown, I!ServedHasLoop, I!Open
<1> QED
  BY <1>1, <1>2, <1>3

\* close, before and after it joins the threads.
LEMMA CloseSteps ==
  ASSUME NoPeer \notin Peer, PipeInv, I!Stop \/ I!BeginClose \/ I!EndClose \/ UNCHANGED I!vars
  PROVE  PipeInv'
<1>1. CASE I!Stop
  BY <1>1 DEF I!Stop, I!Cancelled, PipeInv, PipeTypes, PeersOK, CloseOK, AfterOK, OneServe, I!ThreadsAreKnown, I!ServedHasLoop, I!Open
<1>2. CASE I!BeginClose
  BY <1>2 DEF I!BeginClose, I!Cancelled, PipeInv, PipeTypes, PeersOK, CloseOK, AfterOK, OneServe, I!ThreadsAreKnown, I!ServedHasLoop, I!Open
<1>3. CASE I!EndClose
  BY <1>3 DEF I!EndClose, PipeInv, PipeTypes, PeersOK, CloseOK, AfterOK, OneServe, I!ThreadsAreKnown, I!ServedHasLoop, I!Open
<1>4. CASE UNCHANGED I!vars
  BY <1>4 DEF I!vars, PipeInv, PipeTypes, PeersOK, CloseOK, AfterOK, OneServe, I!ThreadsAreKnown, I!ServedHasLoop, I!Open
<1> QED
  BY <1>1, <1>2, <1>3, <1>4

\* The accept loop.
LEMMA AcceptSteps ==
  ASSUME NoPeer \notin Peer, PipeInv, NEW k \in I!Serve,
         \/ I!CreatePipe(k) \/ I!CreateFails(k) \/ I!StopListening(k)
         \/ I!CheckStop(k) \/ I!Publish(k) \/ I!AcceptFails(k)
         \/ \E c \in Peer : I!Connect(k, c)
  PROVE  PipeInv'
<1>1. CASE I!CreatePipe(k) \/ I!CreateFails(k) \/ I!StopListening(k)
  BY <1>1 DEF I!CreatePipe, I!CreateFails, I!StopListening, I!LoopOnly,
     PipeInv, PipeTypes, PeersOK, CloseOK, AfterOK, OneServe, I!ThreadsAreKnown, I!ServedHasLoop, I!Open
<1>2. CASE I!CheckStop(k)
  BY <1>2 DEF I!CheckStop, I!LoopOnly, PipeInv, PipeTypes, PeersOK, CloseOK, AfterOK, OneServe, I!ThreadsAreKnown, I!ServedHasLoop, I!Open
<1>3. CASE I!Publish(k)
  BY <1>3 DEF I!Publish, I!LoopOnly, PipeInv, PipeTypes, PeersOK, CloseOK, AfterOK, OneServe, I!ThreadsAreKnown, I!ServedHasLoop, I!Open
<1>4. CASE I!AcceptFails(k)
  BY <1>4 DEF I!AcceptFails, I!LoopOnly, PipeInv, PipeTypes, PeersOK, CloseOK, AfterOK, OneServe, I!ThreadsAreKnown, I!ServedHasLoop, I!Open
<1>5. ASSUME NEW c \in Peer, I!Connect(k, c)
      PROVE  PipeInv'
  BY <1>5 DEF I!Connect, I!LoopOnly, PipeInv, PipeTypes, PeersOK, CloseOK, AfterOK, OneServe, I!ThreadsAreKnown, I!ServedHasLoop, I!Open
<1> QED
  BY <1>1, <1>2, <1>3, <1>4, <1>5

\* A connection's thread.
LEMMA ConnSteps ==
  ASSUME NoPeer \notin Peer, PipeInv, NEW c \in Peer,
         \/ I!EnterRead(c) \/ I!Handshake(c) \/ I!CheckLoop(c) \/ I!Request(c)
         \/ I!Handle(c) \/ I!Fail(c) \/ I!Leave(c)
  PROVE  PipeInv'
<1>1. CASE I!EnterRead(c) \/ I!Handshake(c) \/ I!CheckLoop(c) \/ I!Request(c) \/ I!Fail(c)
  BY <1>1 DEF I!EnterRead, I!Handshake, I!CheckLoop, I!Request, I!Fail, I!ConnOnly,
     PipeInv, PipeTypes, PeersOK, CloseOK, AfterOK, OneServe, I!ThreadsAreKnown, I!ServedHasLoop, I!Open
<1>2. CASE I!Handle(c)
  BY <1>2 DEF I!Handle, I!ConnOnly, PipeInv, PipeTypes, PeersOK, CloseOK, AfterOK, OneServe, I!ThreadsAreKnown, I!ServedHasLoop, I!Open
<1>3. CASE I!Leave(c)
  BY <1>3 DEF I!Leave, I!ConnOnly, PipeInv, PipeTypes, PeersOK, CloseOK, AfterOK, OneServe, I!ThreadsAreKnown, I!ServedHasLoop, I!Open
<1> QED
  BY <1>1, <1>2, <1>3

\* Each step of the server keeps it.
LEMMA NextPipe == NoPeer \notin Peer /\ PipeInv /\ [I!Next]_(I!vars) => PipeInv'
BY ServeSteps, CloseSteps, AcceptSteps, ConnSteps DEF I!Next

\* It is enough for what DesktopIsServed says of PipeServer.
LEMMA PipeServes == PipeInv => I!ThreadsAreKnown /\ I!StopIsSeen /\ I!ServedHasLoop
BY DEF PipeInv, PipeTypes, AfterOK, I!StopIsSeen

-----------------------------------------------------------------------------
(* RateLimiter.                                                            *)

L == INSTANCE RateLimiter

\* Limits and windows are positive, as _validate_config demands.
LimiterAssumption ==
  Config \subseteq [Route -> [limit : Nat \ {0}, window : Nat \ {0}]] /\ MaxTime \in Nat

\* The times after m, and the times in a bucket, of which there may be none.
After(m) == {t \in L!Time : t > m}
BucketTimes(stored, c, r) ==
  IF c \in DOMAIN stored /\ r \in DOMAIN stored[c] THEN stored[c][r] ELSE <<>>

\* The times q of a bucket ascend up to now; of the requests in h that count for
\* a window w, now or later, it knows as many, and they are within the limit.
BucketOK(q, h, w, limit, n) ==
  /\ q \in Seq(L!Time) /\ Ascending(q) /\ Range(q) \subseteq 0..n
  /\ h \in Seq(L!Time)
  /\ \A m \in Int : m >= n - w => Len(Keep(h, After(m))) <= Len(Keep(q, After(m)))
  /\ Len(Keep(h, After(n - w))) <= limit

BucketsOK(stored, h, conf, n) ==
  \A c \in Client, r \in Route :
    BucketOK(BucketTimes(stored, c, r), h[<<c, r>>], conf[r].window, conf[r].limit, n)

\* The dictionary of the requests holds lists of times.
KnownTypes(stored) ==
  /\ DOMAIN stored \subseteq Client
  /\ \A c \in DOMAIN stored :
       /\ DOMAIN stored[c] \subseteq Route
       /\ \A r \in DOMAIN stored[c] : stored[c][r] \in Seq(L!Time)

LimiterInv ==
  /\ now \in L!Time /\ config \in Config /\ KnownTypes(requests)
  /\ history \in [Client \X Route -> Seq(L!Time)]
  /\ BucketsOK(requests, history, config, now)

\* The module keeps as this one does.
LEMMA LimiterSame ==
  \A times, r : L!InWindow(times, r) = Keep(times, After(now - config[r].window))
BY DEF L!InWindow, After, L!Keep, Keep

\* Of what is kept, more is kept after an earlier time.
LEMMA LaterKeepsLess ==
  ASSUME NEW q \in Seq(L!Time), NEW m \in Int, NEW n \in Int, m <= n
  PROVE  /\ Keep(Keep(q, After(m)), After(n)) = Keep(q, After(n))
         /\ Keep(q, After(m)) \in Seq(L!Time)
         /\ Len(Keep(q, After(n))) <= Len(Keep(q, After(m)))
         /\ Len(Keep(q, After(n))) \in Nat /\ Len(Keep(q, After(m))) \in Nat
<1>1. After(n) \subseteq After(m)
  BY DEF After, L!Time
<1>2. Keep(Keep(q, After(m)), After(n)) = Keep(q, After(n))
  BY <1>1, KeepKeep
<1>3. Keep(q, After(m)) \in Seq(L!Time) /\ Len(Keep(q, After(m))) \in Nat
  BY KeepSeq
<1>4. /\ Len(Keep(Keep(q, After(m)), After(n))) \in Nat
      /\ Len(Keep(Keep(q, After(m)), After(n))) <= Len(Keep(q, After(m)))
  BY <1>3, KeepSeq
<1> QED
  BY <1>2, <1>3, <1>4

\* What is outside the window may be trimmed.
LEMMA BucketTrimmed ==
  ASSUME NEW q, NEW h, NEW w \in Nat, NEW limit \in Nat, NEW n \in L!Time, MaxTime \in Nat,
         BucketOK(q, h, w, limit, n)
  PROVE  BucketOK(Keep(q, After(n - w)), h, w, limit, n)
<1> DEFINE e == Keep(q, After(n - w))
<1>1. n \in Nat /\ n - w \in Int /\ L!Time \subseteq Nat
  BY DEF L!Time
<1>2. /\ q \in Seq(L!Time) /\ Ascending(q) /\ Range(q) \subseteq 0..n /\ h \in Seq(L!Time)
      /\ \A m \in Int : m >= n - w => Len(Keep(h, After(m))) <= Len(Keep(q, After(m)))
      /\ Len(Keep(h, After(n - w))) <= limit
  BY DEF BucketOK
<1>3. e \in Seq(L!Time) /\ Range(e) \subseteq Range(q)
  BY <1>2, KeepSeq
<1>4. Ascending(e)
  <2>1. q \in Seq(Nat)
    BY <1>1, <1>2, WiderSeq
  <2> QED
    BY <1>2, <2>1, KeepAscends
<1>5. \A m \in Int : m >= n - w => Keep(e, After(m)) = Keep(q, After(m))
  <2> SUFFICES ASSUME NEW m \in Int, m >= n - w
               PROVE  Keep(e, After(m)) = Keep(q, After(m))
    OBVIOUS
  <2>1. n - w <= m
    BY <1>1
  <2> QED
    BY <1>1, <1>2, <2>1, LaterKeepsLess
<1> HIDE DEF e
<1>6. \A m \in Int : m >= n - w => Len(Keep(h, After(m))) <= Len(Keep(e, After(m)))
  BY <1>2, <1>5
<1>7. Range(e) \subseteq 0..n
  BY <1>2, <1>3
<1>8. BucketOK(e, h, w, limit, n)
  BY <1>2, <1>3, <1>4, <1>6, <1>7 DEF BucketOK
<1> QED
  BY <1>8 DEF e

\* A request below the limit is counted on both sides.
LEMMA BucketGrows ==
  ASSUME NEW q, NEW h, NEW w \in Nat, NEW limit \in Nat, NEW n \in L!Time, MaxTime \in Nat,
         BucketOK(q, h, w, limit, n), Len(Keep(q, After(n - w))) < limit
  PROVE  BucketOK(Append(Keep(q, After(n - w)), n), Append(h, n), w, limit, n)
<1> DEFINE e == Keep(q, After(n - w))
           f == Append(e, n)
           g == Append(h, n)
<1>1. n \in Nat /\ n - w \in Int /\ n - w >= n - w /\ n <= n /\ L!Time \subseteq Nat
  BY DEF L!Time
<1>2. BucketOK(e, h, w, limit, n)
  BY BucketTrimmed
<1>3. /\ e \in Seq(L!Time) /\ Ascending(e) /\ Range(e) \subseteq 0..n /\ h \in Seq(L!Time)
      /\ \A m \in Int : m >= n - w => Len(Keep(h, After(m))) <= Len(Keep(e, After(m)))
  BY <1>2 DEF BucketOK
<1>4. q \in Seq(L!Time) /\ Len(Keep(h, After(n - w))) <= Len(e) /\ Len(e) < limit
  BY <1>1 DEF BucketOK
<1> HIDE DEF e
<1>5. f \in Seq(L!Time) /\ g \in Seq(L!Time) /\ Range(f) = Range(e) \cup {n} /\ n \in 0..n
  <2>1. f \in Seq(L!Time) /\ g \in Seq(L!Time)
    BY <1>3, AppendProperties
  <2>2. Range(f) = Range(e) \cup {n}
    BY <1>3, RangeAppended
  <2> QED
    BY <1>1, <2>1, <2>2
<1>6. Ascending(f)
  <2>1. e \in Seq(Nat)
    BY <1>1, <1>3, WiderSeq
  <2>2. \A y \in Range(e) : y <= n
    BY <1>1, <1>3
  <2> QED
    BY <1>1, <1>3, <2>1, <2>2, AscendingAppended
<1>7. \A m \in Int :
        /\ Keep(f, After(m)) = IF n \in After(m) THEN Append(Keep(e, After(m)), n)
                                                 ELSE Keep(e, After(m))
        /\ Keep(g, After(m)) = IF n \in After(m) THEN Append(Keep(h, After(m)), n)
                                                 ELSE Keep(h, After(m))
        /\ Keep(e, After(m)) \in Seq(L!Time) /\ Keep(h, After(m)) \in Seq(L!Time)
        /\ Len(Keep(e, After(m))) \in Nat /\ Len(Keep(h, After(m))) \in Nat
  <2> TAKE m \in Int
  <2>1. Keep(f, After(m)) = IF n \in After(m) THEN Append(Keep(e, After(m)), n)
                                              ELSE Keep(e, After(m))
    BY <1>3, KeepAppend
  <2>2. Keep(g, After(m)) = IF n \in After(m) THEN Append(Keep(h, After(m)), n)
                                              ELSE Keep(h, After(m))
    BY <1>3, KeepAppend
  <2>3. /\ Keep(e, After(m)) \in Seq(L!Time) /\ Keep(h, After(m)) \in Seq(L!Time)
        /\ Len(Keep(e, After(m))) \in Nat /\ Len(Keep(h, After(m))) \in Nat
    BY <1>3, KeepSeq
  <2> QED
    BY <2>1, <2>2, <2>3
<1>8. \A m \in Int :
        /\ Len(Keep(f, After(m))) = IF n \in After(m) THEN Len(Keep(e, After(m))) + 1
                                                      ELSE Len(Keep(e, After(m)))
        /\ Len(Keep(g, After(m))) = IF n \in After(m) THEN Len(Keep(h, After(m))) + 1
                                                      ELSE Len(Keep(h, After(m)))
  <2> HIDE DEF f, g
  <2>1. \A z \in Seq(L!Time) : Len(Append(z, n)) = Len(z) + 1
    BY AppendProperties
  <2> QED
    BY <1>7, <2>1
<1> HIDE DEF f, g
<1>9. \A m \in Int : m >= n - w => Len(Keep(g, After(m))) <= Len(Keep(f, After(m)))
  <2> SUFFICES ASSUME NEW m \in Int, m >= n - w
               PROVE  Len(Keep(g, After(m))) <= Len(Keep(f, After(m)))
    OBVIOUS
  <2>1. /\ Len(Keep(h, After(m))) <= Len(Keep(e, After(m)))
        /\ Len(Keep(e, After(m))) \in Nat /\ Len(Keep(h, After(m))) \in Nat
    BY <1>3, <1>7
  <2>2. CASE n \in After(m)
    BY <1>8, <2>1, <2>2
  <2>3. CASE n \notin After(m)
    BY <1>8, <2>1, <2>3
  <2> QED
    BY <2>2, <2>3
<1>10. Len(Keep(g, After(n - w))) <= limit
  <2>1. Len(e) \in Nat /\ Len(Keep(h, After(n - w))) \in Nat
    BY <1>1, <1>3, <1>7, LenProperties
  <2> QED
    BY <1>1, <1>4, <1>8, <2>1
<1>11. BucketOK(f, g, w, limit, n)
  BY <1>3, <1>5, <1>6, <1>9, <1>10 DEF BucketOK
<1> QED
  BY <1>11 DEF e, f, g

\* With time less counts.
LEMMA BucketAges ==
  ASSUME NEW q, NEW h, NEW w \in Nat, NEW limit \in Nat, NEW n \in L!Time, MaxTime \in Nat,
         BucketOK(q, h, w, limit, n), NEW k, k = n + 1
  PROVE  BucketOK(q, h, w, limit, k)
<1>1. /\ n \in Nat /\ k \in Nat /\ n - w \in Int /\ k - w \in Int /\ n - w <= k - w
      /\ 0..n \subseteq 0..k
      /\ \A m \in Int : m >= k - w => m >= n - w
  BY DEF L!Time
<1>2. /\ q \in Seq(L!Time) /\ Ascending(q) /\ Range(q) \subseteq 0..n /\ h \in Seq(L!Time)
      /\ \A m \in Int : m >= n - w => Len(Keep(h, After(m))) <= Len(Keep(q, After(m)))
      /\ Len(Keep(h, After(n - w))) <= limit
  BY DEF BucketOK
<1>3. /\ Len(Keep(h, After(k - w))) <= Len(Keep(h, After(n - w)))
      /\ Len(Keep(h, After(k - w))) \in Nat /\ Len(Keep(h, After(n - w))) \in Nat
  BY <1>1, <1>2, LaterKeepsLess
<1>4. Len(Keep(h, After(k - w))) <= limit
  BY <1>2, <1>3
<1>5. \A m \in Int : m >= k - w => Len(Keep(h, After(m))) <= Len(Keep(q, After(m)))
  BY <1>1, <1>2
<1>6. Range(q) \subseteq 0..k
  BY <1>1, <1>2
<1> QED
  BY <1>2, <1>4, <1>5, <1>6 DEF BucketOK

\* A bucket whose last request is outside the window may be forgotten.
LEMMA BucketForgotten ==
  ASSUME NEW q, NEW h, NEW w \in Nat, NEW limit \in Nat, NEW n \in L!Time, MaxTime \in Nat,
         BucketOK(q, h, w, limit, n), q = <<>> \/ q[Len(q)] <= n - w
  PROVE  BucketOK(<<>>, h, w, limit, n)
<1>1. n \in Nat /\ n - w \in Int /\ L!Time \subseteq Nat
  BY DEF L!Time
<1>2. /\ q \in Seq(L!Time) /\ Ascending(q) /\ Range(q) \subseteq 0..n /\ h \in Seq(L!Time)
      /\ \A m \in Int : m >= n - w => Len(Keep(h, After(m))) <= Len(Keep(q, After(m)))
      /\ Len(Keep(h, After(n - w))) <= limit
  BY DEF BucketOK
<1>3. \A m \in Int : m >= n - w => Keep(q, After(m)) = <<>>
  <2> SUFFICES ASSUME NEW m \in Int, m >= n - w, q # <<>>
               PROVE  Keep(q, After(m)) = <<>>
    BY KeepEmpty
  <2>1. Len(q) \in Nat /\ Len(q) >= 1 /\ Range(q) = {q[i] : i \in 1..Len(q)}
    BY <1>2, LenProperties, EmptySeq, RangeEquality
  <2>2. \A i \in 1..Len(q) : q[i] \in Nat /\ q[i] <= q[Len(q)]
    <3>1. \A i \in 1..Len(q) : i <= Len(q) /\ Len(q) \in 1..Len(q)
      BY <2>1
    <3>2. \A i \in 1..Len(q) : q[i] \in L!Time
      BY <1>2, ElementOfSeq
    <3> QED
      BY <1>1, <1>2, <3>1, <3>2 DEF Ascending
  <2>3. q[Len(q)] <= m /\ q[Len(q)] \in Nat
    <3>1. Len(q) \in 1..Len(q) /\ q[Len(q)] <= n - w
      BY <2>1
    <3> QED
      BY <1>1, <2>2, <3>1
  <2>4. Range(q) \cap After(m) = {}
    BY <2>1, <2>2, <2>3 DEF After
  <2>5. Keep(q, After(m)) \in Seq(L!Time) /\ Range(Keep(q, After(m))) = {}
    BY <1>2, <2>4, KeepSeq
  <2> QED
    BY <2>5, EmptyRange
<1>4. <<>> \in Seq(L!Time) /\ Ascending(<<>>) /\ Range(<<>>) \subseteq 0..n
  BY OfEmpty
<1>5. \A m \in Int : Keep(<<>>, After(m)) = <<>>
  BY KeepEmpty
<1>6. \A m \in Int : m >= n - w => Len(Keep(h, After(m))) <= Len(Keep(<<>>, After(m)))
  BY <1>2, <1>3, <1>5
<1> QED
  BY <1>2, <1>4, <1>6 DEF BucketOK

\* Nothing has counted yet for a new configuration.
LEMMA BucketReset ==
  ASSUME NEW q, NEW w \in Nat, NEW limit \in Nat, NEW n \in L!Time, MaxTime \in Nat,
         q \in Seq(L!Time), Ascending(q), Range(q) \subseteq 0..n
  PROVE  BucketOK(q, <<>>, w, limit, n)
<1>1. \A kept : Keep(<<>>, kept) = <<>> /\ Len(<<>>) = 0 /\ <<>> \in Seq(L!Time)
  BY KeepEmpty, OfEmpty
<1>2. \A m \in Int : Len(Keep(q, After(m))) \in Nat
  BY KeepSeq
<1>3. \A kept : Len(Keep(<<>>, kept)) = 0
  BY <1>1
<1>4. \A m \in Int : Len(Keep(<<>>, After(m))) <= Len(Keep(q, After(m)))
  BY <1>2, <1>3
<1>5. Len(Keep(<<>>, After(n - w))) <= limit
  BY <1>3
<1> QED
  BY <1>1, <1>4, <1>5 DEF BucketOK

\* What _is_allowed reads and stores in the dictionary.
LEMMA StoredTimes ==
  ASSUME KnownTypes(requests), NEW c \in Client, NEW r \in Route, NEW times \in Seq(L!Time)
  PROVE  /\ L!Recent(c, r) = Keep(BucketTimes(requests, c, r), After(now - config[r].window))
         /\ KnownTypes(L!Stored(c, r, times))
         /\ \A d \in Client, k \in Route :
              BucketTimes(L!Stored(c, r, times), d, k)
                = IF d = c /\ k = r THEN times ELSE BucketTimes(requests, d, k)
<1> DEFINE b == L!Buckets(c)
           s == L!Stored(c, r, times)
<1>1. b = IF c \in DOMAIN requests THEN requests[c] ELSE L!NoTimes
  BY DEF L!Buckets, L!Get
<1>2. DOMAIN L!NoTimes = {}
  BY DEF L!NoTimes
<1>3. L!Get(b, r, <<>>) = BucketTimes(requests, c, r)
  BY <1>1, <1>2 DEF L!Get, BucketTimes
<1>4. L!Recent(c, r) = Keep(BucketTimes(requests, c, r), After(now - config[r].window))
  BY <1>3, LimiterSame DEF L!Recent
<1>5. /\ DOMAIN s = DOMAIN requests \cup {c}
      /\ \A d \in DOMAIN s \ {c} : s[d] = requests[d]
      /\ DOMAIN s[c] = DOMAIN b \cup {r} /\ s[c][r] = times
      /\ \A k \in DOMAIN b \ {r} : s[c][k] = b[k]
  BY DEF L!Stored, L!Put
<1> HIDE DEF b, s
<1>6. DOMAIN b \subseteq Route /\ \A k \in DOMAIN b : b[k] \in Seq(L!Time)
  BY <1>1, <1>2 DEF KnownTypes
<1>7. KnownTypes(s)
  <2>1. DOMAIN s \subseteq Client
    BY <1>5 DEF KnownTypes
  <2>2. ASSUME NEW d \in DOMAIN s
        PROVE  DOMAIN s[d] \subseteq Route /\ \A k \in DOMAIN s[d] : s[d][k] \in Seq(L!Time)
    <3>1. CASE d = c
      BY <1>5, <1>6, <3>1
    <3>2. CASE d # c
      BY <1>5, <3>2 DEF KnownTypes
    <3> QED
      BY <3>1, <3>2
  <2> QED
    BY <2>1, <2>2 DEF KnownTypes
<1>8. ASSUME NEW d \in Client, NEW k \in Route
      PROVE  BucketTimes(s, d, k)
               = IF d = c /\ k = r THEN times ELSE BucketTimes(requests, d, k)
  <2>1. CASE d # c
    BY <1>5, <2>1 DEF BucketTimes
  <2>2. CASE d = c /\ k = r
    BY <1>5, <2>2 DEF BucketTimes
  <2>3. CASE d = c /\ k # r
    BY <1>1, <1>2, <1>5, <2>3 DEF BucketTimes
  <2> QED
    BY <2>1, <2>2, <2>3
<1> QED
  BY <1>4, <1>7, <1>8 DEF s

\* A refused request trims its bucket.
LEMMA RefusedStep ==
  ASSUME LimiterAssumption, LimiterInv, NEW c \in Client, NEW r \in Route,
         requests' = L!Stored(c, r, L!Recent(c, r)), UNCHANGED <<now, config, history>>
  PROVE  LimiterInv'
<1> DEFINE q == BucketTimes(requests, c, r)
           e == Keep(q, After(now - config[r].window))
<1>1. /\ now \in L!Time /\ config \in Config /\ KnownTypes(requests) /\ MaxTime \in Nat
      /\ history \in [Client \X Route -> Seq(L!Time)]
      /\ BucketsOK(requests, history, config, now)
  BY DEF LimiterInv, LimiterAssumption
<1>2. \A k \in Route : config[k].limit \in Nat /\ config[k].window \in Nat
  BY <1>1 DEF LimiterAssumption
<1>3. BucketOK(e, history[<<c, r>>], config[r].window, config[r].limit, now)
  BY <1>1, <1>2, BucketTrimmed DEF BucketsOK
<1>4. e \in Seq(L!Time)
  BY <1>3 DEF BucketOK
<1>5. L!Recent(c, r) = e
  BY <1>1, <1>4, StoredTimes
<1> HIDE DEF e
<1> DEFINE s == L!Stored(c, r, e)
<1>6. /\ requests' = s /\ KnownTypes(s)
      /\ \A d \in Client, k \in Route :
           BucketTimes(s, d, k) = IF d = c /\ k = r THEN e ELSE BucketTimes(requests, d, k)
  BY <1>1, <1>4, <1>5, StoredTimes
<1> HIDE DEF s
<1>7. BucketsOK(s, history, config, now)
  BY <1>1, <1>3, <1>6 DEF BucketsOK
<1> QED
  BY <1>1, <1>6, <1>7 DEF LimiterInv

\* A bucket that was evicted counts no more, or its history was given up.
LEMMA EvictedBucket ==
  ASSUME LimiterAssumption, now \in L!Time, config \in Config, NEW stored, KnownTypes(stored),
         NEW c \in Client, NEW k \in Route, NEW r \in Route, NEW h,
         BucketOK(BucketTimes(stored, c, k), h, config[k].window, config[k].limit, now),
         c \in L!Stale(stored, r), config[k].window <= config[r].window
  PROVE  BucketOK(<<>>, h, config[k].window, config[k].limit, now)
<1> DEFINE q == BucketTimes(stored, c, k)
           w == config[k].window
<1>1. /\ w \in Nat /\ config[k].limit \in Nat /\ config[r].window \in Nat
      /\ MaxTime \in Nat /\ now \in Nat
  BY DEF LimiterAssumption, L!Time
<1>2. q = <<>> \/ q[Len(q)] < now - config[r].window
  BY DEF L!Stale, BucketTimes
<1>3. q \in Seq(L!Time)
  BY DEF BucketOK
<1> HIDE DEF q
<1>4. q # <<>> => q[Len(q)] \in Nat
  <2> SUFFICES ASSUME q # <<>> PROVE q[Len(q)] \in Nat
    OBVIOUS
  <2>1. Len(q) \in 1..Len(q)
    BY <1>3, EmptySeq, LenProperties
  <2>2. q[Len(q)] \in L!Time
    BY <1>3, <2>1, ElementOfSeq
  <2> QED
    BY <2>2 DEF L!Time
<1>5. q = <<>> \/ q[Len(q)] <= now - w
  BY <1>1, <1>2, <1>4
<1>6. BucketOK(q, h, w, config[k].limit, now)
  BY DEF q
<1> HIDE DEF w
<1>7. BucketOK(<<>>, h, w, config[k].limit, now)
  BY <1>1, <1>5, <1>6, BucketForgotten
<1> QED
  BY <1>7 DEF w

\* An allowed request is counted, and may have quiet clients forgotten.
LEMMA AllowedStep ==
  ASSUME LimiterAssumption, LimiterInv, NEW c \in Client, NEW r \in Route,
         Len(L!Recent(c, r)) < config[r].limit,
         NEW stored,
         stored = L!Evicted(L!Stored(c, r, Append(L!Recent(c, r), now)), r),
         requests' = stored, history' = L!Remembered(stored, c, r),
         UNCHANGED <<now, config>>
  PROVE  LimiterInv'
<1> DEFINE q == BucketTimes(requests, c, r)
           e == Keep(q, After(now - config[r].window))
           f == Append(e, now)
           s == L!Stored(c, r, f)
           Held(d, k) == IF d = c /\ k = r THEN Append(history[<<c, r>>], now)
                                           ELSE history[<<d, k>>]
<1>1. /\ now \in L!Time /\ config \in Config /\ KnownTypes(requests) /\ MaxTime \in Nat
      /\ history \in [Client \X Route -> Seq(L!Time)]
      /\ BucketsOK(requests, history, config, now)
  BY DEF LimiterInv, LimiterAssumption
<1>2. \A k \in Route : config[k].limit \in Nat /\ config[k].window \in Nat
  BY <1>1 DEF LimiterAssumption
<1>3. BucketOK(q, history[<<c, r>>], config[r].window, config[r].limit, now)
  BY <1>1 DEF BucketsOK
<1>4. e \in Seq(L!Time)
  <2>1. q \in Seq(L!Time)
    BY <1>3 DEF BucketOK
  <2> QED
    BY <2>1, KeepSeq
<1>5. L!Recent(c, r) = e
  BY <1>1, <1>4, StoredTimes
<1>6. BucketOK(f, Append(history[<<c, r>>], now), config[r].window, config[r].limit, now)
  BY <1>1, <1>2, <1>3, <1>5, BucketGrows
<1>7. f \in Seq(L!Time) /\ f[Len(f)] = now /\ f # <<>>
  BY <1>1, <1>4, AppendProperties, EmptySeq
<1> HIDE DEF e, f
<1>8. /\ KnownTypes(s)
      /\ \A d \in Client, k \in Route :
           BucketTimes(s, d, k) = IF d = c /\ k = r THEN f ELSE BucketTimes(requests, d, k)
  BY <1>1, <1>7, StoredTimes
<1>9. c \in DOMAIN s /\ r \in DOMAIN s[c] /\ s[c][r] = f
  BY DEF L!Stored, L!Put
<1> HIDE DEF s
<1>10. \A d \in Client, k \in Route :
         BucketOK(BucketTimes(s, d, k), Held(d, k), config[k].window, config[k].limit, now)
  BY <1>1, <1>6, <1>8 DEF BucketsOK
<1>11. stored = L!Evicted(s, r)
  BY <1>5 DEF s, f
<1>12. c \notin L!Stale(s, r)
  <2> SUFFICES ASSUME c \in L!Stale(s, r) PROVE FALSE
    OBVIOUS
  <2>1. f = <<>> \/ f[Len(f)] < now - config[r].window
    BY <1>9 DEF L!Stale
  <2> QED
    BY <1>1, <1>2, <1>7, <2>1 DEF L!Time
<1>13. /\ DOMAIN stored \subseteq DOMAIN s /\ \A d \in DOMAIN stored : stored[d] = s[d]
       /\ \A d \in DOMAIN s \ DOMAIN stored : d \in L!Stale(s, r)
  BY <1>11 DEF L!Evicted
<1>14. c \in DOMAIN stored
  BY <1>9, <1>12, <1>13
<1>15. KnownTypes(stored)
  BY <1>8, <1>13 DEF KnownTypes
<1>16. \A d \in Client, k \in Route :
         history'[<<d, k>>] = IF d = c /\ k = r THEN Append(history[<<c, r>>], now)
                              ELSE IF d \notin DOMAIN stored /\ config[k].window > config[r].window
                                   THEN <<>> ELSE history[<<d, k>>]
  BY DEF L!Remembered
<1>17. history' \in [Client \X Route -> Seq(L!Time)]
  <2>1. \A x \in Client \X Route : /\ history[x] \in Seq(L!Time)
                                   /\ Append(history[x], now) \in Seq(L!Time)
                                   /\ <<>> \in Seq(L!Time)
    BY <1>1, AppendProperties, EmptySeq
  <2> QED
    BY <2>1 DEF L!Remembered
<1>18. ASSUME NEW d \in Client, NEW k \in Route
       PROVE  BucketOK(BucketTimes(stored, d, k), history'[<<d, k>>], config[k].window,
                       config[k].limit, now)
  <2>1. CASE d \in DOMAIN stored
    <3>1. BucketTimes(stored, d, k) = BucketTimes(s, d, k)
      BY <1>13, <2>1 DEF BucketTimes
    <3>2. history'[<<d, k>>] = Held(d, k)
      BY <1>16, <2>1
    <3> QED
      BY <1>10, <3>1, <3>2
  <2>2. CASE d \notin DOMAIN stored
    <3>1. BucketTimes(stored, d, k) = <<>> /\ d # c
      BY <1>14, <2>2 DEF BucketTimes
    <3>2. CASE config[k].window > config[r].window
      <4>1. history'[<<d, k>>] = <<>>
        BY <1>16, <2>2, <3>1, <3>2
      <4>2. <<>> \in Seq(L!Time) /\ Ascending(<<>>) /\ Range(<<>>) \subseteq 0..now
        BY OfEmpty
      <4> QED
        BY <1>1, <1>2, <3>1, <4>1, <4>2, BucketReset
    <3>3. CASE ~(config[k].window > config[r].window)
      <4>1. history'[<<d, k>>] = Held(d, k) /\ config[k].window <= config[r].window
        BY <1>2, <1>16, <2>2, <3>1, <3>3
      <4>2. BucketOK(BucketTimes(s, d, k), Held(d, k), config[k].window, config[k].limit, now)
        BY <1>10
      <4> HIDE DEF Held
      <4>3. CASE d \notin DOMAIN s
        <5>1. BucketTimes(s, d, k) = <<>>
          BY <4>3 DEF BucketTimes
        <5> QED
          BY <3>1, <4>1, <4>2, <5>1
      <4>4. CASE d \in DOMAIN s
        <5>1. d \in L!Stale(s, r)
          BY <1>13, <2>2, <4>4
        <5>2. BucketOK(<<>>, Held(d, k), config[k].window, config[k].limit, now)
          BY <1>1, <1>8, <4>1, <4>2, <5>1, EvictedBucket
        <5> QED
          BY <3>1, <4>1, <5>2
      <4> QED
        BY <4>3, <4>4
    <3> QED
      BY <3>2, <3>3
  <2> QED
    BY <2>1, <2>2
<1>19. BucketsOK(requests', history', config', now')
  BY <1>18 DEF BucketsOK
<1> QED
  BY <1>1, <1>15, <1>17, <1>19 DEF LimiterInv

\* Every step keeps the invariant.
LEMMA NextLimiter == LimiterAssumption /\ LimiterInv /\ [L!Next]_(L!vars) => LimiterInv'
<1> SUFFICES ASSUME LimiterAssumption, LimiterInv, [L!Next]_(L!vars) PROVE LimiterInv'
  OBVIOUS
<1>1. /\ now \in L!Time /\ config \in Config /\ KnownTypes(requests) /\ MaxTime \in Nat
      /\ history \in [Client \X Route -> Seq(L!Time)]
      /\ BucketsOK(requests, history, config, now)
  BY DEF LimiterInv, LimiterAssumption
<1>2. \A conf \in Config, k \in Route : conf[k].limit \in Nat /\ conf[k].window \in Nat
  BY DEF LimiterAssumption
<1>3. ASSUME NEW c \in Client, NEW r \in Route, L!Request(c, r)
      PROVE  LimiterInv'
  <2> DEFINE times == L!Recent(c, r)
             stored == L!Evicted(L!Stored(c, r, Append(times, now)), r)
  <2>1. CASE Len(times) >= config[r].limit
    <3>1. requests' = L!Stored(c, r, times) /\ UNCHANGED <<now, config, history>>
      BY <1>3, <2>1 DEF L!Request
    <3> QED
      BY <3>1, RefusedStep
  <2>2. CASE ~(Len(times) >= config[r].limit)
    <3>1. requests' = stored /\ history' = L!Remembered(stored, c, r)
          /\ UNCHANGED <<now, config>>
      BY <1>3, <2>2 DEF L!Request
    <3>2. Len(times) \in Nat
      <4>1. BucketTimes(requests, c, r) \in Seq(L!Time)
        BY <1>1 DEF BucketsOK, BucketOK
      <4>2. times = Keep(BucketTimes(requests, c, r), After(now - config[r].window))
        BY <1>1, <4>1, StoredTimes
      <4> QED
        BY <4>1, <4>2, KeepSeq
    <3>3. Len(times) < config[r].limit
      BY <1>1, <1>2, <2>2, <3>2
    <3> HIDE DEF stored
    <3>4. stored = L!Evicted(L!Stored(c, r, Append(times, now)), r)
      BY DEF stored
    <3> QED
      BY <3>1, <3>3, <3>4, AllowedStep
  <2> QED
    BY <2>1, <2>2
<1>4. ASSUME NEW conf \in Config, L!Reload(conf)
      PROVE  LimiterInv'
  <2>1. /\ config' = conf /\ UNCHANGED <<now, requests>>
        /\ history' = [x \in Client \X Route |-> <<>>]
    BY <1>4 DEF L!Reload
  <2>2. history' \in [Client \X Route -> Seq(L!Time)]
    BY <2>1, EmptySeq
  <2>3. ASSUME NEW c \in Client, NEW k \in Route
        PROVE  BucketOK(BucketTimes(requests, c, k), <<>>, conf[k].window, conf[k].limit, now)
    <3> DEFINE q == BucketTimes(requests, c, k)
    <3>1. q \in Seq(L!Time) /\ Ascending(q) /\ Range(q) \subseteq 0..now
      BY <1>1 DEF BucketsOK, BucketOK
    <3> HIDE DEF q
    <3>2. BucketOK(q, <<>>, conf[k].window, conf[k].limit, now)
      BY <1>1, <1>2, <3>1, BucketReset
    <3> QED
      BY <3>2 DEF q
  <2>4. BucketsOK(requests', history', config', now')
    BY <2>1, <2>3 DEF BucketsOK
  <2> QED
    BY <1>1, <2>1, <2>2, <2>4 DEF LimiterInv
<1>5. CASE L!Tick
  <2>1. now' = now + 1 /\ now' \in L!Time /\ UNCHANGED <<config, requests, history>>
    BY <1>1, <1>5 DEF L!Tick, L!Time
  <2>2. ASSUME NEW c \in Client, NEW k \in Route
        PROVE  BucketOK(BucketTimes(requests, c, k), history[<<c, k>>], config[k].window,
                        config[k].limit, now')
    <3>1. BucketOK(BucketTimes(requests, c, k), history[<<c, k>>], config[k].window,
                   config[k].limit, now)
      BY <1>1 DEF BucketsOK
    <3> QED
      BY <1>1, <1>2, <2>1, <3>1, BucketAges
  <2>3. BucketsOK(requests', history', config', now')
    BY <2>1, <2>2 DEF BucketsOK
  <2> QED
    BY <1>1, <2>1, <2>3 DEF LimiterInv
<1>6. CASE UNCHANGED L!vars
  <2>1. UNCHANGED <<now, config, requests, history>>
    BY <1>6 DEF L!vars
  <2>2. BucketsOK(requests', history', config', now')
    BY <1>1, <2>1
  <2> QED
    BY <1>1, <2>1, <2>2 DEF LimiterInv
<1> QED
  BY <1>3, <1>4, <1>5, <1>6 DEF L!Next

\* At first no request has been made.
LEMMA InitLimiter == LimiterAssumption /\ L!Init => LimiterInv
<1> SUFFICES ASSUME LimiterAssumption, L!Init PROVE LimiterInv
  OBVIOUS
<1>1. /\ now = 0 /\ now \in L!Time /\ config \in Config /\ MaxTime \in Nat
      /\ DOMAIN requests = {} /\ history = [x \in Client \X Route |-> <<>>]
  BY DEF L!Init, LimiterAssumption, L!Time
<1>2. history \in [Client \X Route -> Seq(L!Time)] /\ KnownTypes(requests)
  BY <1>1, EmptySeq DEF KnownTypes
<1>3. ASSUME NEW c \in Client, NEW k \in Route
      PROVE  BucketOK(<<>>, <<>>, config[k].window, config[k].limit, now)
  <2>1. config[k].window \in Nat /\ config[k].limit \in Nat
    BY <1>1 DEF LimiterAssumption
  <2>2. <<>> \in Seq(L!Time) /\ Ascending(<<>>) /\ Range(<<>>) \subseteq 0..now
    BY OfEmpty
  <2> QED
    BY <1>1, <2>1, <2>2, BucketReset
<1>4. BucketsOK(requests, history, config, now)
  BY <1>1, <1>3 DEF BucketsOK, BucketTimes
<1> QED
  BY <1>1, <1>2, <1>4 DEF LimiterInv

\* What counts in a window is within the limit.
LEMMA LimiterLimits == LimiterInv => L!LimitHolds /\ L!TypeOK
<1> SUFFICES ASSUME LimiterInv PROVE L!LimitHolds /\ L!TypeOK
  OBVIOUS
<1>1. L!LimitHolds
  BY LimiterSame DEF L!LimitHolds, LimiterInv, BucketsOK, BucketOK
<1>2. L!TypeOK
  BY DEF L!TypeOK, LimiterInv, KnownTypes
<1> QED
  BY <1>1, <1>2

-----------------------------------------------------------------------------
(* ProviderRouter.                                                         *)

R == INSTANCE ProviderRouter WITH Call <- Calls

\* The chain is a list of providers; a breaker opens at the first failure at the
\* earliest, and retries are counted.
RouterAssumption ==
  Chain \in Seq(R!Provider) /\ MaxFailures \in Nat \ {0} /\ MaxRetries \in Nat

\* The configured providers of the chain.
Candidates == R!Range(Chain) \cap Configured

\* While a call goes on, and when it has failed, each candidate was tried or is
\* yet to be; what is tried is the head of those ahead.
CallOK(s) ==
  /\ s.pc \in {"next", "await", "delay", "failed"} =>
       Candidates \subseteq s.tried \cup s.missed \cup Range(s.ordered)
  /\ s.pc = "failed" => s.ordered = <<>>
  /\ s.pc \in {"await", "delay"} => s.ordered # <<>> /\ Head(s.ordered) \in s.tried

RouterInv == R!TypeOK /\ \A c \in Calls : CallOK(call[c])

\* The module keeps and collects as this one does.
LEMMA RouterSame ==
  /\ \A s, kept : R!Keep(s, kept) = Keep(s, kept)
  /\ \A s : R!Range(s) = Range(s)
BY DEF R!Keep, Keep, R!Range, Range

\* What is done to a health record leaves one.
LEMMA HealthTypes ==
  ASSUME RouterAssumption
  PROVE  /\ R!Fresh \in R!Health
         /\ \A h \in R!Health : R!Later(h) \subseteq R!Health
         /\ \A h \in R!Health : R!Failed(h) \in R!Health /\ R!Limited(h) \in R!Health
<1>1. R!Fresh \in R!Health
  BY DEF RouterAssumption, R!Fresh, R!Health
<1>2. ASSUME NEW h \in R!Health
      PROVE  R!Later(h) \subseteq R!Health /\ R!Failed(h) \in R!Health /\ R!Limited(h) \in R!Health
  <2>1. R!Later(h) \subseteq R!Health
    <3> SUFFICES ASSUME NEW l \in {FALSE, h.limited},
                        NEW o \in {h.circuit, IF h.circuit = "open" THEN "over" ELSE h.circuit}
                 PROVE  [h EXCEPT !.limited = l, !.circuit = o] \in R!Health
      BY DEF R!Later
    <3>1. l \in BOOLEAN /\ o \in {"closed", "open", "over"}
      BY <1>2 DEF R!Health
    <3> QED
      BY <1>2, <3>1 DEF R!Health
  <2>2. R!Limited(h) \in R!Health
    BY <1>2 DEF R!Limited, R!Health
  <2>3. R!Failed(h) \in R!Health
    <3> DEFINE n == IF h.failures < MaxFailures THEN h.failures + 1 ELSE MaxFailures
               o == IF n = MaxFailures THEN "open" ELSE h.circuit
    <3>1. n \in 0..MaxFailures /\ o \in {"closed", "open", "over"}
      BY <1>2 DEF RouterAssumption, R!Health
    <3>2. R!Failed(h) = [h EXCEPT !.failures = n, !.circuit = o]
      BY DEF R!Failed
    <3> HIDE DEF n, o
    <3> QED
      BY <1>2, <3>1, <3>2 DEF R!Health
  <2> QED
    BY <2>1, <2>2, <2>3
<1> QED
  BY <1>1, <1>2

\* A call that changes into a sound one keeps the invariant.
LEMMA CallChanges ==
  ASSUME RouterInv, NEW c \in Calls, NEW s \in R!CallState, CallOK(s),
         call' = [call EXCEPT ![c] = s], health' \in [R!Provider -> R!Health]
  PROVE  RouterInv'
BY DEF RouterInv, R!TypeOK, CallOK, Candidates, R!Provider, R!CallState, R!Health

\* The providers of the health records are as they were.
LEMMA HealthChanges ==
  ASSUME RouterInv, NEW p \in R!Provider, NEW h \in R!Health, health' = [health EXCEPT ![p] = h],
         UNCHANGED call
  PROVE  RouterInv'
BY DEF RouterInv, R!TypeOK, CallOK, Candidates, R!Provider, R!CallState, R!Health

\* A call sorts the providers: none of the chain is left out but those that
\* recovered between the two readings.
LEMMA BeginRouted ==
  ASSUME RouterAssumption, RouterInv, NEW c \in Calls, R!Begin(c)
  PROVE  RouterInv'
<1> DEFINE Y == {p \in R!Provider : R!Healthy(health[p])}
           Z == {p \in R!Provider : ~R!Healthy(health'[p])}
           V == {p \in R!Provider : ~R!Healthy(health[p]) /\ R!Healthy(health'[p])}
           s == [pc |-> "next", ordered |-> Keep(Chain, Y) \o Keep(Chain, Z), attempt |-> 0,
                 tried |-> {}, missed |-> V]
<1>1. call' = [call EXCEPT ![c] = s]
  <2>1. call' = [call EXCEPT ![c] =
          [R!NoCall EXCEPT !.pc = "next", !.ordered = R!Keep(Chain, Y) \o R!Keep(Chain, Z),
                           !.missed = V]]
    BY DEF R!Begin
  <2>2. R!Keep(Chain, Y) = Keep(Chain, Y) /\ R!Keep(Chain, Z) = Keep(Chain, Z)
    BY RouterSame
  <2> DEFINE e == Keep(Chain, Y) \o Keep(Chain, Z)
  <2>3. call' = [call EXCEPT ![c] =
          [R!NoCall EXCEPT !.pc = "next", !.ordered = e, !.missed = V]]
    BY <2>1, <2>2
  <2> HIDE DEF V, e
  <2>4. [R!NoCall EXCEPT !.pc = "next", !.ordered = e, !.missed = V]
          = [pc |-> "next", ordered |-> e, attempt |-> 0, tried |-> {}, missed |-> V]
    <3> DEFINE y == <<>>
               z == {}
               b == R!NoCall
               d == [b EXCEPT !.pc = "next", !.ordered = e, !.missed = V]
    <3>1. b \in [pc: {"idle"}, ordered: {y}, attempt: {0}, tried: {z}, missed: {z}]
      BY DEF R!NoCall
    <3>2. z = {}
      OBVIOUS
    <3> HIDE DEF b, y, z
    <3>3. d \in [pc: {"next"}, ordered: {e}, attempt: {0}, tried: {z}, missed: {V}]
      BY <3>1
    <3> HIDE DEF d
    <3>4. d = [pc |-> "next", ordered |-> e, attempt |-> 0, tried |-> z, missed |-> V]
      BY <3>3
    <3> QED
      BY <3>2, <3>4 DEF b, d
  <2> QED
    BY <2>3, <2>4 DEF e
<1>2. health' \in [R!Provider -> R!Health]
  <2>1. \A p \in R!Provider : health'[p] \in R!Later(health[p]) /\ health[p] \in R!Health
    BY DEF R!Begin, RouterInv, R!TypeOK
  <2>2. health' \in [R!Provider -> UNION {R!Later(health[p]) : p \in R!Provider}]
    BY DEF R!Begin
  <2> QED
    BY <2>1, <2>2, HealthTypes
<1>3. /\ Keep(Chain, Y) \o Keep(Chain, Z) \in Seq(R!Provider)
      /\ Range(Keep(Chain, Y) \o Keep(Chain, Z))
           = (Range(Chain) \cap Y) \cup (Range(Chain) \cap Z)
  <2>1. /\ Keep(Chain, Y) \in Seq(R!Provider) /\ Range(Keep(Chain, Y)) = Range(Chain) \cap Y
        /\ Keep(Chain, Z) \in Seq(R!Provider) /\ Range(Keep(Chain, Z)) = Range(Chain) \cap Z
    BY KeepSeq DEF RouterAssumption
  <2> DEFINE y == Keep(Chain, Y)
             z == Keep(Chain, Z)
  <2>2. y \in Seq(R!Provider) /\ z \in Seq(R!Provider)
    BY <2>1
  <2> HIDE DEF y, z
  <2>3. y \o z \in Seq(R!Provider) /\ Range(y \o z) = Range(y) \cup Range(z)
    BY <2>2, RangeJoined
  <2> QED
    BY <2>1, <2>3 DEF y, z
<1>4. V \subseteq R!Provider /\ 0 \in 0..MaxRetries
  BY DEF RouterAssumption
<1>5. Candidates \subseteq Y \cup Z \cup V /\ Candidates \subseteq Range(Chain)
  BY RouterSame DEF Candidates, R!Provider
<1>6. s \in R!CallState
  <2> HIDE DEF V, Y, Z
  <2> QED
    BY <1>3, <1>4 DEF R!CallState
<1>7. CallOK(s)
  <2> HIDE DEF V, Y, Z
  <2> QED
    BY <1>3, <1>5 DEF CallOK
<1> HIDE DEF s
<1> QED
  BY <1>1, <1>2, <1>6, <1>7, CallChanges

\* The next provider is awaited, passed over, or there is none.
LEMMA TryNextRouted ==
  ASSUME RouterAssumption, RouterInv, NEW c \in Calls, R!TryNext(c)
  PROVE  RouterInv'
<1> DEFINE s == call[c]
<1>1. /\ s \in R!CallState /\ CallOK(s) /\ s.pc = "next"
      /\ health' \in [R!Provider -> R!Health]
      /\ Candidates \subseteq s.tried \cup s.missed \cup Range(s.ordered)
      /\ s.ordered \in Seq(R!Provider) /\ 0 \in 0..MaxRetries
  BY DEF RouterAssumption, RouterInv, R!TypeOK, R!TryNext, CallOK, R!CallState
<1>2. CASE s.ordered = <<>>
  <2> DEFINE t == [s EXCEPT !.pc = "failed"]
  <2>1. call' = [call EXCEPT ![c] = t]
    BY <1>2 DEF R!TryNext, RouterInv, R!TypeOK
  <2> HIDE DEF s
  <2>2. t \in R!CallState /\ CallOK(t)
    BY <1>1, <1>2 DEF R!CallState, CallOK
  <2> QED
    BY <1>1, <2>1, <2>2, CallChanges DEF s
<1>3. CASE s.ordered # <<>> /\ Head(s.ordered) \in Configured
  <2> DEFINE t == [s EXCEPT !.pc = "await", !.attempt = 0, !.tried = @ \cup {Head(s.ordered)}]
  <2>1. call' = [call EXCEPT ![c] = t]
    BY <1>3 DEF R!TryNext, RouterInv, R!TypeOK
  <2>2. Head(s.ordered) \in R!Provider
    BY <1>1, <1>3, RangeHeadTail
  <2> HIDE DEF s
  <2>3. t \in R!CallState
    BY <1>1, <2>2 DEF R!CallState
  <2>4. t.pc = "await" /\ t.ordered = s.ordered /\ t.missed = s.missed
        /\ t.tried = s.tried \cup {Head(s.ordered)}
    BY <1>1 DEF R!CallState
  <2>5. CallOK(t)
    <3> HIDE DEF t
    <3> QED
      BY <1>1, <1>3, <2>4 DEF CallOK
  <2> HIDE DEF t
  <2> QED
    BY <1>1, <2>1, <2>3, <2>5, CallChanges DEF s
<1>4. CASE s.ordered # <<>> /\ Head(s.ordered) \notin Configured
  <2> DEFINE t == [s EXCEPT !.ordered = Tail(@)]
  <2>1. call' = [call EXCEPT ![c] = t]
    BY <1>4 DEF R!TryNext, RouterInv, R!TypeOK
  <2>2. /\ Tail(s.ordered) \in Seq(R!Provider)
        /\ Range(s.ordered) = {Head(s.ordered)} \cup Range(Tail(s.ordered))
    BY <1>1, <1>4, RangeHeadTail
  <2> HIDE DEF s
  <2>3. t \in R!CallState
    BY <1>1, <2>2 DEF R!CallState
  <2>4. t.pc = "next" /\ t.ordered = Tail(s.ordered) /\ t.missed = s.missed /\ t.tried = s.tried
    BY <1>1 DEF R!CallState
  <2>5. CallOK(t)
    <3> HIDE DEF t
    <3> QED
      BY <1>1, <1>4, <2>2, <2>4 DEF CallOK, Candidates
  <2> HIDE DEF t
  <2> QED
    BY <1>1, <2>1, <2>3, <2>5, CallChanges DEF s
<1> QED
  BY <1>2, <1>3, <1>4

\* An answer, a retry and a return.
LEMMA AnsweredRouted ==
  ASSUME RouterAssumption, RouterInv, NEW c \in Calls,
         R!Succeed(c) \/ R!Retry(c) \/ R!Return(c)
  PROVE  RouterInv'
<1> DEFINE s == call[c]
<1>1. s \in R!CallState /\ CallOK(s) /\ health \in [R!Provider -> R!Health]
      /\ call \in [Calls -> R!CallState]
  BY DEF RouterInv, R!TypeOK
<1>2. CASE R!Succeed(c)
  <2> DEFINE t == [s EXCEPT !.pc = "answered"]
  <2>1. call' = [call EXCEPT ![c] = t]
    BY <1>1, <1>2 DEF R!Succeed
  <2>2. s.ordered # <<>> /\ s.ordered \in Seq(R!Provider)
    BY <1>1, <1>2 DEF R!Succeed, CallOK, R!CallState
  <2>3. health' \in [R!Provider -> R!Health]
    BY <1>1, <1>2, <2>2, RangeHeadTail, HealthTypes DEF R!Succeed, R!Succeeded
  <2> HIDE DEF s
  <2>4. t \in R!CallState /\ t.pc = "answered"
    BY <1>1 DEF R!CallState
  <2> HIDE DEF t
  <2>5. CallOK(t)
    BY <2>4 DEF CallOK
  <2> QED
    BY <2>1, <2>3, <2>4, <2>5, CallChanges
<1>3. CASE R!Retry(c)
  <2> DEFINE t == [s EXCEPT !.pc = "await"]
  <2>1. call' = [call EXCEPT ![c] = t] /\ s.pc = "delay" /\ health' = health
    BY <1>1, <1>3 DEF R!Retry
  <2> HIDE DEF s
  <2>2. t \in R!CallState /\ CallOK(t)
    BY <1>1, <2>1 DEF R!CallState, CallOK
  <2> HIDE DEF t
  <2> QED
    BY <1>1, <2>1, <2>2, CallChanges
<1>4. CASE R!Return(c)
  <2>1. R!NoCall \in R!CallState /\ CallOK(R!NoCall)
    BY EmptySeq DEF R!NoCall, R!CallState, CallOK, RouterAssumption
  <2> QED
    BY <1>1, <1>4, <2>1, CallChanges DEF R!Return
<1> QED
  BY <1>2, <1>3, <1>4

\* After an error the same provider is tried again, or it was tried and the
\* next one follows.
LEMMA ErrorRouted ==
  ASSUME RouterAssumption, RouterInv, NEW c \in Calls, R!Error(c)
  PROVE  RouterInv'
<1> DEFINE s == call[c]
           p == Head(s.ordered)
<1>1. /\ s \in R!CallState /\ CallOK(s) /\ health \in [R!Provider -> R!Health]
      /\ call \in [Calls -> R!CallState] /\ s.pc = "await" /\ s.ordered # <<>>
      /\ s.ordered \in Seq(R!Provider) /\ p \in s.tried
  BY DEF RouterInv, R!TypeOK, R!Error, R!ErrorThen, CallOK, R!CallState
<1>2. /\ p \in R!Provider /\ Tail(s.ordered) \in Seq(R!Provider)
      /\ Range(s.ordered) = {p} \cup Range(Tail(s.ordered))
  BY <1>1, RangeHeadTail
<1>3. PICK kind \in R!ErrorKind :
        LET again == kind # "permanent" /\ s.attempt < MaxRetries
            noted == IF kind = "limit" THEN R!Limited(health[p]) ELSE health[p]
        IN  /\ health' = [health EXCEPT ![p] = IF again THEN noted ELSE R!Failed(noted)]
            /\ call' = IF again
                       THEN [call EXCEPT ![c].pc = "delay", ![c].attempt = @ + 1]
                       ELSE [call EXCEPT ![c].pc = "next", ![c].ordered = Tail(@)]
  BY DEF R!Error, R!ErrorThen
<1> DEFINE again == kind # "permanent" /\ s.attempt < MaxRetries
           noted == IF kind = "limit" THEN R!Limited(health[p]) ELSE health[p]
<1>4. health' \in [R!Provider -> R!Health]
  <2>1. noted \in R!Health
    BY <1>1, <1>2, HealthTypes
  <2>2. R!Failed(noted) \in R!Health
    BY <2>1, HealthTypes
  <2>3. health' = [health EXCEPT ![p] = IF again THEN noted ELSE R!Failed(noted)]
    BY <1>3
  <2> HIDE DEF noted, p, s
  <2> QED
    BY <1>1, <2>1, <2>2, <2>3
<1>5. CASE again
  <2> DEFINE t == [s EXCEPT !.pc = "delay", !.attempt = @ + 1]
  <2>1. call' = [call EXCEPT ![c] = t]
    BY <1>1, <1>3, <1>5
  <2>2. s.attempt + 1 \in 0..MaxRetries
    BY <1>1, <1>5 DEF R!CallState, RouterAssumption
  <2> HIDE DEF s
  <2>3. t \in R!CallState /\ CallOK(t)
    BY <1>1, <2>2 DEF R!CallState, CallOK, p
  <2> HIDE DEF t
  <2> QED
    BY <1>4, <2>1, <2>3, CallChanges
<1>6. CASE ~again
  <2> DEFINE t == [s EXCEPT !.pc = "next", !.ordered = Tail(@)]
  <2>1. call' = [call EXCEPT ![c] = t]
    BY <1>1, <1>3, <1>6
  <2> HIDE DEF s
  <2>2. t \in R!CallState
    BY <1>1, <1>2 DEF R!CallState
  <2>3. t.pc = "next" /\ t.ordered = Tail(s.ordered) /\ t.missed = s.missed /\ t.tried = s.tried
    BY <1>1 DEF R!CallState
  <2>4. CallOK(t)
    <3> HIDE DEF t, p
    <3> QED
      BY <1>1, <1>2, <2>3 DEF CallOK
  <2> HIDE DEF t
  <2> QED
    BY <1>4, <2>1, <2>2, <2>4, CallChanges
<1> QED
  BY <1>5, <1>6

\* Every step keeps the invariant.
LEMMA NextRouter == RouterAssumption /\ RouterInv /\ [R!Next]_(R!vars) => RouterInv'
<1> SUFFICES ASSUME RouterAssumption, RouterInv, [R!Next]_(R!vars) PROVE RouterInv'
  OBVIOUS
<1>1. CASE UNCHANGED R!vars
  BY <1>1 DEF R!vars, RouterInv, R!TypeOK, CallOK, Candidates
<1>2. ASSUME NEW c \in Calls,
             R!Begin(c) \/ R!TryNext(c) \/ R!Succeed(c) \/ R!Error(c) \/ R!Retry(c) \/ R!Return(c)
      PROVE  RouterInv'
  BY <1>2, BeginRouted, TryNextRouted, AnsweredRouted, ErrorRouted
<1>3. ASSUME NEW p \in R!Provider, R!Cooldown(p) \/ R!Reset(p)
      PROVE  RouterInv'
  <2>1. health[p] \in R!Health
    BY DEF RouterInv, R!TypeOK
  <2>2. \E h \in R!Health : health' = [health EXCEPT ![p] = h]
    BY <1>3, <2>1, HealthTypes DEF R!Cooldown, R!Reset
  <2> QED
    BY <1>3, <2>2, HealthChanges DEF R!Cooldown, R!Reset
<1> QED
  BY <1>1, <1>2, <1>3 DEF R!Next

\* At first no call is under way.
LEMMA InitRouter == RouterAssumption /\ R!Init => RouterInv
<1> SUFFICES ASSUME RouterAssumption, R!Init PROVE RouterInv
  OBVIOUS
<1>1. R!NoCall \in R!CallState /\ CallOK(R!NoCall)
  BY EmptySeq DEF R!NoCall, R!CallState, CallOK, RouterAssumption
<1> QED
  BY <1>1, HealthTypes DEF R!Init, RouterInv, R!TypeOK

\* A failed call has nothing ahead.
LEMMA RouterTries == RouterInv => R!FailedHasTriedAll
<1> SUFFICES ASSUME RouterInv, NEW c \in Calls, call[c].pc = "failed"
             PROVE  Candidates \subseteq call[c].tried \cup call[c].missed
  BY DEF R!FailedHasTriedAll, Candidates
<1>1. call[c].ordered = <<>> /\ Candidates \subseteq call[c].tried \cup call[c].missed \cup Range(call[c].ordered)
  BY DEF RouterInv, CallOK
<1>2. Range(<<>>) = {}
  BY EmptySeq DEF Range
<1> QED
  BY <1>1, <1>2

-----------------------------------------------------------------------------
(* AgentBus.                                                               *)

G == INSTANCE AgentBus WITH sent <- posted

\* Nobody is called everybody, and the bounds are numbers.
BusAssumption ==
  /\ Everybody \notin Agent
  /\ QueueSize \in Nat /\ MaxLog \in Nat /\ MaxProposals \in Nat /\ MaxMessages \in Nat

\* The messages that wait for an agent, those sent so far, and those of them
\* that it should get.
Waiting(q, a) == IF a \in DOMAIN q THEN q[a] ELSE <<>>
Upto(n) == [i \in 1..n |-> i]
Wanted(a, s, missed) == {i \in 1..Len(s) : s[i] \in {a, Everybody} /\ i \notin missed}

\* The messages are those sent, each to the agents that have room.
MailOK ==
  /\ posted \in Seq(Agent \cup {Everybody})
  /\ DOMAIN queues \subseteq Agent
  /\ \A a \in Agent : Waiting(queues, a) \in Seq(Nat) /\ Len(Waiting(queues, a)) <= QueueSize
  /\ got \in [Agent -> Seq(Nat)]
  /\ dropped \in [Agent -> SUBSET (1..Len(posted))]
  /\ \A a \in Agent :
       got[a] \o Waiting(queues, a) = Keep(Upto(Len(posted)), Wanted(a, posted, dropped[a]))

\* The log is a newest part of them.
LogOK ==
  /\ log \in Seq(Nat) /\ Len(log) <= 2 * MaxLog /\ Len(log) <= Len(posted)
  /\ Len(log) >= (IF Len(posted) < MaxLog THEN Len(posted) ELSE MaxLog)
  /\ \A i \in 1..Len(log) : log[i] = Len(posted) - Len(log) + i

Distinct(s) == \A i, j \in 1..Len(s) : s[i] = s[j] => i = j

\* The proposals differ and have the votes, of finitely many voters each.
ProposalsOK ==
  /\ proposed \in Seq(Proposal) /\ Len(proposed) <= MaxProposals /\ Distinct(proposed)
  /\ Range(proposed) = DOMAIN votes
  /\ \A p \in DOMAIN votes :
       /\ DOMAIN votes[p] \subseteq Agent /\ IsFiniteSet(DOMAIN votes[p])
       /\ \A a \in DOMAIN votes[p] : votes[p][a] \in Option
  /\ announcing \in 0..MaxMessages

BusInv == MailOK /\ LogOK /\ ProposalsOK

\* The module counts, keeps and collects as this one does.
LEMMA BusSame ==
  /\ \A s, kept : G!Keep(s, kept) = Keep(s, kept)
  /\ \A s : G!Range(s) = Range(s)
  /\ \A s : G!Cardinality(s) = Cardinality(s)
BY DEF G!Keep, Keep, G!Range, Range, G!Cardinality, Cardinality

\* One more number follows the others.
LEMMA OneMore ==
  ASSUME NEW n \in Nat
  PROVE  /\ Upto(n) \in Seq(Nat) /\ Len(Upto(n)) = n /\ Range(Upto(n)) = 1..n
         /\ Upto(n + 1) = Append(Upto(n), n + 1)
<1>1. \A m \in Nat : Upto(m) \in Seq(Nat) /\ Len(Upto(m)) = m /\ \A i \in 1..m : Upto(m)[i] = i
  BY DEF Upto
<1>2. Range(Upto(n)) = {Upto(n)[i] : i \in 1..n}
  BY <1>1, RangeEquality
<1> DEFINE s == Upto(n)
           t == Upto(n + 1)
<1>3. /\ s \in Seq(Nat) /\ Len(s) = n /\ \A i \in 1..n : s[i] = i
      /\ t \in Seq(Nat) /\ Len(t) = n + 1 /\ \A i \in 1..n + 1 : t[i] = i
      /\ Range(s) = {s[i] : i \in 1..n}
  BY <1>1, <1>2
<1> HIDE DEF s, t
<1>4. Range(s) = 1..n
  BY <1>3
<1> DEFINE u == Append(s, n + 1)
<1>5. /\ u \in Seq(Nat) /\ Len(u) = n + 1 /\ u[n + 1] = n + 1
      /\ \A i \in 1..n : u[i] = s[i]
  BY <1>3, AppendProperties
<1> HIDE DEF u
<1>6. \A i \in 1..Len(t) : t[i] = u[i]
  <2> SUFFICES ASSUME NEW i \in 1..n + 1 PROVE t[i] = u[i]
    BY <1>3
  <2>1. i \in 1..n \/ i = n + 1
    OBVIOUS
  <2> QED
    BY <1>3, <1>5, <2>1
<1>7. t = u
  BY <1>3, <1>5, <1>6, SeqEqual
<1> QED
  BY <1>3, <1>4, <1>7 DEF s, t, u

\* To append to the second list is to append to both together.
LEMMA AppendJoined ==
  ASSUME NEW U, NEW s \in Seq(U), NEW t \in Seq(U), NEW x \in U
  PROVE  s \o Append(t, x) = Append(s \o t, x)
<1> DEFINE u == s \o t
           v == Append(t, x)
           y == s \o v
           z == Append(u, x)
           m == Len(s)
           n == Len(t)
<1>1. /\ m \in Nat /\ n \in Nat /\ u \in Seq(U) /\ Len(u) = m + n
      /\ \A i \in 1..m + n : u[i] = IF i <= m THEN s[i] ELSE t[i - m]
  BY ConcatProperties, LenProperties
<1>2. /\ v \in Seq(U) /\ Len(v) = n + 1 /\ v[n + 1] = x /\ \A i \in 1..n : v[i] = t[i]
  BY AppendProperties
<1>3. /\ y \in Seq(U) /\ Len(y) = m + (n + 1)
      /\ \A i \in 1..m + (n + 1) : y[i] = IF i <= m THEN s[i] ELSE v[i - m]
  <2> HIDE DEF v, m, n
  <2>1. /\ y \in Seq(U) /\ Len(y) = Len(s) + Len(v)
        /\ \A i \in 1..Len(s) + Len(v) : y[i] = IF i <= Len(s) THEN s[i] ELSE v[i - Len(s)]
    BY <1>2, ConcatProperties
  <2>2. m = Len(s) /\ Len(v) = n + 1
    BY <1>2 DEF m
  <2> QED
    BY <2>1, <2>2
<1>4. /\ z \in Seq(U) /\ Len(z) = (m + n) + 1 /\ z[(m + n) + 1] = x
      /\ \A i \in 1..m + n : z[i] = u[i]
  <2> HIDE DEF u
  <2> QED
    BY <1>1, AppendProperties
<1> HIDE DEF u, v, y, z, m, n
<1>5. Len(y) = Len(z)
  BY <1>1, <1>3, <1>4
<1>6. ASSUME NEW i \in 1..Len(y)
      PROVE  y[i] = z[i]
  <2>0. i \in 1..m + (n + 1) /\ i \in Nat
    BY <1>1, <1>3
  <2>1. CASE i <= m
    <3>1. i \in 1..m + n
      BY <1>1, <2>0, <2>1
    <3> QED
      BY <1>1, <1>3, <1>4, <2>0, <2>1, <3>1
  <2>2. CASE i > m /\ i <= m + n
    <3>1. i \in 1..m + n /\ ~(i <= m) /\ i - m \in 1..n
      BY <1>1, <2>0, <2>2
    <3> QED
      BY <1>1, <1>2, <1>3, <1>4, <2>0, <3>1
  <2>3. CASE i = m + n + 1
    <3>1. ~(i <= m) /\ i - m = n + 1
      BY <1>1, <2>3
    <3> QED
      BY <1>1, <1>2, <1>3, <1>4, <2>0, <2>3, <3>1
  <2> QED
    BY <1>1, <2>0, <2>1, <2>2, <2>3
<1>7. y = z
  BY <1>3, <1>4, <1>5, <1>6, SeqEqual
<1> QED
  BY <1>7 DEF u, v, y, z

\* The head of the second list may go to the end of the first.
LEMMA HeadJoined ==
  ASSUME NEW U, NEW s \in Seq(U), NEW t \in Seq(U), t # <<>>
  PROVE  Append(s, Head(t)) \o Tail(t) = s \o t
<1> DEFINE x == Head(t)
           v == Tail(t)
           u == Append(s, x)
           y == u \o v
           z == s \o t
           m == Len(s)
           n == Len(t)
<1>1. m \in Nat /\ n \in Nat /\ n >= 1
  BY LenProperties, EmptySeq
<1>2. /\ x \in U /\ x = t[1] /\ v \in Seq(U) /\ Len(v) = n - 1
      /\ \A i \in 1..n - 1 : v[i] = t[i + 1]
  BY HeadTailProperties
<1>3. /\ z \in Seq(U) /\ Len(z) = m + n
      /\ \A i \in 1..m + n : z[i] = IF i <= m THEN s[i] ELSE t[i - m]
  BY ConcatProperties
<1>4. /\ u \in Seq(U) /\ Len(u) = m + 1 /\ u[m + 1] = x /\ \A i \in 1..m : u[i] = s[i]
  <2> HIDE DEF x
  <2> QED
    BY <1>2, AppendProperties
<1>5. /\ y \in Seq(U) /\ Len(y) = (m + 1) + (n - 1)
      /\ \A i \in 1..(m + 1) + (n - 1) : y[i] = IF i <= m + 1 THEN u[i] ELSE v[i - (m + 1)]
  <2> HIDE DEF u, v, m, n
  <2>1. /\ y \in Seq(U) /\ Len(y) = Len(u) + Len(v)
        /\ \A i \in 1..Len(u) + Len(v) : y[i] = IF i <= Len(u) THEN u[i] ELSE v[i - Len(u)]
    BY <1>2, <1>4, ConcatProperties
  <2>2. Len(u) = m + 1 /\ Len(v) = n - 1
    BY <1>2, <1>4
  <2> QED
    BY <2>1, <2>2
<1> HIDE DEF x, u, v, y, z, m, n
<1>6. Len(y) = Len(z) /\ Len(y) = m + n
  BY <1>1, <1>3, <1>5
<1>7. ASSUME NEW i \in 1..Len(y)
      PROVE  y[i] = z[i]
  <2>0. i \in 1..m + n /\ i \in 1..(m + 1) + (n - 1) /\ i \in Nat
    BY <1>1, <1>6
  <2>1. CASE i <= m
    <3>1. i <= m + 1 /\ i \in 1..m
      BY <1>1, <2>0, <2>1
    <3> QED
      BY <1>3, <1>4, <1>5, <2>0, <2>1, <3>1
  <2>2. CASE i = m + 1
    <3>1. ~(i <= m) /\ i - m = 1 /\ i <= m + 1
      BY <1>1, <2>2
    <3> QED
      BY <1>2, <1>3, <1>4, <1>5, <2>0, <2>2, <3>1
  <2>3. CASE i > m + 1
    <3>1. ~(i <= m) /\ ~(i <= m + 1) /\ i - (m + 1) \in 1..n - 1 /\ (i - (m + 1)) + 1 = i - m
      BY <1>1, <2>0, <2>3
    <3> QED
      BY <1>2, <1>3, <1>5, <2>0, <3>1
  <2> QED
    BY <1>1, <2>0, <2>1, <2>2, <2>3
<1>8. y = z
  BY <1>3, <1>5, <1>6, <1>7, SeqEqual
<1> QED
  BY <1>8 DEF x, u, v, y, z

\* A message more is wanted by those it reaches.
LEMMA WantedMore ==
  ASSUME NEW s, NEW t, NEW a, NEW d, NEW e, NEW n \in Nat, Len(s) = n, Len(t) = n + 1,
         \A i \in 1..n : t[i] = s[i] /\ (i \in e <=> i \in d)
  PROVE  Keep(Upto(n + 1), Wanted(a, t, e))
           = IF t[n + 1] \in {a, Everybody} /\ n + 1 \notin e
             THEN Append(Keep(Upto(n), Wanted(a, s, d)), n + 1)
             ELSE Keep(Upto(n), Wanted(a, s, d))
<1> DEFINE W == Wanted(a, s, d)
           V == Wanted(a, t, e)
<1>1. \A i \in 1..n : i \in W <=> i \in V
  BY DEF Wanted
<1>2. n + 1 \in V <=> t[n + 1] \in {a, Everybody} /\ n + 1 \notin e
  BY DEF Wanted
<1> HIDE DEF W, V
<1>3. /\ Upto(n) \in Seq(Nat) /\ Range(Upto(n)) = 1..n /\ n + 1 \in Nat
      /\ Upto(n + 1) = Append(Upto(n), n + 1)
  BY OneMore
<1>4. Range(Upto(n)) \cap V = Range(Upto(n)) \cap W
  BY <1>1, <1>3
<1>5. Keep(Upto(n), V) = Keep(Upto(n), W)
  BY <1>3, <1>4, KeepSame
<1>6. Keep(Upto(n + 1), V) = IF n + 1 \in V THEN Append(Keep(Upto(n), V), n + 1) ELSE Keep(Upto(n), V)
  <2> DEFINE u == Upto(n)
             m == n + 1
  <2>1. u \in Seq(Nat) /\ m \in Nat /\ Upto(n + 1) = Append(u, m)
    BY <1>3
  <2> HIDE DEF u, m
  <2>2. Keep(Append(u, m), V) = IF m \in V THEN Append(Keep(u, V), m) ELSE Keep(u, V)
    BY <2>1, KeepAppend
  <2> QED
    BY <2>1, <2>2 DEF u, m
<1> QED
  BY <1>2, <1>5, <1>6 DEF W, V

\* A message goes to those that have room for it.
LEMMA SendMail ==
  ASSUME BusAssumption, MailOK, NEW to \in Agent \cup {Everybody}, G!Send(to), UNCHANGED got
  PROVE  MailOK'
<1> DEFINE n == Len(posted)
           reached == IF to = Everybody THEN DOMAIN queues ELSE {to}
           before == [a \in DOMAIN queues \cup reached |->
                        IF a \in DOMAIN queues THEN queues[a] ELSE <<>>]
           full == {a \in reached : Len(before[a]) = QueueSize}
<1>1. /\ posted \in Seq(Agent \cup {Everybody}) /\ DOMAIN queues \subseteq Agent
      /\ \A a \in Agent : Waiting(queues, a) \in Seq(Nat) /\ Len(Waiting(queues, a)) <= QueueSize
      /\ got \in [Agent -> Seq(Nat)] /\ dropped \in [Agent -> SUBSET (1..Len(posted))]
      /\ \A a \in Agent :
           got[a] \o Waiting(queues, a) = Keep(Upto(Len(posted)), Wanted(a, posted, dropped[a]))
  BY DEF MailOK
<1>2. /\ posted' = Append(posted, to)
      /\ queues' = [a \in DOMAIN before |->
           IF a \in reached \ full THEN Append(before[a], n + 1) ELSE before[a]]
      /\ dropped' = [a \in Agent |->
           IF a \in full \/ (to = Everybody /\ a \notin reached)
           THEN dropped[a] \cup {n + 1} ELSE dropped[a]]
  BY DEF G!Send
<1>3. reached \subseteq Agent
  BY <1>1
<1>4. /\ n \in Nat /\ n + 1 \in Nat /\ posted' \in Seq(Agent \cup {Everybody})
      /\ Len(posted') = n + 1 /\ posted'[n + 1] = to /\ \A i \in 1..n : posted'[i] = posted[i]
  BY <1>1, <1>2, AppendProperties, LenProperties
<1>5. \A a \in reached : before[a] = Waiting(queues, a)
  BY DEF Waiting
<1>6. DOMAIN queues' = DOMAIN queues \cup reached
  BY <1>2
<1>7. \A a \in DOMAIN queues \cup reached : before[a] = Waiting(queues, a)
  BY DEF Waiting
<1>8. \A a \in Agent : Waiting(queues', a) =
        IF a \in reached \ full THEN Append(Waiting(queues, a), n + 1) ELSE Waiting(queues, a)
  <2> HIDE DEF before, full, n
  <2> SUFFICES ASSUME NEW a \in Agent
               PROVE  Waiting(queues', a) =
                        IF a \in reached \ full THEN Append(Waiting(queues, a), n + 1)
                                                ELSE Waiting(queues, a)
    OBVIOUS
  <2>1. DOMAIN before = DOMAIN queues \cup reached
    BY DEF before
  <2> HIDE DEF reached
  <2>2. CASE a \in DOMAIN queues \cup reached
    BY <1>2, <1>7, <2>1, <2>2 DEF Waiting
  <2>3. CASE a \notin DOMAIN queues \cup reached
    BY <1>6, <2>3 DEF Waiting
  <2> QED
    BY <2>2, <2>3
<1>9. \A a \in reached : a \in full <=> Len(Waiting(queues, a)) = QueueSize
  BY <1>5
<1>10. dropped' \in [Agent -> SUBSET (1..n + 1)]
  BY <1>1, <1>2, <1>4
<1> HIDE DEF before, full, n
<1>11. ASSUME NEW a \in Agent
       PROVE  Waiting(queues', a) \in Seq(Nat) /\ Len(Waiting(queues', a)) <= QueueSize
  <2> DEFINE w == Waiting(queues, a)
  <2>1. w \in Seq(Nat) /\ Len(w) <= QueueSize /\ Len(w) \in Nat
    BY <1>1, LenProperties
  <2>2. CASE a \in reached \ full
    <3>1. Len(w) # QueueSize
      BY <1>9, <2>2
    <3>2. Waiting(queues', a) = Append(w, n + 1)
      BY <1>8, <2>2
    <3> HIDE DEF w
    <3>3. Append(w, n + 1) \in Seq(Nat) /\ Len(Append(w, n + 1)) = Len(w) + 1
      BY <1>4, <2>1, AppendProperties
    <3> QED
      BY <2>1, <3>1, <3>2, <3>3 DEF BusAssumption
  <2>3. CASE a \notin reached \ full
    BY <1>8, <2>1, <2>3
  <2> QED
    BY <2>2, <2>3
<1>12. ASSUME NEW a \in Agent
       PROVE  got[a] \o Waiting(queues', a) = Keep(Upto(n + 1), Wanted(a, posted', dropped'[a]))
  <2> DEFINE w == Waiting(queues, a)
             k == Keep(Upto(n), Wanted(a, posted, dropped[a]))
  <2>1. w \in Seq(Nat) /\ got[a] \in Seq(Nat) /\ got[a] \o w = k
    BY <1>1 DEF n
  <2>2. n + 1 \in dropped'[a] <=> a \in full \/ (to = Everybody /\ a \notin reached)
    BY <1>1, <1>2, <1>4 DEF n
  <2>3. \A i \in 1..n : i \in dropped'[a] <=> i \in dropped[a]
    BY <1>1, <1>2, <1>4
  <2>4. Keep(Upto(n + 1), Wanted(a, posted', dropped'[a]))
          = IF posted'[n + 1] \in {a, Everybody} /\ n + 1 \notin dropped'[a]
            THEN Append(k, n + 1) ELSE k
    <3>1. Len(posted) = n
      BY DEF n
    <3> QED
      BY <1>4, <2>3, <3>1, WantedMore
  <2>5. posted'[n + 1] \in {a, Everybody} /\ n + 1 \notin dropped'[a] <=> a \in reached \ full
    BY <1>4, <2>2 DEF BusAssumption
  <2>6. Waiting(queues', a) = IF a \in reached \ full THEN Append(w, n + 1) ELSE w
    BY <1>8
  <2> HIDE DEF w, k
  <2>7. got[a] \o Append(w, n + 1) = Append(k, n + 1)
    <3> DEFINE g == got[a]
               m == n + 1
    <3>1. g \in Seq(Nat) /\ m \in Nat /\ g \o w = k
      BY <1>4, <2>1
    <3> HIDE DEF g, m
    <3>2. g \o Append(w, m) = Append(g \o w, m)
      <4>1. g \in Seq(Nat) /\ w \in Seq(Nat) /\ m \in Nat
        BY <2>1, <3>1
      <4>2. \A u, v \in Seq(Nat), i \in Nat : u \o Append(v, i) = Append(u \o v, i)
        BY AppendJoined
      <4> QED
        BY <4>1, <4>2
    <3> QED
      BY <3>1, <3>2 DEF g, m
  <2> QED
    BY <2>1, <2>4, <2>5, <2>6, <2>7
<1>13. DOMAIN queues' \subseteq Agent
  BY <1>1, <1>3, <1>6
<1> QED
  BY <1>1, <1>4, <1>10, <1>11, <1>12, <1>13 DEF MailOK

\* An agent takes its oldest message.
LEMMA ReceiveMail ==
  ASSUME BusAssumption, MailOK, NEW a \in Agent, G!Receive(a)
  PROVE  MailOK'
<1> DEFINE w == Waiting(queues, a)
<1>1. /\ posted \in Seq(Agent \cup {Everybody}) /\ DOMAIN queues \subseteq Agent
      /\ \A b \in Agent : Waiting(queues, b) \in Seq(Nat) /\ Len(Waiting(queues, b)) <= QueueSize
      /\ got \in [Agent -> Seq(Nat)] /\ dropped \in [Agent -> SUBSET (1..Len(posted))]
      /\ \A b \in Agent :
           got[b] \o Waiting(queues, b) = Keep(Upto(Len(posted)), Wanted(b, posted, dropped[b]))
  BY DEF MailOK
<1>2. UNCHANGED <<posted, dropped>>
  BY DEF G!Receive
<1>3. \A x : /\ DOMAIN G!With(queues, a, x) = DOMAIN queues \cup {a}
             /\ \A b \in Agent :
                  Waiting(G!With(queues, a, x), b) = IF b = a THEN x ELSE Waiting(queues, b)
  BY DEF G!With, Waiting
<1>4. CASE w = <<>>
  <2>1. queues' = G!With(queues, a, <<>>) /\ got' = got
    BY <1>4 DEF G!Receive, Waiting
  <2>2. DOMAIN queues' \subseteq Agent /\ \A b \in Agent : Waiting(queues', b) = Waiting(queues, b)
    BY <1>1, <1>3, <1>4, <2>1
  <2> QED
    BY <1>1, <1>2, <2>1, <2>2 DEF MailOK
<1>5. CASE w # <<>>
  <2>1. queues' = G!With(queues, a, Tail(w)) /\ got' = [got EXCEPT ![a] = Append(@, Head(w))]
    BY <1>5 DEF G!Receive, Waiting
  <2>2. /\ DOMAIN queues' \subseteq Agent
        /\ \A b \in Agent : Waiting(queues', b) = IF b = a THEN Tail(w) ELSE Waiting(queues, b)
    BY <1>1, <1>3, <2>1
  <2>3. w \in Seq(Nat) /\ Len(w) <= QueueSize /\ got[a] \in Seq(Nat) /\ Len(w) \in Nat
    BY <1>1, LenProperties
  <2> HIDE DEF w
  <2>4. Tail(w) \in Seq(Nat) /\ Len(Tail(w)) = Len(w) - 1 /\ Head(w) \in Nat
    BY <1>5, <2>3, RangeHeadTail
  <2>5. Len(Tail(w)) <= QueueSize
    BY <2>3, <2>4 DEF BusAssumption
  <2>6. Append(got[a], Head(w)) \in Seq(Nat)
    BY <2>3, <2>4, AppendProperties
  <2>7. got' \in [Agent -> Seq(Nat)]
    BY <1>1, <2>1, <2>6
  <2>8. Append(got[a], Head(w)) \o Tail(w) = got[a] \o w
    BY <1>5, <2>3, HeadJoined
  <2>9. \A b \in Agent : got'[b] \o Waiting(queues', b) = got[b] \o Waiting(queues, b)
    <3> SUFFICES ASSUME NEW b \in Agent
                 PROVE  got'[b] \o Waiting(queues', b) = got[b] \o Waiting(queues, b)
      OBVIOUS
    <3>1. CASE b = a
      BY <1>1, <2>1, <2>2, <2>8, <3>1 DEF w
    <3>2. CASE b # a
      BY <1>1, <2>1, <2>2, <3>2
    <3> QED
      BY <3>1, <3>2
  <2>10. \A b \in Agent : Waiting(queues', b) \in Seq(Nat) /\ Len(Waiting(queues', b)) <= QueueSize
    BY <1>1, <2>2, <2>4, <2>5
  <2> QED
    BY <1>1, <1>2, <2>2, <2>7, <2>9, <2>10 DEF MailOK
<1> QED
  BY <1>4, <1>5

\* The log ends with the newest message.
LEMMA SendLog ==
  ASSUME BusAssumption, MailOK, LogOK, NEW to \in Agent \cup {Everybody}, G!Send(to)
  PROVE  LogOK'
<1> DEFINE n == Len(posted)
           m == Len(log)
           v == n + 1
           longer == Append(log, v)
           cut == SubSeq(longer, (m + 1) - MaxLog + 1, m + 1)
<1>1. posted \in Seq(Agent \cup {Everybody}) /\ posted' = Append(posted, to)
  BY DEF MailOK, G!Send
<1>2. n \in Nat /\ Len(posted') = n + 1
  BY <1>1, AppendProperties, LenProperties
<1>3. /\ log \in Seq(Nat) /\ m \in Nat /\ m <= 2 * MaxLog /\ m <= n
      /\ m >= (IF n < MaxLog THEN n ELSE MaxLog)
      /\ \A i \in 1..m : log[i] = n - m + i
      /\ MaxLog \in Nat
  BY LenProperties DEF LogOK, BusAssumption
<1>4. /\ longer \in Seq(Nat) /\ Len(longer) = m + 1 /\ longer[m + 1] = n + 1
      /\ \A i \in 1..m : longer[i] = log[i]
  <2>1. v \in Nat
    BY <1>2
  <2> HIDE DEF v
  <2>2. /\ longer \in Seq(Nat) /\ Len(longer) = m + 1 /\ longer[m + 1] = v
        /\ \A i \in 1..m : longer[i] = log[i]
    BY <1>3, <2>1, AppendProperties
  <2> QED
    BY <2>2 DEF v
<1>5. log' = IF m + 1 > 2 * MaxLog THEN cut ELSE longer
  <2>1. log' = IF Len(longer) > 2 * MaxLog
               THEN SubSeq(longer, Len(longer) - MaxLog + 1, Len(longer)) ELSE longer
    BY DEF G!Send, G!Logged
  <2> QED
    BY <1>4, <2>1
<1> HIDE DEF longer, v, n, m
<1>6. \A i \in 1..m + 1 : longer[i] = n - m + i
  <2> SUFFICES ASSUME NEW i \in 1..m + 1 PROVE longer[i] = n - m + i
    OBVIOUS
  <2>1. i \in 1..m \/ i = m + 1
    BY <1>3
  <2> QED
    BY <1>2, <1>3, <1>4, <2>1
<1>7. CASE m + 1 > 2 * MaxLog
  <2> DEFINE k == (m + 1) - MaxLog + 1
             h == m + 1
  <2>1. k \in 1..Len(longer) + 1 /\ h \in k - 1..Len(longer) /\ k \in Nat /\ h \in Nat
        /\ h - k + 1 = MaxLog
    BY <1>3, <1>4, <1>7
  <2> HIDE DEF k, h
  <2>2. /\ SubSeq(longer, k, h) \in Seq(Nat) /\ Len(SubSeq(longer, k, h)) = h - k + 1
        /\ \A i \in 1..h - k + 1 : SubSeq(longer, k, h)[i] = longer[k + i - 1]
    BY <1>4, <2>1, RangeOfPart
  <2>3. log' = SubSeq(longer, k, h)
    BY <1>5, <1>7 DEF k, h
  <2>4. log' \in Seq(Nat) /\ Len(log') = MaxLog /\ \A i \in 1..MaxLog : log'[i] = longer[k + i - 1]
    BY <2>1, <2>2, <2>3
  <2>5. \A i \in 1..MaxLog : k + i - 1 \in 1..m + 1 /\ n - m + (k + i - 1) = (n + 1) - MaxLog + i
    BY <1>2, <1>3, <1>7 DEF k
  <2>6. \A i \in 1..MaxLog : log'[i] = (n + 1) - MaxLog + i
    BY <1>6, <2>4, <2>5
  <2>7. MaxLog <= n + 1 /\ MaxLog <= 2 * MaxLog
    BY <1>2, <1>3, <1>7
  <2> QED
    BY <1>2, <1>3, <2>4, <2>6, <2>7 DEF LogOK
<1>8. CASE ~(m + 1 > 2 * MaxLog)
  <2>1. log' = longer /\ m + 1 <= 2 * MaxLog
    BY <1>3, <1>5, <1>8
  <2>2. \A i \in 1..m + 1 : longer[i] = (n + 1) - (m + 1) + i
    BY <1>2, <1>3, <1>6
  <2>3. m + 1 <= n + 1 /\ m + 1 >= (IF n + 1 < MaxLog THEN n + 1 ELSE MaxLog)
    BY <1>2, <1>3
  <2>4. /\ log' \in Seq(Nat) /\ Len(log') = m + 1
        /\ \A i \in 1..m + 1 : log'[i] = (n + 1) - (m + 1) + i
    BY <1>4, <2>1, <2>2
  <2> QED
    BY <1>2, <2>1, <2>3, <2>4 DEF LogOK
<1> QED
  BY <1>7, <1>8

\* A proposal more drives out the oldest one, if there are too many.
LEMMA ProposeStep ==
  ASSUME BusAssumption, MailOK, ProposalsOK, NEW p \in Proposal,
         announcing + Len(posted) < MaxMessages, G!Propose(p)
  PROVE  ProposalsOK'
<1> DEFINE n == Len(proposed)
           more == Append(proposed, p)
           excess == IF n + 1 > MaxProposals THEN (n + 1) - MaxProposals ELSE 0
           k == excess + 1
           h == n + 1
           rest == SubSeq(more, k, h)
<1>1. /\ proposed \in Seq(Proposal) /\ n \in Nat /\ n <= MaxProposals /\ Distinct(proposed)
      /\ MaxProposals \in Nat /\ Range(proposed) = DOMAIN votes
  BY LenProperties DEF ProposalsOK, BusAssumption
<1>2. /\ more \in Seq(Proposal) /\ Len(more) = n + 1 /\ more[n + 1] = p
      /\ \A i \in 1..n : more[i] = proposed[i]
  BY <1>1, AppendProperties
<1>3. p \notin DOMAIN votes /\ announcing' = announcing + 1
      /\ proposed' = rest /\ votes' = G!Kept(G!With(votes, p, G!Nothing), Range(rest))
  BY <1>2, BusSame DEF G!Propose
<1>4. Range(more) = DOMAIN votes \cup {p}
  BY <1>1, RangeAppended
<1>5. Range(proposed) = {proposed[i] : i \in 1..n}
  BY <1>1, RangeEquality
<1> HIDE DEF more, n
<1>6. Distinct(more)
  <2> SUFFICES ASSUME NEW i \in 1..n + 1, NEW j \in 1..n + 1, more[i] = more[j]
               PROVE  i = j
    BY <1>2 DEF Distinct
  <2>1. \A l \in 1..n : more[l] # p
    BY <1>1, <1>2, <1>3, <1>5
  <2>2. (i \in 1..n \/ i = n + 1) /\ (j \in 1..n \/ j = n + 1)
    BY <1>1
  <2>3. CASE i \in 1..n /\ j \in 1..n
    BY <1>1, <1>2, <2>3 DEF Distinct, n
  <2> QED
    BY <1>2, <2>1, <2>2, <2>3
<1>7. excess \in {0, 1} /\ k \in 1..Len(more) + 1 /\ h \in k - 1..Len(more) /\ k \in Nat /\ h \in Nat
      /\ h - k + 1 <= MaxProposals /\ h - k + 1 >= 0
  BY <1>1, <1>2
<1> HIDE DEF k, h
<1>8. /\ rest \in Seq(Proposal) /\ Len(rest) = h - k + 1 /\ Range(rest) \subseteq Range(more)
      /\ \A i \in 1..h - k + 1 : rest[i] = more[k + i - 1]
  BY <1>2, <1>7, RangeOfPart
<1> HIDE DEF rest, excess
<1>9. Distinct(rest)
  <2> SUFFICES ASSUME NEW i \in 1..h - k + 1, NEW j \in 1..h - k + 1, rest[i] = rest[j]
               PROVE  i = j
    BY <1>8 DEF Distinct
  <2>1. k + i - 1 \in 1..Len(more) /\ k + j - 1 \in 1..Len(more)
    BY <1>2, <1>7
  <2>2. more[k + i - 1] = more[k + j - 1]
    BY <1>8
  <2>3. k + i - 1 = k + j - 1
    BY <1>6, <2>1, <2>2 DEF Distinct
  <2> QED
    BY <1>7, <2>3
<1>10. /\ DOMAIN votes' = Range(rest)
       /\ \A q \in Range(rest) : votes'[q] = IF q = p THEN G!Nothing ELSE votes[q]
       /\ \A q \in Range(rest) : q = p \/ q \in DOMAIN votes
  <2>1. DOMAIN G!With(votes, p, G!Nothing) = DOMAIN votes \cup {p}
    BY DEF G!With
  <2>2. \A q \in DOMAIN votes \cup {p} :
          G!With(votes, p, G!Nothing)[q] = IF q = p THEN G!Nothing ELSE votes[q]
    BY DEF G!With
  <2> QED
    BY <1>3, <1>4, <1>8, <2>1, <2>2 DEF G!Kept
<1>11. \A q \in DOMAIN votes' :
         /\ DOMAIN votes'[q] \subseteq Agent /\ IsFiniteSet(DOMAIN votes'[q])
         /\ \A a \in DOMAIN votes'[q] : votes'[q][a] \in Option
  <2> SUFFICES ASSUME NEW q \in Range(rest)
               PROVE  /\ DOMAIN votes'[q] \subseteq Agent /\ IsFiniteSet(DOMAIN votes'[q])
                      /\ \A a \in DOMAIN votes'[q] : votes'[q][a] \in Option
    BY <1>10
  <2>1. CASE q = p
    <3>1. votes'[q] = G!Nothing
      BY <1>10, <2>1
    <3>2. DOMAIN G!Nothing = {}
      BY DEF G!Nothing
    <3> QED
      BY <3>1, <3>2, FS_EmptySet
  <2>2. CASE q # p
    <3>1. q \in DOMAIN votes /\ votes'[q] = votes[q]
      BY <1>10, <2>2
    <3> QED
      BY <3>1 DEF ProposalsOK
  <2> QED
    BY <2>1, <2>2
<1>12. announcing' \in 0..MaxMessages
  <2>1. Len(posted) \in Nat
    BY LenProperties DEF MailOK
  <2> QED
    BY <1>3, <2>1 DEF ProposalsOK, BusAssumption
<1>13. proposed' = rest
  BY <1>3
<1> QED
  BY <1>1, <1>7, <1>8, <1>9, <1>10, <1>11, <1>12, <1>13 DEF ProposalsOK

\* A vote more is one of one voter.
LEMMA VoteStep ==
  ASSUME ProposalsOK, NEW p \in Proposal, NEW a \in Agent, NEW o \in Option, G!Vote(p, a, o)
  PROVE  ProposalsOK'
<1> DEFINE d == G!With(votes[p], a, o)
<1>1. /\ p \in DOMAIN votes /\ UNCHANGED <<proposed, announcing>>
      /\ votes' = [votes EXCEPT ![p] = d]
  BY DEF G!Vote
<1>2. /\ DOMAIN votes[p] \subseteq Agent /\ IsFiniteSet(DOMAIN votes[p])
      /\ \A b \in DOMAIN votes[p] : votes[p][b] \in Option
  BY <1>1 DEF ProposalsOK
<1>3. DOMAIN d = DOMAIN votes[p] \cup {a} /\ \A b \in DOMAIN d : d[b] \in Option
  BY <1>2 DEF G!With
<1>4. DOMAIN d \subseteq Agent /\ IsFiniteSet(DOMAIN d)
  BY <1>2, <1>3, FS_AddElement
<1> HIDE DEF d
<1>5. \A q \in DOMAIN votes : votes'[q] = IF q = p THEN d ELSE votes[q]
  BY <1>1
<1>6. DOMAIN votes' = DOMAIN votes
  BY <1>1
<1>7. \A q \in DOMAIN votes' :
        /\ DOMAIN votes'[q] \subseteq Agent /\ IsFiniteSet(DOMAIN votes'[q])
        /\ \A b \in DOMAIN votes'[q] : votes'[q][b] \in Option
  BY <1>3, <1>4, <1>5, <1>6 DEF ProposalsOK
<1> QED
  BY <1>1, <1>6, <1>7 DEF ProposalsOK

\* A step of another operation leaves the proposals alone.
LEMMA ProposalsKept ==
  ASSUME BusAssumption, ProposalsOK, UNCHANGED <<proposed, votes>>,
         announcing' = announcing \/ (announcing > 0 /\ announcing' = announcing - 1)
  PROVE  ProposalsOK'
<1>1. announcing' \in 0..MaxMessages
  BY DEF ProposalsOK, BusAssumption
<1> QED
  BY <1>1 DEF ProposalsOK

\* At first nothing was sent or proposed.
LEMMA InitBus ==
  ASSUME BusAssumption, G!Init
  PROVE  BusInv
<1>1. /\ posted = <<>> /\ log = <<>> /\ proposed = <<>> /\ announcing = 0
      /\ DOMAIN queues = {} /\ DOMAIN votes = {}
      /\ got = [a \in Agent |-> <<>>] /\ dropped = [a \in Agent |-> {}]
  BY DEF G!Init, G!Nothing
<1>2. Len(posted) = 0 /\ Len(log) = 0 /\ Len(proposed) = 0 /\ Range(proposed) = {}
      /\ (\A Y : <<>> \in Seq(Y)) /\ Len(<<>>) = 0
  BY <1>1, OfEmpty
<1>3. Upto(0) = <<>>
  BY OneMore, EmptySeq
<1>4. \A a : Keep(Upto(0), Wanted(a, posted, {})) = <<>>
  BY <1>3, KeepEmpty
<1>5. <<>> \o <<>> = <<>>
  <2> DEFINE e == <<>>
             u == e \o e
  <2>1. e \in Seq(Nat) /\ Len(e) = 0
    BY <1>2
  <2>2. u \in Seq(Nat) /\ Len(u) = 0
    BY <2>1, ConcatProperties
  <2> HIDE DEF u
  <2>3. u = <<>>
    BY <2>2, EmptySeq
  <2> QED
    BY <2>3 DEF u
<1>6. \A a \in Agent : Waiting(queues, a) = <<>> /\ got[a] = <<>> /\ dropped[a] = {}
  BY <1>1 DEF Waiting
<1>7. MailOK
  <2>1. \A a \in Agent :
          got[a] \o Waiting(queues, a) = Keep(Upto(Len(posted)), Wanted(a, posted, dropped[a]))
    <3> SUFFICES ASSUME NEW a \in Agent
                 PROVE  got[a] \o Waiting(queues, a)
                          = Keep(Upto(Len(posted)), Wanted(a, posted, dropped[a]))
      OBVIOUS
    <3>1. Keep(Upto(Len(posted)), Wanted(a, posted, dropped[a])) = <<>>
      BY <1>2, <1>4, <1>6
    <3> QED
      BY <1>5, <1>6, <3>1
  <2>2. got \in [Agent -> Seq(Nat)] /\ dropped \in [Agent -> SUBSET (1..Len(posted))]
    BY <1>1, <1>2
  <2>3. \A a \in Agent : Waiting(queues, a) \in Seq(Nat) /\ Len(Waiting(queues, a)) <= QueueSize
    <3>1. 0 <= QueueSize
      BY DEF BusAssumption
    <3>2. Len(<<>>) = 0 /\ <<>> \in Seq(Nat)
      BY <1>2
    <3> DEFINE e == <<>>
    <3>3. e \in Seq(Nat) /\ Len(e) <= QueueSize
      BY <3>1, <3>2
    <3> HIDE DEF e
    <3>4. \A a \in Agent : Waiting(queues, a) = e
      BY <1>6 DEF e
    <3> QED
      BY <3>3, <3>4
  <2> QED
    BY <1>1, <1>2, <2>1, <2>2, <2>3 DEF MailOK
<1>8. LogOK
  BY <1>1, <1>2 DEF LogOK, BusAssumption
<1>9. ProposalsOK
  BY <1>1, <1>2 DEF ProposalsOK, Distinct, BusAssumption
<1> QED
  BY <1>7, <1>8, <1>9 DEF BusInv

\* Every operation keeps the messages, the log and the proposals in order.
LEMMA NextBus ==
  ASSUME BusAssumption, BusInv, G!Next
  PROVE  BusInv'
<1>1. MailOK /\ LogOK /\ ProposalsOK
  BY DEF BusInv
<1>2. ASSUME NEW to \in Agent, G!Post(to)
      PROVE  BusInv'
  <2>1. G!Send(to) /\ UNCHANGED <<proposed, votes, announcing, got>>
    BY <1>2 DEF G!Post
  <2>2. to \in Agent \cup {Everybody}
    OBVIOUS
  <2>3. MailOK'
    BY <1>1, <2>1, <2>2, SendMail
  <2>4. LogOK'
    BY <1>1, <2>1, <2>2, SendLog
  <2>5. ProposalsOK'
    BY <1>1, <2>1, ProposalsKept
  <2> QED
    BY <2>3, <2>4, <2>5 DEF BusInv
<1>3. ASSUME NEW a \in Agent, G!Receive(a)
      PROVE  BusInv'
  <2>1. UNCHANGED <<posted, log, proposed, votes, announcing, dropped>>
    BY <1>3 DEF G!Receive
  <2>2. MailOK'
    BY <1>1, <1>3, ReceiveMail
  <2>3. LogOK'
    BY <1>1, <2>1 DEF LogOK
  <2>4. ProposalsOK'
    BY <1>1, <2>1, ProposalsKept
  <2> QED
    BY <2>2, <2>3, <2>4 DEF BusInv
<1>4. ASSUME NEW p \in Proposal, announcing + Len(posted) < MaxMessages, G!Propose(p)
      PROVE  BusInv'
  <2>1. UNCHANGED <<posted, queues, log, got, dropped>>
    BY <1>4 DEF G!Propose
  <2>2. MailOK'
    BY <1>1, <2>1 DEF MailOK
  <2>3. LogOK'
    BY <1>1, <2>1 DEF LogOK
  <2>4. ProposalsOK'
    BY <1>1, <1>4, ProposeStep
  <2> QED
    BY <2>2, <2>3, <2>4 DEF BusInv
<1>5. ASSUME G!Announce
      PROVE  BusInv'
  <2>1. /\ G!Send(Everybody) /\ UNCHANGED <<proposed, votes, got>>
        /\ announcing > 0 /\ announcing' = announcing - 1
    BY <1>5 DEF G!Announce
  <2>2. Everybody \in Agent \cup {Everybody}
    OBVIOUS
  <2>3. MailOK'
    BY <1>1, <2>1, <2>2, SendMail
  <2>4. LogOK'
    BY <1>1, <2>1, <2>2, SendLog
  <2>5. ProposalsOK'
    BY <1>1, <2>1, ProposalsKept
  <2> QED
    BY <2>3, <2>4, <2>5 DEF BusInv
<1>6. ASSUME NEW p \in Proposal, NEW a \in Agent, NEW o \in Option, G!Vote(p, a, o)
      PROVE  BusInv'
  <2>1. UNCHANGED <<posted, queues, log, got, dropped>>
    BY <1>6 DEF G!Vote
  <2>2. MailOK'
    BY <1>1, <2>1 DEF MailOK
  <2>3. LogOK'
    BY <1>1, <2>1 DEF LogOK
  <2>4. ProposalsOK'
    BY <1>1, <1>6, VoteStep
  <2> QED
    BY <2>2, <2>3, <2>4 DEF BusInv
<1> QED
  BY <1>2, <1>3, <1>4, <1>5, <1>6 DEF G!Next

\* Where nothing happens nothing changes.
LEMMA StutterBus ==
  ASSUME BusInv, UNCHANGED G!vars
  PROVE  BusInv'
<1>1. UNCHANGED <<posted, queues, log, proposed, votes, announcing, got, dropped>>
  BY DEF G!vars
<1>2. MailOK'
  BY <1>1 DEF BusInv, MailOK
<1>3. LogOK'
  BY <1>1 DEF BusInv, LogOK
<1>4. ProposalsOK'
  BY <1>1 DEF BusInv, ProposalsOK
<1> QED
  BY <1>2, <1>3, <1>4 DEF BusInv

\* Two options cannot both have more than half of the votes.
LEMMA OneDecided ==
  ASSUME ProposalsOK, NEW p \in DOMAIN votes
  PROVE  Cardinality(G!Decided(p)) <= 1
<1>1. IsFiniteSet(DOMAIN votes[p])
  BY DEF ProposalsOK
<1>2. ASSUME NEW o \in G!Decided(p), NEW q \in G!Decided(p)
      PROVE  o = q
  <2> DEFINE v == G!VotesFor(p, o)
             w == G!VotesFor(p, q)
             d == DOMAIN votes[p]
  <2>1. 2 * Cardinality(v) > Cardinality(d) /\ 2 * Cardinality(w) > Cardinality(d)
    BY BusSame DEF G!Decided
  <2>2. /\ v \subseteq d /\ w \subseteq d
        /\ (\A a \in v : votes[p][a] = o) /\ \A a \in w : votes[p][a] = q
    BY DEF G!VotesFor
  <2> HIDE DEF v, w, d
  <2>3. IsFiniteSet(d)
    BY <1>1 DEF d
  <2>4. Cardinality(v) \in Nat /\ Cardinality(w) \in Nat /\ Cardinality(d) \in Nat
    BY <2>2, <2>3, FS_Subset, FS_CardinalityType
  <2>5. Cardinality(v) + Cardinality(w) > Cardinality(d)
    BY <2>1, <2>4
  <2>6. v \cap w # {}
    BY <2>2, <2>3, <2>5, FS_MajoritiesIntersect
  <2> QED
    BY <2>2, <2>6
<1>3. CASE G!Decided(p) = {}
  BY <1>3, FS_EmptySet
<1>4. CASE G!Decided(p) # {}
  <2>1. PICK o : o \in G!Decided(p)
    BY <1>4
  <2>2. G!Decided(p) = {o}
    BY <1>2, <2>1
  <2> QED
    BY <2>2, FS_Singleton
<1> QED
  BY <1>3, <1>4

\* There are as many votes as proposals.
LEMMA VotesCounted ==
  ASSUME ProposalsOK
  PROVE  Cardinality(DOMAIN votes) = Len(proposed)
<1> DEFINE n == Len(proposed)
           d == DOMAIN votes
<1>1. /\ proposed \in Seq(Proposal) /\ n \in Nat /\ d = Range(proposed)
      /\ \A i, j \in 1..n : proposed[i] = proposed[j] => i = j
  BY LenProperties DEF ProposalsOK, Distinct
<1>2. DOMAIN proposed = 1..n /\ d = {proposed[i] : i \in 1..n}
  BY <1>1, RangeEquality, LenProperties
<1>3. proposed \in [1..n -> d] /\ \A x \in d : \E i \in 1..n : proposed[i] = x
  BY <1>1, <1>2
<1> HIDE DEF n, d
<1>4. proposed \in Bijection(1..n, d)
  BY <1>1, <1>3 DEF Bijection, Injection, Surjection, IsInjective
<1>5. ExistsBijection(1..n, d)
  BY <1>4 DEF ExistsBijection
<1>6. Cardinality(d) = n
  BY <1>1, <1>5, FS_CountingElements
<1> QED
  BY <1>6 DEF n, d

\* The messages arrive in order, the log and the proposals are the newest.
LEMMA BusHolds ==
  ASSUME BusAssumption, BusInv
  PROVE  G!ReceivedInOrder /\ G!LogIsRecent /\ G!ProposalsAreBounded /\ G!TypeOK
<1>1. MailOK /\ LogOK /\ ProposalsOK
  BY DEF BusInv
<1>2. G!ReceivedInOrder
  <2> SUFFICES ASSUME NEW a \in Agent
               PROVE  got[a] \o Waiting(queues, a)
                        = G!Keep([i \in 1..Len(posted) |-> i],
                                 {i \in 1..Len(posted) : posted[i] \in {a, Everybody}
                                                           /\ i \notin dropped[a]})
    BY DEF G!ReceivedInOrder, Waiting
  <2>1. got[a] \o Waiting(queues, a) = Keep(Upto(Len(posted)), Wanted(a, posted, dropped[a]))
    BY <1>1 DEF MailOK
  <2> QED
    BY <2>1, BusSame DEF Upto, Wanted
<1>3. G!LogIsRecent
  <2>1. DOMAIN log = 1..Len(log)
    BY <1>1, LenProperties DEF LogOK
  <2> QED
    BY <1>1, <2>1 DEF LogOK, G!LogIsRecent
<1>4. G!ProposalsAreBounded
  BY <1>1, BusSame, OneDecided, VotesCounted DEF ProposalsOK, G!ProposalsAreBounded
<1>5. G!TypeOK
  <2>1. \A a \in DOMAIN queues : a \in Agent /\ Len(queues[a]) <= QueueSize
    BY <1>1 DEF MailOK, Waiting
  <2>2. \A p \in DOMAIN votes : Range(votes[p]) \subseteq Option
    BY <1>1 DEF ProposalsOK, Range
  <2> QED
    BY <1>1, <2>1, <2>2, BusSame DEF G!TypeOK, MailOK, LogOK, ProposalsOK
<1> QED
  BY <1>2, <1>3, <1>4, <1>5

-----------------------------------------------------------------------------
(* The other parts.                                                        *)

\* Two modules of two tools and of one; one tool more that only a file names.
ToolFiles == <<<<p1, p2>>, <<p3>>>>
ToolDecorated == (p1 :> 2) @@ (p2 :> 1) @@ (p3 :> Unset) @@ (e1 :> Unset)
ToolOfClass == (p1 :> 0) @@ (p2 :> 0) @@ (p3 :> 3) @@ (e1 :> 0)
ToolEdition == {o1, o2}
Says(risk, enabled, edition) ==
  [risk |-> risk, enabled |-> enabled, edition |-> edition]
ToolYaml ==
  {[t \in {} |-> 0],
   (p1 :> Says(Unset, TRUE, {o1})) @@ (e1 :> Says(3, FALSE, ToolEdition)),
   (p1 :> Says(1, TRUE, ToolEdition)) @@ (p2 :> Says(2, FALSE, ToolEdition))
     @@ (e1 :> Says(1, TRUE, ToolEdition))}
Policy(forbidden, highest, approval) ==
  [forbidden |-> forbidden, highest |-> highest, approval |-> approval, is |-> TRUE]

T == INSTANCE ToolRegistry
       WITH Tool <- {p1, p2, p3, e1}, Edition <- ToolEdition,
            Files <- ToolFiles, Decorated <- ToolDecorated,
            OfClass <- ToolOfClass, YamlFiles <- ToolYaml,
            Policies <- {Policy({p3}, 2, {2}), Policy({}, 3, {2, 3})},
            loaded <- imported

J == INSTANCE JobStore

C == INSTANCE CronScheduler

X == INSTANCE McpClient
       WITH requests <- sent, tools <- known, leaving <- parting,
            overlapped <- tangled

N == INSTANCE PluginLoader
       WITH Request <- Admin, MaxInstances <- MaxObjects, crossed <- mixed

-----------------------------------------------------------------------------
(* The composition.                                                        *)

limiter == <<now, config, requests, history>>
router == <<health, call>>
store == <<status, context, editor, raced>>
scheduler == <<sched, current, stopped, marks, file, runs, lost, doubled>>
plan ==
  <<task, outcome, pc, at, recovery, rows, token, begun, acted, result, writing,
    overdue>>
pipe ==
  <<halted, loop, serving, accept, peer, conn, shaken, registered, closing,
    after, late, overlapped>>
monitor ==
  <<real, changes, callbacks, last, poll, watching, ending, joining, queue,
    told, fresh, paired>>
browser ==
  <<creating, contexts, open, partitions, dirs, leaving, download, verdict,
    crossed, unclosed, unwiped>>
mcp ==
  <<process, child, base, client, connected, sent, known, coroutine, parting,
    shifted, tangled, moved>>
plugins ==
  <<listed, loaded, errors, failed, instance, made, request, emission, mixed,
    steady>>
registry ==
  <<yamlFile, policyFile, yaml, tools, imported, engine, torn, answer, edits,
    restarts>>
subAgents == <<active, run>>
bus == <<posted, queues, log, proposed, votes, announcing, got, dropped>>
first == <<vars, limiter, router, store, scheduler>>
second == <<plan, pipe, monitor, browser>>
third == <<mcp, plugins, registry, subAgents, bus>>
allVars == <<focus, first, second, third>>

\* One request per second for r1, two in three seconds for r2; and the same
\* for both.
SmallConfigs ==
  {[r \in Route |-> IF r = r1 THEN [limit |-> 1, window |-> 1]
                              ELSE [limit |-> 2, window |-> 3]],
   [r \in Route |-> [limit |-> 1, window |-> 2]]}

\* A chain with a provider in its middle that is not configured.
SmallChain == <<p1, p3, p2>>

AllInit ==
  /\ focus \in {"grants", "limiter", "router", "store", "scheduler", "plan",
                "pipe", "monitor", "browser", "mcp", "plugins", "registry",
                "subAgents", "bus"}
  /\ Init /\ (focus = "grants" \/ \A h \in Holder : holder[h].grant = g1)
  /\ L!Init /\ (focus = "limiter" \/ config[r1].window = 1)
  /\ R!Init /\ J!Init /\ C!Init /\ P!Init /\ I!Init /\ B!Init
  /\ M!Init /\ (focus = "monitor" \/ real = o1)
  /\ X!Init /\ N!Init /\ A!Init /\ G!Init
  /\ T!Init /\ (focus = "registry" \/ (DOMAIN yaml = {} /\ policyFile.highest = 3))

FirstNext ==
  \/ /\ focus = "grants" /\ Next
     /\ UNCHANGED <<limiter, router, store, scheduler>>
  \/ /\ focus = "limiter" /\ L!Next
     /\ UNCHANGED <<vars, router, store, scheduler>>
  \/ /\ focus = "router" /\ R!Next
     /\ UNCHANGED <<vars, limiter, store, scheduler>>
  \/ /\ focus = "store" /\ J!Next
     /\ UNCHANGED <<vars, limiter, router, scheduler>>
  \/ /\ focus = "scheduler" /\ C!Next
     /\ UNCHANGED <<vars, limiter, router, store>>

SecondNext ==
  \/ focus = "plan" /\ P!Next /\ UNCHANGED <<pipe, monitor, browser>>
  \/ focus = "pipe" /\ I!Next /\ UNCHANGED <<plan, monitor, browser>>
  \/ focus = "monitor" /\ M!Next /\ UNCHANGED <<plan, pipe, browser>>
  \/ focus = "browser" /\ B!Next /\ UNCHANGED <<plan, pipe, monitor>>

ThirdNext ==
  \/ focus = "mcp" /\ X!Next /\ UNCHANGED <<plugins, registry, subAgents, bus>>
  \/ focus = "plugins" /\ N!Next /\ UNCHANGED <<mcp, registry, subAgents, bus>>
  \/ focus = "registry" /\ T!Next /\ UNCHANGED <<mcp, plugins, subAgents, bus>>
  \/ focus = "subAgents" /\ A!Next /\ UNCHANGED <<mcp, plugins, registry, bus>>
  \/ focus = "bus" /\ G!Next /\ UNCHANGED <<mcp, plugins, registry, subAgents>>

AllNext ==
  /\ UNCHANGED focus
  /\ \/ FirstNext /\ UNCHANGED <<second, third>>
     \/ SecondNext /\ UNCHANGED <<first, third>>
     \/ ThirdNext /\ UNCHANGED <<first, second>>

AllSpec == AllInit /\ [][AllNext]_allVars

-----------------------------------------------------------------------------
(* The properties, under names of their own.                               *)

(* Every service keeps its variables in their ranges.                      *)
AllTypeOK ==
  /\ focus = "grants" => TypeOK
  /\ focus = "limiter" => L!TypeOK
  /\ focus = "router" => R!TypeOK
  /\ focus = "store" => J!TypeOK
  /\ focus = "scheduler" => C!TypeOK
  /\ focus = "plan" => P!TypeOK
  /\ focus = "pipe" => I!TypeOK
  /\ focus = "monitor" => M!TypeOK
  /\ focus = "browser" => B!TypeOK
  /\ focus = "mcp" => X!TypeOK
  /\ focus = "plugins" => N!TypeOK
  /\ focus = "registry" => T!TypeOK
  /\ focus = "subAgents" => A!TypeOK
  /\ focus = "bus" => G!TypeOK

(* LimitHolds of RateLimiter: no client gets more requests through in a    *)
(* route's window than its limit (_is_allowed of rate_limiter.py).  Of     *)
(* AgentBus: its limits cut nothing else, so messages arrive in order but  *)
(* for those that found a queue full, the log has the newest, the votes    *)
(* are those of the newest proposals (agent_bus.py).                       *)
LimitHolds ==
  /\ focus = "limiter" => L!LimitHolds
  /\ focus = "bus" => G!ReceivedInOrder /\ G!LogIsRecent /\ G!ProposalsAreBounded

(* FailedHasTriedAll of ProviderRouter: a call gives up only when it has   *)
(* tried its whole chain (generate_with_failover of provider_router.py).   *)
FailedHasTriedAll == focus = "router" => R!FailedHasTriedAll

(* UpstreamFirst of JobStore and OneShotOnce of CronScheduler: a tick runs *)
(* no job before one it depends on, and a one-shot job runs again only     *)
(* after a crash or with a second thread (_topo_sort, tick of scheduler.py,*)
(* validate_context_from of jobs.py).                                      *)
JobsRunInOrderAndOnce ==
  /\ focus = "store" => J!UpstreamFirst
  /\ focus = "scheduler" => C!OneShotOnce

(* Of PlanRunner: no step runs, and no task is COMPLETED, before each      *)
(* earlier step was done or replaced, and the rows say what the tools have *)
(* done (_execute_plan_inner, _execute_step_with_retry of                  *)
(* executor_service.py, run of tool_runner.py).  Of SubAgents: the count   *)
(* of runs is right however they end, success means that every step was    *)
(* executed, and runs that are gathered do not refuse each other           *)
(* (delegate_tool.py).                                                     *)
StepsAreSettled ==
  /\ focus = "plan" => P!EarlierIsSettled /\ P!RowsAreTrue
  /\ focus = "subAgents" => A!CountIsTrue /\ A!SuccessIsTrue /\ A!TogetherFits

(* Of PipeServer: stop and close know every thread that goes on, but for   *)
(* those begun after a stop; a connection answers at most the request it   *)
(* was in; handlers have their loop unless two calls of serve overlapped   *)
(* (_serve_loop, _handle_connection, serve, close of local_ipc.py).  Of    *)
(* SessionMonitor: a callback registered before the last change learns of  *)
(* it, unless two threads poll (_poll_loop, _emit of session_monitor.py).  *)
(* Of BrowserIsolation: what a task's browser leaves behind is found and   *)
(* wiped, and only clean downloads get out (close_context of               *)
(* browser_isolation.py, quarantine_download of quarantine.py).            *)
DesktopIsServed ==
  /\ focus = "pipe" => I!ThreadsAreKnown /\ I!StopIsSeen /\ I!ServedHasLoop
  /\ focus = "monitor" => M!CallbacksAreCurrent
  /\ focus = "browser" =>
       B!OpenIsKnown /\ B!DirectoriesFollow /\ B!OnlyCleanIsReleased

(* Of McpClient: a caller gets the answer to its own request from the      *)
(* server that was connected last, and no server process is forgotten      *)
(* (_send_stdio, connect_http, disconnect of mcp_client.py).  Of           *)
(* PluginLoader: an emitted hook reaches all plugins that stay active,     *)
(* active ones hold what on_load took, failed loads are shown (loader.py). *)
(* Of ToolRegistry: what is granted is what the operator's file allows,    *)
(* and only a complete registry serves (unified_registry.py, check of      *)
(* policy_engine.py, get_orchestrator of dependencies.py).                 *)
ExtensionsHold ==
  /\ focus = "mcp" =>
       /\ X!AnswersMatch /\ X!AnswersFromServer
       /\ X!NoOrphans /\ X!ConnectedHasServer
  /\ focus = "plugins" => N!HookReachesActive /\ N!ActiveIsHeld /\ N!FailuresAreShown
  /\ focus = "registry" =>
       T!GrantedIsAllowed /\ T!BuiltIsComplete /\ T!FailureIsPassing

-----------------------------------------------------------------------------
(* The steps of the whole are steps of its parts.                          *)

\* A step of the whole is a step of each part, or leaves it alone.
LEMMA FirstParts ==
  ASSUME [AllNext]_allVars
  PROVE  /\ [Next]_vars /\ [L!Next]_(L!vars) /\ [R!Next]_(R!vars)
         /\ [J!Next]_(J!vars) /\ [C!Next]_(C!vars)
<1>1. FirstNext \/ UNCHANGED first
  BY DEF AllNext, allVars
<1>2. /\ limiter = L!vars /\ router = R!vars /\ store = J!vars /\ scheduler = C!vars
      /\ limiter' = L!vars' /\ router' = R!vars' /\ store' = J!vars' /\ scheduler' = C!vars'
  BY DEF limiter, L!vars, router, R!vars, store, J!vars, scheduler, C!vars
<1>3. UNCHANGED first => UNCHANGED <<vars, limiter, router, store, scheduler>>
  BY DEF first
<1> QED
  BY <1>1, <1>2, <1>3 DEF FirstNext

\* So it is for those of the second group.
LEMMA SecondParts ==
  ASSUME [AllNext]_allVars
  PROVE  /\ [P!Next]_(P!vars) /\ [I!Next]_(I!vars) /\ [M!Next]_(M!vars) /\ [B!Next]_(B!vars)
<1>1. SecondNext \/ UNCHANGED second
  BY DEF AllNext, allVars
<1>2. /\ plan = P!vars /\ pipe = I!vars /\ monitor = M!vars /\ browser = B!vars
      /\ plan' = P!vars' /\ pipe' = I!vars' /\ monitor' = M!vars' /\ browser' = B!vars'
  BY DEF plan, P!vars, pipe, I!vars, monitor, M!vars, browser, B!vars
<1>3. UNCHANGED second => UNCHANGED <<plan, pipe, monitor, browser>>
  BY DEF second
<1> QED
  BY <1>1, <1>2, <1>3 DEF SecondNext

\* And for those of the third.
LEMMA ThirdParts ==
  ASSUME [AllNext]_allVars
  PROVE  /\ [X!Next]_(X!vars) /\ [N!Next]_(N!vars) /\ [T!Next]_(T!vars)
         /\ [A!Next]_(A!vars) /\ [G!Next]_(G!vars)
<1>1. ThirdNext \/ UNCHANGED third
  BY DEF AllNext, allVars
<1>2. /\ mcp = X!vars /\ plugins = N!vars /\ registry = T!vars /\ subAgents = A!vars
      /\ bus = G!vars
      /\ mcp' = X!vars' /\ plugins' = N!vars' /\ registry' = T!vars' /\ subAgents' = A!vars'
      /\ bus' = G!vars'
  BY DEF mcp, X!vars, plugins, N!vars, registry, T!vars, subAgents, A!vars, bus, G!vars
<1>3. UNCHANGED third => UNCHANGED <<mcp, plugins, registry, subAgents, bus>>
  BY DEF third
<1> QED
  BY <1>1, <1>2, <1>3 DEF ThirdNext

-----------------------------------------------------------------------------
(* The theorems of the services together.                                  *)

(* A grant is used by at most one holder, and stays used: also where the   *)
(* grants are one part of the services (consume of grant_issuer.py).       *)
THEOREM ServicesUseGrantsOnce == AllSpec => []UsedOnce
<1>1. AllInit => IInv
  BY InitIInv DEF AllInit
<1>2. IInv /\ [AllNext]_allVars => IInv'
  BY FirstParts, NextIInv
<1>3. IInv => UsedOnce
  BY DEF IInv
<1> QED
  BY <1>1, <1>2, <1>3, PTL DEF AllSpec

(* The pipe server knows every thread that goes on and serves with a loop, *)
(* the callbacks learn of the last change of the session, and a task's     *)
(* browser leaves nothing behind that is not found and wiped               *)
(* (local_ipc.py, session_monitor.py, browser_isolation.py).               *)
THEOREM DesktopServes ==
  NoPeer \notin Peer /\ BrowserAssumption => (AllSpec => []DesktopIsServed)
<1> SUFFICES ASSUME NoPeer \notin Peer, BrowserAssumption
             PROVE  AllSpec => []DesktopIsServed
  OBVIOUS
<1> DEFINE Inv == PipeInv /\ MonitorInv /\ BrowserInv
<1>1. AllInit => Inv
  BY InitPipe, InitMonitor, InitBrowser DEF AllInit
<1>2. Inv /\ [AllNext]_allVars => Inv'
  BY SecondParts, NextPipe, NextMonitor, NextBrowser
<1>3. Inv => DesktopIsServed
  BY PipeServes, MonitorTells, BrowserKeeps DEF DesktopIsServed
<1> QED
  BY <1>1, <1>2, <1>3, PTL DEF AllSpec

(* No step of a plan runs and no task is completed before each earlier     *)
(* step was done or replaced, and the rows say what the tools have done;   *)
(* the count of sub-agents is right however they end, and success means    *)
(* that every step was executed (executor_service.py, delegate_tool.py).   *)
THEOREM StepsSettle ==
  PlanAssumption /\ DelegationAssumption => (AllSpec => []StepsAreSettled)
<1> SUFFICES ASSUME PlanAssumption, DelegationAssumption
             PROVE  AllSpec => []StepsAreSettled
  OBVIOUS
<1> DEFINE Inv == PlanInv /\ DelegationInv
<1>1. AllInit => Inv
  BY InitPlan, InitDelegation DEF AllInit
<1>2. Inv /\ [AllNext]_allVars => Inv'
  BY SecondParts, ThirdParts, NextPlan, NextDelegation
<1>3. Inv => StepsAreSettled
  BY PlanSettles, DelegationHolds DEF StepsAreSettled
<1> QED
  BY <1>1, <1>2, <1>3, PTL DEF AllSpec

(* No client gets more requests through in a route's window than its       *)
(* limit; an agent gets what was sent to it in order, the log ends with    *)
(* the newest message, the proposals kept are the newest and have their    *)
(* votes, and decide for one option at most (_is_allowed of                *)
(* rate_limiter.py, agent_bus.py).                                         *)
THEOREM LimitsHold ==
  LimiterAssumption /\ BusAssumption => (AllSpec => []LimitHolds)
<1> SUFFICES ASSUME LimiterAssumption, BusAssumption
             PROVE  AllSpec => []LimitHolds
  OBVIOUS
<1> DEFINE Inv == LimiterInv /\ BusInv
<1>1. AllInit => Inv
  BY InitLimiter, InitBus DEF AllInit
<1>2. Inv /\ [AllNext]_allVars => Inv'
  <2> SUFFICES ASSUME LimiterInv, BusInv, [AllNext]_allVars PROVE LimiterInv' /\ BusInv'
    OBVIOUS
  <2>1. [L!Next]_(L!vars) /\ [G!Next]_(G!vars)
    BY FirstParts, ThirdParts
  <2>2. LimiterInv'
    BY <2>1, NextLimiter
  <2>3. BusInv'
    BY <2>1, NextBus, StutterBus
  <2> QED
    BY <2>2, <2>3
<1>3. Inv => LimitHolds
  BY LimiterLimits, BusHolds DEF LimitHolds
<1> QED
  BY <1>1, <1>2, <1>3, PTL DEF AllSpec

(* A call gives up only when it has tried its whole chain                  *)
(* (generate_with_failover of provider_router.py).                         *)
THEOREM FailedCallsTriedAll == RouterAssumption => (AllSpec => []FailedHasTriedAll)
<1> SUFFICES ASSUME RouterAssumption
             PROVE  AllSpec => []FailedHasTriedAll
  OBVIOUS
<1>1. AllInit => RouterInv
  BY InitRouter DEF AllInit
<1>2. RouterInv /\ [AllNext]_allVars => RouterInv'
  BY FirstParts, NextRouter
<1>3. RouterInv => FailedHasTriedAll
  BY RouterTries DEF FailedHasTriedAll
<1> QED
  BY <1>1, <1>2, <1>3, PTL DEF AllSpec
=============================================================================
