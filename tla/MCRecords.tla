----------------------------- MODULE MCRecords -----------------------------
(* Thirteen parts of the control core that keep records and share no state, *)
(* on small instances: in each behaviour one of them, the focus, makes the  *)
(* steps.  SkillCatalog is the focus twice: of one call for runs and        *)
(* versions, of two for promotions.  The same model values serve several    *)
(* parts: a1, a2 for those that act, k1, k2 for what they act on, n1, n2    *)
(* for what is passed on, and w1, w2, w3 where a part has three of a kind.  *)
EXTENDS Naturals, FiniteSets, Filter, FiniteSetTheorems, SequenceTheorems,
        WellFoundedInduction, TLC, TLAPS

CONSTANTS
  Socket, Key, Note, Nobody, MaxPerKey, MaxTotal, MaxInbox,
  Writer, NoWriter, MaxBatch, MaxStamp,
  User, Role, Permission, System, Default, Seeded, Reader, NoUser, MaxSize,
  Task, Callers,
  Visit, Identity, Account, Mail, MailOf, NoMail, Local, MaxStates, MaxCodes,
  Page, MaxVersion, MaxSecond, NoFile,
  Call, Editions, Definition, NoDefinition, MaxVersions, MaxInARow, MinRate,
  MaxSkills, MaxRuns, MaxPromotions,
  Chat, Viewer, NoConv, MessageLimit, MaxMessages,
  Content, NoContent, MaxRows,
  Memory, Importance, Sure, Recent, Size, MinImportance, MaxResults, TokenBudget,
  Worker, Template, Profiles, MaxCrashes,
  Platform, Sending, MaxFailures, MaxAttempts, MaxChannels, MaxWebhooks,
  Name, Thread, Visitor, MaxFailed, Lockout, Interval, Lifetime, MaxTime,
  a1, a2, k1, k2, n1, n2, w1, w2, w3, r1, q1, i1, i2, m1

VARIABLES
  focus,
  kind, handler, user, open, registered, inbox, unread, created, cast, seen,
  stray,
  stamp, pending, lock, draft, log, overtaken,
  policy, change, entries, expired, lookup, overlapped,
  edges, adding, raced,
  begun, states, overdue, codes, late, stale, request, accounts, writer,
  account, entered, tokens, came,
  main, wal, version, committed, second, backups, maker, restore, fouled,
  skills, promotions, call, history,
  exists, messages, talk, effects, excused, swallowed,
  rows, write, crossed,
  active, at, topic, found, result, selected,
  secret, profile, redis, worker, builtins, roles, shared, released, failures,
  together, crashes,
  health, token, sending, channels, sent, webhooks,
  now, attempts, cleaned, login, wrong, owner, issued, visit

-----------------------------------------------------------------------------
(* What the proofs use of numbers, sequences and kept elements.            *)

\* The order of the natural numbers, as a relation.
Smaller == {p \in Nat \X Nat : p[1] < p[2]}

\* Of natural numbers there is a least.
LEMMA Least ==
  ASSUME NEW T, T \subseteq Nat, T # {}
  PROVE  \E x \in T : \A y \in T : x <= y
<1>1. IsWellFoundedOn(Smaller, Nat)
  BY NatLessThanWellFounded DEF OpToRel, Smaller
<1>2. \E x \in T : \A y \in T : ~(<<y, x>> \in Smaller)
  BY <1>1, WFMin
<1>3. ASSUME NEW x \in T, NEW y \in T, ~(<<y, x>> \in Smaller)
      PROVE  x <= y
  <2>1. x \in Nat /\ y \in Nat OBVIOUS
  <2>2. <<y, x>> \in Nat \X Nat BY <2>1
  <2>3. ~(y < x) BY <1>3, <2>2 DEF Smaller
  <2> QED BY <2>1, <2>3
<1>4. QED
  BY <1>2, <1>3

\* Induction, over a set instead of a predicate.
LEMMA Induct ==
  ASSUME NEW T, 0 \in T, \A n \in Nat : n \in T => n + 1 \in T
  PROVE  \A n \in Nat : n \in T
<1> SUFFICES ASSUME Nat \ T # {} PROVE FALSE
  OBVIOUS
<1>1. PICK x \in Nat \ T : \A y \in Nat \ T : x <= y
  BY Least
<1>2. x # 0 /\ x - 1 \in Nat
  OBVIOUS
<1>3. x - 1 \in T
  BY <1>1, <1>2
<1>4. (x - 1) + 1 \in T BY <1>2, <1>3
<1>5. QED BY <1>4

\* Of numbers up to n there is a greatest.
LEMMA Greatest ==
  ASSUME NEW n \in Nat, NEW T, T \subseteq 0..n, T # {}
  PROVE  \E x \in T : \A y \in T : y <= x
<1> DEFINE F == {n - x : x \in T}
<1>1. \A x \in T : x \in Nat /\ n - x \in Nat
  OBVIOUS
<1>2. F \subseteq Nat /\ F # {}
  BY <1>1
<1>3. PICK f \in F : \A y \in F : f <= y
  BY <1>2, Least
<1>4. PICK m \in T : f = n - m
  OBVIOUS
<1>5. \A y \in T : n - m <= n - y
  BY <1>3, <1>4
<1> HIDE DEF F
<1>6. \A y \in T : y <= m
  BY <1>1, <1>5
<1> QED
  BY <1>6

\* How what is kept of the first n elements comes of what is kept before.
KeepStep(s, kept, f, n) ==
  IF n = 0 THEN <<>>
  ELSE IF s[n] \in kept THEN Append(f[n - 1], s[n]) ELSE f[n - 1]

\* f is what Keep computes, up to n.
KeepsTo(s, kept, f, n) == f = [k \in 0..n |-> KeepStep(s, kept, f, k)]

\* Keep computes something.
LEMMA KeepExists ==
  ASSUME NEW s, NEW kept
  PROVE  \A n \in Nat : \E f : KeepsTo(s, kept, f, n)
<1> DEFINE T == {n \in Nat : \E f : KeepsTo(s, kept, f, n)}
<1>1. 0 \in T
  <2> DEFINE f == [k \in 0..0 |-> <<>>]
  <2>1. \A k \in 0..0 : KeepStep(s, kept, f, k) = <<>>
    BY DEF KeepStep
  <2> QED
    BY <2>1 DEF KeepsTo
<1>2. ASSUME NEW n \in Nat, n \in T
      PROVE  n + 1 \in T
  <2>1. PICK f : KeepsTo(s, kept, f, n)
    BY <1>2
  <2> DEFINE g == [k \in 0..n + 1 |-> KeepStep(s, kept, f, k)]
  <2>2. \A k \in 0..n : g[k] = f[k]
    <3>1. \A k \in 0..n : k \in 0..n + 1 /\ f[k] = KeepStep(s, kept, f, k)
      BY <2>1 DEF KeepsTo
    <3> QED
      BY <3>1
  <2>3. \A k \in 0..n + 1 : k = 0 \/ k - 1 \in 0..n
    OBVIOUS
  <2>4. \A k \in 0..n + 1 : KeepStep(s, kept, g, k) = KeepStep(s, kept, f, k)
    <3> TAKE k \in 0..n + 1
    <3> HIDE DEF g
    <3>1. k = 0 \/ g[k - 1] = f[k - 1]
      BY <2>2, <2>3
    <3> QED
      BY <3>1 DEF KeepStep
  <2>5. KeepsTo(s, kept, g, n + 1)
    BY <2>4 DEF KeepsTo
  <2> QED
    BY <2>5
<1> HIDE DEF T
<1>3. \A n \in Nat : n \in T
  BY <1>1, <1>2, Induct
<1> QED
  BY <1>3 DEF T

\* What it computes, up to n.
KeepFrom(s, kept, n) == CHOOSE f : KeepsTo(s, kept, f, n)

\* It is computed element by element.
LEMMA KeepFromStep ==
  ASSUME NEW s, NEW kept, NEW n \in Nat, NEW k \in 0..n
  PROVE  KeepFrom(s, kept, n)[k] = KeepStep(s, kept, KeepFrom(s, kept, n), k)
<1> DEFINE f == KeepFrom(s, kept, n)
<1>1. KeepsTo(s, kept, f, n)
  BY KeepExists DEF KeepFrom
<1> HIDE DEF f
<1> QED
  BY <1>1 DEF KeepsTo, f

\* Keep is the last of it.
LEMMA KeepIsLast ==
  ASSUME NEW s, NEW kept
  PROVE  Keep(s, kept) = KeepFrom(s, kept, Len(s))[Len(s)]
BY DEF Keep, KeepFrom, KeepsTo, KeepStep

\* What is kept of a prefix does not depend on the rest.
LEMMA SamePrefix ==
  ASSUME NEW s, NEW t, NEW kept, NEW m \in Nat, NEW n \in Nat, m <= n,
         \A i \in 1..m : t[i] = s[i]
  PROVE  \A k \in 0..m : KeepFrom(t, kept, n)[k] = KeepFrom(s, kept, m)[k]
<1> DEFINE T == {k \in Nat : k <= m => KeepFrom(t, kept, n)[k] = KeepFrom(s, kept, m)[k]}
<1>1. 0 \in T
  BY KeepFromStep DEF KeepStep
<1>2. ASSUME NEW k \in Nat, k \in T
      PROVE  k + 1 \in T
  <2> SUFFICES ASSUME k + 1 <= m
               PROVE  KeepFrom(t, kept, n)[k + 1] = KeepFrom(s, kept, m)[k + 1]
    OBVIOUS
  <2>1. k <= m /\ k + 1 \in 1..m /\ k + 1 \in 0..n /\ k + 1 \in 0..m
        /\ (k + 1) - 1 = k /\ k + 1 # 0
    OBVIOUS
  <2>2. KeepFrom(t, kept, n)[k] = KeepFrom(s, kept, m)[k]
    BY <1>2, <2>1
  <2> QED
    BY <2>1, <2>2, KeepFromStep DEF KeepStep
<1> HIDE DEF T
<1>3. \A k \in Nat : k \in T
  BY <1>1, <1>2, Induct
<1> QED
  BY <1>3 DEF T

\* Nothing is kept of nothing.
LEMMA KeepEmpty == \A kept : Keep(<<>>, kept) = <<>>
<1>1. Len(<<>>) = 0
  BY EmptySeq
<1> QED
  BY <1>1, KeepIsLast, KeepFromStep DEF KeepStep

\* Keep decides on the elements one by one.
LEMMA KeepAppend ==
  ASSUME NEW Y, NEW s \in Seq(Y), NEW x \in Y, NEW kept
  PROVE  Keep(Append(s, x), kept)
           = IF x \in kept THEN Append(Keep(s, kept), x) ELSE Keep(s, kept)
<1> DEFINE n == Len(s)
           t == Append(s, x)
<1>1. n \in Nat /\ Len(t) = n + 1 /\ t[n + 1] = x /\ \A i \in 1..n : t[i] = s[i]
  BY AppendProperties, LenProperties
<1> HIDE DEF n, t
<1>2. n <= n + 1 /\ n \in 0..n /\ n + 1 \in 0..n + 1 /\ n + 1 \in Nat
      /\ n + 1 # 0 /\ (n + 1) - 1 = n
  BY <1>1
<1>3. KeepFrom(t, kept, n + 1)[n] = KeepFrom(s, kept, n)[n]
  BY <1>1, <1>2, SamePrefix
<1>4. KeepFrom(t, kept, n + 1)[n + 1] = KeepStep(t, kept, KeepFrom(t, kept, n + 1), n + 1)
  BY <1>2, KeepFromStep
<1>5. Keep(t, kept) = KeepFrom(t, kept, n + 1)[n + 1] /\ Keep(s, kept) = KeepFrom(s, kept, n)[n]
  BY <1>1, KeepIsLast DEF n
<1> QED
  BY <1>1, <1>2, <1>3, <1>4, <1>5 DEF KeepStep, t

\* Induction over sequences, element by element.
LEMMA SeqInduct ==
  ASSUME NEW Y, NEW T, <<>> \in T,
         \A s \in Seq(Y), x \in Y : s \in T => Append(s, x) \in T
  PROVE  Seq(Y) \subseteq T
<1> DEFINE N == {n \in Nat : \A s \in Seq(Y) : Len(s) = n => s \in T}
<1>1. 0 \in N
  BY EmptySeq
<1>2. ASSUME NEW n \in Nat, n \in N
      PROVE  n + 1 \in N
  <2> SUFFICES ASSUME NEW s \in Seq(Y), Len(s) = n + 1
               PROVE  s \in T
    OBVIOUS
  <2> DEFINE h == SubSeq(s, 1, n)
  <2>1. s[n + 1] \in Y
    BY ElementOfSeq
  <2>2. h \in Seq(Y) /\ Len(h) = n /\ \A i \in 1..n : h[i] = s[i]
    <3>1. \A i \in 1..n : s[i] \in Y
      BY ElementOfSeq
    <3>2. h \in Seq(Y) /\ Len(h) = n
      BY <3>1, SubSeqProperties
    <3> QED
      BY <3>2, SubSeqProperties
  <2>3. h \in T
    BY <1>2, <2>2
  <2> HIDE DEF h
  <2>4. Append(h, s[n + 1]) \in T
    BY <2>1, <2>2, <2>3
  <2>5. s = Append(h, s[n + 1])
    <3>1. /\ Append(h, s[n + 1]) \in Seq(Y) /\ Len(Append(h, s[n + 1])) = n + 1
          /\ Append(h, s[n + 1])[n + 1] = s[n + 1]
          /\ \A i \in 1..n : Append(h, s[n + 1])[i] = h[i]
      BY <2>1, <2>2, AppendProperties
    <3>2. \A i \in 1..n + 1 : Append(h, s[n + 1])[i] = s[i]
      BY <2>2, <3>1
    <3> QED
      BY <3>1, <3>2, SeqEqual
  <2> QED
    BY <2>4, <2>5
<1> HIDE DEF N
<1>3. \A n \in Nat : n \in N
  BY <1>1, <1>2, Induct
<1>4. \A s \in Seq(Y) : Len(s) \in N
  BY <1>3, LenProperties
<1> QED
  BY <1>4 DEF N

\* An appended element is the only new one.
LEMMA RangeAppended ==
  ASSUME NEW Y, NEW s \in Seq(Y), NEW x \in Y
  PROVE  Range(Append(s, x)) = Range(s) \cup {x}
<1>1. /\ Append(s, x) \in Seq(Y) /\ Len(Append(s, x)) = Len(s) + 1 /\ Len(s) \in Nat
      /\ Append(s, x)[Len(s) + 1] = x
      /\ \A i \in 1..Len(s) : Append(s, x)[i] = s[i]
  BY AppendProperties, LenProperties
<1>2. /\ Range(Append(s, x)) = {Append(s, x)[i] : i \in 1..Len(s) + 1}
      /\ Range(s) = {s[i] : i \in 1..Len(s)}
  BY <1>1, RangeEquality
<1>3. \A i \in 1..Len(s) + 1 : i \in 1..Len(s) \/ i = Len(s) + 1
  BY <1>1
<1>4. Len(s) + 1 \in 1..Len(s) + 1 /\ 1..Len(s) \subseteq 1..Len(s) + 1
  BY <1>1
<1>5. {Append(s, x)[i] : i \in 1..Len(s) + 1} = {s[i] : i \in 1..Len(s)} \cup {x}
  BY <1>1, <1>3, <1>4
<1> QED
  BY <1>2, <1>5

\* Keep keeps elements of the sequence, those that are to be kept.
LEMMA KeepSeq ==
  ASSUME NEW Y, NEW s \in Seq(Y), NEW kept
  PROVE  /\ Keep(s, kept) \in Seq(Y)
         /\ Len(Keep(s, kept)) \in Nat /\ Len(Keep(s, kept)) <= Len(s)
         /\ Range(Keep(s, kept)) = Range(s) \cap kept
<1> DEFINE T == {q \in Seq(Y) : /\ Keep(q, kept) \in Seq(Y)
                                /\ Len(Keep(q, kept)) <= Len(q)
                                /\ Range(Keep(q, kept)) = Range(q) \cap kept}
<1>1. <<>> \in T
  <2>1. /\ <<>> \in Seq(Y) /\ Len(<<>>) = 0 /\ DOMAIN <<>> = {}
    BY EmptySeq
  <2>2. Range(<<>>) = {}
    BY <2>1 DEF Range
  <2> DEFINE e == <<>>
  <2>3. Keep(e, kept) = e
    BY KeepEmpty
  <2>4. e \in Seq(Y) /\ Len(e) <= Len(e) /\ Range(e) = Range(e) \cap kept
    BY <2>1, <2>2
  <2> HIDE DEF e
  <2>5. e \in T
    BY <2>3, <2>4
  <2> QED
    BY <2>5 DEF e
<1>2. ASSUME NEW q \in Seq(Y), NEW x \in Y, q \in T
      PROVE  Append(q, x) \in T
  <2> DEFINE k == Keep(q, kept)
  <2>1. k \in Seq(Y) /\ Len(k) <= Len(q) /\ Range(k) = Range(q) \cap kept
    BY <1>2
  <2>2. Keep(Append(q, x), kept) = IF x \in kept THEN Append(k, x) ELSE k
    BY KeepAppend
  <2> HIDE DEF k, T
  <2>3. /\ Append(q, x) \in Seq(Y) /\ Len(Append(q, x)) = Len(q) + 1 /\ Len(q) \in Nat
        /\ Range(Append(q, x)) = Range(q) \cup {x}
    BY AppendProperties, RangeAppended, LenProperties
  <2>4. /\ Append(k, x) \in Seq(Y) /\ Len(Append(k, x)) = Len(k) + 1 /\ Len(k) \in Nat
        /\ Range(Append(k, x)) = Range(k) \cup {x}
    BY <2>1, AppendProperties, RangeAppended, LenProperties
  <2>5. CASE x \in kept
    <3>1. Keep(Append(q, x), kept) = Append(k, x)
      BY <2>2, <2>5
    <3>2. Len(Append(k, x)) <= Len(Append(q, x))
      BY <2>1, <2>3, <2>4
    <3>3. Range(Append(k, x)) = Range(Append(q, x)) \cap kept
      BY <2>1, <2>3, <2>4, <2>5
    <3> QED
      BY <2>3, <2>4, <3>1, <3>2, <3>3 DEF T
  <2>6. CASE x \notin kept
    BY <2>1, <2>2, <2>3, <2>4, <2>6 DEF T
  <2> QED
    BY <2>5, <2>6
<1> HIDE DEF T
<1>3. Seq(Y) \subseteq T
  BY <1>1, <1>2, SeqInduct
<1>4. s \in T
  BY <1>3
<1>5. Keep(s, kept) \in Seq(Y)
  BY <1>4 DEF T
<1> QED
  BY <1>4, <1>5, LenProperties DEF T

\* Of two cuts the smaller one counts.
LEMMA KeepKeep ==
  ASSUME NEW Y, NEW s \in Seq(Y), NEW W, NEW X, X \subseteq W
  PROVE  Keep(Keep(s, W), X) = Keep(s, X)
<1> DEFINE T == {q \in Seq(Y) : Keep(Keep(q, W), X) = Keep(q, X)}
<1>1. <<>> \in T
  BY KeepEmpty, EmptySeq
<1>2. ASSUME NEW q \in Seq(Y), NEW x \in Y, q \in T
      PROVE  Append(q, x) \in T
  <2>1. Keep(q, W) \in Seq(Y)
    BY KeepSeq
  <2>2. /\ Keep(Append(q, x), W) = IF x \in W THEN Append(Keep(q, W), x) ELSE Keep(q, W)
        /\ Keep(Append(q, x), X) = IF x \in X THEN Append(Keep(q, X), x) ELSE Keep(q, X)
    BY KeepAppend
  <2>3. Keep(Append(Keep(q, W), x), X)
          = IF x \in X THEN Append(Keep(Keep(q, W), X), x) ELSE Keep(Keep(q, W), X)
    BY <2>1, KeepAppend
  <2>4. Append(q, x) \in Seq(Y)
    BY AppendProperties
  <2> QED
    BY <1>2, <2>2, <2>3, <2>4
<1> HIDE DEF T
<1>3. Seq(Y) \subseteq T
  BY <1>1, <1>2, SeqInduct
<1> QED
  BY <1>3 DEF T

\* All are kept where all are to be kept.
LEMMA KeepAll ==
  ASSUME NEW Y, NEW s \in Seq(Y), NEW kept, Range(s) \subseteq kept
  PROVE  Keep(s, kept) = s
<1> DEFINE T == {q \in Seq(Y) : Range(q) \subseteq kept => Keep(q, kept) = q}
<1>1. <<>> \in T
  BY KeepEmpty, EmptySeq
<1>2. ASSUME NEW q \in Seq(Y), NEW x \in Y, q \in T
      PROVE  Append(q, x) \in T
  BY <1>2, KeepAppend, AppendProperties, RangeAppended
<1> HIDE DEF T
<1>3. Seq(Y) \subseteq T
  BY <1>1, <1>2, SeqInduct
<1> QED
  BY <1>3 DEF T

\* W sequence without values is empty.
LEMMA EmptyRange ==
  ASSUME NEW Y, NEW s \in Seq(Y), Range(s) = {}
  PROVE  s = <<>>
<1>1. Len(s) \in Nat /\ Range(s) = {s[i] : i \in 1..Len(s)}
  BY LenProperties, RangeEquality
<1>2. Len(s) = 0
  <2> SUFFICES ASSUME Len(s) > 0 PROVE FALSE
    BY <1>1
  <2>1. 1 \in 1..Len(s)
    BY <1>1
  <2> QED
    BY <1>1, <2>1
<1> QED
  BY <1>2, EmptySeq

\* No element is smaller than one before it.
Ascending(s) == \A i, j \in 1..Len(s) : i <= j => s[i] <= s[j]

\* What is appended to an ascending sequence is not smaller than any.
LEMMA AscendingAppended ==
  ASSUME NEW s \in Seq(Nat), NEW x \in Nat
  PROVE  Ascending(Append(s, x)) <=> Ascending(s) /\ \A y \in Range(s) : y <= x
<1> DEFINE t == Append(s, x)
           n == Len(s)
<1>1. /\ n \in Nat /\ t \in Seq(Nat) /\ Len(t) = n + 1 /\ t[n + 1] = x
      /\ \A i \in 1..n : t[i] = s[i] /\ s[i] \in Nat
  BY AppendProperties, LenProperties, ElementOfSeq
<1>2. Range(s) = {s[i] : i \in 1..n}
  BY RangeEquality
<1> HIDE DEF t, n
<1>3. \A i \in 1..n + 1 : i \in 1..n \/ i = n + 1
  BY <1>1
<1>4. n + 1 \in 1..n + 1 /\ \A i \in 1..n : i \in 1..n + 1 /\ i <= n + 1 /\ ~(n + 1 <= i)
  BY <1>1
<1>5. ASSUME Ascending(t) PROVE Ascending(s) /\ \A y \in Range(s) : y <= x
  <2>1. \A i, j \in 1..n + 1 : i <= j => t[i] <= t[j]
    BY <1>1, <1>5 DEF Ascending
  <2>2. \A i, j \in 1..n : i <= j => s[i] <= s[j]
    BY <1>1, <1>4, <2>1
  <2>3. \A i \in 1..n : s[i] <= x
    BY <1>1, <1>4, <2>1
  <2> QED
    BY <1>2, <2>2, <2>3 DEF Ascending, n
<1>6. ASSUME Ascending(s), \A y \in Range(s) : y <= x PROVE Ascending(t)
  <2>1. \A i, j \in 1..n : i <= j => s[i] <= s[j]
    BY <1>6 DEF Ascending, n
  <2>2. \A i \in 1..n : s[i] <= x
    BY <1>2, <1>6
  <2>3. \A i, j \in 1..n + 1 : i <= j => t[i] <= t[j]
    BY <1>1, <1>3, <1>4, <2>1, <2>2
  <2> QED
    BY <1>1, <2>3 DEF Ascending
<1> QED
  BY <1>5, <1>6 DEF t

\* What is kept of an ascending sequence ascends.
LEMMA KeepAscends ==
  ASSUME NEW s \in Seq(Nat), NEW kept, Ascending(s)
  PROVE  Ascending(Keep(s, kept))
<1> DEFINE T == {q \in Seq(Nat) : Ascending(q) => Ascending(Keep(q, kept))}
<1>1. <<>> \in T
  BY KeepEmpty, EmptySeq DEF Ascending
<1>2. ASSUME NEW q \in Seq(Nat), NEW x \in Nat, q \in T
      PROVE  Append(q, x) \in T
  <2> SUFFICES ASSUME Ascending(Append(q, x))
               PROVE  Ascending(Keep(Append(q, x), kept))
    BY AppendProperties
  <2>1. Ascending(q) /\ \A y \in Range(q) : y <= x
    BY AscendingAppended
  <2>2. Keep(q, kept) \in Seq(Nat) /\ Range(Keep(q, kept)) \subseteq Range(q)
    BY KeepSeq
  <2>3. Ascending(Keep(q, kept))
    BY <1>2, <2>1
  <2>4. Ascending(Append(Keep(q, kept), x))
    BY <2>1, <2>2, <2>3, AscendingAppended
  <2> QED
    BY <2>3, <2>4, KeepAppend
<1> HIDE DEF T
<1>3. Seq(Nat) \subseteq T
  BY <1>1, <1>2, SeqInduct
<1> QED
  BY <1>3 DEF T

\* What is so of the empty sequence.
LEMMA OfEmpty ==
  Range(<<>>) = {} /\ Ascending(<<>>) /\ Len(<<>>) = 0 /\ \A Y : <<>> \in Seq(Y)
<1>1. DOMAIN <<>> = {} /\ Len(<<>>) = 0 /\ \A Y : <<>> \in Seq(Y)
  BY EmptySeq
<1>2. Range(<<>>) = {}
  BY <1>1 DEF Range
<1> QED
  BY <1>1, <1>2 DEF Ascending

\* A sequence over a set is one over a larger set.
LEMMA WiderSeq ==
  ASSUME NEW Y, NEW V, Y \subseteq V, NEW s \in Seq(Y)
  PROVE  s \in Seq(V)
BY ElementOfSeq, LenProperties

\* A sequence has finitely many elements, at most its length.
LEMMA RangeFinite ==
  ASSUME NEW Y, NEW s \in Seq(Y)
  PROVE  IsFiniteSet(Range(s)) /\ Cardinality(Range(s)) <= Len(s)
<1>1. Len(s) \in Nat /\ s \in [1..Len(s) -> Y] /\ Range(s) = {s[i] : i \in 1..Len(s)}
  BY LenProperties, RangeEquality
<1>2. s \in Surjection(1..Len(s), Range(s))
  BY <1>1 DEF Surjection
<1>3. IsFiniteSet(1..Len(s)) /\ Cardinality(1..Len(s)) = Len(s)
  BY <1>1, FS_Interval
<1> QED
  BY <1>2, <1>3, FS_Surjection

\* Only what a sequence holds matters to what is kept of it.
LEMMA KeepSame ==
  ASSUME NEW Y, NEW s \in Seq(Y), NEW W, NEW X, Range(s) \cap W = Range(s) \cap X
  PROVE  Keep(s, W) = Keep(s, X)
<1> DEFINE T == {q \in Seq(Y) : Range(q) \cap W = Range(q) \cap X => Keep(q, W) = Keep(q, X)}
<1>1. <<>> \in T
  BY KeepEmpty, EmptySeq
<1>2. ASSUME NEW q \in Seq(Y), NEW x \in Y, q \in T
      PROVE  Append(q, x) \in T
  <2> SUFFICES ASSUME Range(Append(q, x)) \cap W = Range(Append(q, x)) \cap X
               PROVE  Keep(Append(q, x), W) = Keep(Append(q, x), X)
    BY AppendProperties
  <2>1. Range(Append(q, x)) = Range(q) \cup {x}
    BY RangeAppended
  <2>2. Keep(q, W) = Keep(q, X) /\ (x \in W <=> x \in X)
    BY <1>2, <2>1
  <2>3. /\ Keep(Append(q, x), W) = IF x \in W THEN Append(Keep(q, W), x) ELSE Keep(q, W)
        /\ Keep(Append(q, x), X) = IF x \in X THEN Append(Keep(q, X), x) ELSE Keep(q, X)
    BY KeepAppend
  <2> QED
    BY <2>2, <2>3
<1> HIDE DEF T
<1>3. Seq(Y) \subseteq T
  BY <1>1, <1>2, SeqInduct
<1> QED
  BY <1>3 DEF T

\* A part of a sequence has elements of the sequence.
LEMMA RangeOfPart ==
  ASSUME NEW Y, NEW s \in Seq(Y), NEW m \in 1..Len(s) + 1, NEW n \in m - 1..Len(s)
  PROVE  /\ SubSeq(s, m, n) \in Seq(Y) /\ Len(SubSeq(s, m, n)) = n - m + 1
         /\ Range(SubSeq(s, m, n)) \subseteq Range(s)
         /\ \A i \in 1..n - m + 1 : SubSeq(s, m, n)[i] = s[m + i - 1]
<1>0. Len(s) \in Nat /\ Range(s) = {s[i] : i \in 1..Len(s)}
  BY LenProperties, RangeEquality
<1>1. /\ SubSeq(s, m, n) \in Seq(Y) /\ Len(SubSeq(s, m, n)) = n - m + 1
      /\ \A i \in 1..n - m + 1 : SubSeq(s, m, n)[i] = s[m + i - 1]
  <2>1. \A i \in m..n : s[i] \in Y
    BY <1>0, ElementOfSeq
  <2>2. m \in Int /\ n \in Int /\ m <= n + 1
    BY <1>0
  <2>3. SubSeq(s, m, n) \in Seq(Y) /\ Len(SubSeq(s, m, n)) = n - m + 1
    BY <1>0, <2>1, <2>2, SubSeqProperties
  <2>4. \A i \in 1..n - m + 1 : SubSeq(s, m, n)[i] = s[m + i - 1]
    BY <1>0, <2>1, <2>2, SubSeqProperties
  <2> QED
    BY <2>3, <2>4
<1> DEFINE t == SubSeq(s, m, n)
<1>2. Range(t) = {t[i] : i \in 1..n - m + 1}
  BY <1>1, RangeEquality
<1> HIDE DEF t
<1>3. \A i \in 1..n - m + 1 : m + i - 1 \in 1..Len(s)
  BY <1>0
<1>4. Range(t) \subseteq Range(s)
  BY <1>0, <1>1, <1>2, <1>3 DEF t
<1> QED
  BY <1>1, <1>4 DEF t

\* Of the first values no more are kept than of all.
LEMMA KeepPart ==
  ASSUME NEW Y, NEW s \in Seq(Y), NEW kept
  PROVE  \A n \in 0..Len(s) : Len(Keep(SubSeq(s, 1, n), kept)) <= Len(Keep(s, kept))
<1> DEFINE T == {q \in Seq(Y) :
                   \A n \in 0..Len(q) : Len(Keep(SubSeq(q, 1, n), kept)) <= Len(Keep(q, kept))}
<1>0. \A q \in Seq(Y) : SubSeq(q, 1, Len(q)) = q
  BY SubSeqFull
<1>1. <<>> \in T
  <2>1. Len(<<>>) = 0 /\ <<>> \in Seq(Y) /\ Keep(<<>>, kept) = <<>>
    BY OfEmpty, KeepEmpty
  <2> DEFINE e == <<>>
  <2>2. SubSeq(e, 1, 0) = e
    BY <1>0, <2>1
  <2>3. e \in Seq(Y) /\ Len(e) = 0 /\ Keep(e, kept) = e
    BY <2>1
  <2> HIDE DEF e
  <2>4. \A n \in 0..Len(e) : n = 0
    BY <2>3
  <2>5. ASSUME NEW n \in 0..Len(e)
        PROVE  Len(Keep(SubSeq(e, 1, n), kept)) <= Len(Keep(e, kept))
    <3>1. SubSeq(e, 1, n) = e
      BY <2>2, <2>4
    <3>2. Len(Keep(SubSeq(e, 1, n), kept)) = 0 /\ Len(Keep(e, kept)) = 0
      BY <2>3, <3>1
    <3> QED
      BY <3>2
  <2>6. e \in T
    BY <2>3, <2>5
  <2> QED
    BY <2>6 DEF e
<1>2. ASSUME NEW q \in Seq(Y), NEW x \in Y, q \in T
      PROVE  Append(q, x) \in T
  <2> DEFINE t == Append(q, x)
             m == Len(q)
  <2>1. /\ t \in Seq(Y) /\ Len(t) = m + 1 /\ m \in Nat
        /\ \A i \in 1..m : t[i] = q[i]
    BY AppendProperties, LenProperties
  <2>2. /\ Keep(t, kept) \in Seq(Y) /\ Len(Keep(t, kept)) \in Nat
        /\ Keep(q, kept) \in Seq(Y) /\ Len(Keep(q, kept)) \in Nat
    BY <2>1, KeepSeq
  <2>3. Len(Keep(q, kept)) <= Len(Keep(t, kept))
    <3>1. Len(Append(Keep(q, kept), x)) = Len(Keep(q, kept)) + 1
      BY <2>2, AppendProperties
    <3>2. Keep(t, kept) = IF x \in kept THEN Append(Keep(q, kept), x) ELSE Keep(q, kept)
      BY KeepAppend
    <3> HIDE DEF t
    <3> QED
      BY <2>2, <3>1, <3>2
  <2> SUFFICES ASSUME NEW n \in 0..Len(t)
               PROVE  Len(Keep(SubSeq(t, 1, n), kept)) <= Len(Keep(t, kept))
    BY <2>1
  <2>4. CASE n = Len(t)
    <3>1. SubSeq(t, 1, n) = t
      BY <1>0, <2>1, <2>4
    <3> HIDE DEF t, T
    <3>2. Len(Keep(SubSeq(t, 1, n), kept)) = Len(Keep(t, kept))
      BY <3>1
    <3> QED
      BY <2>2, <3>2
  <2>5. CASE n # Len(t)
    <3>1. n \in 0..m /\ n \in 1 - 1..Len(t) /\ 1 \in 1..Len(t) + 1
          /\ n \in 1 - 1..Len(q) /\ 1 \in 1..Len(q) + 1
      BY <2>1, <2>5
    <3>2. /\ SubSeq(t, 1, n) \in Seq(Y) /\ Len(SubSeq(t, 1, n)) = n - 1 + 1
          /\ \A i \in 1..n - 1 + 1 : SubSeq(t, 1, n)[i] = t[1 + i - 1]
      BY <2>1, <3>1, RangeOfPart
    <3>3. /\ SubSeq(q, 1, n) \in Seq(Y) /\ Len(SubSeq(q, 1, n)) = n - 1 + 1
          /\ \A i \in 1..n - 1 + 1 : SubSeq(q, 1, n)[i] = q[1 + i - 1]
      BY <3>1, RangeOfPart
    <3> HIDE DEF t, m
    <3>4. \A i \in 1..n : SubSeq(t, 1, n)[i] = SubSeq(q, 1, n)[i]
      BY <2>1, <3>1, <3>2, <3>3
    <3>5. Len(SubSeq(t, 1, n)) = n /\ Len(SubSeq(q, 1, n)) = n
      BY <3>1, <3>2, <3>3
    <3>6. SubSeq(t, 1, n) = SubSeq(q, 1, n)
      BY <3>2, <3>3, <3>4, <3>5, SeqEqual
    <3>7. Len(Keep(SubSeq(q, 1, n), kept)) <= Len(Keep(q, kept))
      BY <1>2, <3>1 DEF m
    <3>8. Len(Keep(SubSeq(q, 1, n), kept)) \in Nat
      BY <3>3, KeepSeq
    <3> DEFINE a == Len(Keep(SubSeq(q, 1, n), kept))
               b == Len(Keep(q, kept))
               c == Len(Keep(t, kept))
    <3>9. a \in Nat /\ b \in Nat /\ c \in Nat /\ a <= b /\ b <= c
      BY <2>2, <2>3, <3>7, <3>8
    <3> HIDE DEF a, b, c
    <3>10. a <= c
      BY <3>9
    <3> QED
      BY <3>6, <3>10 DEF a, c
  <2> QED
    BY <2>4, <2>5
<1> HIDE DEF T
<1>3. Seq(Y) \subseteq T
  BY <1>1, <1>2, SeqInduct
<1> QED
  BY <1>3 DEF T

-----------------------------------------------------------------------------
(* SkillCatalog.                                                           *)

K == INSTANCE SkillCatalog WITH Edition <- Editions, MaxFailures <- MaxInARow

\* There is an edition, and the limits are numbers.
CatalogAssumption == Editions # {} /\ MaxSkills \in Nat /\ MaxRuns \in Nat

\* A row of a skill.
SkillRow ==
  [edition : Editions, version : Nat, status : K!SkillStatus, definition : Definition,
   runs : Seq(BOOLEAN), from : Nat]
\* A row of a promotion.
PromotionRow == [skill : Nat, target : Editions, status : K!PromotionStatus]
\* Where a call stands, and what it has read.
CallRow ==
  [op : {"none", "oldest", "insert", "approve", "disable", "rollback", "promote", "review"},
   row : Nat, definition : Definition \cup {NoDefinition}, edition : Editions, version : Nat,
   alone : BOOLEAN]
\* What the steps so far tell of the rows.
Marks ==
  [created : SUBSET Nat, promoted : SUBSET Nat, reviewed : SUBSET Nat,
   earned : SUBSET Nat, fresh : SUBSET Nat]

\* The rows, the calls and the marks keep their ranges.
CatalogTypes(J, Q, Y, H) ==
  /\ J \in Seq(SkillRow) /\ Len(J) <= MaxSkills
  /\ Q \in Seq(PromotionRow) /\ Y \in [Call -> CallRow] /\ H \in Marks

\* The rows a call has read are there, and so is what rows refer to.
Refers(l, n, m) ==
  /\ l.op \in {"oldest", "insert"} =>
       l.definition \in Definition /\ l.version \in 1..n + 1 /\ l.row \in 0..n
  /\ l.op \in {"approve", "disable", "rollback", "promote"} => l.row \in 1..n
  /\ l.op = "review" => l.row \in 1..m
\* Rows and calls refer to rows that exist.
CatalogRefers(J, Q, Y) ==
  /\ \A i \in 1..Len(J) : J[i].version \in 1..Len(J) /\ J[i].from \in 0..Len(Q)
  /\ \A p \in 1..Len(Q) : Q[p].skill \in 1..Len(J)
  /\ \A c \in Call : Refers(Y[c], Len(J), Len(Q))

\* What a call that no commit has met has read is still so.
Asks(r, i, e) == r.skill = i /\ r.target = e /\ r.status = "PENDING"
\* What a call has read is still so, unless a commit crossed it.
StillSo(l, J, Q) ==
  l.alone = TRUE =>
    /\ l.op \in {"oldest", "insert"} =>
         \A i \in 1..Len(J) : J[i].edition = l.edition => J[i].version < l.version
    /\ l.op = "review" => Q[l.row].status = "PENDING"
    /\ l.op = "promote" => \A p \in 1..Len(Q) : ~Asks(Q[p], l.row, l.edition)
\* So for all calls.
ReadsHold(J, Q, Y) == \A c \in Call : StillSo(Y[c], J, Q)

\* A stable skill earned it, and is not failing but when it is fresh.
EarnedOK(J, H) ==
  \A i \in 1..Len(J) : J[i].status = "STABLE" =>
    i \in H.earned /\ (i \in H.fresh \/ ~K!Failing(J[i].runs))
\* Versions of an edition differ, but for those that a commit crossed.
VersionsOK(J, H) ==
  \A i, j \in 1..Len(J) :
    /\ i < j /\ J[i].edition = J[j].edition
    /\ J[j].from = 0 /\ j \notin H.created
    => J[i].version # J[j].version
\* An approved promotion made one copy, another none.
CopiesOK(J, Q, H) ==
  \A p \in 1..Len(Q) : p \notin H.reviewed =>
    /\ \A i, j \in 1..Len(J) : J[i].from = p /\ J[j].from = p => i = j
    /\ Q[p].status = "APPROVED" <=> \E i \in 1..Len(J) : J[i].from = p
\* A skill is asked to be promoted to an edition once.
RequestsOK(J, Q, H) ==
  \A i \in 1..Len(J), e \in Editions : i \notin H.promoted =>
    \A p, q \in 1..Len(Q) : Asks(Q[p], i, e) /\ Asks(Q[q], i, e) => p = q

\* What a step of the catalog preserves.
CatalogOK(J, Q, Y, H) ==
  /\ CatalogTypes(J, Q, Y, H) /\ CatalogRefers(J, Q, Y) /\ ReadsHold(J, Q, Y)
  /\ EarnedOK(J, H) /\ VersionsOK(J, H) /\ CopiesOK(J, Q, H) /\ RequestsOK(J, Q, H)

\* The runs of all skills, up to n of each.
Runs(J, n) == {run \in (1..Len(J)) \X (1..n) : run[2] <= Len(J[run[1]].runs)}
\* There are at most as many as the bound.
RunsOK(J) == Cardinality(Runs(J, MaxRuns + 1)) <= MaxRuns

\* All that is preserved, of the present state.
CatalogHolds == CatalogOK(skills, promotions, call, history) /\ RunsOK(skills)

\* A call at rest.
LEMMA IdleCall ==
  ASSUME CatalogAssumption
  PROVE  K!Idle \in CallRow /\ K!Idle.op = "none"
<1>1. (CHOOSE e \in Editions : TRUE) \in Editions
  BY DEF CatalogAssumption
<1> QED
  BY <1>1 DEF K!Idle, CallRow

\* It holds where there is no skill.
LEMMA InitCatalog ==
  ASSUME CatalogAssumption, K!Init
  PROVE  CatalogHolds
<1>1. /\ skills = <<>> /\ promotions = <<>> /\ call = [c \in Call |-> K!Idle]
      /\ history = [created |-> {}, promoted |-> {}, reviewed |-> {}, earned |-> {},
                    fresh |-> {}]
  BY DEF K!Init
<1>2. Len(skills) = 0 /\ Len(promotions) = 0
  BY <1>1, OfEmpty
<1>3. history \in Marks
  BY <1>1 DEF Marks
<1>4. CatalogTypes(skills, promotions, call, history)
  BY <1>1, <1>2, <1>3, IdleCall, OfEmpty DEF CatalogTypes, CatalogAssumption
<1>5. \A c \in Call : call[c].op = "none"
  BY <1>1, IdleCall
<1>6. CatalogRefers(skills, promotions, call)
  BY <1>2, <1>5 DEF CatalogRefers, Refers
<1>7. ReadsHold(skills, promotions, call)
  BY <1>5 DEF ReadsHold, StillSo
<1>8. /\ EarnedOK(skills, history) /\ VersionsOK(skills, history)
      /\ CopiesOK(skills, promotions, history) /\ RequestsOK(skills, promotions, history)
  BY <1>2 DEF EarnedOK, VersionsOK, CopiesOK, RequestsOK
<1>9. Runs(skills, MaxRuns + 1) = {}
  BY <1>2 DEF Runs
<1>10. RunsOK(skills)
  BY <1>9, FS_EmptySet DEF RunsOK, CatalogAssumption
<1> QED
  BY <1>4, <1>6, <1>7, <1>8, <1>10 DEF CatalogHolds, CatalogOK

\* V call begins, goes on or ends; nothing else changes.
LEMMA OneCallMoves ==
  ASSUME CatalogOK(skills, promotions, call, history), NEW c \in Call, NEW l \in CallRow,
         call' = [call EXCEPT ![c] = l],
         Refers(l, Len(skills), Len(promotions)), StillSo(l, skills, promotions)
  PROVE  CatalogOK(skills, promotions, call', history)
<1>1. /\ call \in [Call -> CallRow]
      /\ \A d \in Call : Refers(call[d], Len(skills), Len(promotions))
      /\ \A d \in Call : StillSo(call[d], skills, promotions)
  BY DEF CatalogOK, CatalogTypes, CatalogRefers, ReadsHold
<1>2. /\ call' \in [Call -> CallRow]
      /\ \A d \in Call : call'[d] = l \/ call'[d] = call[d]
  BY <1>1
<1>3. CatalogTypes(skills, promotions, call', history)
  BY <1>2 DEF CatalogOK, CatalogTypes
<1>4. CatalogRefers(skills, promotions, call')
  BY <1>1, <1>2 DEF CatalogOK, CatalogRefers
<1>5. ReadsHold(skills, promotions, call')
  BY <1>1, <1>2 DEF ReadsHold
<1> QED
  BY <1>3, <1>4, <1>5 DEF CatalogOK

\* The other calls have met a commit.
Met(Y, Z) ==
  \A c \in Call : \/ Z[c] = K!Idle
                  \/ /\ Z[c] \in CallRow /\ Z[c].alone = FALSE
                     /\ Z[c].op = Y[c].op /\ Z[c].row = Y[c].row
                     /\ Z[c].definition = Y[c].definition
                     /\ Z[c].version = Y[c].version

\* After a commit every other call knows that it was crossed.
LEMMA CallsMeet ==
  ASSUME CatalogAssumption, call \in [Call -> CallRow], NEW X,
         call' = [d \in Call |-> IF d \in X \/ call[d] = K!Idle THEN K!Idle
                                 ELSE [call[d] EXCEPT !.alone = FALSE]]
  PROVE  Met(call, call') /\ call' \in [Call -> CallRow]
<1>1. ASSUME NEW d \in Call
      PROVE  LET l == [call[d] EXCEPT !.alone = FALSE]
             IN  /\ l \in CallRow /\ l.alone = FALSE /\ l.op = call[d].op /\ l.row = call[d].row
                 /\ l.definition = call[d].definition /\ l.version = call[d].version
  BY DEF CallRow
<1>2. \A d \in Call : call'[d] = K!Idle \/ call'[d] = [call[d] EXCEPT !.alone = FALSE]
  OBVIOUS
<1>3. Met(call, call')
  BY <1>1, <1>2 DEF Met
<1>4. \A d \in Call : call'[d] \in CallRow
  BY <1>1, <1>2, IdleCall
<1> QED
  BY <1>3, <1>4

\* Then nothing is claimed of what they read.
LEMMA MetReads ==
  ASSUME CatalogAssumption, NEW Y, NEW Z, Met(Y, Z), NEW J, NEW Q,
         NEW n \in Nat, NEW m \in Nat, NEW k \in Nat, NEW o \in Nat, n <= k, m <= o,
         \A c \in Call : Refers(Y[c], n, m)
  PROVE  /\ \A c \in Call : Refers(Z[c], k, o)
         /\ ReadsHold(J, Q, Z)
<1>1. ASSUME NEW c \in Call
      PROVE  Refers(Z[c], k, o) /\ StillSo(Z[c], J, Q)
  <2>1. CASE Z[c] = K!Idle
    BY <2>1, IdleCall DEF Refers, StillSo
  <2>2. CASE Z[c] # K!Idle
    <3>1. /\ Z[c].alone = FALSE /\ Z[c].op = Y[c].op /\ Z[c].row = Y[c].row
          /\ Z[c].definition = Y[c].definition /\ Z[c].version = Y[c].version
      BY <2>2 DEF Met
    <3>2. Refers(Y[c], n, m)
      OBVIOUS
    <3>3. Refers(Z[c], k, o)
      BY <3>1, <3>2 DEF Refers
    <3> QED
      BY <3>1, <3>3 DEF StillSo
  <2> QED
    BY <2>1, <2>2
<1> QED
  BY <1>1 DEF ReadsHold

\* What is known, part by part.
LEMMA CatalogParts ==
  ASSUME CatalogOK(skills, promotions, call, history)
  PROVE  /\ skills \in Seq(SkillRow) /\ Len(skills) \in Nat /\ Len(skills) <= MaxSkills
         /\ DOMAIN skills = 1..Len(skills)
         /\ \A i \in 1..Len(skills) : skills[i] \in SkillRow
         /\ promotions \in Seq(PromotionRow) /\ Len(promotions) \in Nat
         /\ DOMAIN promotions = 1..Len(promotions)
         /\ \A p \in 1..Len(promotions) : promotions[p] \in PromotionRow
         /\ call \in [Call -> CallRow] /\ history \in Marks
         /\ \A c \in Call : Refers(call[c], Len(skills), Len(promotions))
         /\ \A c \in Call : StillSo(call[c], skills, promotions)
<1>1. skills \in Seq(SkillRow) /\ promotions \in Seq(PromotionRow)
  BY DEF CatalogOK, CatalogTypes
<1>2. /\ Len(skills) \in Nat /\ DOMAIN skills = 1..Len(skills)
      /\ \A i \in 1..Len(skills) : skills[i] \in SkillRow
  BY <1>1, LenProperties, ElementOfSeq
<1>3. /\ Len(promotions) \in Nat /\ DOMAIN promotions = 1..Len(promotions)
      /\ \A p \in 1..Len(promotions) : promotions[p] \in PromotionRow
  BY <1>1, LenProperties, ElementOfSeq
<1> QED
  BY <1>1, <1>2, <1>3 DEF CatalogOK, CatalogTypes, CatalogRefers, ReadsHold

\* A call is rolled back.
LEMMA IdleAgain ==
  ASSUME CatalogAssumption, CatalogOK(skills, promotions, call, history), NEW c \in Call,
         K!RollBack(c)
  PROVE  CatalogOK(skills, promotions, call', history)
<1>1. call' = [call EXCEPT ![c] = K!Idle]
  BY DEF K!RollBack
<1>2. K!Idle \in CallRow /\ K!Idle.op = "none"
  BY IdleCall
<1>3. Refers(K!Idle, Len(skills), Len(promotions)) /\ StillSo(K!Idle, skills, promotions)
  BY <1>2 DEF Refers, StillSo
<1> QED
  BY <1>1, <1>2, <1>3, OneCallMoves

\* The creation of a version begins.
LEMMA CreateBegun ==
  ASSUME CatalogAssumption, CatalogOK(skills, promotions, call, history), NEW c \in Call,
         NEW e \in Editions, NEW d \in Definition, K!BeginCreate(c, e, d)
  PROVE  CatalogOK(skills, promotions, call', history)
<1>1. /\ Len(skills) \in Nat /\ DOMAIN skills = 1..Len(skills)
      /\ \A i \in 1..Len(skills) : skills[i] \in SkillRow
      /\ \A i \in 1..Len(skills) : skills[i].version \in 1..Len(skills)
  BY CatalogParts DEF CatalogOK, CatalogRefers
<1>2. PICK o \in {"insert", "oldest"}, v \in 1..Len(skills) + 1 :
        /\ call' = [call EXCEPT ![c] = [K!Idle EXCEPT !.op = o, !.definition = d,
                                          !.edition = e, !.version = v]]
        /\ \A i \in 1..Len(skills) : skills[i].edition = e => skills[i].version < v
  <2>1. CASE K!Of(e) = {} /\ K!Begin(c, [K!Idle EXCEPT !.op = "insert", !.definition = d,
                                           !.edition = e, !.version = 1])
    <3>1. \A i \in 1..Len(skills) : skills[i].edition # e
      BY <1>1, <2>1 DEF K!Of
    <3>2. call' = [call EXCEPT ![c] = [K!Idle EXCEPT !.op = "insert", !.definition = d,
                                         !.edition = e, !.version = 1]]
      BY <2>1 DEF K!Begin
    <3>3. 1 \in 1..Len(skills) + 1
      BY <1>1
    <3> QED
      BY <3>1, <3>2, <3>3
  <2>2. ASSUME NEW i \in DOMAIN skills, K!IsLatest(i, e),
               K!Begin(c, [K!Idle EXCEPT
                         !.op = IF skills[i].version + 1 > MaxVersions
                                THEN "oldest" ELSE "insert",
                         !.definition = d, !.edition = e,
                         !.version = skills[i].version + 1])
        PROVE  \E o \in {"insert", "oldest"}, v \in 1..Len(skills) + 1 :
                 /\ call' = [call EXCEPT ![c] = [K!Idle EXCEPT !.op = o, !.definition = d,
                                                   !.edition = e, !.version = v]]
                 /\ \A j \in 1..Len(skills) : skills[j].edition = e => skills[j].version < v
    <3> DEFINE v == skills[i].version + 1
               o == IF v > MaxVersions THEN "oldest" ELSE "insert"
    <3>1. call' = [call EXCEPT ![c] = [K!Idle EXCEPT !.op = o, !.definition = d,
                                                   !.edition = e, !.version = v]]
      BY <2>2 DEF K!Begin
    <3>2. o \in {"insert", "oldest"} /\ v \in 1..Len(skills) + 1
      BY <1>1
    <3>3. \A j \in 1..Len(skills) : skills[j].edition = e => skills[j].version < v
      BY <1>1, <2>2 DEF K!IsLatest, K!Of
    <3> HIDE DEF v, o
    <3> QED
      BY <3>1, <3>2, <3>3
  <2> QED
    BY <2>1, <2>2 DEF K!BeginCreate
<1> DEFINE l == [K!Idle EXCEPT !.op = o, !.definition = d, !.edition = e, !.version = v]
<1>3. /\ l \in CallRow /\ l.op = o /\ l.definition = d /\ l.edition = e /\ l.version = v
      /\ l.row = 0
  <2>1. K!Idle \in CallRow
    BY IdleCall
  <2>2. K!Idle.row = 0
    BY DEF K!Idle
  <2>3. v \in Nat
    BY <1>1
  <2> QED
    BY <2>1, <2>2, <2>3 DEF CallRow
<1>4. call' = [call EXCEPT ![c] = l]
  BY <1>2
<1> HIDE DEF l
<1>5. Refers(l, Len(skills), Len(promotions))
  BY <1>1, <1>3 DEF Refers
<1>6. StillSo(l, skills, promotions)
  BY <1>2, <1>3 DEF StillSo
<1> QED
  BY <1>3, <1>4, <1>5, <1>6, OneCallMoves

\* It reads the oldest stable version.
LEMMA OldestRead ==
  ASSUME CatalogAssumption, CatalogOK(skills, promotions, call, history), NEW c \in Call,
         K!ReadOldest(c)
  PROVE  CatalogOK(skills, promotions, call', history)
<1>1. PICK i \in DOMAIN skills :
        /\ call[c].op = "oldest"
        /\ call' = [call EXCEPT ![c].op = "insert",
                     ![c].row = IF skills[i].status = "STABLE" THEN i ELSE 0]
  BY DEF K!ReadOldest
<1> DEFINE o == IF skills[i].status = "STABLE" THEN i ELSE 0
           l == [call[c] EXCEPT !.op = "insert", !.row = o]
<1>2. /\ call[c] \in CallRow /\ call \in [Call -> CallRow]
      /\ Refers(call[c], Len(skills), Len(promotions))
      /\ StillSo(call[c], skills, promotions)
      /\ Len(skills) \in Nat /\ i \in 1..Len(skills)
  BY CatalogParts
<1>3. o \in 0..Len(skills) /\ o \in Nat
  BY <1>2
<1> HIDE DEF o
<1>4. /\ l \in CallRow /\ l.op = "insert" /\ l.row = o /\ l.definition = call[c].definition
      /\ l.edition = call[c].edition /\ l.version = call[c].version /\ l.alone = call[c].alone
  BY <1>2, <1>3 DEF CallRow
<1>5. call' = [call EXCEPT ![c] = l]
  BY <1>1, <1>2 DEF o
<1> HIDE DEF l
<1>6. Refers(l, Len(skills), Len(promotions))
  BY <1>1, <1>2, <1>3, <1>4 DEF Refers
<1>7. StillSo(l, skills, promotions)
  BY <1>1, <1>2, <1>4 DEF StillSo
<1> QED
  BY <1>4, <1>5, <1>6, <1>7, OneCallMoves

\* A call on a row begins.
LEMMA RowBegun ==
  ASSUME CatalogAssumption, CatalogOK(skills, promotions, call, history), NEW c \in Call,
         NEW l \in CallRow, call' = [call EXCEPT ![c] = l],
         l.op \in {"approve", "disable", "rollback", "promote", "review"},
         l.op = "review" =>
           l.row \in 1..Len(promotions) /\ promotions[l.row].status = "PENDING",
         l.op # "review" => l.row \in 1..Len(skills),
         l.op = "promote" => \A p \in 1..Len(promotions) : ~Asks(promotions[p], l.row, l.edition)
  PROVE  CatalogOK(skills, promotions, call', history)
<1>1. Refers(l, Len(skills), Len(promotions))
  BY DEF Refers
<1>2. StillSo(l, skills, promotions)
  BY DEF StillSo
<1> QED
  BY <1>1, <1>2, OneCallMoves

\* A change of a skill begins.
LEMMA ChangeBegun ==
  ASSUME CatalogAssumption, CatalogOK(skills, promotions, call, history), NEW c \in Call,
         NEW i \in DOMAIN skills, NEW o \in {"approve", "disable", "rollback"},
         K!BeginChange(c, i, o)
  PROVE  CatalogOK(skills, promotions, call', history)
<1> DEFINE l == [K!Idle EXCEPT !.op = o, !.row = i]
<1>1. call' = [call EXCEPT ![c] = l]
  BY DEF K!BeginChange, K!Begin
<1>2. i \in 1..Len(skills) /\ i \in Nat
  BY CatalogParts
<1>3. l \in CallRow /\ l.op = o /\ l.row = i
  BY <1>2, IdleCall DEF CallRow
<1> HIDE DEF l
<1> QED
  BY <1>1, <1>2, <1>3, RowBegun

\* A promotion begins.
LEMMA PromoteBegun ==
  ASSUME CatalogAssumption, CatalogOK(skills, promotions, call, history), NEW c \in Call,
         NEW i \in DOMAIN skills, NEW e \in Editions, K!BeginPromote(c, i, e)
  PROVE  CatalogOK(skills, promotions, call', history)
<1> DEFINE l == [K!Idle EXCEPT !.op = "promote", !.row = i, !.edition = e]
<1>1. call' = [call EXCEPT ![c] = l] /\ K!Pending(i, e) = {}
  BY DEF K!BeginPromote, K!Begin
<1>2. i \in 1..Len(skills) /\ i \in Nat /\ DOMAIN promotions = 1..Len(promotions)
  BY CatalogParts
<1>3. l \in CallRow /\ l.op = "promote" /\ l.row = i /\ l.edition = e
  BY <1>2, IdleCall DEF CallRow
<1>4. \A p \in 1..Len(promotions) : ~Asks(promotions[p], i, e)
  BY <1>1, <1>2 DEF K!Pending, Asks
<1> HIDE DEF l
<1> QED
  BY <1>1, <1>2, <1>3, <1>4, RowBegun

\* A review begins.
LEMMA ReviewBegun ==
  ASSUME CatalogAssumption, CatalogOK(skills, promotions, call, history), NEW c \in Call,
         NEW p \in DOMAIN promotions, K!BeginReview(c, p)
  PROVE  CatalogOK(skills, promotions, call', history)
<1> DEFINE l == [K!Idle EXCEPT !.op = "review", !.row = p]
<1>1. call' = [call EXCEPT ![c] = l] /\ promotions[p].status = "PENDING"
  BY DEF K!BeginReview, K!Begin
<1>2. p \in 1..Len(promotions) /\ p \in Nat
  BY CatalogParts
<1>3. l \in CallRow /\ l.op = "review" /\ l.row = p
  BY <1>2, IdleCall DEF CallRow
<1> HIDE DEF l
<1> QED
  BY <1>1, <1>2, <1>3, RowBegun

\* A commit crosses the other calls.
LEMMA CommitMeets ==
  ASSUME CatalogAssumption, CatalogOK(skills, promotions, call, history), NEW c \in Call,
         K!Committed(c),
         NEW k \in Nat, NEW o \in Nat, Len(skills) <= k, Len(promotions) <= o
  PROVE  /\ call' \in [Call -> CallRow] /\ \A d \in Call : Refers(call'[d], k, o)
         /\ \A J, Q : ReadsHold(J, Q, call')
<1>1. call' = [d \in Call |-> IF d \in {c} \/ call[d] = K!Idle THEN K!Idle
                             ELSE [call[d] EXCEPT !.alone = FALSE]]
  BY DEF K!Committed
<1>2. call \in [Call -> CallRow] /\ Len(skills) \in Nat /\ Len(promotions) \in Nat
      /\ \A d \in Call : Refers(call[d], Len(skills), Len(promotions))
  BY CatalogParts
<1>3. Met(call, call') /\ call' \in [Call -> CallRow]
  BY <1>1, <1>2, CallsMeet
<1> QED
  BY <1>2, <1>3, MetReads

\* V row of skills is set, or added.
LEMMA SkillSet ==
  ASSUME NEW s \in Seq(SkillRow), NEW o \in 1..Len(s), NEW l \in SkillRow
  PROVE  /\ [s EXCEPT ![o] = l] \in Seq(SkillRow) /\ Len([s EXCEPT ![o] = l]) = Len(s)
         /\ \A i \in 1..Len(s) : [s EXCEPT ![o] = l][i] = IF i = o THEN l ELSE s[i]
<1> DEFINE n == Len(s)
           q == [s EXCEPT ![o] = l]
<1>1. n \in Nat /\ s \in [1..n -> SkillRow]
  BY LenProperties
<1>2. q \in [1..n -> SkillRow] /\ \A i \in 1..n : q[i] = IF i = o THEN l ELSE s[i]
  BY <1>1
<1> HIDE DEF q
<1>3. q \in Seq(SkillRow) /\ Len(q) = n
  BY <1>1, <1>2, SeqDef, LenProperties
<1> QED
  BY <1>2, <1>3 DEF q

\* The rows with the o-th deprecated, if there is one.
Deprecated(s, o) == IF o = 0 THEN s ELSE [s EXCEPT ![o].status = "DEPRECATED"]
\* Rows that differ in their status at most.
SameSkill(a, b) == /\ a.edition = b.edition /\ a.version = b.version
                   /\ a.from = b.from /\ a.runs = b.runs

\* Deprecating changes a status, and makes none stable.
LEMMA SkillDeprecated ==
  ASSUME NEW s \in Seq(SkillRow), NEW o \in 0..Len(s)
  PROVE  /\ Deprecated(s, o) \in Seq(SkillRow) /\ Len(Deprecated(s, o)) = Len(s)
         /\ \A i \in 1..Len(s) :
              /\ SameSkill(Deprecated(s, o)[i], s[i])
              /\ Deprecated(s, o)[i].status = "STABLE" => s[i].status = "STABLE"
<1>0. Len(s) \in Nat /\ \A i \in 1..Len(s) : s[i] \in SkillRow
  BY LenProperties, ElementOfSeq
<1>1. CASE o = 0
  BY <1>1 DEF Deprecated, SameSkill
<1>2. CASE o # 0
  <2> DEFINE l == [s[o] EXCEPT !.status = "DEPRECATED"]
  <2>1. o \in 1..Len(s) /\ s[o] \in SkillRow
    BY <1>0, <1>2
  <2>2. l \in SkillRow /\ l.status = "DEPRECATED" /\ SameSkill(l, s[o])
    BY <2>1 DEF SkillRow, K!SkillStatus, SameSkill
  <2>3. Deprecated(s, o) = [s EXCEPT ![o] = l]
    BY <1>2 DEF Deprecated
  <2> HIDE DEF l
  <2>4. /\ Deprecated(s, o) \in Seq(SkillRow) /\ Len(Deprecated(s, o)) = Len(s)
        /\ \A i \in 1..Len(s) : Deprecated(s, o)[i] = IF i = o THEN l ELSE s[i]
    BY <2>1, <2>2, <2>3, SkillSet
  <2>5. \A i \in 1..Len(s) : SameSkill(s[i], s[i])
    BY DEF SameSkill
  <2> QED
    BY <2>2, <2>4, <2>5
<1> QED
  BY <1>1, <1>2

\* A row is appended.
LEMMA SkillAdded ==
  ASSUME NEW s \in Seq(SkillRow), NEW w \in SkillRow, NEW t, t = Append(s, w)
  PROVE  /\ t \in Seq(SkillRow) /\ Len(t) = Len(s) + 1 /\ t[Len(s) + 1] = w
         /\ \A i \in 1..Len(s) : t[i] = s[i]
BY AppendProperties

\* What a new row does to the rest.
LEMMA CatalogGrows ==
  ASSUME CatalogAssumption, CatalogOK(skills, promotions, call, history),
         NEW w \in SkillRow, NEW t \in Seq(SkillRow), NEW Q \in Seq(PromotionRow),
         NEW Z \in [Call -> CallRow], NEW H \in Marks,
         Len(t) = Len(skills) + 1, Len(t) <= MaxSkills, t[Len(skills) + 1] = w,
         \A i \in 1..Len(skills) :
           SameSkill(t[i], skills[i]) /\ (t[i].status = "STABLE" => skills[i].status = "STABLE"),
         w.status = "CANDIDATE", w.version \in 1..Len(skills) + 1,
         w.from \in 0..Len(promotions),
         Len(Q) = Len(promotions), \A p \in 1..Len(Q) : Q[p].skill = promotions[p].skill,
         H.earned = history.earned, H.fresh = history.fresh,
         history.created \subseteq H.created,
         w.from = 0 /\ Len(skills) + 1 \notin H.created =>
           \A i \in 1..Len(skills) : skills[i].edition = w.edition => skills[i].version < w.version,
         \A d \in Call : Refers(Z[d], Len(skills) + 1, Len(promotions)), ReadsHold(t, Q, Z)
  PROVE  /\ CatalogTypes(t, Q, Z, H) /\ CatalogRefers(t, Q, Z) /\ ReadsHold(t, Q, Z)
         /\ EarnedOK(t, H) /\ VersionsOK(t, H)
<1> DEFINE n == Len(skills)
<1>1. /\ n \in Nat /\ Len(promotions) \in Nat
      /\ \A i \in 1..n : skills[i] \in SkillRow /\ skills[i].version \in 1..n
      /\ \A i \in 1..n : skills[i].from \in 0..Len(promotions)
      /\ \A p \in 1..Len(promotions) : promotions[p].skill \in 1..n
  BY CatalogParts DEF CatalogOK, CatalogRefers
<1> HIDE DEF n
<1>2. \A i \in 1..n + 1 : i \in 1..n \/ i = n + 1
  BY <1>1
<1>3. 1..n \subseteq 1..n + 1
  BY <1>1
<1>4. CatalogTypes(t, Q, Z, H)
  BY DEF CatalogTypes
<1>5. /\ Len(t) = n + 1 /\ t[n + 1] = w
      /\ \A i \in 1..n : SameSkill(t[i], skills[i])
      /\ \A i \in 1..n : t[i].status = "STABLE" => skills[i].status = "STABLE"
  BY DEF n
<1>6. CatalogRefers(t, Q, Z)
  <2>1. \A i \in 1..n + 1 : t[i].version \in 1..n + 1 /\ t[i].from \in 0..Len(Q)
    <3> TAKE i \in 1..n + 1
    <3>1. CASE i \in 1..n
      BY <1>1, <1>3, <1>5, <3>1 DEF SameSkill
    <3>2. CASE i = n + 1
      BY <1>5, <3>2 DEF n
    <3> QED
      BY <1>2, <3>1, <3>2
  <2>2. \A p \in 1..Len(Q) : Q[p].skill \in 1..n + 1
    BY <1>1, <1>3
  <2>3. \A d \in Call : Refers(Z[d], n + 1, Len(Q))
    BY DEF n
  <2> QED
    BY <1>5, <2>1, <2>2, <2>3 DEF CatalogRefers
<1>7. EarnedOK(t, H)
  <2>1. EarnedOK(skills, history)
    BY DEF CatalogOK
  <2>2. ASSUME NEW i \in 1..n + 1, t[i].status = "STABLE"
        PROVE  i \in H.earned /\ (i \in H.fresh \/ ~K!Failing(t[i].runs))
    <3>1. i \in 1..n
      BY <1>2, <1>5, <2>2
    <3>2. skills[i].status = "STABLE" /\ t[i].runs = skills[i].runs
      BY <1>5, <2>2, <3>1 DEF SameSkill
    <3> QED
      BY <2>1, <3>1, <3>2 DEF EarnedOK, n
  <2> QED
    BY <1>5, <2>2 DEF EarnedOK
<1>8. VersionsOK(t, H)
  <2>1. VersionsOK(skills, history)
    BY DEF CatalogOK
  <2>2. ASSUME NEW i \in 1..n + 1, NEW j \in 1..n + 1, i < j, t[i].edition = t[j].edition,
               t[j].from = 0, j \notin H.created
        PROVE  t[i].version # t[j].version
    <3>1. i \in 1..n
      BY <1>1, <2>2
    <3>2. CASE j \in 1..n
      BY <1>5, <2>1, <2>2, <3>1, <3>2 DEF VersionsOK, SameSkill, n
    <3>3. CASE j = n + 1
      <4>1. skills[i].edition = w.edition /\ w.from = 0 /\ n + 1 \notin H.created
        BY <1>5, <2>2, <3>1, <3>3 DEF SameSkill
      <4>2. skills[i].version < w.version
        BY <3>1, <4>1 DEF n
      <4>3. t[i].version = skills[i].version /\ t[j].version = w.version
        BY <1>5, <3>1, <3>3 DEF SameSkill
      <4>4. skills[i].version \in Nat /\ w.version \in Nat
        BY <1>1, <3>1 DEF SkillRow
      <4> QED
        BY <4>2, <4>3, <4>4
    <3> QED
      BY <1>2, <3>2, <3>3
  <2> QED
    BY <1>5, <2>2 DEF VersionsOK
<1> QED
  BY <1>4, <1>6, <1>7, <1>8

\* A new skill has no runs.
LEMMA RunsGrow ==
  ASSUME NEW s \in Seq(SkillRow), NEW t \in Seq(SkillRow), RunsOK(s),
         Len(t) = Len(s) + 1, \A i \in 1..Len(s) : t[i].runs = s[i].runs,
         t[Len(s) + 1].runs = <<>>
  PROVE  RunsOK(t)
<1>1. Len(s) \in Nat /\ Len(<<>>) = 0
  BY LenProperties, OfEmpty
<1>2. ASSUME NEW n
      PROVE  Runs(t, n) = Runs(s, n)
  <2>1. \A i \in 1..Len(t) : i \in 1..Len(s) \/ i = Len(s) + 1
    BY <1>1
  <2>2. 1..Len(s) \subseteq 1..Len(t)
    BY <1>1
  <2>3. \A k \in 1..n : ~(k <= Len(t[Len(s) + 1].runs))
    BY <1>1
  <2> QED
    BY <2>1, <2>2, <2>3 DEF Runs
<1> QED
  BY <1>2 DEF RunsOK

\* V skill whose copies and requests are as they were.
LEMMA CopiesGrow ==
  ASSUME CatalogOK(skills, promotions, call, history),
         NEW t \in Seq(SkillRow), NEW H, Len(t) = Len(skills) + 1,
         \A i \in 1..Len(skills) : SameSkill(t[i], skills[i]),
         t[Len(skills) + 1].from = 0,
         history.reviewed \subseteq H.reviewed, history.promoted \subseteq H.promoted
  PROVE  CopiesOK(t, promotions, H) /\ RequestsOK(t, promotions, H)
<1> DEFINE n == Len(skills)
<1>1. n \in Nat /\ Len(promotions) \in Nat
      /\ \A p \in 1..Len(promotions) : promotions[p].skill \in 1..n
  BY CatalogParts DEF CatalogOK, CatalogRefers
<1>2. CopiesOK(skills, promotions, history) /\ RequestsOK(skills, promotions, history)
  BY DEF CatalogOK
<1>3. Len(t) = n + 1 /\ \A i \in 1..n : t[i].from = skills[i].from
  BY DEF SameSkill
<1>4. t[n + 1].from = 0
  OBVIOUS
<1> HIDE DEF n
<1>5. \A i \in 1..n + 1 : i \in 1..n \/ i = n + 1
  BY <1>1
<1>6. 1..n \subseteq 1..n + 1
  BY <1>1
<1>7. ASSUME NEW p \in 1..Len(promotions)
      PROVE  \A i \in 1..n + 1 : t[i].from = p <=> i \in 1..n /\ skills[i].from = p
  <2>1. p # 0 /\ n + 1 \notin 1..n
    BY <1>1
  <2> QED
    BY <1>3, <1>4, <1>5, <2>1
<1>8. CopiesOK(t, promotions, H)
  <2> SUFFICES ASSUME NEW p \in 1..Len(promotions), p \notin H.reviewed
               PROVE  /\ \A i, j \in 1..n + 1 : t[i].from = p /\ t[j].from = p => i = j
                      /\ promotions[p].status = "APPROVED"
                           <=> \E i \in 1..n + 1 : t[i].from = p
    BY <1>3 DEF CopiesOK
  <2>1. /\ \A i, j \in 1..n : skills[i].from = p /\ skills[j].from = p => i = j
        /\ promotions[p].status = "APPROVED" <=> \E i \in 1..n : skills[i].from = p
    BY <1>2 DEF CopiesOK, n
  <2> QED
    BY <1>6, <1>7, <2>1
<1>9. RequestsOK(t, promotions, H)
  <2> SUFFICES ASSUME NEW i \in 1..n + 1, NEW e \in Editions, i \notin H.promoted,
                      NEW p \in 1..Len(promotions), NEW q \in 1..Len(promotions),
                      Asks(promotions[p], i, e), Asks(promotions[q], i, e)
               PROVE  p = q
    BY <1>3 DEF RequestsOK
  <2>1. i \in 1..n
    BY <1>1 DEF Asks
  <2> QED
    BY <1>2, <2>1 DEF RequestsOK, n
<1> QED
  BY <1>8, <1>9

\* A new version is inserted.
LEMMA InsertDone ==
  ASSUME CatalogAssumption, CatalogOK(skills, promotions, call, history), RunsOK(skills),
         NEW c \in Call, K!Insert(c)
  PROVE  CatalogOK(skills', promotions, call', history') /\ RunsOK(skills')
<1> DEFINE n == Len(skills)
           l == call[c]
           q == Deprecated(skills, l.row)
           w == K!Candidate(l.edition, l.version, l.definition, 0)
<1>1. /\ l.op = "insert" /\ n < MaxSkills
      /\ skills' = Append(q, w)
      /\ history' = [history EXCEPT !.created = @ \cup K!Crossed(c, n + 1)]
      /\ K!Committed(c)
  BY DEF K!Insert, Deprecated
<1>2. /\ skills \in Seq(SkillRow) /\ n \in Nat /\ promotions \in Seq(PromotionRow)
      /\ Len(promotions) \in Nat /\ l \in CallRow /\ history \in Marks
      /\ Refers(l, n, Len(promotions)) /\ StillSo(l, skills, promotions)
  BY CatalogParts
<1>3. l.definition \in Definition /\ l.version \in 1..n + 1 /\ l.row \in 0..n
  BY <1>1, <1>2 DEF Refers
<1>4. /\ w \in SkillRow /\ w.edition = l.edition /\ w.version = l.version /\ w.from = 0
      /\ w.status = "CANDIDATE" /\ w.runs = <<>>
  <2>1. <<>> \in Seq(BOOLEAN) /\ l.edition \in Editions /\ l.version \in Nat
    BY <1>2, <1>3, OfEmpty DEF CallRow
  <2> QED
    BY <1>3, <2>1 DEF K!Candidate, SkillRow, K!SkillStatus
<1>5. /\ q \in Seq(SkillRow) /\ Len(q) = n
      /\ \A i \in 1..n : /\ SameSkill(q[i], skills[i])
                         /\ q[i].status = "STABLE" => skills[i].status = "STABLE"
  BY <1>2, <1>3, SkillDeprecated
<1> HIDE DEF q, w
<1>6. /\ skills' \in Seq(SkillRow) /\ Len(skills') = n + 1 /\ skills'[n + 1] = w
      /\ \A i \in 1..n : /\ SameSkill(skills'[i], skills[i])
                         /\ skills'[i].status = "STABLE" => skills[i].status = "STABLE"
  <2>1. /\ skills' \in Seq(SkillRow) /\ Len(skills') = Len(q) + 1 /\ skills'[Len(q) + 1] = w
        /\ \A i \in 1..Len(q) : skills'[i] = q[i]
    BY <1>1, <1>4, <1>5, SkillAdded
  <2> QED
    BY <1>5, <2>1
<1>7. /\ history' \in Marks /\ history'.earned = history.earned
      /\ history'.fresh = history.fresh /\ history'.reviewed = history.reviewed
      /\ history'.promoted = history.promoted /\ history.created \subseteq history'.created
      /\ n + 1 \notin history'.created => l.alone = TRUE
  <2>1. n + 1 \in Nat /\ K!Crossed(c, n + 1) \subseteq {n + 1}
    BY <1>2 DEF K!Crossed
  <2>2. n + 1 \notin K!Crossed(c, n + 1) => l.alone = TRUE
    BY <1>2 DEF K!Crossed, CallRow
  <2> HIDE DEF l, n
  <2> QED
    BY <1>1, <1>2, <2>1, <2>2 DEF Marks
<1>8. w.from = 0 /\ n + 1 \notin history'.created =>
        \A i \in 1..n : skills[i].edition = w.edition => skills[i].version < w.version
  BY <1>1, <1>2, <1>4, <1>7 DEF StillSo
<1>9. /\ call' \in [Call -> CallRow]
      /\ \A d \in Call : Refers(call'[d], n + 1, Len(promotions))
      /\ ReadsHold(skills', promotions, call')
  <2>1. n + 1 \in Nat /\ n <= n + 1 /\ Len(promotions) <= Len(promotions)
    BY <1>2
  <2> QED
    BY <1>1, <1>2, <2>1, CommitMeets
<1>10. Len(skills') <= MaxSkills /\ w.version \in 1..n + 1 /\ w.from \in 0..Len(promotions)
  BY <1>1, <1>2, <1>3, <1>4, <1>6 DEF CatalogAssumption
<1>11. /\ CatalogTypes(skills', promotions, call', history')
       /\ CatalogRefers(skills', promotions, call') /\ ReadsHold(skills', promotions, call')
       /\ EarnedOK(skills', history') /\ VersionsOK(skills', history')
  BY <1>2, <1>4, <1>6, <1>7, <1>8, <1>9, <1>10, CatalogGrows
<1>12. CopiesOK(skills', promotions, history') /\ RequestsOK(skills', promotions, history')
  BY <1>4, <1>6, <1>7, CopiesGrow
<1>13. RunsOK(skills')
  BY <1>2, <1>4, <1>6, RunsGrow DEF SameSkill
<1> QED
  BY <1>11, <1>12, <1>13 DEF CatalogOK

\* V skill is set: its status, or its runs.
LEMMA CatalogSet ==
  ASSUME CatalogAssumption, CatalogOK(skills, promotions, call, history),
         NEW t \in Seq(SkillRow), NEW Z \in [Call -> CallRow], NEW H \in Marks,
         Len(t) = Len(skills),
         \A i \in 1..Len(skills) :
           /\ t[i].edition = skills[i].edition /\ t[i].version = skills[i].version
           /\ t[i].from = skills[i].from,
         H.created = history.created, H.reviewed = history.reviewed,
         H.promoted = history.promoted, EarnedOK(t, H),
         \A d \in Call : Refers(Z[d], Len(skills), Len(promotions)), ReadsHold(t, promotions, Z)
  PROVE  CatalogOK(t, promotions, Z, H)
<1>1. CatalogTypes(t, promotions, Z, H)
  BY DEF CatalogOK, CatalogTypes
<1>2. CatalogRefers(t, promotions, Z)
  BY DEF CatalogOK, CatalogRefers
<1>3. VersionsOK(t, H)
  BY DEF CatalogOK, VersionsOK
<1>4. CopiesOK(t, promotions, H) /\ RequestsOK(t, promotions, H)
  BY DEF CatalogOK, CopiesOK, RequestsOK
<1> QED
  BY <1>1, <1>2, <1>3, <1>4 DEF CatalogOK

\* The bound on runs depends on the runs alone.
LEMMA RunsSame ==
  ASSUME NEW s, NEW t, RunsOK(s), Len(t) = Len(s), \A i \in 1..Len(s) : t[i].runs = s[i].runs
  PROVE  RunsOK(t)
<1>1. \A n : Runs(t, n) = Runs(s, n)
  BY DEF Runs
<1> QED
  BY <1>1 DEF RunsOK

\* A skill is approved, disabled or rolled back.
LEMMA ChangeDone ==
  ASSUME CatalogAssumption, CatalogOK(skills, promotions, call, history), RunsOK(skills),
         NEW c \in Call, K!Change(c)
  PROVE  CatalogOK(skills', promotions, call', history') /\ RunsOK(skills')
<1> DEFINE n == Len(skills)
           i == call[c].row
           off == call[c].op = "disable"
           w == [skills[i] EXCEPT !.status = IF off THEN "DISABLED" ELSE "STABLE"]
<1>1. /\ call[c].op \in {"approve", "disable", "rollback"}
      /\ skills' = [skills EXCEPT ![i].status = IF off THEN "DISABLED" ELSE "STABLE"]
      /\ history' = IF off THEN history
                    ELSE [history EXCEPT !.earned = @ \cup {i}, !.fresh = @ \cup {i}]
      /\ K!Committed(c)
  BY DEF K!Change
<1>2. /\ skills \in Seq(SkillRow) /\ n \in Nat /\ Len(promotions) \in Nat
      /\ history \in Marks /\ i \in 1..n /\ skills[i] \in SkillRow
  BY <1>1, CatalogParts DEF Refers
<1>3. /\ w \in SkillRow /\ SameSkill(w, skills[i])
      /\ w.status = IF off THEN "DISABLED" ELSE "STABLE"
  BY <1>2 DEF SkillRow, K!SkillStatus, SameSkill
<1>4. skills' = [skills EXCEPT ![i] = w]
  BY <1>1, <1>2
<1> HIDE DEF w, i
<1>5. /\ skills' \in Seq(SkillRow) /\ Len(skills') = n
      /\ \A j \in 1..n : skills'[j] = IF j = i THEN w ELSE skills[j]
  BY <1>2, <1>3, <1>4, SkillSet
<1>6. \A j \in 1..n : SameSkill(skills'[j], skills[j])
  BY <1>3, <1>5 DEF SameSkill
<1>7. /\ history' \in Marks /\ history'.created = history.created
      /\ history'.reviewed = history.reviewed /\ history'.promoted = history.promoted
      /\ history.earned \subseteq history'.earned /\ history.fresh \subseteq history'.fresh
      /\ ~off => i \in history'.earned /\ i \in history'.fresh
  <2>1. i \in Nat
    BY <1>2
  <2> HIDE DEF off
  <2>2. CASE off
    BY <1>1, <1>2, <2>2
  <2>3. CASE ~off
    <3>1. history' = [history EXCEPT !.earned = @ \cup {i}, !.fresh = @ \cup {i}]
      BY <1>1, <2>3
    <3> QED
      BY <1>2, <2>1, <3>1 DEF Marks
  <2> QED
    BY <2>2, <2>3
<1>8. EarnedOK(skills', history')
  <2>1. EarnedOK(skills, history)
    BY DEF CatalogOK
  <2>2. ASSUME NEW j \in 1..n, skills'[j].status = "STABLE"
        PROVE  j \in history'.earned /\ (j \in history'.fresh \/ ~K!Failing(skills'[j].runs))
    <3>1. CASE j = i
      BY <1>3, <1>5, <1>7, <2>2, <3>1
    <3>2. CASE j # i
      BY <1>5, <1>7, <2>1, <2>2, <3>2 DEF EarnedOK
    <3> QED
      BY <3>1, <3>2
  <2> QED
    BY <1>5, <2>2 DEF EarnedOK
<1>9. /\ call' \in [Call -> CallRow]
      /\ \A d \in Call : Refers(call'[d], n, Len(promotions))
      /\ ReadsHold(skills', promotions, call')
  <2>1. n <= n /\ Len(promotions) <= Len(promotions)
    BY <1>2
  <2> QED
    BY <1>1, <1>2, <2>1, CommitMeets
<1>10. CatalogOK(skills', promotions, call', history')
  BY <1>5, <1>6, <1>7, <1>8, <1>9, CatalogSet DEF SameSkill
<1>11. RunsOK(skills')
  BY <1>5, <1>6, RunsSame DEF SameSkill
<1> QED
  BY <1>10, <1>11

\* What is counted for the limit: no skill has more than MaxRuns.
LEMMA RunsAdd ==
  ASSUME CatalogAssumption, NEW s \in Seq(SkillRow), NEW t \in Seq(SkillRow),
         NEW i \in 1..Len(s), Len(t) = Len(s),
         \A j \in 1..Len(s) : j # i => t[j].runs = s[j].runs,
         Len(t[i].runs) = Len(s[i].runs) + 1,
         Cardinality(Runs(s, MaxRuns)) < MaxRuns
  PROVE  RunsOK(t)
<1> DEFINE n == Len(s)
           m == MaxRuns
           V == Runs(s, m)
           W == Runs(t, m + 1)
           k == Len(s[i].runs)
<1>1. /\ n \in Nat /\ m \in Nat /\ \A j \in 1..n : s[j] \in SkillRow /\ t[j] \in SkillRow
  BY LenProperties, ElementOfSeq DEF CatalogAssumption
<1>2. \A j \in 1..n : Len(s[j].runs) \in Nat
  BY <1>1, LenProperties DEF SkillRow
<1>3. IsFiniteSet(V) /\ Cardinality(V) \in Nat
  <2>0. 1 \in Int /\ n \in Int /\ m \in Int
    BY <1>1
  <2>1. IsFiniteSet(1..n) /\ IsFiniteSet(1..m)
    BY <2>0, FS_Interval
  <2>2. IsFiniteSet((1..n) \X (1..m))
    BY <2>1, FS_Product
  <2>3. V \subseteq (1..n) \X (1..m)
    BY DEF Runs
  <2>4. IsFiniteSet(V)
    BY <2>2, <2>3, FS_Subset
  <2> QED
    BY <2>4, FS_CardinalityType
<1>4. \A j \in 1..n : Len(s[j].runs) < m
  <2> SUFFICES ASSUME NEW j \in 1..n, ~(Len(s[j].runs) < m) PROVE FALSE
    OBVIOUS
  <2> DEFINE row == [r \in 1..m |-> <<j, r>>]
             X == {<<j, r>> : r \in 1..m}
  <2>1. X \subseteq V
    BY <1>1, <1>2 DEF Runs
  <2>2. row \in Bijection(1..m, X)
    BY DEF Bijection, Injection, Surjection, IsInjective
  <2>3. IsFiniteSet(1..m) /\ Cardinality(1..m) = m
    <3>1. 1 \in Int /\ m \in Int
      BY <1>1
    <3> QED
      BY <1>1, <3>1, FS_Interval
  <2>4. Cardinality(X) = m
    BY <2>2, <2>3, FS_Bijection DEF ExistsBijection
  <2>5. Cardinality(X) <= Cardinality(V)
    BY <1>3, <2>1, FS_Subset
  <2>6. Cardinality(V) < m
    OBVIOUS
  <2> HIDE DEF X, V, m
  <2> QED
    BY <1>1, <1>3, <2>4, <2>5, <2>6
<1>5. W \subseteq V \cup {<<i, k + 1>>}
  <2> SUFFICES ASSUME NEW j \in 1..n, NEW r \in 1..m + 1, r <= Len(t[j].runs)
               PROVE  <<j, r>> \in V \cup {<<i, k + 1>>}
    BY DEF Runs
  <2>1. CASE j # i
    <3>1. r <= Len(s[j].runs) /\ r \in 1..m
      BY <1>1, <1>2, <1>4, <2>1
    <3> QED
      BY <3>1 DEF Runs
  <2>2. CASE j = i
    <3>1. r <= k + 1 /\ k \in Nat /\ k < m
      BY <1>2, <1>4, <2>2
    <3>2. CASE r = k + 1
      BY <2>2, <3>2
    <3>3. CASE r # k + 1
      <4>1. r <= k /\ r \in 1..m
        BY <1>1, <3>1, <3>3
      <4> QED
        BY <2>2, <4>1 DEF Runs
    <3> QED
      BY <3>2, <3>3
  <2> QED
    BY <2>1, <2>2
<1>6. Cardinality(V) < m
  OBVIOUS
<1> HIDE DEF V, W, k, m
<1>7. /\ IsFiniteSet(V \cup {<<i, k + 1>>})
      /\ Cardinality(V \cup {<<i, k + 1>>}) <= Cardinality(V) + 1
  <2> DEFINE x == <<i, k + 1>>
  <2> HIDE DEF x
  <2>1. /\ IsFiniteSet(V \cup {x})
        /\ Cardinality(V \cup {x}) = IF x \in V THEN Cardinality(V) ELSE Cardinality(V) + 1
    BY <1>3, FS_AddElement
  <2>2. Cardinality(V) <= Cardinality(V) + 1 /\ Cardinality(V) + 1 <= Cardinality(V) + 1
    BY <1>3
  <2> QED
    BY <2>1, <2>2 DEF x
<1>8. Cardinality(W) <= Cardinality(V \cup {<<i, k + 1>>}) /\ IsFiniteSet(W)
  BY <1>5, <1>7, FS_Subset
<1>9. Cardinality(W) \in Nat /\ Cardinality(V \cup {<<i, k + 1>>}) \in Nat
  BY <1>7, <1>8, FS_CardinalityType
<1>10. Cardinality(W) <= m
  BY <1>1, <1>3, <1>6, <1>7, <1>8, <1>9
<1> QED
  BY <1>10 DEF RunsOK, W, m

\* A run is recorded, and its skill evaluated.
LEMMA RunRecorded ==
  ASSUME CatalogAssumption, CatalogOK(skills, promotions, call, history), RunsOK(skills),
         NEW i \in DOMAIN skills, NEW ok \in BOOLEAN, K!RecordRun(i, ok)
  PROVE  CatalogOK(skills', promotions, call', history') /\ RunsOK(skills')
<1> DEFINE n == Len(skills)
           added == K!AddRun(skills[i].runs, ok)
           degraded == skills[i].status = "STABLE" /\ K!Failing(added)
<1>1. PICK status \in IF degraded THEN K!Degraded ELSE {skills[i].status} :
        skills' = [skills EXCEPT ![i].runs = added, ![i].status = status]
  BY DEF K!RecordRun
<1> DEFINE w == [skills[i] EXCEPT !.runs = added, !.status = status]
<1>2. /\ K!TotalRuns(MaxRuns) < MaxRuns
      /\ history' = [history EXCEPT !.fresh = @ \ {i}]
      /\ call' = [d \in Call |-> IF call[d] = K!Idle THEN K!Idle
                                ELSE [call[d] EXCEPT !.alone = FALSE]]
  BY DEF K!RecordRun
<1>3. /\ skills \in Seq(SkillRow) /\ n \in Nat /\ Len(promotions) \in Nat
      /\ history \in Marks /\ i \in 1..n /\ skills[i] \in SkillRow
      /\ call \in [Call -> CallRow] /\ DOMAIN skills = 1..n
      /\ \A d \in Call : Refers(call[d], n, Len(promotions))
  BY CatalogParts
<1>4. added \in Seq(BOOLEAN) /\ Len(added) = Len(skills[i].runs) + 1
  <2>1. skills[i].runs \in Seq(BOOLEAN)
    BY <1>3 DEF SkillRow
  <2>2. <<ok>> \in Seq(BOOLEAN) /\ Len(<<ok>>) = 1 /\ Len(skills[i].runs) \in Nat
    BY <2>1, LenProperties
  <2>3. /\ <<ok>> \o skills[i].runs \in Seq(BOOLEAN)
        /\ Len(<<ok>> \o skills[i].runs) = Len(<<ok>>) + Len(skills[i].runs)
    BY <2>1, <2>2, ConcatProperties
  <2> QED
    BY <2>2, <2>3 DEF K!AddRun
<1> HIDE DEF added
<1>5. /\ w \in SkillRow /\ w.runs = added /\ w.status = status
      /\ w.edition = skills[i].edition /\ w.version = skills[i].version
      /\ w.from = skills[i].from
  <2>1. status \in K!SkillStatus
    BY <1>1, <1>3 DEF K!Degraded, K!SkillStatus, SkillRow
  <2> QED
    BY <1>3, <1>4, <2>1 DEF SkillRow
<1>6. skills' = [skills EXCEPT ![i] = w]
  BY <1>1, <1>3
<1>7. w.status = "STABLE" => skills[i].status = "STABLE" /\ ~K!Failing(w.runs)
  <2>1. CASE degraded
    BY <1>1, <1>5, <2>1 DEF K!Degraded
  <2>2. CASE ~degraded
    BY <1>1, <1>5, <2>2
  <2> QED
    BY <2>1, <2>2
<1> HIDE DEF w, degraded
<1>8. /\ skills' \in Seq(SkillRow) /\ Len(skills') = n
      /\ \A j \in 1..n : skills'[j] = IF j = i THEN w ELSE skills[j]
  BY <1>3, <1>5, <1>6, SkillSet
<1>9. \A j \in 1..n : /\ skills'[j].edition = skills[j].edition
                      /\ skills'[j].version = skills[j].version
                      /\ skills'[j].from = skills[j].from
  BY <1>5, <1>8
<1>10. /\ history' \in Marks /\ history'.created = history.created
       /\ history'.reviewed = history.reviewed /\ history'.promoted = history.promoted
       /\ history'.earned = history.earned /\ history'.fresh = history.fresh \ {i}
  BY <1>2, <1>3 DEF Marks
<1>11. EarnedOK(skills', history')
  <2>1. EarnedOK(skills, history)
    BY DEF CatalogOK
  <2>2. ASSUME NEW j \in 1..n, skills'[j].status = "STABLE"
        PROVE  j \in history'.earned /\ (j \in history'.fresh \/ ~K!Failing(skills'[j].runs))
    <3>1. CASE j = i
      BY <1>7, <1>8, <1>10, <2>1, <2>2, <3>1 DEF EarnedOK
    <3>2. CASE j # i
      BY <1>8, <1>10, <2>1, <2>2, <3>2 DEF EarnedOK
    <3> QED
      BY <3>1, <3>2
  <2> QED
    BY <1>8, <2>2 DEF EarnedOK
<1>12. /\ call' \in [Call -> CallRow] /\ \A d \in Call : Refers(call'[d], n, Len(promotions))
       /\ ReadsHold(skills', promotions, call')
  <2> DEFINE none == {}
  <2>0. call' = [d \in Call |-> IF d \in none \/ call[d] = K!Idle THEN K!Idle
                               ELSE [call[d] EXCEPT !.alone = FALSE]]
    BY <1>2
  <2> HIDE DEF none
  <2>1. Met(call, call') /\ call' \in [Call -> CallRow]
    BY <1>3, <2>0, CallsMeet
  <2>2. n <= n /\ Len(promotions) <= Len(promotions)
    BY <1>3
  <2> QED
    BY <1>3, <2>1, <2>2, MetReads
<1>13. CatalogOK(skills', promotions, call', history')
  BY <1>8, <1>9, <1>10, <1>11, <1>12, CatalogSet
<1>14. RunsOK(skills')
  <2>1. \A j \in 1..n : j # i => skills'[j].runs = skills[j].runs
    BY <1>8
  <2>2. Len(skills'[i].runs) = Len(skills[i].runs) + 1
    BY <1>3, <1>4, <1>5, <1>8
  <2>3. K!TotalRuns(MaxRuns) = Cardinality(Runs(skills, MaxRuns))
    BY <1>3 DEF K!TotalRuns, Runs, K!Cardinality, Cardinality
  <2> QED
    BY <1>2, <1>3, <1>8, <2>1, <2>2, <2>3, RunsAdd
<1> QED
  BY <1>13, <1>14

\* A promotion is asked for.
LEMMA PromotionDone ==
  ASSUME CatalogAssumption, CatalogOK(skills, promotions, call, history), NEW c \in Call,
         K!Promote(c)
  PROVE  CatalogOK(skills, promotions', call', history')
<1> DEFINE n == Len(skills)
           m == Len(promotions)
           l == call[c]
           w == [skill |-> l.row, target |-> l.edition, status |-> "PENDING"]
<1>1. /\ l.op = "promote" /\ promotions' = Append(promotions, w) /\ K!Committed(c)
      /\ history' = [history EXCEPT !.promoted = @ \cup K!Crossed(c, l.row)]
  BY DEF K!Promote
<1>2. /\ n \in Nat /\ m \in Nat /\ promotions \in Seq(PromotionRow) /\ l \in CallRow
      /\ history \in Marks /\ l.row \in 1..n /\ StillSo(l, skills, promotions)
      /\ skills \in Seq(SkillRow)
  BY <1>1, CatalogParts DEF Refers
<1>3. /\ w \in PromotionRow /\ w.skill = l.row /\ w.target = l.edition /\ w.status = "PENDING"
  BY <1>2 DEF PromotionRow, CallRow, K!PromotionStatus
<1> HIDE DEF w
<1>4. /\ promotions' \in Seq(PromotionRow) /\ Len(promotions') = m + 1
      /\ promotions'[m + 1] = w /\ \A p \in 1..m : promotions'[p] = promotions[p]
  BY <1>1, <1>2, <1>3, AppendProperties
<1>5. /\ history' \in Marks /\ history'.created = history.created
      /\ history'.reviewed = history.reviewed /\ history'.earned = history.earned
      /\ history'.fresh = history.fresh /\ history.promoted \subseteq history'.promoted
      /\ l.row \notin history'.promoted => l.alone = TRUE
  <2> DEFINE i == l.row
  <2>1. i \in Nat /\ K!Crossed(c, i) \subseteq {i}
    BY <1>2 DEF K!Crossed
  <2>2. i \notin K!Crossed(c, i) => l.alone = TRUE
    BY <1>2 DEF K!Crossed, CallRow
  <2>3. history' = [history EXCEPT !.promoted = @ \cup K!Crossed(c, i)]
    BY <1>1
  <2> HIDE DEF i, l
  <2>4. i \notin history'.promoted => l.alone = TRUE
    BY <1>2, <2>2, <2>3 DEF Marks
  <2> QED
    BY <1>2, <2>1, <2>3, <2>4 DEF Marks, i
<1>6. /\ call' \in [Call -> CallRow]
      /\ \A d \in Call : Refers(call'[d], n, m + 1)
      /\ ReadsHold(skills, promotions', call')
  <2>1. n <= n /\ m <= m + 1 /\ m + 1 \in Nat
    BY <1>2
  <2> QED
    BY <1>1, <1>2, <2>1, CommitMeets
<1> HIDE DEF n, m
<1>7. \A p \in 1..m + 1 : p \in 1..m \/ p = m + 1
  BY <1>2
<1>8. 1..m \subseteq 1..m + 1 /\ 0..m \subseteq 0..m + 1 /\ m + 1 \notin 0..m /\ m + 1 \notin 1..m
  BY <1>2
<1>9. CatalogTypes(skills, promotions', call', history')
  BY <1>4, <1>5, <1>6 DEF CatalogOK, CatalogTypes
<1>10. CatalogRefers(skills, promotions', call')
  <2>1. CatalogRefers(skills, promotions, call)
    BY DEF CatalogOK
  <2>2. \A p \in 1..m + 1 : promotions'[p].skill \in 1..n
    BY <1>2, <1>3, <1>4, <1>7, <2>1 DEF CatalogRefers, m, n
  <2>3. \A i \in 1..n : skills[i].version \in 1..n /\ skills[i].from \in 0..m + 1
    BY <1>8, <2>1 DEF CatalogRefers, m, n
  <2> QED
    BY <1>4, <1>6, <2>2, <2>3 DEF CatalogRefers, n
<1>11. EarnedOK(skills, history') /\ VersionsOK(skills, history')
  BY <1>5 DEF CatalogOK, EarnedOK, VersionsOK
<1>12. CopiesOK(skills, promotions', history')
  <2>1. CopiesOK(skills, promotions, history) /\ CatalogRefers(skills, promotions, call)
    BY DEF CatalogOK
  <2> SUFFICES ASSUME NEW p \in 1..m + 1, p \notin history'.reviewed
               PROVE  /\ \A i, j \in 1..n : skills[i].from = p /\ skills[j].from = p => i = j
                      /\ promotions'[p].status = "APPROVED"
                           <=> \E i \in 1..n : skills[i].from = p
    BY <1>4 DEF CopiesOK, n
  <2>2. CASE p \in 1..m
    <3>1. promotions'[p] = promotions[p] /\ p \notin history.reviewed
      BY <1>4, <1>5, <2>2
    <3> QED
      BY <2>1, <2>2, <3>1 DEF CopiesOK, m, n
  <2>3. CASE p = m + 1
    <3>1. \A i \in 1..n : skills[i].from # p
      BY <1>8, <2>1, <2>3 DEF CatalogRefers, m, n
    <3>2. promotions'[p].status = "PENDING"
      BY <1>3, <1>4, <2>3
    <3> QED
      BY <3>1, <3>2
  <2> QED
    BY <1>7, <2>2, <2>3
<1>13. RequestsOK(skills, promotions', history')
  <2>1. RequestsOK(skills, promotions, history)
    BY DEF CatalogOK
  <2> SUFFICES ASSUME NEW i \in 1..n, NEW e \in Editions, i \notin history'.promoted,
                      NEW p \in 1..m + 1, NEW q \in 1..m + 1,
                      Asks(promotions'[p], i, e), Asks(promotions'[q], i, e)
               PROVE  p = q
    BY <1>4 DEF RequestsOK, n
  <2>2. i \notin history.promoted
    BY <1>5
  <2>3. ASSUME NEW x \in 1..m, Asks(promotions[x], i, e), Asks(w, i, e)
        PROVE  FALSE
    <3>1. i = l.row /\ e = l.edition
      BY <1>3, <2>3 DEF Asks
    <3>2. l.alone = TRUE
      BY <1>5, <3>1
    <3> QED
      BY <1>1, <1>2, <2>3, <3>1, <3>2 DEF StillSo, m
  <2>4. CASE p \in 1..m /\ q \in 1..m
    BY <1>4, <2>1, <2>2, <2>4 DEF RequestsOK, m, n
  <2>5. CASE p \in 1..m /\ q = m + 1
    BY <1>4, <2>3, <2>5
  <2>6. CASE q \in 1..m /\ p = m + 1
    BY <1>4, <2>3, <2>6
  <2> QED
    BY <1>7, <2>4, <2>5, <2>6
<1> QED
  BY <1>6, <1>9, <1>10, <1>11, <1>12, <1>13 DEF CatalogOK

\* It is reviewed, and makes a copy when approved.
LEMMA ReviewDone ==
  ASSUME CatalogAssumption, CatalogOK(skills, promotions, call, history), RunsOK(skills),
         NEW c \in Call, NEW approved \in BOOLEAN, K!Review(c, approved)
  PROVE  CatalogOK(skills', promotions', call', history') /\ RunsOK(skills')
<1> DEFINE n == Len(skills)
           m == Len(promotions)
           l == call[c]
           p == call[c].row
           answer == IF approved THEN "APPROVED" ELSE "REJECTED"
           r == [promotions[p] EXCEPT !.status = answer]
           w == K!Copy(p)
<1>1. /\ l.op = "review" /\ K!Committed(c)
      /\ promotions' = [promotions EXCEPT ![p].status = answer]
      /\ history' = [history EXCEPT !.reviewed = @ \cup K!Crossed(c, p)]
      /\ IF approved THEN n < MaxSkills /\ skills' = Append(skills, w) ELSE UNCHANGED skills
  BY DEF K!Review
<1>2. /\ n \in Nat /\ m \in Nat /\ promotions \in Seq(PromotionRow) /\ l \in CallRow
      /\ history \in Marks /\ p \in 1..m /\ StillSo(l, skills, promotions)
      /\ skills \in Seq(SkillRow) /\ promotions[p] \in PromotionRow
      /\ n <= MaxSkills /\ MaxSkills \in Nat
      /\ \A q \in 1..m : promotions[q].skill \in 1..n
      /\ \A i \in 1..n : skills[i].from \in 0..m /\ skills[i] \in SkillRow
  BY <1>1, CatalogParts DEF Refers, CatalogOK, CatalogRefers, CatalogAssumption
<1>3. /\ r \in PromotionRow /\ r.status = answer /\ r.skill = promotions[p].skill
      /\ r.target = promotions[p].target
  BY <1>2 DEF PromotionRow, K!PromotionStatus
<1>4. promotions' = [promotions EXCEPT ![p] = r]
  BY <1>1, <1>2
<1>5. /\ w \in SkillRow /\ w.status = "CANDIDATE" /\ w.version = 1 /\ w.from = p
      /\ w.runs = <<>>
  <2>1. <<>> \in Seq(BOOLEAN) /\ promotions[p].target \in Editions /\ p \in Nat
    BY <1>2, OfEmpty DEF PromotionRow
  <2>2. skills[promotions[p].skill].definition \in Definition
    BY <1>2 DEF SkillRow
  <2> QED
    BY <2>1, <2>2 DEF K!Copy, K!Candidate, SkillRow, K!SkillStatus
<1> HIDE DEF w, r
<1>6. /\ promotions' \in Seq(PromotionRow) /\ Len(promotions') = m
      /\ \A q \in 1..m : promotions'[q] = IF q = p THEN r ELSE promotions[q]
  <2>1. promotions \in [1..m -> PromotionRow]
    BY <1>2, LenProperties
  <2>2. /\ promotions' \in [1..m -> PromotionRow]
        /\ \A q \in 1..m : promotions'[q] = IF q = p THEN r ELSE promotions[q]
    BY <1>2, <1>3, <1>4, <2>1
  <2> HIDE DEF m, p
  <2>3. promotions' \in Seq(PromotionRow) /\ Len(promotions') = m
    BY <1>2, <2>2, SeqDef, LenProperties
  <2> QED
    BY <2>2, <2>3
<1>7. /\ history' \in Marks /\ history'.created = history.created
      /\ history'.promoted = history.promoted /\ history'.earned = history.earned
      /\ history'.fresh = history.fresh /\ history.reviewed \subseteq history'.reviewed
      /\ p \notin history'.reviewed => l.alone = TRUE
  <2>1. p \in Nat /\ K!Crossed(c, p) \subseteq {p}
    BY <1>2 DEF K!Crossed
  <2>2. p \notin K!Crossed(c, p) => l.alone = TRUE
    BY <1>2 DEF K!Crossed, CallRow
  <2> HIDE DEF l, p
  <2> QED
    BY <1>1, <1>2, <2>1, <2>2 DEF Marks
<1>8. p \notin history'.reviewed =>
        promotions[p].status = "PENDING" /\ \A i \in 1..n : skills[i].from # p
  <2> SUFFICES ASSUME p \notin history'.reviewed
               PROVE  promotions[p].status = "PENDING" /\ \A i \in 1..n : skills[i].from # p
    OBVIOUS
  <2>1. promotions[p].status = "PENDING"
    BY <1>1, <1>2, <1>7 DEF StillSo
  <2>2. p \notin history.reviewed
    BY <1>7
  <2> QED
    BY <1>2, <2>1, <2>2 DEF CatalogOK, CopiesOK
<1>9. /\ call' \in [Call -> CallRow]
      /\ \A d \in Call : Refers(call'[d], n, m) /\ Refers(call'[d], n + 1, m)
      /\ ReadsHold(skills', promotions', call')
  <2>1. n <= n /\ m <= m /\ n <= n + 1 /\ n + 1 \in Nat
    BY <1>2
  <2> QED
    BY <1>1, <1>2, <2>1, CommitMeets
<1>10. \A q \in 1..m : promotions'[q].skill = promotions[q].skill
                       /\ promotions'[q].target = promotions[q].target
  BY <1>3, <1>6
<1>11. p # 0 /\ p \in 0..m /\ 1 \in 1..n + 1
  BY <1>2
<1> HIDE DEF p, l, n, m
<1>12. CopiesOK(skills, promotions, history) /\ RequestsOK(skills, promotions, history)
  BY DEF CatalogOK
<1>13. ASSUME NEW i \in 1..n, NEW e \in Editions, i \notin history'.promoted,
              NEW x \in 1..m, NEW y \in 1..m,
              Asks(promotions'[x], i, e), Asks(promotions'[y], i, e)
       PROVE  x = y
  <2>1. r.status # "PENDING"
    BY <1>3
  <2>2. promotions'[x] = promotions[x] /\ promotions'[y] = promotions[y]
    BY <1>6, <1>13, <2>1 DEF Asks
  <2> QED
    BY <1>7, <1>12, <1>13, <2>2 DEF RequestsOK, n, m
<1>14. \A q \in 1..m : q \notin history'.reviewed /\ q # p =>
         /\ promotions'[q] = promotions[q]
         /\ \A i, j \in 1..n : skills[i].from = q /\ skills[j].from = q => i = j
         /\ promotions[q].status = "APPROVED" <=> \E i \in 1..n : skills[i].from = q
  BY <1>6, <1>7, <1>12 DEF CopiesOK, n, m
<1>15. CASE ~approved
  <2>1. skills' = skills /\ r.status = "REJECTED"
    BY <1>1, <1>3, <1>15
  <2>2. CatalogTypes(skills', promotions', call', history')
    BY <1>2, <1>6, <1>7, <1>9, <2>1 DEF CatalogTypes, n
  <2>3. CatalogRefers(skills', promotions', call')
    BY <1>6, <1>9, <1>10, <2>1 DEF CatalogRefers, CatalogOK, n, m
  <2>4. EarnedOK(skills', history') /\ VersionsOK(skills', history')
    BY <1>7, <2>1 DEF CatalogOK, EarnedOK, VersionsOK
  <2>5. CopiesOK(skills', promotions', history')
    <3> SUFFICES ASSUME NEW q \in 1..m, q \notin history'.reviewed
                 PROVE  /\ \A i, j \in 1..n : skills[i].from = q /\ skills[j].from = q => i = j
                        /\ promotions'[q].status = "APPROVED"
                             <=> \E i \in 1..n : skills[i].from = q
      BY <1>6, <2>1 DEF CopiesOK, n
    <3>1. CASE q = p
      <4>1. \A i \in 1..n : skills[i].from # q
        BY <1>8, <3>1
      <4>2. promotions'[q].status = "REJECTED"
        BY <1>6, <2>1, <3>1
      <4> QED
        BY <4>1, <4>2
    <3>2. CASE q # p
      BY <1>14, <3>2
    <3> QED
      BY <3>1, <3>2
  <2>6. RequestsOK(skills', promotions', history')
    BY <1>6, <1>13, <2>1 DEF RequestsOK, n
  <2> QED
    BY <1>9, <2>1, <2>2, <2>3, <2>4, <2>5, <2>6 DEF CatalogOK
<1>16. CASE approved
  <2>1. /\ n < MaxSkills /\ r.status = "APPROVED"
        /\ skills' \in Seq(SkillRow) /\ Len(skills') = n + 1 /\ skills'[n + 1] = w
        /\ \A i \in 1..n : skills'[i] = skills[i]
    <3>1. n < MaxSkills /\ r.status = "APPROVED" /\ skills' = Append(skills, w)
      BY <1>1, <1>3, <1>16
    <3>2. /\ skills' \in Seq(SkillRow) /\ Len(skills') = Len(skills) + 1
          /\ skills'[Len(skills) + 1] = w
          /\ \A i \in 1..Len(skills) : skills'[i] = skills[i]
      BY <1>2, <1>5, <3>1, SkillAdded
    <3> QED
      BY <3>1, <3>2 DEF n
  <2>2. /\ Len(skills') <= MaxSkills
        /\ \A i \in 1..n : SameSkill(skills'[i], skills[i])
        /\ \A i \in 1..n : skills'[i].status = "STABLE" => skills[i].status = "STABLE"
    BY <1>2, <2>1 DEF SameSkill
  <2>3. /\ CatalogTypes(skills', promotions', call', history')
        /\ CatalogRefers(skills', promotions', call') /\ ReadsHold(skills', promotions', call')
        /\ EarnedOK(skills', history') /\ VersionsOK(skills', history')
    <3>1. /\ w.version \in 1..n + 1 /\ w.from \in 0..m /\ w.from # 0
      BY <1>5, <1>11
    <3>2. history.created \subseteq history'.created
      BY <1>7
    <3>3. \A q \in 1..m : promotions'[q].skill = promotions[q].skill
      BY <1>10
    <3> QED
      BY <1>5, <1>6, <1>7, <1>9, <2>1, <2>2, <3>1, <3>2, <3>3, CatalogGrows DEF n, m
  <2>4. \A i \in 1..n + 1 : i \in 1..n \/ i = n + 1
    BY <1>2
  <2>5. 1..n \subseteq 1..n + 1 /\ n + 1 \in 1..n + 1 /\ n + 1 \notin 1..n
    BY <1>2
  <2>6. CopiesOK(skills', promotions', history')
    <3> SUFFICES ASSUME NEW q \in 1..m, q \notin history'.reviewed
                 PROVE  /\ \A i, j \in 1..n + 1 :
                             skills'[i].from = q /\ skills'[j].from = q => i = j
                        /\ promotions'[q].status = "APPROVED"
                             <=> \E i \in 1..n + 1 : skills'[i].from = q
      BY <1>6, <2>1 DEF CopiesOK
    <3>1. CASE q = p
      <4>1. \A i \in 1..n : skills'[i].from # q
        BY <1>8, <2>1, <3>1
      <4>2. promotions'[q].status = "APPROVED" /\ skills'[n + 1].from = q
        BY <1>5, <1>6, <2>1, <3>1
      <4> QED
        BY <2>4, <2>5, <4>1, <4>2
    <3>2. CASE q # p
      <4>1. /\ promotions'[q] = promotions[q]
            /\ \A i, j \in 1..n : skills[i].from = q /\ skills[j].from = q => i = j
            /\ promotions[q].status = "APPROVED" <=> \E i \in 1..n : skills[i].from = q
        BY <1>14, <3>2
      <4>2. skills'[n + 1].from # q
        BY <1>5, <2>1, <3>2
      <4>3. \A i \in 1..n + 1 : skills'[i].from = q <=> i \in 1..n /\ skills[i].from = q
        BY <2>1, <2>4, <2>5, <4>2
      <4> QED
        BY <2>5, <4>1, <4>3
    <3> QED
      BY <3>1, <3>2
  <2>7. RequestsOK(skills', promotions', history')
    <3> SUFFICES ASSUME NEW i \in 1..n + 1, NEW e \in Editions, i \notin history'.promoted,
                        NEW x \in 1..m, NEW y \in 1..m,
                        Asks(promotions'[x], i, e), Asks(promotions'[y], i, e)
                 PROVE  x = y
      BY <1>6, <2>1 DEF RequestsOK
    <3>1. i \in 1..n
      BY <1>2, <1>10 DEF Asks, m, n
    <3> QED
      BY <1>13, <3>1
  <2>8. RunsOK(skills')
    BY <1>2, <1>5, <2>1, RunsGrow DEF n
  <2> QED
    BY <2>3, <2>6, <2>7, <2>8 DEF CatalogOK
<1> QED
  BY <1>15, <1>16

\* Each step of the catalog keeps it.
LEMMA CatalogSteps ==
  ASSUME CatalogAssumption, CatalogOK(skills, promotions, call, history), RunsOK(skills),
         [K!Next]_(K!vars)
  PROVE  CatalogOK(skills', promotions', call', history') /\ RunsOK(skills')
<1> DEFINE Goal == CatalogOK(skills', promotions', call', history') /\ RunsOK(skills')
<1>1. ASSUME UNCHANGED <<skills, promotions, history>>,
             CatalogOK(skills, promotions, call', history)
      PROVE  Goal
  BY <1>1
<1>2. ASSUME UNCHANGED K!vars PROVE Goal
  BY <1>2 DEF K!vars
<1> HIDE DEF Goal
<1>3. ASSUME NEW c \in Call, NEW e \in Editions, NEW d \in Definition, K!BeginCreate(c, e, d)
      PROVE  Goal
  BY <1>1, <1>3, CreateBegun DEF K!BeginCreate
<1>4. ASSUME NEW c \in Call, K!ReadOldest(c) PROVE Goal
  BY <1>1, <1>4, OldestRead DEF K!ReadOldest
<1>5. ASSUME NEW c \in Call, K!RollBack(c) PROVE Goal
  BY <1>1, <1>5, IdleAgain DEF K!RollBack
<1>6. ASSUME NEW c \in Call, NEW i \in DOMAIN skills, NEW o \in {"approve", "disable", "rollback"},
             K!BeginChange(c, i, o)
      PROVE  Goal
  BY <1>1, <1>6, ChangeBegun DEF K!BeginChange
<1>7. ASSUME NEW c \in Call, NEW i \in DOMAIN skills, NEW e \in Editions, K!BeginPromote(c, i, e)
      PROVE  Goal
  BY <1>1, <1>7, PromoteBegun DEF K!BeginPromote
<1>8. ASSUME NEW c \in Call, NEW p \in DOMAIN promotions, K!BeginReview(c, p) PROVE Goal
  BY <1>1, <1>8, ReviewBegun DEF K!BeginReview
<1>9. ASSUME NEW c \in Call, K!Insert(c) PROVE Goal
  <2>1. UNCHANGED promotions
    BY <1>9 DEF K!Insert
  <2> QED
    BY <1>9, <2>1, InsertDone DEF Goal
<1>10. ASSUME NEW c \in Call, K!Change(c) PROVE Goal
  <2>1. UNCHANGED promotions
    BY <1>10 DEF K!Change
  <2> QED
    BY <1>10, <2>1, ChangeDone DEF Goal
<1>11. ASSUME NEW c \in Call, K!Promote(c) PROVE Goal
  <2>1. UNCHANGED skills
    BY <1>11 DEF K!Promote
  <2> QED
    BY <1>11, <2>1, PromotionDone DEF Goal
<1>12. ASSUME NEW c \in Call, NEW approved \in BOOLEAN, K!Review(c, approved) PROVE Goal
  BY <1>12, ReviewDone DEF Goal
<1>13. ASSUME NEW i \in DOMAIN skills, NEW ok \in BOOLEAN, K!RecordRun(i, ok) PROVE Goal
  <2>1. UNCHANGED promotions
    BY <1>13 DEF K!RecordRun
  <2> QED
    BY <1>13, <2>1, RunRecorded DEF Goal
<1>14. Goal
  BY <1>2, <1>3, <1>4, <1>5, <1>6, <1>7, <1>8, <1>9, <1>10, <1>11, <1>12, <1>13 DEF K!Next
<1> QED
  BY <1>14 DEF Goal

\* A set with at most one element.
LEMMA AtMostOne ==
  ASSUME NEW X, \A x, y \in X : x = y
  PROVE  Cardinality(X) = IF X = {} THEN 0 ELSE 1
<1>1. CASE X = {}
  BY <1>1, FS_EmptySet
<1>2. CASE X # {}
  <2>1. PICK x \in X : TRUE
    BY <1>2
  <2>2. X = {x}
    BY <2>1
  <2>3. Cardinality({x}) = 1
    BY FS_Singleton
  <2> QED
    BY <1>2, <2>2, <2>3
<1> QED
  BY <1>1, <1>2

\* It is enough for what PublishedIsEarned says.
LEMMA CatalogIsRight ==
  ASSUME CatalogAssumption, CatalogOK(skills, promotions, call, history), RunsOK(skills)
  PROVE  K!TypeOK /\ K!StableIsEarned /\ K!VersionsDiffer /\ K!PromotedOnce
<1> DEFINE n == Len(skills)
           m == Len(promotions)
<1>1. /\ n \in Nat /\ n <= MaxSkills /\ MaxSkills \in Nat /\ m \in Nat
      /\ DOMAIN skills = 1..n /\ DOMAIN promotions = 1..m
      /\ \A i \in 1..n : skills[i] \in SkillRow /\ skills[i].version \in 1..n
      /\ \A p \in 1..m : promotions[p] \in PromotionRow /\ promotions[p].skill \in 1..n
  BY CatalogParts DEF CatalogOK, CatalogRefers, CatalogAssumption
<1>2. \A X : K!Cardinality(X) = Cardinality(X)
  BY DEF K!Cardinality, Cardinality
<1>3. K!TypeOK
  <2>1. ASSUME NEW i \in DOMAIN skills PROVE K!IsSkill(skills[i])
    BY <1>1, <2>1 DEF K!IsSkill, SkillRow
  <2>2. ASSUME NEW p \in DOMAIN promotions PROVE K!IsPromotion(promotions[p])
    BY <1>1, <2>2 DEF K!IsPromotion, PromotionRow
  <2>3. K!TotalRuns(MaxRuns + 1) = Cardinality(Runs(skills, MaxRuns + 1))
    BY <1>1, <1>2 DEF K!TotalRuns, Runs
  <2> QED
    BY <2>1, <2>2, <2>3 DEF K!TypeOK, RunsOK
<1>4. K!StableIsEarned
  BY <1>1 DEF K!StableIsEarned, CatalogOK, EarnedOK
<1>5. K!VersionsDiffer
  BY <1>1 DEF K!VersionsDiffer, CatalogOK, VersionsOK
<1>6. ASSUME NEW p \in 1..m, p \notin history.reviewed
      PROVE  K!Cardinality({i \in DOMAIN skills : skills[i].from = p})
               = (IF promotions[p].status = "APPROVED" THEN 1 ELSE 0)
  <2> DEFINE X == {i \in DOMAIN skills : skills[i].from = p}
  <2>1. /\ \A i, j \in 1..n : skills[i].from = p /\ skills[j].from = p => i = j
        /\ promotions[p].status = "APPROVED" <=> \E i \in 1..n : skills[i].from = p
    BY <1>6 DEF CatalogOK, CopiesOK
  <2>2. \A i, j \in X : i = j
    BY <1>1, <2>1
  <2>3. promotions[p].status = "APPROVED" <=> X # {}
    BY <1>1, <2>1
  <2>4. Cardinality(X) = IF X = {} THEN 0 ELSE 1
    BY <2>2, AtMostOne
  <2> QED
    BY <1>2, <2>3, <2>4
<1>7. ASSUME NEW i \in 1..n, i \notin history.promoted, NEW e \in Editions
      PROVE  K!Cardinality(K!Pending(i, e)) <= 1
  <2>1. \A p, q \in K!Pending(i, e) : p = q
    BY <1>1, <1>7 DEF CatalogOK, RequestsOK, Asks, K!Pending
  <2>2. Cardinality(K!Pending(i, e)) \in {0, 1}
    BY <2>1, AtMostOne
  <2> QED
    BY <1>2, <2>2
<1>8. K!PromotedOnce
  BY <1>1, <1>6, <1>7 DEF K!PromotedOnce
<1> QED
  BY <1>3, <1>4, <1>5, <1>8

-----------------------------------------------------------------------------
(* SignIn.                                                                 *)

S == INSTANCE SignIn WITH Request <- Callers, draft <- account

\* An identity has an address or none; no visit, no one and no mail are apart
\* from the others; the limits are numbers.
SignInAssumption ==
  /\ MailOf \in [Identity -> Mail \cup {NoMail}] /\ NoMail \notin Mail
  /\ Nobody \notin Visit /\ Nobody \notin Identity
  /\ Nobody \notin Callers /\ Local \notin Callers /\ Local # Nobody
  /\ MaxStates \in Nat /\ MaxCodes \in Nat

\* No element is there twice.
NoneTwice(s) == \A i, j \in 1..Len(s) : s[i] = s[j] => i = j

\* Where a callback stands.
Calls ==
  [pc : {"idle", "asking", "saving"}, visit : Visit \cup {Nobody},
   who : Identity \cup {Nobody}]

\* The stores, the callbacks and the accounts keep their ranges.
SignInTypes ==
  /\ begun \subseteq Visit
  /\ states \in Seq(Visit) /\ Len(states) <= MaxStates + 1
  /\ overdue \in 0..Len(states)
  /\ codes \in Seq(Visit) /\ Len(codes) <= 2 * MaxCodes
  /\ late \in 0..Len(codes) /\ stale \in 0..late
  /\ request \in [Callers -> Calls]
  /\ accounts \subseteq S!Row
  /\ writer \in Callers \cup {Local, Nobody}
  /\ account \in S!Row \cup {S!NoRow}
  /\ entered \in [Visit -> Nat] /\ tokens \in [Visit -> Nat]
  /\ came \in [Identity -> SUBSET Account]

\* v is signed in by r alone, and has no code or token yet.
Bears(v, r, Z, W, en, tk) ==
  /\ v \in Visit /\ en[v] = 1 /\ tk[v] = 0 /\ v \notin W
  /\ \A q \in Callers : Z[q].pc = "asking" /\ Z[q].visit = v => q = r

\* Who may still get the token of a sign-in: its state, the callback that its
\* state has let in, its code.
VisitsOnce ==
  /\ NoneTwice(states) /\ NoneTwice(codes)
  /\ \A v \in Range(states) : v \in begun /\ entered[v] = 0
  /\ \A v \in Range(codes) : entered[v] = 1 /\ tokens[v] = 0
  /\ \A v \in Visit : /\ entered[v] <= 1 /\ tokens[v] <= entered[v]
                      /\ entered[v] = 1 => v \in begun
  /\ \A r \in Callers : request[r].pc = "asking" =>
       Bears(request[r].visit, r, request, Range(codes), entered, tokens)

\* An account is known by its id, its address and its identity.
SameUser(a, b) ==
  \/ a.id = b.id
  \/ a.mail = b.mail /\ a.mail # NoMail
  \/ a.sso = b.sso /\ a.sso # Nobody

\* No two rows of one user, and a row has the address of its identity.
RowsApart(V) ==
  /\ \A a, b \in V : SameUser(a, b) => a = b
  /\ \A a \in V : a.sso \in Identity => a.mail = MailOf[a.sso]

\* The account an identity has signed in to is still one that it finds.
Reached(V, i, x) ==
  \E a \in V : /\ a.id = x /\ a.mail = MailOf[i]
               /\ MailOf[i] = NoMail => a.sso = i

\* The rows with d in the place of the one of its id.
Merged(V, d) == {a \in V : a.id # d.id} \cup {d}

\* d may take the place of the row of its id.
Replaces(V, d) ==
  /\ RowsApart(Merged(V, d))
  /\ \A a \in V : a.id = d.id => /\ a.mail = d.mail
                                 /\ a.mail = NoMail => a.sso = d.sso

\* The accounts are of different users, also with the row being written, and an
\* identity reaches the account it came to.
AccountsApart ==
  /\ RowsApart(accounts)
  /\ \A i \in Identity : \A x \in came[i] : Reached(accounts, i, x)
  /\ writer # Nobody => account \in S!Row /\ Replaces(accounts, account)
  /\ writer \in Callers => /\ request[writer].pc = "saving"
                           /\ request[writer].who \in Identity
                           /\ account.sso = request[writer].who

\* The module keeps as this one does.
LEMMA SignInKeeps ==
  /\ \A s, kept : S!Keep(s, kept) = Keep(s, kept)
  /\ \A s : S!Range(s) = Range(s)
BY DEF S!Keep, Keep, S!Range, Range

\* A new element may be appended.
LEMMA DistinctAppended ==
  ASSUME NEW H, NEW s \in Seq(H), NEW x \in H
  PROVE  NoneTwice(Append(s, x)) <=> NoneTwice(s) /\ x \notin Range(s)
<1> DEFINE t == Append(s, x)
           n == Len(s)
<1>1. /\ n \in Nat /\ t \in Seq(H) /\ Len(t) = n + 1 /\ t[n + 1] = x
      /\ \A i \in 1..n : t[i] = s[i]
  BY AppendProperties, LenProperties
<1>2. Range(s) = {s[i] : i \in 1..n}
  BY RangeEquality
<1> HIDE DEF t, n
<1>3. \A i \in 1..n + 1 : i \in 1..n \/ i = n + 1
  BY <1>1
<1>4. n + 1 \in 1..n + 1 /\ \A i \in 1..n : i \in 1..n + 1 /\ i # n + 1
  BY <1>1
<1>5. ASSUME NoneTwice(t) PROVE NoneTwice(s) /\ x \notin Range(s)
  <2>1. \A i, j \in 1..n + 1 : t[i] = t[j] => i = j
    BY <1>1, <1>5 DEF NoneTwice
  <2>2. \A i, j \in 1..n : s[i] = s[j] => i = j
    BY <1>1, <1>4, <2>1
  <2>3. \A i \in 1..n : s[i] # x
    BY <1>1, <1>4, <2>1
  <2> QED
    BY <1>2, <2>2, <2>3 DEF NoneTwice, n
<1>6. ASSUME NoneTwice(s), x \notin Range(s) PROVE NoneTwice(t)
  <2>1. \A i, j \in 1..n : s[i] = s[j] => i = j
    BY <1>6 DEF NoneTwice, n
  <2>2. \A i \in 1..n : s[i] # x
    BY <1>2, <1>6
  <2>3. \A i, j \in 1..n + 1 : t[i] = t[j] => i = j
    BY <1>1, <1>3, <2>1, <2>2
  <2> QED
    BY <1>1, <2>3 DEF NoneTwice
<1> QED
  BY <1>5, <1>6 DEF t

\* Elements may be removed.
LEMMA KeepDistinct ==
  ASSUME NEW H, NEW s \in Seq(H), NEW kept, NoneTwice(s)
  PROVE  NoneTwice(Keep(s, kept))
<1> DEFINE T == {q \in Seq(H) : NoneTwice(q) => NoneTwice(Keep(q, kept))}
<1>1. <<>> \in T
  BY KeepEmpty, EmptySeq DEF NoneTwice
<1>2. ASSUME NEW q \in Seq(H), NEW x \in H, q \in T
      PROVE  Append(q, x) \in T
  <2> SUFFICES ASSUME NoneTwice(Append(q, x))
               PROVE  NoneTwice(Keep(Append(q, x), kept))
    BY AppendProperties
  <2>1. NoneTwice(q) /\ x \notin Range(q)
    BY DistinctAppended
  <2>2. Keep(q, kept) \in Seq(H) /\ Range(Keep(q, kept)) \subseteq Range(q)
    BY KeepSeq
  <2>3. NoneTwice(Keep(q, kept))
    BY <1>2, <2>1
  <2>4. NoneTwice(Append(Keep(q, kept), x))
    BY <2>1, <2>2, <2>3, DistinctAppended
  <2>5. Keep(Append(q, x), kept)
          = IF x \in kept THEN Append(Keep(q, kept), x) ELSE Keep(q, kept)
    BY KeepAppend
  <2> QED
    BY <2>3, <2>4, <2>5
<1> HIDE DEF T
<1>3. Seq(H) \subseteq T
  BY <1>1, <1>2, SeqInduct
<1> QED
  BY <1>3 DEF T

\* A part may be taken.
LEMMA DistinctPart ==
  ASSUME NEW H, NEW s \in Seq(H), NEW m \in 1..Len(s) + 1, NEW n \in m - 1..Len(s),
         NoneTwice(s)
  PROVE  NoneTwice(SubSeq(s, m, n))
<1>0. Len(s) \in Nat
  BY LenProperties
<1>1. /\ Len(SubSeq(s, m, n)) = n - m + 1
      /\ \A i \in 1..n - m + 1 : SubSeq(s, m, n)[i] = s[m + i - 1]
  BY RangeOfPart
<1>2. \A i \in 1..n - m + 1 : m + i - 1 \in 1..Len(s)
  BY <1>0
<1>3. \A i, j \in 1..n - m + 1 : m + i - 1 = m + j - 1 => i = j
  BY <1>0
<1>4. \A i, j \in 1..Len(s) : s[i] = s[j] => i = j
  BY DEF NoneTwice
<1>5. \A i, j \in 1..n - m + 1 : SubSeq(s, m, n)[i] = SubSeq(s, m, n)[j] => i = j
  BY <1>1, <1>2, <1>3, <1>4
<1> QED
  BY <1>1, <1>5 DEF NoneTwice

\* The newest of a store.
LEMMA NewestPart ==
  ASSUME NEW H, NEW s \in Seq(H), NEW n \in Nat
  PROVE  /\ S!Newest(s, n) \in Seq(H)
         /\ Len(S!Newest(s, n)) \in Nat
         /\ Len(S!Newest(s, n)) <= n /\ Len(S!Newest(s, n)) <= Len(s)
         /\ Range(S!Newest(s, n)) \subseteq Range(s)
         /\ NoneTwice(s) => NoneTwice(S!Newest(s, n))
<1> DEFINE l == Len(s)
           m == S!Minus(l, n) + 1
<1>1. l \in Nat
  BY LenProperties
<1>2. m \in 1..l + 1 /\ l \in m - 1..l /\ l - m + 1 <= n
  BY <1>1 DEF S!Minus
<1>3. S!Newest(s, n) = SubSeq(s, m, l)
  BY DEF S!Newest
<1> HIDE DEF m
<1>4. /\ SubSeq(s, m, l) \in Seq(H) /\ Len(SubSeq(s, m, l)) = l - m + 1
      /\ Range(SubSeq(s, m, l)) \subseteq Range(s)
  BY <1>2, RangeOfPart
<1>5. NoneTwice(s) => NoneTwice(SubSeq(s, m, l))
  BY <1>2, DistinctPart
<1>6. l - m + 1 \in Nat /\ l - m + 1 <= l
  BY <1>1, <1>2
<1> QED
  BY <1>2, <1>3, <1>4, <1>5, <1>6

\* The sequence without its i-th element.
Less(s, i) == SubSeq(s, 1, i - 1) \o SubSeq(s, i + 1, Len(s))

\* It has the other elements.
LEMMA WithoutOne ==
  ASSUME NEW H, NEW s \in Seq(H), NEW i \in 1..Len(s), NoneTwice(s)
  PROVE  /\ Less(s, i) \in Seq(H) /\ Len(Less(s, i)) = Len(s) - 1
         /\ NoneTwice(Less(s, i)) /\ Range(Less(s, i)) \subseteq Range(s) \ {s[i]}
<1> DEFINE n == Len(s)
           t == Less(s, i)
           a == SubSeq(s, 1, i - 1)
           b == SubSeq(s, i + 1, n)
<1>1. n \in Nat /\ Range(s) = {s[j] : j \in 1..n}
  BY LenProperties, RangeEquality
<1>2. 1 \in 1..n + 1 /\ i - 1 \in 1 - 1..n /\ i + 1 \in 1..n + 1 /\ n \in (i + 1) - 1..n
  BY <1>1
<1>3. /\ a \in Seq(H) /\ Len(a) = i - 1 /\ \A j \in 1..i - 1 : a[j] = s[j]
  <2>1. /\ a \in Seq(H) /\ Len(a) = (i - 1) - 1 + 1
        /\ \A j \in 1..(i - 1) - 1 + 1 : a[j] = s[1 + j - 1]
    BY <1>2, RangeOfPart
  <2>2. (i - 1) - 1 + 1 = i - 1 /\ \A j \in 1..i - 1 : 1 + j - 1 = j
    BY <1>1
  <2> QED
    BY <2>1, <2>2
<1>4. /\ b \in Seq(H) /\ Len(b) = n - i /\ \A j \in 1..n - i : b[j] = s[i + j]
  <2>1. /\ b \in Seq(H) /\ Len(b) = n - (i + 1) + 1
        /\ \A j \in 1..n - (i + 1) + 1 : b[j] = s[(i + 1) + j - 1]
    BY <1>2, RangeOfPart
  <2>2. n - (i + 1) + 1 = n - i /\ \A j \in 1..n - i : (i + 1) + j - 1 = i + j
    BY <1>1
  <2> QED
    BY <2>1, <2>2
<1>t. t = a \o b
  BY DEF Less
<1> HIDE DEF a, b, t
<1>5. /\ t \in Seq(H) /\ Len(t) = Len(a) + Len(b)
      /\ \A j \in 1..Len(a) + Len(b) : t[j] = IF j <= Len(a) THEN a[j] ELSE b[j - Len(a)]
  BY <1>t, <1>3, <1>4, ConcatProperties
<1>6. Len(t) = n - 1
  <2>1. Len(t) = Len(a) + Len(b) /\ Len(a) = i - 1 /\ Len(b) = n - i
    BY <1>3, <1>4, <1>5
  <2> QED
    BY <1>1, <2>1
<1>7. \A j \in 1..n - 1 : t[j] = IF j < i THEN s[j] ELSE s[j + 1]
  <2> SUFFICES ASSUME NEW j \in 1..n - 1 PROVE t[j] = IF j < i THEN s[j] ELSE s[j + 1]
    OBVIOUS
  <2>1. j \in 1..Len(a) + Len(b)
    BY <1>1, <1>3, <1>4
  <2>2. CASE j < i
    <3>1. j <= Len(a) /\ j \in 1..i - 1
      BY <1>1, <1>3, <2>2
    <3> QED
      BY <1>3, <1>5, <2>1, <2>2, <3>1
  <2>3. CASE ~(j < i)
    <3>1. ~(j <= Len(a)) /\ j - Len(a) \in 1..n - i /\ i + (j - Len(a)) = j + 1
      BY <1>1, <1>3, <2>3
    <3>2. t[j] = b[j - Len(a)]
      BY <1>5, <2>1, <3>1
    <3>3. b[j - Len(a)] = s[i + (j - Len(a))]
      BY <1>4, <3>1
    <3> QED
      BY <2>3, <3>1, <3>2, <3>3
  <2> QED
    BY <2>2, <2>3
<1> DEFINE at_(j) == IF j < i THEN j ELSE j + 1
<1>8. \A j \in 1..n - 1 : t[j] = s[at_(j)] /\ at_(j) \in 1..n /\ at_(j) # i
  BY <1>1, <1>7
<1>9. \A j, k \in 1..n - 1 : at_(j) = at_(k) => j = k
  BY <1>1
<1> HIDE DEF at_
<1>10. \A j, k \in 1..n : s[j] = s[k] => j = k
  BY DEF NoneTwice
<1>11. \A j, k \in 1..n - 1 : t[j] = t[k] => j = k
  BY <1>8, <1>9, <1>10
<1>12. NoneTwice(t)
  BY <1>6, <1>11 DEF NoneTwice
<1>13. Range(t) = {t[j] : j \in 1..n - 1}
  BY <1>5, <1>6, RangeEquality
<1>14. \A j \in 1..n - 1 : t[j] \in Range(s) /\ t[j] # s[i]
  BY <1>1, <1>8, <1>10
<1> QED
  BY <1>5, <1>6, <1>12, <1>13, <1>14 DEF t

\* It holds where nobody signed in.
LEMMA InitSignIn ==
  ASSUME SignInAssumption, S!Init
  PROVE  SignInTypes /\ VisitsOnce /\ AccountsApart
<1>1. /\ begun = {} /\ states = <<>> /\ overdue = 0 /\ codes = <<>> /\ late = 0 /\ stale = 0
      /\ request = [r \in Callers |-> S!Idle]
      /\ accounts = {} /\ writer = Nobody /\ account = S!NoRow
      /\ entered = [v \in Visit |-> 0] /\ tokens = [v \in Visit |-> 0]
      /\ came = [i \in Identity |-> {}]
  BY DEF S!Init
<1>2. S!Idle \in Calls /\ S!Idle.pc = "idle"
  BY DEF S!Idle, Calls
<1>3. SignInTypes
  BY <1>1, <1>2, OfEmpty DEF SignInTypes, SignInAssumption
<1>4. NoneTwice(<<>>)
  BY OfEmpty DEF NoneTwice
<1>5. VisitsOnce
  BY <1>1, <1>2, <1>4, OfEmpty DEF VisitsOnce
<1>6. AccountsApart
  BY <1>1 DEF AccountsApart, RowsApart, SignInAssumption
<1> QED
  BY <1>3, <1>5, <1>6

\* The states that are not overdue.
LEMMA PendingStates ==
  ASSUME SignInTypes
  PROVE  /\ S!Pending \in Seq(Visit) /\ Len(S!Pending) \in Nat
         /\ Len(S!Pending) <= Len(states)
         /\ Range(S!Pending) \subseteq Range(states)
         /\ NoneTwice(states) => NoneTwice(S!Pending)
<1>1. states \in Seq(Visit) /\ Len(states) \in Nat /\ overdue \in 0..Len(states)
  BY LenProperties DEF SignInTypes
<1>2. overdue + 1 \in 1..Len(states) + 1 /\ Len(states) \in (overdue + 1) - 1..Len(states)
  BY <1>1
<1>3. S!Pending = SubSeq(states, overdue + 1, Len(states))
  BY DEF S!Pending
<1>4. /\ SubSeq(states, overdue + 1, Len(states)) \in Seq(Visit)
      /\ Len(SubSeq(states, overdue + 1, Len(states))) = Len(states) - (overdue + 1) + 1
      /\ Range(SubSeq(states, overdue + 1, Len(states))) \subseteq Range(states)
  BY <1>1, <1>2, RangeOfPart
<1>5. NoneTwice(states) => NoneTwice(SubSeq(states, overdue + 1, Len(states)))
  BY <1>1, <1>2, DistinctPart
<1>6. /\ Len(states) - (overdue + 1) + 1 \in Nat
      /\ Len(states) - (overdue + 1) + 1 <= Len(states)
  BY <1>1
<1> QED
  BY <1>3, <1>4, <1>5, <1>6

\* A visit begins.
LEMMA SignInBegun ==
  ASSUME SignInAssumption, SignInTypes, VisitsOnce, NEW v \in Visit, S!BeginVisit(v)
  PROVE  SignInTypes' /\ VisitsOnce'
<1> DEFINE k == S!Newest(S!Pending, MaxStates)
<1>1. /\ v \notin begun /\ begun' = begun \cup {v}
      /\ states' = Append(k, v) /\ overdue' = 0
      /\ UNCHANGED <<codes, late, stale, request, accounts, writer, account,
                     entered, tokens, came>>
  BY DEF S!BeginVisit, S!database, S!history
<1>2. /\ S!Pending \in Seq(Visit) /\ Range(S!Pending) \subseteq Range(states)
      /\ NoneTwice(S!Pending)
  BY PendingStates DEF VisitsOnce
<1>3. MaxStates \in Nat
  BY DEF SignInAssumption
<1>4. /\ k \in Seq(Visit) /\ Len(k) \in Nat /\ Len(k) <= MaxStates
      /\ Range(k) \subseteq Range(S!Pending) /\ NoneTwice(k)
  BY <1>2, <1>3, NewestPart
<1> HIDE DEF k
<1>5. Range(k) \subseteq Range(states)
  BY <1>2, <1>4
<1>6. v \notin Range(k)
  BY <1>1, <1>5 DEF VisitsOnce
<1>7. /\ Append(k, v) \in Seq(Visit) /\ Len(Append(k, v)) = Len(k) + 1
      /\ Range(Append(k, v)) = Range(k) \cup {v} /\ NoneTwice(Append(k, v))
  BY <1>4, <1>6, AppendProperties, RangeAppended, DistinctAppended
<1>8. /\ states' \in Seq(Visit) /\ Len(states') <= MaxStates + 1
      /\ overdue' \in 0..Len(states')
  BY <1>1, <1>3, <1>4, <1>7
<1>9. SignInTypes'
  BY <1>1, <1>8 DEF SignInTypes
<1>10. entered[v] = 0
  BY <1>1 DEF VisitsOnce, SignInTypes
<1>11. /\ Range(states') = Range(k) \cup {v} /\ NoneTwice(states')
  BY <1>1, <1>7
<1>12. VisitsOnce'
  BY <1>1, <1>5, <1>10, <1>11 DEF VisitsOnce
<1> QED
  BY <1>9, <1>12

\* What is to be shown of a step for VisitsOnce.
LEMMA VisitsNext ==
  ASSUME NoneTwice(states'), NoneTwice(codes'),
         \A w \in Range(states') : w \in begun' /\ entered'[w] = 0,
         \A w \in Range(codes') : entered'[w] = 1 /\ tokens'[w] = 0,
         \A w \in Visit : /\ entered'[w] <= 1 /\ tokens'[w] <= entered'[w]
                          /\ entered'[w] = 1 => w \in begun',
         \A s \in Callers : request'[s].pc = "asking" =>
           Bears(request'[s].visit, s, request', Range(codes'), entered', tokens')
  PROVE  VisitsOnce'
<1>1. (NoneTwice(states) /\ NoneTwice(codes))'
  BY DEF NoneTwice
<1>2. (\A v \in Range(states) : v \in begun /\ entered[v] = 0)'
  BY DEF Range
<1>3. (\A v \in Range(codes) : entered[v] = 1 /\ tokens[v] = 0)'
  BY DEF Range
<1>4. (\A v \in Visit : /\ entered[v] <= 1 /\ tokens[v] <= entered[v]
                        /\ entered[v] = 1 => v \in begun)'
  OBVIOUS
<1>5. (\A r \in Callers : request[r].pc = "asking" =>
       Bears(request[r].visit, r, request, Range(codes), entered, tokens))'
  BY DEF Bears, Range
<1> QED
  BY <1>1, <1>2, <1>3, <1>4, <1>5 DEF VisitsOnce

\* A callback takes its state.
LEMMA SignInEntered ==
  ASSUME SignInAssumption, SignInTypes, VisitsOnce, NEW r \in Callers, NEW v \in Visit,
         S!Enter(r, v)
  PROVE  SignInTypes' /\ VisitsOnce'
<1> DEFINE p == S!Pending
           l == [pc |-> "asking", visit |-> v, who |-> Nobody]
<1>1. /\ request[r].pc = "idle" /\ v \in begun
      /\ states' = Keep(p, Visit \ {v}) /\ overdue' = 0
      /\ UNCHANGED <<begun, codes, late, stale, accounts, writer, account, tokens, came>>
  BY SignInKeeps DEF S!Enter, S!database
<1>2. IF v \in Range(p)
      THEN request' = [request EXCEPT ![r] = l] /\ entered' = [entered EXCEPT ![v] = @ + 1]
      ELSE UNCHANGED <<request, entered>>
  BY SignInKeeps DEF S!Enter
<1>3. /\ p \in Seq(Visit) /\ Len(p) \in Nat /\ Len(p) <= Len(states)
      /\ Range(p) \subseteq Range(states) /\ NoneTwice(p)
  BY PendingStates DEF VisitsOnce
<1> HIDE DEF p
<1>4. /\ states' \in Seq(Visit) /\ Len(states') \in Nat /\ Len(states') <= Len(p)
      /\ Range(states') = Range(p) \cap (Visit \ {v})
  BY <1>1, <1>3, KeepSeq
<1>5. NoneTwice(states')
  BY <1>1, <1>3, KeepDistinct
<1>6. Len(states) \in Nat /\ Len(states) <= MaxStates + 1 /\ MaxStates \in Nat
  BY LenProperties DEF SignInTypes, SignInAssumption
<1>7. Len(states') <= MaxStates + 1 /\ overdue' \in 0..Len(states')
  BY <1>1, <1>3, <1>4, <1>6
<1>8. l \in Calls /\ l.pc = "asking" /\ l.visit = v
  BY DEF Calls
<1> HIDE DEF l
<1>9. request' \in [Callers -> Calls] /\ entered' \in [Visit -> Nat]
  <2>1. /\ request \in [Callers -> Calls] /\ entered \in [Visit -> Nat]
        /\ entered[v] \in Nat /\ entered[v] + 1 \in Nat
    BY DEF SignInTypes
  <2>2. CASE v \in Range(p)
    BY <1>2, <1>8, <2>1, <2>2
  <2>3. CASE v \notin Range(p)
    BY <1>2, <2>1, <2>3
  <2> QED
    BY <2>2, <2>3
<1>10. SignInTypes'
  BY <1>1, <1>4, <1>7, <1>9 DEF SignInTypes
<1>11. Range(states') \subseteq Range(states) \ {v}
  BY <1>3, <1>4
<1>12. CASE v \notin Range(p)
  <2>1. \A w \in Range(states') : w \in begun' /\ entered'[w] = 0
    BY <1>1, <1>2, <1>11, <1>12 DEF VisitsOnce
  <2>2. NoneTwice(states') /\ NoneTwice(codes')
    BY <1>1, <1>5 DEF VisitsOnce
  <2>3. \A w \in Range(codes') : entered'[w] = 1 /\ tokens'[w] = 0
    BY <1>1, <1>2, <1>12 DEF VisitsOnce
  <2>4. \A w \in Visit : /\ entered'[w] <= 1 /\ tokens'[w] <= entered'[w]
                         /\ entered'[w] = 1 => w \in begun'
    BY <1>1, <1>2, <1>12 DEF VisitsOnce
  <2>5. \A s \in Callers : request'[s].pc = "asking" =>
          Bears(request'[s].visit, s, request', Range(codes'), entered', tokens')
    BY <1>1, <1>2, <1>12 DEF VisitsOnce
  <2> QED
    BY <1>10, <2>1, <2>2, <2>3, <2>4, <2>5, VisitsNext
<1>13. CASE v \in Range(p)
  <2>1. entered[v] = 0 /\ tokens[v] = 0
    <3>1. entered[v] = 0
      BY <1>3, <1>13 DEF VisitsOnce
    <3>2. tokens[v] \in Nat /\ tokens[v] <= entered[v]
      BY DEF VisitsOnce, SignInTypes
    <3> QED
      BY <3>1, <3>2
  <2>2. v \notin Range(codes) /\ \A q \in Callers : request[q].pc = "asking" => request[q].visit # v
    BY <2>1 DEF VisitsOnce, Bears
  <2>3. /\ entered'[v] = 1 /\ \A w \in Visit \ {v} : entered'[w] = entered[w]
        /\ request'[r].pc = "asking" /\ request'[r].visit = v
        /\ \A q \in Callers \ {r} : request'[q] = request[q]
    BY <1>2, <1>8, <1>13, <2>1 DEF SignInTypes
  <2>4. Range(codes) \subseteq Visit /\ Range(states') \subseteq Visit
    <3>1. codes \in Seq(Visit)
      BY DEF SignInTypes
    <3>2. Range(codes) \subseteq Visit
      BY <3>1, LenProperties, RangeEquality
    <3> QED
      BY <1>4, <3>2
  <2>5. NoneTwice(states') /\ NoneTwice(codes')
    BY <1>1, <1>5 DEF VisitsOnce
  <2>6. \A w \in Range(states') : w \in begun' /\ entered'[w] = 0
    BY <1>1, <1>11, <2>3, <2>4 DEF VisitsOnce
  <2>7. \A w \in Range(codes') : entered'[w] = 1 /\ tokens'[w] = 0
    BY <1>1, <2>2, <2>3, <2>4 DEF VisitsOnce
  <2>8. \A w \in Visit : /\ entered'[w] <= 1 /\ tokens'[w] <= entered'[w]
                         /\ entered'[w] = 1 => w \in begun'
    <3> TAKE w \in Visit
    <3>1. CASE w = v
      BY <1>1, <2>1, <2>3, <3>1
    <3>2. CASE w # v
      BY <1>1, <2>3, <3>2 DEF VisitsOnce
    <3> QED
      BY <3>1, <3>2
  <2>9. \A s \in Callers : request'[s].pc = "asking" =>
          Bears(request'[s].visit, s, request', Range(codes'), entered', tokens')
    <3> SUFFICES ASSUME NEW s \in Callers, request'[s].pc = "asking"
                 PROVE  Bears(request'[s].visit, s, request', Range(codes'), entered', tokens')
      OBVIOUS
    <3>1. CASE s = r
      BY <1>1, <2>1, <2>2, <2>3, <3>1 DEF Bears
    <3>2. CASE s # r
      <4>1. request'[s] = request[s]
            /\ Bears(request[s].visit, s, request, Range(codes), entered, tokens)
        BY <2>3, <3>2 DEF VisitsOnce
      <4>2. request[s].visit # v
        BY <2>2, <2>3, <3>2
      <4> QED
        BY <1>1, <2>2, <2>3, <3>2, <4>1, <4>2 DEF Bears
    <3> QED
      BY <3>1, <3>2
  <2> QED
    BY <1>10, <2>5, <2>6, <2>7, <2>8, <2>9, VisitsNext
<1> QED
  BY <1>10, <1>12, <1>13

\* Callbacks may end.
LEMMA RequestsLeave ==
  ASSUME VisitsOnce, UNCHANGED <<begun, states, codes, entered, tokens>>,
         \A q \in Callers : request'[q].pc = "asking" => request'[q] = request[q]
  PROVE  VisitsOnce'
BY DEF VisitsOnce, Bears, Range, NoneTwice

\* The provider refuses.
LEMMA SignInRefused ==
  ASSUME SignInAssumption, SignInTypes, VisitsOnce, NEW r \in Callers, S!Refused(r)
  PROVE  SignInTypes' /\ VisitsOnce'
<1>1. /\ request' = [request EXCEPT ![r] = S!Idle]
      /\ UNCHANGED <<begun, states, overdue, codes, late, stale, accounts, writer, account,
                     entered, tokens, came>>
  BY DEF S!Refused, S!database, S!history
<1>2. S!Idle \in Calls /\ S!Idle.pc = "idle"
  BY DEF S!Idle, Calls
<1>3. request' \in [Callers -> Calls]
  BY <1>1, <1>2 DEF SignInTypes
<1>4. SignInTypes'
  BY <1>1, <1>3 DEF SignInTypes
<1>5. \A q \in Callers : request'[q].pc = "asking" => request'[q] = request[q]
  BY <1>1, <1>2 DEF SignInTypes
<1> QED
  BY <1>1, <1>4, <1>5, RequestsLeave

\* The accounts are apart as long as nothing is written.
LEMMA AccountsStay ==
  ASSUME SignInTypes, AccountsApart, UNCHANGED <<accounts, writer, account, came>>,
         \A q \in Callers : request[q].pc = "saving" => request'[q] = request[q]
  PROVE  AccountsApart'
BY DEF AccountsApart, RowsApart, SameUser, Reached, Replaces, Merged

\* A step of a callback leaves the others.
LEMMA OneCallChanges ==
  ASSUME SignInTypes, NEW r \in Callers, NEW l, request[r].pc # "saving",
         request' = [request EXCEPT ![r] = l]
  PROVE  \A q \in Callers : request[q].pc = "saving" => request'[q] = request[q]
BY DEF SignInTypes

\* The steps that write no account.
LEMMA SignInApart ==
  ASSUME SignInAssumption, SignInTypes, AccountsApart,
         \/ \E v \in Visit : S!BeginVisit(v)
         \/ \E r \in Callers, v \in Visit : S!Enter(r, v)
         \/ \E r \in Callers : S!Refused(r)
         \/ \E i \in DOMAIN codes : S!Exchange(i)
         \/ S!Age
  PROVE  AccountsApart'
<1>1. UNCHANGED <<accounts, writer, account, came>>
  BY DEF S!BeginVisit, S!Enter, S!Refused, S!Exchange, S!Age, S!database, S!history
<1>2. \/ UNCHANGED request
      \/ \E r \in Callers, l \in Calls \cup {S!Idle} :
           request[r].pc # "saving" /\ request' = [request EXCEPT ![r] = l]
  <2>1. CASE \/ \E v \in Visit : S!BeginVisit(v)
             \/ \E i \in DOMAIN codes : S!Exchange(i)
             \/ S!Age
    BY <2>1 DEF S!BeginVisit, S!Exchange, S!Age
  <2>2. ASSUME NEW r \in Callers, S!Refused(r)
        PROVE  request[r].pc # "saving" /\ request' = [request EXCEPT ![r] = S!Idle]
    BY <2>2 DEF S!Refused
  <2>3. ASSUME NEW r \in Callers, NEW v \in Visit, S!Enter(r, v)
        PROVE  \/ UNCHANGED request
               \/ \E l \in Calls : request[r].pc # "saving" /\ request' = [request EXCEPT ![r] = l]
    <3> DEFINE l == [pc |-> "asking", visit |-> v, who |-> Nobody]
    <3>1. l \in Calls
      BY DEF Calls
    <3>2. request[r].pc = "idle" /\ (UNCHANGED request \/ request' = [request EXCEPT ![r] = l])
      BY <2>3 DEF S!Enter
    <3> HIDE DEF l
    <3> QED
      BY <3>1, <3>2
  <2> QED
    BY <2>1, <2>2, <2>3
<1> QED
  BY <1>1, <1>2, AccountsStay, OneCallChanges

\* The row that find_or_create_user gives can take its place.
LEMMA FoundFits ==
  ASSUME SignInAssumption, SignInTypes, RowsApart(accounts), NEW i \in Identity,
         NEW row \in S!Found(i)
  PROVE  row \in S!Row /\ row.sso = i /\ Replaces(accounts, row)
<1>1. /\ \A a, b \in accounts : SameUser(a, b) => a = b
      /\ \A a \in accounts : a.sso \in Identity => a.mail = MailOf[a.sso]
  BY DEF RowsApart
<1>i. \A a, b \in accounts : a.id = b.id => a = b
  BY <1>1 DEF SameUser
<1>2. accounts \subseteq S!Row /\ i # Nobody /\ MailOf[i] \in Mail \cup {NoMail}
  BY DEF SignInTypes, SignInAssumption
<1>3. CASE \E a \in accounts : a.sso = i
  <2>1. row \in accounts /\ row.sso = i
    BY <1>3 DEF S!Found
  <2>2. Merged(accounts, row) = accounts
    BY <1>i, <2>1 DEF Merged
  <2>3. \A a \in accounts : a.id = row.id => a = row
    BY <1>i, <2>1
  <2> QED
    BY <1>2, <2>1, <2>2, <2>3 DEF Replaces
<1>4. CASE ~(\E a \in accounts : a.sso = i) /\ MailOf[i] # NoMail
           /\ \E a \in accounts : a.mail = MailOf[i]
  <2>1. PICK b \in accounts : b.mail = MailOf[i] /\ row = [b EXCEPT !.sso = i]
    BY <1>4 DEF S!Found
  <2>2. /\ row \in S!Row /\ row.sso = i /\ row.id = b.id /\ row.mail = b.mail
    BY <1>2, <2>1 DEF S!Row
  <2> HIDE DEF S!Row
  <2>3. \A a \in accounts : a.id = row.id => a = b
    BY <1>i, <2>2
  <2>4. \A a \in accounts : a.id # row.id => a # b /\ a.mail # row.mail /\ a.sso # i
    BY <1>1, <1>4, <2>1, <2>2 DEF SameUser
  <2>5. RowsApart(Merged(accounts, row))
    <3> DEFINE Y == Merged(accounts, row)
    <3>1. \A a \in Y : (a = row) \/ (a \in accounts /\ a.id # row.id)
      BY DEF Merged
    <3> HIDE DEF Y
    <3>2. ASSUME NEW a \in Y, NEW c \in Y,
                 SameUser(a, c)
          PROVE  a = c
      <4>1. CASE a = row /\ c = row
        BY <4>1
      <4>2. CASE a = row /\ c \in accounts /\ c.id # row.id
        BY <1>2, <2>2, <2>4, <3>2, <4>2 DEF SameUser
      <4>3. CASE c = row /\ a \in accounts /\ a.id # row.id
        BY <1>2, <2>2, <2>4, <3>2, <4>3 DEF SameUser
      <4>4. CASE a \in accounts /\ c \in accounts
        BY <1>1, <3>2, <4>4
      <4> QED
        BY <3>1, <4>1, <4>2, <4>3, <4>4
    <3>3. \A a \in Y : a.sso \in Identity => a.mail = MailOf[a.sso]
      BY <1>1, <2>1, <2>2, <3>1
    <3> QED
      BY <3>2, <3>3 DEF RowsApart, Y
  <2>6. \A a \in accounts : a.id = row.id => a.mail = row.mail /\ a.mail # NoMail
    BY <1>4, <2>1, <2>2, <2>3
  <2> QED
    BY <2>2, <2>5, <2>6 DEF Replaces
<1>5. CASE ~(\E a \in accounts : a.sso = i)
           /\ ~(MailOf[i] # NoMail /\ \E a \in accounts : a.mail = MailOf[i])
  <2>1. row \in [id : Account \ {a.id : a \in accounts}, sso : {i}, mail : {MailOf[i]}]
    BY <1>5 DEF S!Found
  <2>2. /\ row \in S!Row /\ row.sso = i /\ row.mail = MailOf[i]
        /\ \A a \in accounts : a.id # row.id
    BY <1>2, <2>1 DEF S!Row
  <2>3. RowsApart(Merged(accounts, row))
    <3> DEFINE Y == Merged(accounts, row)
    <3>1. \A a \in Y : (a = row) \/ (a \in accounts /\ a.id # row.id)
      BY DEF Merged
    <3> HIDE DEF Y
    <3>2. ASSUME NEW a \in Y, NEW c \in Y,
                 SameUser(a, c)
          PROVE  a = c
      BY <1>1, <1>2, <1>5, <2>2, <3>1, <3>2 DEF SameUser
    <3>3. \A a \in Y : a.sso \in Identity => a.mail = MailOf[a.sso]
      BY <1>1, <2>2, <3>1
    <3> QED
      BY <3>2, <3>3 DEF RowsApart, Y
  <2> QED
    BY <2>2, <2>3 DEF Replaces
<1> QED
  BY <1>3, <1>4, <1>5

\* A code is stored.
LEMMA CodeAdded ==
  ASSUME SignInAssumption, SignInTypes, NoneTwice(codes), NEW v \in Visit, v \notin Range(codes),
         S!AddCode(v)
  PROVE  /\ codes' \in Seq(Visit) /\ Len(codes') <= 2 * MaxCodes
         /\ late' \in 0..Len(codes') /\ stale' \in 0..late'
         /\ NoneTwice(codes') /\ Range(codes') \subseteq Range(codes) \cup {v}
<1> DEFINE all == Append(codes, v)
           n == Len(all)
           rest == SubSeq(all, stale + 1, n)
           kept == S!Newest(rest, MaxCodes)
           gone == IF n > 2 * MaxCodes THEN n - Len(kept) ELSE 0
<1>1. /\ codes' = SubSeq(all, gone + 1, n)
      /\ late' = S!Minus(late, gone) /\ stale' = S!Minus(stale, gone)
  BY DEF S!AddCode
<1>2. /\ codes \in Seq(Visit) /\ Len(codes) \in Nat /\ Len(codes) <= 2 * MaxCodes
      /\ late \in 0..Len(codes) /\ stale \in 0..late /\ MaxCodes \in Nat
  BY LenProperties DEF SignInTypes, SignInAssumption
<1>3. /\ all \in Seq(Visit) /\ n = Len(codes) + 1 /\ NoneTwice(all)
      /\ Range(all) = Range(codes) \cup {v}
  BY <1>2, AppendProperties, DistinctAppended, RangeAppended
<1> HIDE DEF all
<1>4. rest \in Seq(Visit) /\ Len(rest) = n - stale
  <2>1. stale + 1 \in 1..n + 1 /\ n \in (stale + 1) - 1..n
    BY <1>2, <1>3
  <2>2. rest \in Seq(Visit) /\ Len(rest) = n - (stale + 1) + 1
    BY <1>3, <2>1, RangeOfPart
  <2> QED
    BY <1>2, <1>3, <2>2
<1> HIDE DEF rest
<1>5. Len(kept) \in Nat /\ Len(kept) <= MaxCodes /\ Len(kept) <= Len(rest)
  BY <1>2, <1>4, NewestPart
<1> DEFINE k == Len(kept)
<1>6. k \in Nat /\ k <= MaxCodes /\ k <= n - stale
  BY <1>4, <1>5
<1> HIDE DEF kept, k
<1>7. gone = IF n > 2 * MaxCodes THEN n - k ELSE 0
  BY DEF k
<1> HIDE DEF gone, n
<1>8. /\ n \in Nat /\ gone \in 0..n /\ n - gone <= 2 * MaxCodes
      /\ late <= n /\ stale <= late
  <2>1. n = Len(codes) + 1
    BY <1>3 DEF n
  <2>2. n \in Nat /\ late <= n /\ stale <= late /\ stale \in Nat /\ MaxCodes \in Nat
    BY <1>2, <2>1
  <2>3. CASE n > 2 * MaxCodes
    <3>1. gone = n - k
      BY <1>7, <2>3
    <3> QED
      BY <1>6, <2>2, <3>1
  <2>4. CASE ~(n > 2 * MaxCodes)
    <3>1. gone = 0
      BY <1>7, <2>4
    <3> QED
      BY <2>2, <2>4, <3>1
  <2> QED
    BY <2>3, <2>4
<1>9. gone + 1 \in 1..n + 1 /\ n \in (gone + 1) - 1..n /\ n - (gone + 1) + 1 = n - gone
  BY <1>8
<1>10. /\ codes' \in Seq(Visit) /\ Len(codes') = n - gone /\ NoneTwice(codes')
       /\ Range(codes') \subseteq Range(all)
  <2>1. /\ SubSeq(all, gone + 1, n) \in Seq(Visit)
        /\ Len(SubSeq(all, gone + 1, n)) = n - (gone + 1) + 1
        /\ Range(SubSeq(all, gone + 1, n)) \subseteq Range(all)
    BY <1>3, <1>9, RangeOfPart DEF n
  <2>2. NoneTwice(SubSeq(all, gone + 1, n))
    BY <1>3, <1>9, DistinctPart DEF n
  <2> QED
    BY <1>1, <1>9, <2>1, <2>2
<1>11. late' \in 0..n - gone /\ stale' \in 0..late'
  BY <1>1, <1>2, <1>8 DEF S!Minus
<1> QED
  BY <1>3, <1>8, <1>10, <1>11

\* A callback finds its user, or begins to write one.
LEMMA AccountFound ==
  ASSUME SignInAssumption, SignInTypes, VisitsOnce, AccountsApart, NEW r \in Callers,
         NEW i \in Identity, S!SignInAs(r, i)
  PROVE  SignInTypes' /\ VisitsOnce' /\ AccountsApart'
<1> DEFINE v == request[r].visit
<1>1. /\ request[r].pc = "asking"
      /\ UNCHANGED <<begun, states, overdue, accounts, entered, came>>
  BY DEF S!SignInAs
<1>2. /\ v \in Visit /\ entered[v] = 1 /\ tokens[v] = 0 /\ v \notin Range(codes)
      /\ \A q \in Callers : request[q].pc = "asking" /\ request[q].visit = v => q = r
  BY <1>1 DEF VisitsOnce, Bears
<1> HIDE DEF v
<1>3. /\ request \in [Callers -> Calls] /\ tokens \in [Visit -> Nat] /\ r # Nobody /\ r # Local
  BY DEF SignInTypes, SignInAssumption
<1>4. CASE /\ writer # Nobody \/ \A row \in S!Found(i) : S!Conflicts(row)
           /\ request' = [request EXCEPT ![r] = S!Idle]
           /\ UNCHANGED <<writer, account, codes, late, stale, tokens>>
  <2>1. S!Idle \in Calls /\ S!Idle.pc = "idle"
    BY DEF S!Idle, Calls
  <2>2. request' \in [Callers -> Calls]
    BY <1>3, <1>4, <2>1
  <2>3. SignInTypes'
    BY <1>1, <1>4, <2>2 DEF SignInTypes
  <2>4. \A q \in Callers : request'[q].pc = "asking" => request'[q] = request[q]
    BY <1>3, <1>4, <2>1
  <2>5. VisitsOnce'
    BY <1>1, <1>4, <2>4, RequestsLeave
  <2>6. \A q \in Callers : request[q].pc = "saving" => request'[q] = request[q]
    BY <1>1, <1>3, <1>4
  <2> QED
    BY <1>1, <1>4, <2>3, <2>5, <2>6, AccountsStay
<1>5. CASE /\ writer = Nobody
           /\ \E row \in S!Found(i) :
                /\ account' = row /\ writer' = r
                /\ request' = [request EXCEPT ![r].pc = "saving", ![r].who = i]
                /\ \/ S!AddCode(v) /\ UNCHANGED tokens
                   \/ /\ tokens' = [tokens EXCEPT ![v] = @ + 1]
                      /\ UNCHANGED <<codes, late, stale>>
  <2>1. PICK row \in S!Found(i) :
                /\ account' = row /\ writer' = r
                /\ request' = [request EXCEPT ![r].pc = "saving", ![r].who = i]
                /\ \/ S!AddCode(v) /\ UNCHANGED tokens
                   \/ /\ tokens' = [tokens EXCEPT ![v] = @ + 1]
                      /\ UNCHANGED <<codes, late, stale>>
    BY <1>5
  <2>2. row \in S!Row /\ row.sso = i /\ Replaces(accounts, row)
    BY FoundFits DEF AccountsApart
  <2>3. /\ request' \in [Callers -> Calls]
        /\ request'[r].pc = "saving" /\ request'[r].who = i
        /\ \A q \in Callers \ {r} : request'[q] = request[q]
    <3> DEFINE l == [request[r] EXCEPT !.pc = "saving", !.who = i]
    <3>1. request' = [request EXCEPT ![r] = l]
      BY <1>3, <2>1
    <3>2. l \in Calls /\ l.pc = "saving" /\ l.who = i
      BY <1>3 DEF Calls
    <3> HIDE DEF l
    <3> QED
      BY <1>3, <3>1, <3>2
  <2>4. \A q \in Callers : request'[q].pc = "asking" =>
          /\ request'[q] = request[q] /\ request[q].visit # v
          /\ Bears(request[q].visit, q, request, Range(codes), entered, tokens)
    BY <1>2, <2>3 DEF VisitsOnce
  <2>5. AccountsApart'
    <3>1. /\ RowsApart(accounts)
          /\ \A j \in Identity : \A x \in came[j] : Reached(accounts, j, x)
      BY DEF AccountsApart
    <3>2. /\ RowsApart(accounts')
          /\ \A j \in Identity : \A x \in came'[j] : Reached(accounts', j, x)
          /\ account' \in S!Row /\ Replaces(accounts', account')
          /\ request'[writer'].pc = "saving" /\ request'[writer'].who \in Identity
          /\ account'.sso = request'[writer'].who
      BY <1>1, <2>1, <2>2, <2>3, <3>1
    <3> QED
      BY <3>2 DEF AccountsApart, RowsApart, SameUser, Reached, Replaces, Merged
  <2>6. CASE S!AddCode(v) /\ UNCHANGED tokens
    <3>1. /\ codes' \in Seq(Visit) /\ Len(codes') <= 2 * MaxCodes
          /\ late' \in 0..Len(codes') /\ stale' \in 0..late'
          /\ NoneTwice(codes') /\ Range(codes') \subseteq Range(codes) \cup {v}
      BY <1>2, <2>6, CodeAdded DEF VisitsOnce
    <3>2. SignInTypes'
      BY <1>1, <2>1, <2>2, <2>3, <2>6, <3>1 DEF SignInTypes
    <3>3. NoneTwice(states') /\ \A w \in Range(states') : w \in begun' /\ entered'[w] = 0
      BY <1>1 DEF VisitsOnce
    <3>4. \A w \in Range(codes') : entered'[w] = 1 /\ tokens'[w] = 0
      BY <1>1, <1>2, <2>6, <3>1 DEF VisitsOnce
    <3>5. \A w \in Visit : /\ entered'[w] <= 1 /\ tokens'[w] <= entered'[w]
                           /\ entered'[w] = 1 => w \in begun'
      BY <1>1, <2>6 DEF VisitsOnce
    <3>6. \A s \in Callers : request'[s].pc = "asking" =>
            Bears(request'[s].visit, s, request', Range(codes'), entered', tokens')
      BY <1>1, <2>3, <2>4, <2>6, <3>1 DEF Bears
    <3>7. VisitsOnce'
      BY <3>1, <3>3, <3>4, <3>5, <3>6, VisitsNext
    <3> QED
      BY <2>5, <3>2, <3>7
  <2>7. CASE /\ tokens' = [tokens EXCEPT ![v] = @ + 1]
             /\ UNCHANGED <<codes, late, stale>>
    <3>1. /\ tokens' \in [Visit -> Nat] /\ tokens'[v] = 1
          /\ \A w \in Visit \ {v} : tokens'[w] = tokens[w]
      <4>1. tokens[v] + 1 = 1
        BY <1>2
      <4> QED
        BY <1>2, <1>3, <2>7, <4>1
    <3>2. SignInTypes'
      BY <1>1, <2>1, <2>2, <2>3, <2>7, <3>1 DEF SignInTypes
    <3>3. /\ NoneTwice(states') /\ NoneTwice(codes')
          /\ \A w \in Range(states') : w \in begun' /\ entered'[w] = 0
      BY <1>1, <2>7 DEF VisitsOnce
    <3>4. Range(codes) \subseteq Visit
      <4>1. codes \in Seq(Visit)
        BY DEF SignInTypes
      <4> QED
        BY <4>1, LenProperties, RangeEquality
    <3>5. \A w \in Range(codes') : entered'[w] = 1 /\ tokens'[w] = 0
      BY <1>1, <1>2, <2>7, <3>1, <3>4 DEF VisitsOnce
    <3>6. \A w \in Visit : /\ entered'[w] <= 1 /\ tokens'[w] <= entered'[w]
                           /\ entered'[w] = 1 => w \in begun'
      <4> TAKE w \in Visit
      <4>1. CASE w = v
        BY <1>1, <1>2, <3>1, <4>1 DEF VisitsOnce
      <4>2. CASE w # v
        BY <1>1, <3>1, <4>2 DEF VisitsOnce
      <4> QED
        BY <4>1, <4>2
    <3>7. \A s \in Callers : request'[s].pc = "asking" =>
            Bears(request'[s].visit, s, request', Range(codes'), entered', tokens')
      BY <1>1, <2>3, <2>4, <2>7, <3>1 DEF Bears
    <3>8. VisitsOnce'
      BY <3>3, <3>5, <3>6, <3>7, VisitsNext
    <3> QED
      BY <2>5, <3>2, <3>8
  <2> QED
    BY <2>1, <2>6, <2>7
<1> QED
  BY <1>4, <1>5 DEF S!SignInAs, v

\* A code is exchanged for a token.
LEMMA CodeExchanged ==
  ASSUME SignInAssumption, SignInTypes, VisitsOnce, NEW i \in DOMAIN codes, S!Exchange(i)
  PROVE  SignInTypes' /\ VisitsOnce'
<1> DEFINE v == codes[i]
<1>1. /\ codes' = Less(codes, i)
      /\ late' = IF i <= late THEN late - 1 ELSE late
      /\ stale' = IF i <= stale THEN stale - 1 ELSE stale
      /\ tokens' = IF i <= late THEN tokens ELSE [tokens EXCEPT ![v] = @ + 1]
      /\ UNCHANGED <<begun, states, overdue, request, accounts, writer, account, entered, came>>
  BY DEF S!Exchange, Less, S!database
<1>2. /\ codes \in Seq(Visit) /\ Len(codes) \in Nat /\ Len(codes) <= 2 * MaxCodes
      /\ late \in 0..Len(codes) /\ stale \in 0..late /\ MaxCodes \in Nat
      /\ i \in 1..Len(codes) /\ Range(codes) = {codes[j] : j \in 1..Len(codes)}
  <2>1. codes \in Seq(Visit)
    BY DEF SignInTypes
  <2>2. Len(codes) \in Nat /\ DOMAIN codes = 1..Len(codes)
    BY <2>1, LenProperties
  <2>3. Range(codes) = {codes[j] : j \in 1..Len(codes)}
    BY <2>1, RangeEquality
  <2> QED
    BY <2>1, <2>2, <2>3 DEF SignInTypes, SignInAssumption
<1>3. /\ v \in Range(codes) /\ v \in Visit /\ Range(codes) \subseteq Visit
      /\ entered[v] = 1 /\ tokens[v] = 0
  <2>1. v \in Range(codes) /\ v \in Visit /\ Range(codes) \subseteq Visit
    BY <1>2, ElementOfSeq
  <2> QED
    BY <2>1 DEF VisitsOnce
<1>4. /\ codes' \in Seq(Visit) /\ Len(codes') = Len(codes) - 1 /\ NoneTwice(codes')
      /\ Range(codes') \subseteq Range(codes) \ {v}
  BY <1>1, <1>2, WithoutOne DEF VisitsOnce
<1>5. /\ Len(codes') <= 2 * MaxCodes
      /\ late' \in 0..Len(codes') /\ stale' \in 0..late'
  <2>1. late' \in 0..Len(codes) - 1 /\ stale' \in 0..late'
    BY <1>1, <1>2
  <2>2. Len(codes) - 1 <= 2 * MaxCodes
    BY <1>2
  <2> QED
    BY <1>4, <2>1, <2>2
<1> HIDE DEF v
<1>6. /\ tokens' \in [Visit -> Nat] /\ tokens'[v] \in {0, 1}
      /\ \A w \in Visit \ {v} : tokens'[w] = tokens[w]
  <2>1. tokens \in [Visit -> Nat] /\ tokens[v] + 1 = 1
    BY <1>3 DEF SignInTypes
  <2>2. CASE i <= late
    BY <1>1, <1>3, <2>1, <2>2
  <2>3. CASE ~(i <= late)
    <3>1. tokens' = [tokens EXCEPT ![v] = 1]
      BY <1>1, <2>1, <2>3
    <3> QED
      BY <1>3, <2>1, <3>1
  <2> QED
    BY <2>2, <2>3
<1>7. SignInTypes'
  BY <1>1, <1>4, <1>5, <1>6 DEF SignInTypes
<1>8. NoneTwice(states') /\ \A w \in Range(states') : w \in begun' /\ entered'[w] = 0
  BY <1>1 DEF VisitsOnce
<1>9. \A w \in Range(codes') : entered'[w] = 1 /\ tokens'[w] = 0
  BY <1>1, <1>3, <1>4, <1>6 DEF VisitsOnce
<1>10. \A w \in Visit : /\ entered'[w] <= 1 /\ tokens'[w] <= entered'[w]
                        /\ entered'[w] = 1 => w \in begun'
  <2> TAKE w \in Visit
  <2>1. CASE w = v
    BY <1>1, <1>3, <1>6, <2>1 DEF VisitsOnce
  <2>2. CASE w # v
    BY <1>1, <1>6, <2>2 DEF VisitsOnce
  <2> QED
    BY <2>1, <2>2
<1>11. \A s \in Callers : request'[s].pc = "asking" =>
         Bears(request'[s].visit, s, request', Range(codes'), entered', tokens')
  <2> SUFFICES ASSUME NEW s \in Callers, request[s].pc = "asking"
               PROVE  Bears(request[s].visit, s, request, Range(codes'), entered, tokens')
    BY <1>1
  <2>1. Bears(request[s].visit, s, request, Range(codes), entered, tokens)
    BY DEF VisitsOnce
  <2>2. request[s].visit # v
    BY <1>3, <2>1 DEF Bears
  <2> QED
    BY <1>4, <1>6, <2>1, <2>2 DEF Bears
<1> QED
  BY <1>4, <1>7, <1>8, <1>9, <1>10, <1>11, VisitsNext

\* Time passes for the stores.
LEMMA SignInAged ==
  ASSUME SignInTypes, VisitsOnce, S!Age
  PROVE  SignInTypes' /\ VisitsOnce'
<1>1. UNCHANGED <<begun, states, codes, request, accounts, writer, account, entered, tokens, came>>
  BY DEF S!Age, S!database, S!history
<1>2. /\ Len(states) \in Nat /\ Len(codes) \in Nat
      /\ overdue \in 0..Len(states) /\ late \in 0..Len(codes) /\ stale \in 0..late
  BY LenProperties DEF SignInTypes
<1>3. overdue' \in 0..Len(states) /\ late' \in 0..Len(codes) /\ stale' \in 0..late'
  BY <1>2 DEF S!Age
<1>4. SignInTypes'
  BY <1>1, <1>3 DEF SignInTypes
<1>5. \A q \in Callers : request'[q].pc = "asking" => request'[q] = request[q]
  BY <1>1
<1> QED
  BY <1>1, <1>4, <1>5, RequestsLeave

\* A local user registers.
LEMMA SignInRegistered ==
  ASSUME SignInAssumption, SignInTypes, VisitsOnce, AccountsApart, NEW row \in S!Row,
         S!Register(row)
  PROVE  SignInTypes' /\ VisitsOnce' /\ AccountsApart'
<1>1. /\ writer = Nobody /\ row.sso = Nobody
      /\ ~\E a \in accounts : a.id = row.id \/ (row.mail # NoMail /\ a.mail = row.mail)
      /\ writer' = Local /\ account' = row
      /\ UNCHANGED <<begun, states, overdue, codes, late, stale, request, accounts,
                     entered, tokens, came>>
  BY DEF S!Register, S!history
<1>2. SignInTypes'
  BY <1>1 DEF SignInTypes
<1>3. VisitsOnce'
  BY <1>1, RequestsLeave
<1>4. /\ \A a, b \in accounts : SameUser(a, b) => a = b
      /\ \A a \in accounts : a.sso \in Identity => a.mail = MailOf[a.sso]
      /\ \A j \in Identity : \A x \in came[j] : Reached(accounts, j, x)
  BY DEF AccountsApart, RowsApart
<1>5. RowsApart(Merged(accounts, row))
  <2> DEFINE Y == Merged(accounts, row)
  <2>1. \A a \in Y : (a = row) \/ (a \in accounts /\ a.id # row.id)
    BY DEF Merged
  <2> HIDE DEF Y
  <2>2. ASSUME NEW a \in Y, NEW c \in Y, SameUser(a, c)
        PROVE  a = c
    BY <1>1, <1>4, <2>1, <2>2 DEF SameUser
  <2>3. \A a \in Y : a.sso \in Identity => a.mail = MailOf[a.sso]
    BY <1>1, <1>4, <2>1 DEF SignInAssumption
  <2> QED
    BY <2>2, <2>3 DEF RowsApart, Y
<1>6. Replaces(accounts, row)
  BY <1>1, <1>5 DEF Replaces
<1>7. Local \notin Callers
  BY DEF SignInAssumption
<1>8. /\ RowsApart(accounts') /\ account' \in S!Row /\ Replaces(accounts', account')
      /\ \A j \in Identity : \A x \in came'[j] : Reached(accounts', j, x)
      /\ writer' \notin Callers
  BY <1>1, <1>4, <1>6, <1>7 DEF AccountsApart
<1>9. AccountsApart'
  BY <1>8 DEF AccountsApart, RowsApart, SameUser, Reached, Replaces, Merged
<1> QED
  BY <1>2, <1>3, <1>9

\* The callback that wrote is done.
LEMMA SignInEnded ==
  ASSUME SignInAssumption, SignInTypes, VisitsOnce, writer # Nobody, S!Finish
  PROVE  /\ request' \in [Callers -> Calls]
         /\ \A q \in Callers : request'[q].pc = "asking" => request'[q] = request[q]
<1>1. S!Idle \in Calls /\ S!Idle.pc = "idle"
  BY DEF S!Idle, Calls
<1>2. request \in [Callers -> Calls]
  BY DEF SignInTypes
<1>3. CASE UNCHANGED request
  BY <1>2, <1>3
<1>4. CASE request' = [request EXCEPT ![writer] = S!Idle]
  BY <1>1, <1>2, <1>4
<1> QED
  BY <1>3, <1>4 DEF S!Finish

\* The transaction of an account commits.
LEMMA SignInCommitted ==
  ASSUME SignInAssumption, SignInTypes, VisitsOnce, AccountsApart, S!Commit
  PROVE  SignInTypes' /\ VisitsOnce' /\ AccountsApart'
<1>1. /\ writer # Nobody /\ S!Finish
      /\ accounts' = Merged(accounts, account)
      /\ came' = IF writer = Local THEN came
                 ELSE [came EXCEPT ![request[writer].who] = @ \cup {account.id}]
      /\ writer' = Nobody /\ account' = S!NoRow
      /\ UNCHANGED <<begun, states, overdue, codes, late, stale, entered, tokens>>
  BY DEF S!Commit, Merged
<1>2. /\ account \in S!Row /\ Replaces(accounts, account)
      /\ \A j \in Identity : \A x \in came[j] : Reached(accounts, j, x)
      /\ writer \in Callers => /\ request[writer].who \in Identity
                               /\ account.sso = request[writer].who
  BY <1>1 DEF AccountsApart
<1>3. /\ request' \in [Callers -> Calls]
      /\ \A q \in Callers : request'[q].pc = "asking" => request'[q] = request[q]
  BY <1>1, SignInEnded
<1>4. account.id \in Account /\ accounts' \subseteq S!Row
  BY <1>1, <1>2 DEF S!Row, Merged, SignInTypes
<1>5. /\ came \in [Identity -> SUBSET Account] /\ came' \in [Identity -> SUBSET Account]
      /\ writer \in Callers \cup {Local}
      /\ \A j \in Identity : \A x \in came'[j] :
           x \in came[j] \/ (writer \in Callers /\ x = account.id /\ j = account.sso)
  <2>1. came \in [Identity -> SUBSET Account] /\ writer \in Callers \cup {Local}
    BY <1>1 DEF SignInTypes
  <2>2. CASE writer = Local
    BY <1>1, <2>1, <2>2
  <2>3. CASE writer \in Callers
    <3> DEFINE i == request[writer].who
               X == came[i] \cup {account.id}
    <3>1. i \in Identity /\ account.sso = i /\ writer # Local
      BY <1>2, <2>3 DEF SignInAssumption
    <3>2. came' = [came EXCEPT ![i] = X]
      BY <1>1, <3>1
    <3>3. X \subseteq Account /\ \A x \in X : x \in came[i] \/ x = account.id
      BY <1>4, <2>1, <3>1
    <3> HIDE DEF i, X
    <3> QED
      BY <2>1, <2>3, <3>1, <3>2, <3>3
  <2> QED
    BY <2>1, <2>2, <2>3
<1>6. SignInTypes'
  BY <1>1, <1>3, <1>4, <1>5 DEF SignInTypes
<1>7. VisitsOnce'
  BY <1>1, <1>3, RequestsLeave
<1>8. RowsApart(accounts')
  BY <1>1, <1>2 DEF Replaces
<1>9. account \in accounts'
  BY <1>1 DEF Merged
<1>10. ASSUME NEW j \in Identity, NEW x \in came'[j]
       PROVE  Reached(accounts', j, x)
  <2>1. CASE x \in came[j]
    <3>1. PICK a \in accounts : /\ a.id = x /\ a.mail = MailOf[j]
                                /\ MailOf[j] = NoMail => a.sso = j
      BY <1>2, <2>1 DEF Reached
    <3>2. CASE a.id # account.id
      <4>1. a \in accounts'
        BY <1>1, <3>2 DEF Merged
      <4> QED
        BY <3>1, <4>1 DEF Reached
    <3>3. CASE a.id = account.id
      <4>1. a.mail = account.mail /\ (a.mail = NoMail => a.sso = account.sso)
        BY <1>2, <3>3 DEF Replaces
      <4> QED
        BY <1>9, <3>1, <3>3, <4>1 DEF Reached
    <3> QED
      BY <3>2, <3>3
  <2>2. CASE writer \in Callers /\ x = account.id /\ j = account.sso
    <3>1. account.mail = MailOf[j]
      BY <1>8, <1>9, <2>2 DEF RowsApart
    <3> QED
      BY <1>9, <2>2, <3>1 DEF Reached
  <2> QED
    BY <1>5, <2>1, <2>2
<1>11. writer' = Nobody /\ writer' \notin Callers
  BY <1>1 DEF SignInAssumption
<1>12. AccountsApart'
  BY <1>8, <1>10, <1>11 DEF AccountsApart, RowsApart, SameUser, Reached, Replaces, Merged
<1> QED
  BY <1>6, <1>7, <1>12

\* It is rolled back.
LEMMA SignInUndone ==
  ASSUME SignInAssumption, SignInTypes, VisitsOnce, AccountsApart, S!Rollback
  PROVE  SignInTypes' /\ VisitsOnce' /\ AccountsApart'
<1>1. /\ writer # Nobody /\ S!Finish
      /\ writer' = Nobody /\ account' = S!NoRow
      /\ UNCHANGED <<begun, states, overdue, codes, late, stale, accounts,
                     entered, tokens, came>>
  BY DEF S!Rollback, S!history
<1>2. /\ request' \in [Callers -> Calls]
      /\ \A q \in Callers : request'[q].pc = "asking" => request'[q] = request[q]
  BY <1>1, SignInEnded
<1>3. SignInTypes'
  BY <1>1, <1>2 DEF SignInTypes
<1>4. VisitsOnce'
  BY <1>1, <1>2, RequestsLeave
<1>5. Nobody \notin Callers
  BY DEF SignInAssumption
<1>6. AccountsApart'
  BY <1>1, <1>5 DEF AccountsApart, RowsApart, SameUser, Reached, Replaces, Merged
<1> QED
  BY <1>3, <1>4, <1>6

\* Each step of the sign-in keeps it.
LEMMA SignInSteps ==
  ASSUME SignInAssumption, SignInTypes, VisitsOnce, AccountsApart, [S!Next]_(S!vars)
  PROVE  SignInTypes' /\ VisitsOnce' /\ AccountsApart'
<1>1. CASE UNCHANGED S!vars
  <2>1. UNCHANGED <<begun, states, overdue, codes, late, stale, request, accounts, writer,
                    account, entered, tokens, came>>
    BY <1>1 DEF S!vars
  <2>2. SignInTypes'
    BY <2>1 DEF SignInTypes
  <2> QED
    BY <2>1, <2>2, RequestsLeave, AccountsStay
<1>2. ASSUME NEW v \in Visit, S!BeginVisit(v) PROVE SignInTypes' /\ VisitsOnce' /\ AccountsApart'
  BY <1>2, SignInBegun, SignInApart
<1>3. ASSUME NEW r \in Callers, NEW v \in Visit, S!Enter(r, v)
      PROVE  SignInTypes' /\ VisitsOnce' /\ AccountsApart'
  BY <1>3, SignInEntered, SignInApart
<1>4. ASSUME NEW r \in Callers, S!Refused(r) PROVE SignInTypes' /\ VisitsOnce' /\ AccountsApart'
  BY <1>4, SignInRefused, SignInApart
<1>5. ASSUME NEW r \in Callers, NEW i \in Identity, S!SignInAs(r, i)
      PROVE  SignInTypes' /\ VisitsOnce' /\ AccountsApart'
  BY <1>5, AccountFound
<1>6. ASSUME NEW row \in S!Row, S!Register(row)
      PROVE  SignInTypes' /\ VisitsOnce' /\ AccountsApart'
  BY <1>6, SignInRegistered
<1>7. CASE S!Commit
  BY <1>7, SignInCommitted
<1>8. CASE S!Rollback
  BY <1>8, SignInUndone
<1>9. ASSUME NEW i \in DOMAIN codes, S!Exchange(i)
      PROVE  SignInTypes' /\ VisitsOnce' /\ AccountsApart'
  BY <1>9, CodeExchanged, SignInApart
<1>10. CASE S!Age
  BY <1>10, SignInAged, SignInApart
<1> QED
  BY <1>1, <1>2, <1>3, <1>4, <1>5, <1>6, <1>7, <1>8, <1>9, <1>10 DEF S!Next

\* It is enough for what AccessIsTrue says of SignIn.
LEMMA SignInHolds ==
  ASSUME SignInAssumption, SignInTypes, VisitsOnce, AccountsApart
  PROVE  S!TypeOK /\ S!SignInOnce
<1>1. S!TypeOK
  BY DEF SignInTypes, S!TypeOK, Calls
<1>2. \A v \in Visit : entered[v] <= 1 /\ tokens[v] <= 1
  <2> TAKE v \in Visit
  <2>1. entered[v] \in Nat /\ tokens[v] \in Nat /\ entered[v] <= 1 /\ tokens[v] <= entered[v]
    BY DEF VisitsOnce, SignInTypes
  <2> QED
    BY <2>1
<1>3. ASSUME NEW i \in Identity
      PROVE  S!Cardinality(came[i]) <= 1
  <2>1. S!Cardinality(came[i]) = Cardinality(came[i])
    BY DEF S!Cardinality, Cardinality
  <2>2. \A x, y \in came[i] : x = y
    <3> SUFFICES ASSUME NEW x \in came[i], NEW y \in came[i] PROVE x = y
      OBVIOUS
    <3>1. Reached(accounts, i, x) /\ Reached(accounts, i, y)
      BY DEF AccountsApart
    <3>2. PICK a \in accounts : /\ a.id = x /\ a.mail = MailOf[i]
                                /\ MailOf[i] = NoMail => a.sso = i
      BY <3>1 DEF Reached
    <3>3. PICK b \in accounts : /\ b.id = y /\ b.mail = MailOf[i]
                                /\ MailOf[i] = NoMail => b.sso = i
      BY <3>1 DEF Reached
    <3>4. SameUser(a, b)
      BY <3>2, <3>3 DEF SameUser, SignInAssumption
    <3>5. a = b
      BY <3>4 DEF AccountsApart, RowsApart
    <3> QED
      BY <3>2, <3>3, <3>5
  <2>3. CASE came[i] = {}
    <3>1. Cardinality(came[i]) = 0
      BY <2>3, FS_EmptySet
    <3> QED
      BY <2>1, <3>1
  <2>4. CASE came[i] # {}
    <3>1. PICK x \in came[i] : TRUE
      BY <2>4
    <3>2. came[i] = {x}
      BY <2>2
    <3>3. Cardinality({x}) = 1
      BY FS_Singleton
    <3> QED
      BY <2>1, <3>2, <3>3
  <2> QED
    BY <2>3, <2>4
<1> QED
  BY <1>1, <1>2, <1>3 DEF S!SignInOnce

-----------------------------------------------------------------------------
(* AuditChain.                                                             *)

A == INSTANCE AuditChain

\* Stamps and batches are bounded by numbers, and no writer is none.
AuditAssumption == MaxStamp \in Nat /\ MaxBatch \in Nat /\ NoWriter \notin Writer

\* The stamps of rows.
Stamps(X) == {r.at : r \in X}
\* The rows that no later stamp overtook.
InOrder(X, V) == {r \in X : r.at \notin V}
\* Of these, the ones with a smaller stamp.
Before(X, V, b) == {r \in InOrder(X, V) : r.at < b}

\* From r over k overtaken rows to the head of the rows in order before it.
PathBack(X, V, r, k, g) ==
  /\ g[0] = r.prev
  /\ \A j \in 0..k - 1 :
       g[j] \in V /\ \E q \in X : q.at = g[j] /\ q.prev = g[j + 1]
  /\ g[k] = A!ChainHead(Before(X, V, r.at))

\* What r links to leads back to the rows in order before it.
LeadsBack(X, V, r) ==
  \E k \in 0..MaxBatch : \E g \in [0..k -> 0..MaxStamp] : PathBack(X, V, r, k, g)

\* The stamps, rows and the lock keep their ranges.
AuditTypeOK ==
  /\ stamp \in 0..MaxStamp
  /\ pending \in [Writer -> Seq(1..MaxStamp)]
  /\ \A w \in Writer : Len(pending[w]) <= MaxBatch
  /\ lock \in Writer \cup {NoWriter}
  /\ draft \subseteq A!Row /\ log \subseteq A!Row
  /\ lock = NoWriter => draft = {}
  /\ overtaken \subseteq Stamps(log \cup draft)

\* No stamp is there twice, and none is above n.
Distinct(X, n) ==
  /\ \A q, r \in X : q.at = r.at => q = r
  /\ \A r \in X : r.at <= n

\* Stamps taken, ascending, that no row has yet.
Coming(s, X, n) ==
  \A i \in 1..Len(s) :
    /\ s[i] <= n
    /\ s[i] \notin Stamps(X)
    /\ \A j \in 1..Len(s) : i < j => s[i] < s[j]

\* Two batches have no stamp in common.
Apart(s, t) == \A i \in 1..Len(s), j \in 1..Len(t) : s[i] # t[j]

\* A stamp is of one row or of one batch to come.
StampsOK ==
  /\ Distinct(log \cup draft, stamp) /\ log \cap draft = {}
  /\ \A w \in Writer : Coming(pending[w], log \cup draft, stamp)
  /\ \A w \in Writer : \A v \in Writer \ {w} : Apart(pending[w], pending[v])

\* A row is overtaken by a row above it, and the others link back to those
\* before.
LinksOK ==
  /\ \A r \in log : r.at \in overtaken => \E q \in log : r.at < q.at
  /\ \A r \in draft : r.at \in overtaken => \E q \in log \cup draft : r.at < q.at
  /\ \A r \in InOrder(draft, overtaken) : \A q \in log : q.at < r.at
  /\ \A r \in InOrder(log, overtaken) : LeadsBack(log, overtaken, r)
  /\ \A r \in InOrder(draft, overtaken) : LeadsBack(log \cup draft, overtaken, r)

\* What a row holds.
LEMMA RowFields ==
  ASSUME NEW r \in A!Row, MaxStamp \in Nat
  PROVE  /\ r.at \in 1..MaxStamp /\ r.prev \in 0..MaxStamp
         /\ r.at \in Nat /\ r.prev \in Nat /\ r.at > 0
BY DEF A!Row

\* The head of a chain is the largest stamp.
LEMMA HeadHas ==
  ASSUME MaxStamp \in Nat, NEW X \in SUBSET A!Row
  PROVE  /\ A!ChainHead(X) \in Stamps(X) \cup {0}
         /\ A!ChainHead(X) \in 0..MaxStamp
         /\ \A r \in X : r.at <= A!ChainHead(X)
<1> DEFINE T == {r.at : r \in X} \cup {0}
<1>1. T \subseteq 0..MaxStamp /\ T # {} /\ T \subseteq Nat
  BY RowFields
<1>2. PICK m \in T : \A x \in T : x <= m
  BY <1>1, Greatest
<1>6. \A x \in T : m >= x
  BY <1>1, <1>2
<1>7. A!ChainHead(X) = CHOOSE x \in T : \A y \in T : x >= y
  BY DEF A!ChainHead, A!Genesis, A!Max
<1>8. A!ChainHead(X) \in T /\ \A y \in T : A!ChainHead(X) >= y
  BY <1>6, <1>7
<1>9. \A r \in X : r.at \in T
  OBVIOUS
<1> QED
  BY <1>1, <1>8, <1>9 DEF Stamps

\* And the largest stamp is the head.
LEMMA HeadIs ==
  ASSUME MaxStamp \in Nat, NEW X \in SUBSET A!Row,
         NEW m \in Stamps(X) \cup {0}, \A r \in X : r.at <= m
  PROVE  A!ChainHead(X) = m
<1>1. /\ A!ChainHead(X) \in Stamps(X) \cup {0}
      /\ A!ChainHead(X) \in 0..MaxStamp
      /\ \A r \in X : r.at <= A!ChainHead(X)
  BY HeadHas
<1>2. m \in Nat /\ 0 <= m
  BY RowFields DEF Stamps
<1>3. m <= A!ChainHead(X)
  BY <1>1 DEF Stamps
<1>4. A!ChainHead(X) <= m
  BY <1>1, <1>2 DEF Stamps
<1> QED
  BY <1>1, <1>2, <1>3, <1>4

\* The path of a row stays when rows are added that it does not pass.
LEMMA PathStays ==
  ASSUME NEW X, NEW Y, NEW V, NEW W, NEW r,
         X \subseteq Y, \A q \in X : q.at \in V => q.at \in W,
         A!ChainHead(Before(Y, W, r.at)) = A!ChainHead(Before(X, V, r.at)),
         LeadsBack(X, V, r)
  PROVE  LeadsBack(Y, W, r)
<1>1. PICK k \in 0..MaxBatch : \E g \in [0..k -> 0..MaxStamp] : PathBack(X, V, r, k, g)
  BY DEF LeadsBack
<1>0. PICK g \in [0..k -> 0..MaxStamp] : PathBack(X, V, r, k, g)
  BY <1>1
<1>2. PathBack(Y, W, r, k, g)
  BY <1>0 DEF PathBack
<1> QED
  BY <1>2 DEF LeadsBack

\* It holds where the log is empty.
LEMMA InitAudit ==
  ASSUME AuditAssumption, A!Init
  PROVE  AuditTypeOK /\ StampsOK /\ LinksOK
<1>1. /\ stamp = 0 /\ pending = [w \in Writer |-> <<>>] /\ lock = NoWriter
      /\ draft = {} /\ log = {} /\ overtaken = {} /\ MaxStamp \in Nat /\ MaxBatch \in Nat
  BY DEF A!Init, AuditAssumption
<1>2. \A w \in Writer : pending[w] = <<>> /\ Len(pending[w]) = 0
  BY <1>1, EmptySeq
<1>3. AuditTypeOK
  BY <1>1, <1>2, EmptySeq DEF AuditTypeOK
<1>4. StampsOK
  BY <1>1, <1>2 DEF StampsOK, Distinct, Coming, Apart
<1>5. LinksOK
  BY <1>1 DEF LinksOK, InOrder
<1> QED
  BY <1>3, <1>4, <1>5

\* What is known of a batch to come.
LEMMA AuditSeqs ==
  ASSUME AuditAssumption, AuditTypeOK, NEW w \in Writer
  PROVE  /\ pending[w] \in Seq(1..MaxStamp) /\ Len(pending[w]) \in Nat
         /\ DOMAIN pending[w] = 1..Len(pending[w])
         /\ \A i \in 1..Len(pending[w]) : pending[w][i] \in 1..MaxStamp
         /\ pending[w] = <<>> <=> Len(pending[w]) = 0
<1>1. pending[w] \in Seq(1..MaxStamp)
  BY DEF AuditTypeOK
<1> QED
  BY <1>1, LenProperties, ElementOfSeq, EmptySeq

\* A writer takes stamps for a batch.
LEMMA StampStep ==
  ASSUME AuditAssumption, AuditTypeOK, StampsOK, LinksOK, NEW w \in Writer, A!Stamp(w)
  PROVE  AuditTypeOK' /\ StampsOK' /\ LinksOK'
<1> DEFINE s == pending[w]
           x == stamp + 1
           X == log \cup draft
<1>1. /\ Len(s) < MaxBatch /\ stamp < MaxStamp /\ stamp' = x
      /\ pending' = [pending EXCEPT ![w] = Append(s, x)]
      /\ UNCHANGED <<lock, draft, log, overtaken>>
  BY DEF A!Stamp
<1>2. /\ x \in 1..MaxStamp /\ MaxStamp \in Nat /\ MaxBatch \in Nat /\ stamp \in Nat
      /\ x > stamp
  BY <1>1 DEF AuditTypeOK, AuditAssumption
<1>3. s \in Seq(1..MaxStamp) /\ Len(s) \in Nat
  BY AuditSeqs
<1>4. /\ Append(s, x) \in Seq(1..MaxStamp) /\ Len(Append(s, x)) = Len(s) + 1
      /\ Append(s, x)[Len(s) + 1] = x
      /\ \A i \in 1..Len(s) : Append(s, x)[i] = s[i]
  BY <1>2, <1>3, AppendProperties
<1>5. /\ pending' \in [Writer -> Seq(1..MaxStamp)] /\ pending'[w] = Append(s, x)
      /\ \A v \in Writer \ {w} : pending'[v] = pending[v]
  BY <1>1, <1>4 DEF AuditTypeOK
<1>6. AuditTypeOK'
  <2>1. \A v \in Writer : Len(pending'[v]) <= MaxBatch
    BY <1>1, <1>2, <1>3, <1>4, <1>5 DEF AuditTypeOK
  <2>2. stamp' \in 0..MaxStamp
    BY <1>1, <1>2
  <2> HIDE DEF s, x
  <2> QED
    BY <1>1, <1>5, <2>1, <2>2 DEF AuditTypeOK
<1>7. \A r \in X : r.at <= stamp /\ r.at \in Nat
  BY <1>2, RowFields DEF StampsOK, Distinct, AuditTypeOK
<1>8. \A v \in Writer : \A i \in 1..Len(pending[v]) :
        pending[v][i] <= stamp /\ pending[v][i] \in Nat
  BY AuditSeqs DEF StampsOK, Coming
<1>9. Distinct(X, x)
  BY <1>2, <1>7 DEF StampsOK, Distinct
<1>10. \A v \in Writer : Coming(pending[v], X, x)
  <2> TAKE v \in Writer
  <2>1. Coming(pending[v], X, stamp)
    BY DEF StampsOK
  <2>2. \A i \in 1..Len(pending[v]) : pending[v][i] <= x
    BY <1>2, <1>8
  <2> HIDE DEF x, X
  <2> QED
    BY <2>1, <2>2 DEF Coming
<1>11. Coming(Append(s, x), X, x)
  <2>1. x \notin Stamps(X)
    BY <1>2, <1>7 DEF Stamps
  <2>2. Coming(s, X, x) /\ \A i \in 1..Len(s) : s[i] < x
    <3>1. \A i \in 1..Len(s) : s[i] <= stamp /\ s[i] \in Nat
      BY <1>8
    <3>2. \A i \in 1..Len(s) : s[i] < x
      BY <1>2, <3>1
    <3> QED
      BY <1>10, <3>2
  <2>3. \A i \in 1..Len(Append(s, x)) : i \in 1..Len(s) \/ i = Len(s) + 1
    BY <1>3, <1>4
  <2> HIDE DEF s, x, X
  <2>4. ASSUME NEW i \in 1..Len(Append(s, x)), NEW j \in 1..Len(Append(s, x)), i < j
        PROVE  Append(s, x)[i] < Append(s, x)[j]
    <3>1. i \in 1..Len(s)
      BY <1>3, <1>4, <2>4
    <3> QED
      BY <1>4, <2>2, <2>3, <2>4, <3>1 DEF Coming
  <2>5. ASSUME NEW i \in 1..Len(Append(s, x))
        PROVE  Append(s, x)[i] <= x /\ Append(s, x)[i] \notin Stamps(X)
    BY <1>2, <1>4, <2>1, <2>2, <2>3 DEF Coming
  <2> QED
    BY <2>4, <2>5 DEF Coming
<1>12. ASSUME NEW v \in Writer \ {w}
       PROVE  Apart(Append(s, x), pending[v]) /\ Apart(pending[v], Append(s, x))
  <2>1. Apart(s, pending[v]) /\ Apart(pending[v], s)
    BY DEF StampsOK
  <2>2. \A i \in 1..Len(Append(s, x)) : i \in 1..Len(s) \/ i = Len(s) + 1
    BY <1>3, <1>4
  <2>3. \A j \in 1..Len(pending[v]) : pending[v][j] # x
    BY <1>2, <1>8
  <2> HIDE DEF s, x
  <2> QED
    BY <1>4, <2>1, <2>2, <2>3 DEF Apart
<1>13. StampsOK'
  <2>1. log' \cup draft' = X /\ log' \cap draft' = {} /\ stamp' = x
    BY <1>1 DEF StampsOK
  <2>2. \A v \in Writer : Coming(pending'[v], X, x)
    BY <1>5, <1>10, <1>11
  <2>3. \A v \in Writer : \A u \in Writer \ {v} : Apart(pending'[v], pending'[u])
    BY <1>5, <1>12 DEF StampsOK
  <2> QED
    BY <1>9, <2>1, <2>2, <2>3 DEF StampsOK
<1>14. LinksOK'
  BY <1>1 DEF LinksOK
<1> QED
  BY <1>6, <1>13, <1>14

\* What a transaction has pending goes.
LEMMA PendingCleared ==
  ASSUME AuditAssumption, AuditTypeOK, StampsOK, NEW w \in Writer,
         pending' = [pending EXCEPT ![w] = <<>>]
  PROVE  /\ pending' \in [Writer -> Seq(1..MaxStamp)]
         /\ \A v \in Writer : Len(pending'[v]) <= MaxBatch
         /\ \A v \in Writer : \A i \in 1..Len(pending'[v]) :
              v # w /\ i \in 1..Len(pending[v]) /\ pending'[v] = pending[v]
<1>1. \A v \in Writer : pending'[v] = IF v = w THEN <<>> ELSE pending[v]
  BY DEF AuditTypeOK
<1>2. Len(<<>>) = 0 /\ <<>> \in Seq(1..MaxStamp)
  BY EmptySeq
<1>3. \A v \in Writer : pending[v] \in Seq(1..MaxStamp) /\ Len(pending[v]) <= MaxBatch
  BY DEF AuditTypeOK
<1>4. pending' \in [Writer -> Seq(1..MaxStamp)]
  BY <1>2 DEF AuditTypeOK
<1> QED
  BY <1>1, <1>2, <1>3, <1>4 DEF AuditAssumption

\* The transaction of a batch commits.
LEMMA CommitStep ==
  ASSUME AuditAssumption, AuditTypeOK, StampsOK, LinksOK, NEW w \in Writer, A!Commit(w)
  PROVE  AuditTypeOK' /\ StampsOK' /\ LinksOK'
<1>1. /\ log' = log \cup draft /\ draft' = {} /\ lock' = NoWriter
      /\ UNCHANGED <<stamp, pending, overtaken>>
  BY DEF A!Commit
<1>2. log' \cup draft' = log \cup draft
  BY <1>1
<1>3. AuditTypeOK'
  BY <1>1, <1>2 DEF AuditTypeOK
<1>4. StampsOK'
  BY <1>1, <1>2 DEF StampsOK
<1>5. ASSUME NEW r \in InOrder(log, overtaken)
      PROVE  LeadsBack(log \cup draft, overtaken, r)
  <2>1. Before(log \cup draft, overtaken, r.at) = Before(log, overtaken, r.at)
    <3>1. r \in log /\ r \in A!Row
      BY DEF InOrder, AuditTypeOK
    <3>2. \A q \in InOrder(draft, overtaken) : ~(q.at < r.at) \/ q \in log
      <4> TAKE q \in InOrder(draft, overtaken)
      <4>1. r.at < q.at /\ q \in A!Row
        BY <3>1 DEF LinksOK, InOrder, AuditTypeOK
      <4> QED
        BY <3>1, <4>1, RowFields DEF AuditAssumption
    <3> QED
      BY <3>2 DEF Before, InOrder
  <2>2. LeadsBack(log, overtaken, r)
    BY DEF LinksOK
  <2> QED
    BY <2>1, <2>2, PathStays
<1>6. LinksOK'
  BY <1>1, <1>5 DEF LinksOK, InOrder
<1> QED
  BY <1>3, <1>4, <1>6

\* It is rolled back.
LEMMA RollbackStep ==
  ASSUME AuditAssumption, AuditTypeOK, StampsOK, LinksOK, NEW w \in Writer, A!Rollback(w)
  PROVE  AuditTypeOK' /\ StampsOK' /\ LinksOK'
<1>1. /\ pending' = [pending EXCEPT ![w] = <<>>] /\ UNCHANGED <<stamp, log>>
      /\ \/ lock' = NoWriter /\ draft' = {} /\ overtaken' = overtaken \ Stamps(draft)
         \/ UNCHANGED <<lock, draft, overtaken>>
  BY DEF A!Rollback, Stamps
<1>2. /\ pending' \in [Writer -> Seq(1..MaxStamp)]
      /\ \A v \in Writer : Len(pending'[v]) <= MaxBatch
      /\ \A v \in Writer : \A i \in 1..Len(pending'[v]) :
           v # w /\ i \in 1..Len(pending[v]) /\ pending'[v] = pending[v]
  BY <1>1, PendingCleared
<1>3. log' \cup draft' \subseteq log \cup draft
  BY <1>1
<1>4. AuditTypeOK'
  <2>1. overtaken' \subseteq Stamps(log' \cup draft')
    BY <1>1 DEF AuditTypeOK, Stamps
  <2> QED
    BY <1>1, <1>2, <2>1 DEF AuditTypeOK
<1>5. StampsOK'
  <2>1. Stamps(log' \cup draft') \subseteq Stamps(log \cup draft)
    BY <1>3 DEF Stamps
  <2>2. Distinct(log' \cup draft', stamp')
    BY <1>1, <1>3 DEF StampsOK, Distinct
  <2>3. ASSUME NEW v \in Writer
        PROVE  Coming(pending'[v], log' \cup draft', stamp')
    <3>1. CASE v = w
      BY <1>2, <3>1 DEF Coming
    <3>2. CASE v # w
      <4>1. pending'[v] = pending[v]
        BY <1>1, <3>2 DEF AuditTypeOK
      <4>2. Coming(pending[v], log \cup draft, stamp)
        BY DEF StampsOK
      <4> QED
        BY <1>1, <2>1, <4>1, <4>2 DEF Coming
    <3> QED
      BY <3>1, <3>2
  <2>4. ASSUME NEW v \in Writer, NEW u \in Writer \ {v}
        PROVE  Apart(pending'[v], pending'[u])
    BY <1>2 DEF StampsOK, Apart
  <2>5. log' \cap draft' = {}
    BY <1>1 DEF StampsOK
  <2> QED
    BY <2>2, <2>3, <2>4, <2>5 DEF StampsOK
<1>6. LinksOK'
  <2>1. CASE UNCHANGED <<lock, draft, overtaken>>
    BY <1>1, <2>1 DEF LinksOK
  <2>2. CASE draft' = {} /\ overtaken' = overtaken \ Stamps(draft)
    \* A committed row has another stamp than the rows that go.
    <3>1. \A r \in log : r.at \notin Stamps(draft)
      BY DEF StampsOK, Distinct, Stamps
    <3>2. \A r \in log : r.at \in overtaken <=> r.at \in overtaken'
      BY <2>2, <3>1
    <3>3. /\ InOrder(log', overtaken') = InOrder(log, overtaken)
          /\ InOrder(draft', overtaken') = {}
      BY <1>1, <2>2, <3>2 DEF InOrder
    <3>4. ASSUME NEW r \in InOrder(log, overtaken)
          PROVE  LeadsBack(log, overtaken', r)
      <4>1. Before(log, overtaken', r.at) = Before(log, overtaken, r.at)
        BY <1>1, <3>3 DEF Before
      <4>2. LeadsBack(log, overtaken, r)
        BY DEF LinksOK
      <4> QED
        BY <3>2, <4>1, <4>2, PathStays
    <3> QED
      BY <1>1, <2>2, <3>2, <3>3, <3>4 DEF LinksOK
  <2> QED
    BY <1>1, <2>1, <2>2 DEF A!Rollback
<1> QED
  BY <1>4, <1>5, <1>6

\* A batch is linked and written under the lock.
LEMMA WriteStep ==
  ASSUME AuditAssumption, AuditTypeOK, StampsOK, LinksOK, NEW w \in Writer, A!Write(w)
  PROVE  AuditTypeOK' /\ StampsOK' /\ LinksOK'
<1>1. lock' = w /\ lock = NoWriter /\ UNCHANGED <<stamp, pending, draft, log, overtaken>>
  BY DEF A!Write
<1>2. AuditTypeOK'
  BY <1>1 DEF AuditTypeOK
<1> QED
  BY <1>1, <1>2 DEF StampsOK, LinksOK

\* The i-th row of a batch that follows prev.
LastNew(prev, s, i) == [at |-> s[i], prev |-> IF i = 1 THEN prev ELSE s[i - 1]]

\* A row is stamped, linked and written under the lock.
LEMMA CreateStep ==
  ASSUME AuditAssumption, AuditTypeOK, StampsOK, LinksOK, NEW w \in Writer, A!Create(w)
  PROVE  AuditTypeOK' /\ StampsOK' /\ LinksOK'
<1> DEFINE s == pending[w]
           n == Len(s)
           X == log \cup draft
           prev == A!ChainHead(X)
           N == {LastNew(prev, s, i) : i \in 1..n}
           V == overtaken \cup {s[i] : i \in {j \in 1..n : s[j] < prev}}
<1>1. /\ s \in Seq(1..MaxStamp) /\ n \in Nat /\ DOMAIN s = 1..n
      /\ \A i \in 1..n : s[i] \in 1..MaxStamp
      /\ n # 0
  <2>1. pending[w] # <<>>
    BY DEF A!Create
  <2> QED
    BY <2>1, AuditSeqs
<1>2. /\ draft' = draft \cup N /\ overtaken' = V /\ lock' = w
      /\ pending' = [pending EXCEPT ![w] = <<>>]
      /\ UNCHANGED <<stamp, log>>
  BY <1>1 DEF A!Create, A!Linked, LastNew
<1>3. /\ pending' \in [Writer -> Seq(1..MaxStamp)]
      /\ \A v \in Writer : Len(pending'[v]) <= MaxBatch
      /\ \A v \in Writer : \A i \in 1..Len(pending'[v]) :
           v # w /\ i \in 1..Len(pending[v]) /\ pending'[v] = pending[v]
  BY <1>2, PendingCleared
<1>4. /\ X \in SUBSET A!Row /\ MaxStamp \in Nat /\ MaxBatch \in Nat /\ n <= MaxBatch
      /\ stamp \in Nat /\ NoWriter \notin Writer
  BY DEF AuditTypeOK, AuditAssumption
<1>5. /\ prev \in Stamps(X) \cup {0} /\ prev \in 0..MaxStamp
      /\ \A r \in X : r.at <= prev
  BY <1>4, HeadHas
<1>6. /\ Coming(s, X, stamp) /\ Distinct(X, stamp) /\ log \cap draft = {}
      /\ \A v \in Writer \ {w} : Apart(pending[v], s)
      /\ \A v \in Writer : Coming(pending[v], X, stamp)
  BY DEF StampsOK
<1>7. \A i \in 1..n : s[i] \in Nat /\ s[i] # prev /\ s[i] > 0
  <2>1. \A i \in 1..n : s[i] \in Nat /\ s[i] > 0 /\ s[i] \notin Stamps(X)
    <3>1. \A i \in 1..n : s[i] \in 1..MaxStamp
      BY <1>1
    <3>2. \A i \in 1..n : s[i] \notin Stamps(X)
      BY <1>6 DEF Coming
    <3> HIDE DEF s, n, X
    <3> QED
      BY <1>4, <3>1, <3>2
  <2> HIDE DEF s, n, X, prev
  <2> QED
    BY <1>5, <2>1
<1>8. \A i, j \in 1..n : i < j => s[i] < s[j]
  BY <1>6 DEF Coming
<1>9. X' = X \cup N
  BY <1>2
<1> HIDE DEF s, n, X, prev
<1>10. \A r \in N : \E i \in 1..n :
         r = LastNew(prev, s, i) /\ r.at = s[i]
         /\ r.prev = IF i = 1 THEN prev ELSE s[i - 1]
  BY DEF LastNew
<1>11. \A i \in 1..n : LastNew(prev, s, i) \in A!Row
  <2> TAKE i \in 1..n
  <2>1. i # 1 => i - 1 \in 1..n
    BY <1>1
  <2>2. s[i] \in 1..MaxStamp /\ (IF i = 1 THEN prev ELSE s[i - 1]) \in 0..MaxStamp
    BY <1>1, <1>5, <2>1
  <2> QED
    BY <2>2 DEF LastNew, A!Row
<1>12. Stamps(N) = {s[i] : i \in 1..n}
  <2>1. \A i \in 1..n : LastNew(prev, s, i).at = s[i]
    BY DEF LastNew
  <2> QED
    BY <2>1 DEF Stamps
<1>13. /\ N \subseteq A!Row /\ Stamps(X \cup N) = Stamps(X) \cup Stamps(N)
       /\ Stamps(N) \cap Stamps(X) = {}
  BY <1>6, <1>11, <1>12 DEF Stamps, Coming, n
<1>14. V \subseteq Stamps(X \cup N) /\ overtaken \subseteq Stamps(X) /\ overtaken \subseteq V
       /\ \A r \in X : r.at \in V <=> r.at \in overtaken
  <2>1. overtaken \subseteq Stamps(X)
    BY DEF AuditTypeOK, X
  <2>2. \A r \in X : r.at \in Stamps(X)
    BY DEF Stamps
  <2> QED
    BY <1>12, <1>13, <2>1, <2>2
<1>15. AuditTypeOK'
  BY <1>2, <1>3, <1>4, <1>9, <1>13, <1>14 DEF AuditTypeOK, X
<1>16. StampsOK'
  <2>1. Distinct(X \cup N, stamp)
    <3>1. \A r \in X, q \in N : r.at # q.at
      BY <1>13 DEF Stamps
    <3>2. \A q, r \in N : q.at = r.at => q = r
      <4> TAKE q, r \in N
      <4>1. PICK i \in 1..n : q = LastNew(prev, s, i) /\ q.at = s[i]
        BY <1>10
      <4>2. PICK j \in 1..n : r = LastNew(prev, s, j) /\ r.at = s[j]
        BY <1>10
      <4>3. s[i] = s[j] => i = j
        BY <1>1, <1>7, <1>8
      <4> QED
        BY <4>1, <4>2, <4>3
    <3>3. \A r \in N : r.at <= stamp
      BY <1>6, <1>10 DEF Coming, n
    <3> QED
      BY <1>6, <3>1, <3>2, <3>3 DEF Distinct
  <2>2. (log' \cup draft') = X \cup N /\ log' \cap draft' = {}
    <3>1. \A r \in log : r \notin N
      BY <1>13 DEF X, Stamps
    <3> QED
      BY <1>2, <1>6, <3>1 DEF X
  <2>3. ASSUME NEW v \in Writer
        PROVE  Coming(pending'[v], X \cup N, stamp)
    <3>1. CASE v = w
      BY <1>3, <3>1 DEF Coming
    <3>2. CASE v # w
      <4>1. pending'[v] = pending[v]
        BY <1>2, <3>2 DEF AuditTypeOK
      <4>2. Coming(pending[v], X, stamp) /\ Apart(pending[v], s)
        BY <1>6, <3>2
      <4>3. \A i \in 1..Len(pending[v]) : pending[v][i] \notin Stamps(N)
        BY <1>12, <4>2 DEF Apart, n
      <4> QED
        BY <1>13, <4>1, <4>2, <4>3 DEF Coming
    <3> QED
      BY <3>1, <3>2
  <2>4. ASSUME NEW v \in Writer, NEW u \in Writer \ {v}
        PROVE  Apart(pending'[v], pending'[u])
    BY <1>3 DEF StampsOK, Apart
  <2> QED
    BY <1>2, <2>1, <2>2, <2>3, <2>4 DEF StampsOK
<1>17. /\ InOrder(X, V) = InOrder(X, overtaken)
       /\ InOrder(N, V) = {r \in N : r.at > prev}
       /\ InOrder(log, V) = InOrder(log, overtaken)
  <2>1. \A r \in N : r.at \in V <=> r.at < prev
    BY <1>10, <1>12, <1>13, <1>14
  <2>2. \A r \in N : r.at \in Nat /\ r.at # prev
    BY <1>7, <1>10
  <2>3. prev \in Nat
    BY <1>5
  <2> QED
    BY <1>14, <2>1, <2>2, <2>3 DEF InOrder, X
<1>18. prev # 0 => prev \in Stamps(InOrder(X, V))
  <2> SUFFICES ASSUME prev # 0 PROVE prev \in Stamps(InOrder(X, V))
    OBVIOUS
  <2>1. PICK r \in X : r.at = prev
    BY <1>5 DEF Stamps
  <2>2. r.at \notin overtaken
    <3>1. \A q \in X : q.at <= r.at /\ q.at \in Nat /\ r.at \in Nat
      BY <1>4, <1>5, <2>1, RowFields
    <3>2. r.at \in overtaken => \E q \in X : r.at < q.at
      BY DEF LinksOK, X
    <3> QED
      BY <3>1, <3>2
  <2> QED
    BY <1>17, <2>1, <2>2 DEF InOrder, Stamps
<1>19. ASSUME NEW r \in X
       PROVE  Before(X \cup N, V, r.at) = Before(X, overtaken, r.at)
  <2>1. \A q \in InOrder(N, V) : ~(q.at < r.at)
    <3>1. r.at <= prev /\ r.at \in Nat /\ prev \in Nat
      BY <1>4, <1>5, RowFields
    <3> QED
      BY <1>7, <1>10, <1>17, <3>1
  <2>2. InOrder(X \cup N, V) = InOrder(X, V) \cup InOrder(N, V)
    BY DEF InOrder
  <2> QED
    BY <1>17, <2>1, <2>2 DEF Before
<1>20. ASSUME NEW r \in InOrder(N, V)
       PROVE  LeadsBack(X \cup N, V, r)
  <2> DEFINE B0 == Before(X \cup N, V, r.at)
  <2>1. PICK i \in 1..n : r = LastNew(prev, s, i) /\ r.at = s[i]
                          /\ r.prev = IF i = 1 THEN prev ELSE s[i - 1]
    BY <1>10 DEF InOrder
  <2>2. s[i] > prev /\ prev \in Nat
    BY <1>5, <1>17, <2>1
  <2>3. B0 \in SUBSET A!Row
    BY <1>4, <1>13 DEF Before, InOrder
  <2>4. InOrder(X \cup N, V) = InOrder(X, V) \cup InOrder(N, V)
    BY DEF InOrder
  <2>5. InOrder(X, V) \subseteq B0
    <3>1. \A q \in InOrder(X, V) : q.at <= prev /\ q.at \in Nat
      BY <1>4, <1>5, RowFields DEF InOrder
    <3>2. \A q \in InOrder(X, V) : q.at < r.at
      BY <2>1, <2>2, <1>7, <3>1
    <3> QED
      BY <2>4, <3>2 DEF Before
  <2>6. \A q \in B0 : \/ q.at <= prev
                      \/ \E m \in 1..n : m < i /\ q.at = s[m] /\ s[m] > prev
    <3> TAKE q \in B0
    <3>1. q.at < r.at /\ q \in InOrder(X, V) \cup InOrder(N, V)
      BY <2>4 DEF Before
    <3>2. CASE q \in InOrder(X, V)
      BY <1>5, <3>2 DEF InOrder
    <3>3. CASE q \in InOrder(N, V)
      <4>1. q \in N /\ q.at > prev
        BY <1>17, <3>3
      <4>2. PICK m \in 1..n : q.at = s[m]
        BY <1>10, <4>1
      <4>3. m < i
        BY <1>1, <1>7, <1>8, <2>1, <3>1, <4>2
      <4> QED
        BY <4>1, <4>2, <4>3
    <3> QED
      BY <3>1, <3>2, <3>3
  <2>7. CASE i = 1 \/ s[i - 1] < prev
    <3>1. \A j \in 1..i - 1 : s[j] < prev
      <4> TAKE j \in 1..i - 1
      <4>1. i - 1 \in 1..n /\ j \in 1..n /\ s[i - 1] < prev /\ i \in Nat
        BY <1>1, <2>7
      <4>2. j = i - 1 \/ s[j] < s[i - 1]
        BY <1>8, <4>1
      <4> QED
        BY <1>7, <2>2, <4>1, <4>2
    <3>2. \A q \in B0 : q.at <= prev
      BY <1>1, <1>7, <2>2, <2>6, <3>1
    <3>3. prev \in Stamps(B0) \cup {0}
      BY <1>18, <2>5 DEF Stamps
    <3>4. A!ChainHead(B0) = prev
      <4> HIDE DEF B0
      <4> QED
        BY <1>4, <2>3, <3>2, <3>3, HeadIs
    <3> DEFINE k == i - 1
               g == [j \in 0..k |-> IF j = k THEN prev ELSE s[k - j]]
    <3>5. k \in 0..MaxBatch /\ k \in Nat /\ k < n /\ i = k + 1
      BY <1>1, <1>4
    <3> HIDE DEF B0, N, V, k
    <3>6. g \in [0..k -> 0..MaxStamp]
      <4> SUFFICES ASSUME NEW j \in 0..k
                   PROVE  (IF j = k THEN prev ELSE s[k - j]) \in 0..MaxStamp
        OBVIOUS
      <4>1. j # k => k - j \in 1..n
        BY <1>1, <3>5
      <4> QED
        BY <1>1, <1>5, <4>1
    <3>7. g[0] = r.prev
      <4>1. 0 \in 0..k
        BY <3>5
      <4>2. g[0] = IF 0 = k THEN prev ELSE s[k]
        BY <3>5, <4>1
      <4> QED
        BY <2>1, <3>5, <4>2
    <3>8. g[k] = A!ChainHead(B0)
      BY <3>4, <3>5
    <3>9. ASSUME NEW j \in 0..k - 1
          PROVE  g[j] \in V /\ \E q \in X \cup N : q.at = g[j] /\ q.prev = g[j + 1]
      <4> DEFINE m == k - j
      <4>1. m \in 1..n /\ m \in 1..k /\ j \in 0..k /\ j + 1 \in 0..k /\ j # k
        BY <1>1, <3>5
      <4>2. g[j] = s[m]
        BY <4>1
      <4>3. s[m] < prev
        BY <3>1, <3>5, <4>1 DEF k
      <4>4. g[j + 1] = IF m = 1 THEN prev ELSE s[m - 1]
        <5>1. j + 1 = k <=> m = 1
          BY <3>5, <4>1
        <5>2. k - (j + 1) = m - 1
          BY <3>5
        <5> QED
          BY <4>1, <5>1, <5>2
      <4>5. LastNew(prev, s, m) \in N /\ LastNew(prev, s, m).at = s[m]
            /\ LastNew(prev, s, m).prev = IF m = 1 THEN prev ELSE s[m - 1]
        BY <4>1 DEF LastNew, N
      <4>6. s[m] \in V
        BY <4>1, <4>3 DEF V
      <4> HIDE DEF m, g
      <4> QED
        BY <4>2, <4>4, <4>5, <4>6
    <3> HIDE DEF g
    <3>10. PathBack(X \cup N, V, r, k, g)
      BY <3>7, <3>8, <3>9 DEF PathBack, B0
    <3> QED
      BY <3>5, <3>6, <3>10 DEF LeadsBack
  <2>8. CASE i # 1 /\ s[i - 1] > prev
    <3>1. i - 1 \in 1..n /\ i - 1 < i /\ i \in Nat
      BY <1>1, <2>8
    <3> DEFINE x == s[i - 1]
               q == LastNew(prev, s, i - 1)
    <3>2. q \in N /\ q.at = x /\ x > prev /\ x < s[i] /\ x \in Nat
      BY <1>7, <1>8, <2>8, <3>1 DEF LastNew
    <3>3. q \in InOrder(N, V)
      BY <1>17, <3>2
    <3>4. x \in Stamps(B0)
      <4> HIDE DEF q, x
      <4> QED
        BY <2>1, <2>4, <3>2, <3>3 DEF Stamps, Before
    <3>5. \A p \in B0 : p.at <= x
      <4> TAKE p \in B0
      <4>1. CASE p.at <= prev
        <5>1. p \in A!Row
          BY <2>3
        <5> QED
          BY <1>4, <2>2, <3>2, <4>1, <5>1, RowFields
      <4>2. CASE \E m \in 1..n : m < i /\ p.at = s[m] /\ s[m] > prev
        <5>1. PICK m \in 1..n : m < i /\ p.at = s[m]
          BY <4>2
        <5>2. m = i - 1 \/ m < i - 1
          BY <1>1, <3>1, <5>1
        <5> QED
          BY <1>7, <1>8, <3>1, <3>2, <5>1, <5>2
      <4> QED
        BY <2>6, <4>1, <4>2
    <3>6. A!ChainHead(B0) = x
      <4> HIDE DEF B0, x
      <4> QED
        BY <1>4, <2>3, <3>4, <3>5, HeadIs
    <3> DEFINE g == [j \in 0..0 |-> x]
    <3>7. x \in 0..MaxStamp /\ r.prev = x
      BY <1>1, <2>1, <2>8, <3>1
    <3> HIDE DEF B0, x, N, V
    <3>8. g \in [0..0 -> 0..MaxStamp] /\ g[0] = x /\ 0 \in 0..MaxBatch
      BY <1>4, <3>7
    <3> HIDE DEF g
    <3>9. PathBack(X \cup N, V, r, 0, g)
      BY <3>6, <3>7, <3>8 DEF PathBack, B0
    <3> QED
      BY <3>8, <3>9 DEF LeadsBack
  <2>9. i # 1 => i - 1 \in 1..n
    BY <1>1
  <2> QED
    BY <1>7, <2>2, <2>7, <2>8, <2>9
<1>21. LinksOK'
  <2>1. \A r \in log : r.at \in V => \E q \in log : r.at < q.at
    BY <1>14 DEF LinksOK, X
  <2>2. \A r \in draft \cup N : r.at \in V => \E q \in X \cup N : r.at < q.at
    <3> TAKE r \in draft \cup N
    <3>1. CASE r \in draft
      BY <1>14, <3>1 DEF LinksOK, X
    <3>2. CASE r \in N /\ r.at \in V
      <4>1. r.at < prev /\ r.at \in Nat
        BY <1>7, <1>10, <1>17, <3>2, <1>5 DEF InOrder
      <4>2. prev \in Stamps(X)
        BY <1>5, <4>1
      <4> QED
        BY <4>1, <4>2 DEF Stamps
    <3> QED
      BY <3>1, <3>2
  <2>3. ASSUME NEW r \in InOrder(draft \cup N, V), NEW q \in log
        PROVE  q.at < r.at
    <3>1. CASE r \in N
      <4>1. r.at > prev /\ q.at <= prev /\ q.at \in Nat /\ r.at \in Nat /\ prev \in Nat
        BY <1>4, <1>5, <1>7, <1>10, <1>17, <3>1, <2>3, RowFields DEF InOrder, X
      <4> QED
        BY <4>1
    <3>2. CASE r \in draft
      <4>1. r \in InOrder(draft, overtaken)
        BY <1>14, <2>3, <3>2 DEF InOrder, X
      <4> QED
        BY <4>1 DEF LinksOK
    <3> QED
      BY <2>3, <3>1, <3>2 DEF InOrder
  <2>4. ASSUME NEW r \in InOrder(log, V)
        PROVE  LeadsBack(log, V, r)
    <3>1. r \in InOrder(log, overtaken) /\ LeadsBack(log, overtaken, r)
      BY <1>17 DEF LinksOK
    <3>2. Before(log, V, r.at) = Before(log, overtaken, r.at)
      BY <1>17 DEF Before
    <3>3. \A q \in log : q.at \in overtaken => q.at \in V
      BY <1>14
    <3> HIDE DEF V
    <3> QED
      BY <3>1, <3>2, <3>3, PathStays
  <2>5. ASSUME NEW r \in InOrder(draft \cup N, V)
        PROVE  LeadsBack(X \cup N, V, r)
    <3>1. CASE r \in N
      BY <1>20, <2>5, <3>1 DEF InOrder
    <3>2. CASE r \in draft
      <4>1. r \in InOrder(draft, overtaken) /\ r \in X
        BY <1>14, <2>5, <3>2 DEF InOrder, X
      <4>2. LeadsBack(X, overtaken, r)
        BY <4>1 DEF LinksOK, X
      <4>3. \A q \in X : q.at \in overtaken => q.at \in V
        BY <1>14
      <4>4. Before(X \cup N, V, r.at) = Before(X, overtaken, r.at)
        BY <1>19, <4>1
      <4> HIDE DEF V, N
      <4> QED
        BY <4>2, <4>3, <4>4, PathStays
    <3> QED
      BY <2>5, <3>1, <3>2 DEF InOrder
  <2>6. log' = log /\ draft' = draft \cup N /\ overtaken' = V
        /\ log' \cup draft' = X \cup N
    BY <1>2 DEF X
  <2> HIDE DEF N, V
  <2> QED
    BY <2>1, <2>2, <2>3, <2>4, <2>5, <2>6 DEF LinksOK
<1> QED
  BY <1>15, <1>16, <1>21

\* The step that Ancestor of the model takes, as long as rows were overtaken.
AncestorStep(f, r, k) ==
  IF k = 0 THEN r.prev
  ELSE IF f[k - 1] \in overtaken THEN A!Prev(f[k - 1]) ELSE f[k - 1]

\* f are these steps, up to n.
AncestorsTo(f, r, n) == f = [k \in 0..n |-> AncestorStep(f, r, k)]

\* There are such steps.
LEMMA AncestorsExist ==
  ASSUME NEW r
  PROVE  \A n \in Nat : \E f : AncestorsTo(f, r, n)
<1> DEFINE T == {n \in Nat : \E f : AncestorsTo(f, r, n)}
<1>1. 0 \in T
  <2> DEFINE f == [k \in 0..0 |-> r.prev]
  <2>1. \A k \in 0..0 : AncestorStep(f, r, k) = r.prev
    BY DEF AncestorStep
  <2> QED
    BY <2>1 DEF AncestorsTo
<1>2. ASSUME NEW n \in Nat, n \in T
      PROVE  n + 1 \in T
  <2>1. PICK f : AncestorsTo(f, r, n)
    BY <1>2
  <2> DEFINE g == [k \in 0..n + 1 |-> AncestorStep(f, r, k)]
  <2>2. \A k \in 0..n : g[k] = f[k]
    <3>1. \A k \in 0..n : k \in 0..n + 1 /\ f[k] = AncestorStep(f, r, k)
      BY <2>1 DEF AncestorsTo
    <3> QED
      BY <3>1
  <2>3. \A k \in 0..n + 1 : k = 0 \/ k - 1 \in 0..n
    OBVIOUS
  <2>4. \A k \in 0..n + 1 : AncestorStep(g, r, k) = AncestorStep(f, r, k)
    <3> TAKE k \in 0..n + 1
    <3> HIDE DEF g
    <3>1. k = 0 \/ g[k - 1] = f[k - 1]
      BY <2>2, <2>3
    <3> QED
      BY <3>1 DEF AncestorStep
  <2>5. AncestorsTo(g, r, n + 1)
    BY <2>4 DEF AncestorsTo
  <2> QED
    BY <2>5
<1> HIDE DEF T
<1>3. \A n \in Nat : n \in T
  BY <1>1, <1>2, Induct
<1> QED
  BY <1>3 DEF T

\* A row that leads back to another through overtaken rows has it as its
\* ancestor, if that one is not overtaken itself.
LEMMA AncestorIs ==
  ASSUME AuditAssumption, StampsOK, AuditTypeOK, NEW r \in log,
         LeadsBack(log, overtaken, r),
         A!ChainHead(Before(log, overtaken, r.at)) \notin overtaken
  PROVE  A!Ancestor(r) = A!ChainHead(Before(log, overtaken, r.at))
<1> DEFINE h == A!ChainHead(Before(log, overtaken, r.at))
           f == CHOOSE f : AncestorsTo(f, r, MaxBatch)
<1>1. PICK k \in 0..MaxBatch : \E g \in [0..k -> 0..MaxStamp] :
                                 PathBack(log, overtaken, r, k, g)
  BY DEF LeadsBack
<1>2. PICK g \in [0..k -> 0..MaxStamp] : PathBack(log, overtaken, r, k, g)
  BY <1>1
<1>3. MaxBatch \in Nat /\ k \in Nat /\ k <= MaxBatch
  BY DEF AuditAssumption
<1>4. A!Ancestor(r) = f[MaxBatch]
  BY DEF A!Ancestor, AncestorsTo, AncestorStep
<1>5. AncestorsTo(f, r, MaxBatch)
  BY <1>3, AncestorsExist
<1> HIDE DEF f
<1>6. \A j \in 0..MaxBatch : f[j] = AncestorStep(f, r, j)
  BY <1>5 DEF AncestorsTo
<1>7. /\ g[0] = r.prev /\ g[k] = h /\ h \notin overtaken
      /\ \A j \in 0..k - 1 : g[j] \in overtaken
                             /\ \E q \in log : q.at = g[j] /\ q.prev = g[j + 1]
  BY <1>2 DEF PathBack
<1>8. \A q \in log : A!Prev(q.at) = q.prev
  <2> TAKE q \in log
  <2>1. \A p \in log : p.at = q.at => p = q
    BY DEF StampsOK, Distinct
  <2>2. (CHOOSE p \in log : p.at = q.at) = q
    BY <2>1
  <2> QED
    BY <2>2 DEF A!Prev
<1> HIDE DEF h
<1> DEFINE T == {j \in Nat : j <= MaxBatch => f[j] = IF j <= k THEN g[j] ELSE h}
<1>9. 0 \in T
  BY <1>3, <1>6, <1>7 DEF AncestorStep
<1>10. ASSUME NEW j \in Nat, j \in T
       PROVE  j + 1 \in T
  <2> SUFFICES ASSUME j + 1 <= MaxBatch
               PROVE  f[j + 1] = IF j + 1 <= k THEN g[j + 1] ELSE h
    OBVIOUS
  <2>1. /\ j + 1 \in 0..MaxBatch /\ j + 1 # 0 /\ (j + 1) - 1 = j
        /\ f[j] = IF j <= k THEN g[j] ELSE h
    BY <1>3, <1>10
  <2>2. f[j + 1] = IF f[j] \in overtaken THEN A!Prev(f[j]) ELSE f[j]
    BY <1>6, <2>1 DEF AncestorStep
  <2>3. CASE j + 1 <= k
    <3>1. j \in 0..k - 1 /\ j <= k
      BY <1>3, <2>3
    <3>2. f[j] = g[j] /\ g[j] \in overtaken /\ A!Prev(g[j]) = g[j + 1]
      BY <1>7, <1>8, <2>1, <3>1
    <3> QED
      BY <2>2, <2>3, <3>2
  <2>4. CASE ~(j + 1 <= k)
    <3>1. f[j] = h
      BY <1>3, <1>7, <2>1, <2>4
    <3> QED
      BY <1>7, <2>2, <2>4, <3>1
  <2> QED
    BY <2>3, <2>4
<1> HIDE DEF T
<1>11. \A j \in Nat : j \in T
  BY <1>9, <1>10, Induct
<1>12. f[MaxBatch] = IF MaxBatch <= k THEN g[MaxBatch] ELSE h
  BY <1>3, <1>11 DEF T
<1>13. f[MaxBatch] = h
  BY <1>3, <1>7, <1>12
<1> QED
  BY <1>4, <1>13 DEF h

\* It is enough for what HistoryIsTrue says of AuditChain.
LEMMA AuditLinked ==
  ASSUME AuditAssumption, AuditTypeOK, StampsOK, LinksOK
  PROVE  A!LinkedInOrder
<1> DEFINE inOrder == {r \in log : r.at \notin overtaken}
<1>1. MaxStamp \in Nat /\ log \subseteq A!Row /\ 0 \notin overtaken
  <2>1. \A r \in log \cup draft : r.at # 0
    BY RowFields DEF AuditTypeOK, AuditAssumption
  <2>2. 0 \notin Stamps(log \cup draft)
    BY <2>1 DEF Stamps
  <2> QED
    BY <2>2 DEF AuditTypeOK, AuditAssumption
<1>2. ASSUME NEW r \in inOrder
      PROVE  A!Ancestor(r) = A!ChainHead({q \in inOrder : q.at < r.at})
  <2>1. {q \in inOrder : q.at < r.at} = Before(log, overtaken, r.at)
    BY DEF Before, InOrder
  <2>2. LeadsBack(log, overtaken, r)
    BY DEF LinksOK, InOrder
  <2>3. Before(log, overtaken, r.at) \in SUBSET A!Row
    BY <1>1 DEF Before, InOrder
  <2>4. A!ChainHead(Before(log, overtaken, r.at))
          \in Stamps(Before(log, overtaken, r.at)) \cup {0}
    BY <1>1, <2>3, HeadHas
  <2>5. A!ChainHead(Before(log, overtaken, r.at)) \notin overtaken
    BY <1>1, <2>4 DEF Stamps, Before, InOrder
  <2>6. A!Ancestor(r) = A!ChainHead(Before(log, overtaken, r.at))
    BY <2>2, <2>5, AncestorIs
  <2> QED
    BY <2>1, <2>6
<1>3. ASSUME overtaken = {}, NEW r \in log
      PROVE  r.prev = A!ChainHead({q \in log : q.at < r.at})
  <2>1. {q \in log : q.at < r.at} = Before(log, overtaken, r.at)
    BY <1>3 DEF Before, InOrder
  <2>2. LeadsBack(log, overtaken, r)
    BY <1>3 DEF LinksOK, InOrder
  <2>3. PICK k \in 0..MaxBatch : \E g \in [0..k -> 0..MaxStamp] :
                                   PathBack(log, overtaken, r, k, g)
    BY <2>2 DEF LeadsBack
  <2>4. PICK g \in [0..k -> 0..MaxStamp] : PathBack(log, overtaken, r, k, g)
    BY <2>3
  <2>5. k \in Nat
    BY DEF AuditAssumption
  <2>6. k = 0
    BY <1>3, <2>4, <2>5 DEF PathBack
  <2> QED
    BY <2>1, <2>4, <2>6 DEF PathBack
<1> QED
  BY <1>2, <1>3 DEF A!LinkedInOrder, A!Intact

\* A step of the audit log keeps the chain.
LEMMA AuditSteps ==
  ASSUME AuditAssumption, AuditTypeOK, StampsOK, LinksOK, [A!Next]_(A!vars)
  PROVE  AuditTypeOK' /\ StampsOK' /\ LinksOK'
<1>1. CASE UNCHANGED A!vars
  BY <1>1 DEF A!vars, AuditTypeOK, StampsOK, LinksOK
<1>2. CASE A!Next
  BY <1>2, WriteStep, StampStep, CreateStep, CommitStep, RollbackStep DEF A!Next
<1> QED
  BY <1>1, <1>2

-----------------------------------------------------------------------------
(* Conversations.                                                          *)

C == INSTANCE Conversations WITH call <- talk

\* The messages are bounded by a number.
ChatAssumption == MaxMessages \in Nat

\* The messages.
Said == [request : Chat, role : {"user", "assistant"}]
\* Where a request stands, and what it has read.
TalkRow ==
  [at : {"idle", "load", "trim", "delete", "question", "act", "commit", "answer",
         "answered", "done"},
   op : {"none", "chat", "show", "delete", "info", "task", "preference"},
   conv : Chat \cup {NoConv}, newest : SUBSET Said, all : SUBSET Said]

\* The conversations, messages and requests keep their ranges.
ChatTypes(E, V, T, F, X, W) ==
  /\ E \subseteq Chat /\ V \in [Chat -> Seq(Said)] /\ T \in [C!Request -> TalkRow]
  /\ F \subseteq Chat /\ X \subseteq Said /\ W \subseteq Chat
  /\ \A k \in Chat : Len(V[k]) <= MaxMessages

\* A conversation that exists was begun, and one that does not has no messages.
BegunOK(E, V, T) ==
  /\ \A k \in Chat : IF k \in E THEN T[k].at # "idle" ELSE V[k] = <<>>
  /\ \A r \in C!Request : T[r].at # "idle" => T[r].conv \in Chat /\ T[T[r].conv].at # "idle"

\* The places of a request that is in its turn of a chat.
Speaking == {"question", "act", "commit", "answer", "answered"}
\* The places at which it has asked.
Asked == {"act", "commit", "answer", "answered"}

\* What a request relies on, whose record is c: what it may delete is excused,
\* what it said is there, and what it reports is committed.
TalkOK(r, c, E, V, F, X, W) ==
  /\ c.at \in Speaking \/ (c.at \in {"load", "trim"} /\ c.op = "chat") => r \in Chat
  /\ c.at = "load" => Range(V[c.conv]) \ c.newest \subseteq X
  /\ c.at = "trim" => c.all \ c.newest \subseteq X
  /\ c.at \in Asked /\ c.conv \in E => C!QuestionOf(r) \in Range(V[c.conv]) \cup X
  /\ c.at = "answered" /\ c.conv \in E => C!AnswerOf(r) \in Range(V[c.conv]) \cup X
  /\ c.at \in {"answer", "answered"} /\ c.op # "info" => r \in F \cup W

\* Every answer in a conversation has its question before it, or excused, and
\* is the answer of a request that has answered.
LedBy(s, X) ==
  \A i \in 1..Len(s) : s[i].role = "assistant" =>
    \/ C!QuestionOf(s[i].request) \in X
    \/ \E j \in 1..i - 1 : s[j] = C!QuestionOf(s[i].request)
\* An answer is there only when its request is at its end.
AnsweredBy(s, T) ==
  \A m \in Range(s) : m.role = "assistant" => T[m.request].at = "answered"

\* What a step of the conversations preserves.
ChatOK(E, V, T, F, X, W) ==
  /\ ChatTypes(E, V, T, F, X, W) /\ BegunOK(E, V, T)
  /\ \A r \in C!Request : TalkOK(r, T[r], E, V, F, X, W)
  /\ \A k \in Chat : LedBy(V[k], X) /\ AnsweredBy(V[k], T)

\* The module keeps as this one does.
LEMMA ChatKeeps ==
  ASSUME NEW s, NEW kept
  PROVE  C!Keep(s, kept) = Keep(s, kept)
  BY DEF C!Keep, Keep

\* Its rows are the elements of the sequence.
LEMMA RowsAreRange ==
  ASSUME NEW k
  PROVE  C!Rows(k) = Range(messages[k])
  BY DEF C!Rows, Range

\* An answer may be appended after its question.
LEMMA LedAppended ==
  ASSUME NEW s \in Seq(Said), NEW x \in Said, NEW X
  PROVE  LedBy(Append(s, x), X)
           <=> /\ LedBy(s, X)
               /\ x.role = "assistant" => C!QuestionOf(x.request) \in X \cup Range(s)
<1> DEFINE t == Append(s, x)
           n == Len(s)
<1>1. /\ n \in Nat /\ Len(t) = n + 1 /\ t[n + 1] = x /\ \A i \in 1..n : t[i] = s[i]
      /\ Range(s) = {s[i] : i \in 1..n}
  BY DEF Range
<1> HIDE DEF t, n
<1>2. ASSUME LedBy(t, X) PROVE LedBy(s, X)
  <2> SUFFICES ASSUME NEW i \in 1..Len(s), s[i].role = "assistant"
               PROVE  \/ C!QuestionOf(s[i].request) \in X
                      \/ \E j \in 1..i - 1 : s[j] = C!QuestionOf(s[i].request)
    BY DEF LedBy
  <2>1. i \in 1..n /\ i \in 1..Len(t) /\ t[i] = s[i]
    BY <1>1 DEF n
  <2>2. \/ C!QuestionOf(s[i].request) \in X
        \/ \E j \in 1..i - 1 : t[j] = C!QuestionOf(s[i].request)
    BY <1>2, <2>1 DEF LedBy
  <2>3. \A j \in 1..i - 1 : t[j] = s[j]
    BY <1>1, <2>1
  <2> QED
    BY <2>2, <2>3
<1>3. ASSUME LedBy(t, X), x.role = "assistant"
      PROVE  C!QuestionOf(x.request) \in X \cup Range(s)
  <2>1. n + 1 \in 1..Len(t)
    BY <1>1
  <2>2. \/ C!QuestionOf(x.request) \in X
        \/ \E j \in 1..(n + 1) - 1 : t[j] = C!QuestionOf(x.request)
    BY <1>1, <1>3, <2>1 DEF LedBy
  <2>3. \A j \in 1..(n + 1) - 1 : t[j] \in Range(s)
    BY <1>1
  <2> QED
    BY <2>2, <2>3
<1>4. ASSUME LedBy(s, X),
             x.role = "assistant" => C!QuestionOf(x.request) \in X \cup Range(s)
      PROVE  LedBy(t, X)
  <2> SUFFICES ASSUME NEW i \in 1..Len(t), t[i].role = "assistant"
               PROVE  \/ C!QuestionOf(t[i].request) \in X
                      \/ \E j \in 1..i - 1 : t[j] = C!QuestionOf(t[i].request)
    BY DEF LedBy
  <2>1. CASE i = n + 1
    <3>1. t[i] = x
      BY <1>1, <2>1
    <3>2. C!QuestionOf(x.request) \in X \cup Range(s)
      BY <1>4, <3>1
    <3>3. \A y \in Range(s) : \E j \in 1..i - 1 : t[j] = y
      BY <1>1, <2>1
    <3> QED
      BY <3>1, <3>2, <3>3
  <2>2. CASE i \in 1..n
    <3>1. t[i] = s[i] /\ i \in 1..Len(s)
      BY <1>1, <2>2 DEF n
    <3>2. \/ C!QuestionOf(s[i].request) \in X
          \/ \E j \in 1..i - 1 : s[j] = C!QuestionOf(s[i].request)
      BY <1>4, <3>1 DEF LedBy
    <3>3. \A j \in 1..i - 1 : t[j] = s[j]
      BY <1>1, <2>2
    <3> QED
      BY <3>1, <3>2, <3>3
  <2> QED
    BY <1>1, <2>1, <2>2
<1> QED
  BY <1>2, <1>3, <1>4 DEF t

\* Where nothing is said no question is missed.
LEMMA LedEmpty == ASSUME NEW X PROVE LedBy(<<>>, X)
  BY OfEmpty DEF LedBy

\* What is removed with an excuse leaves the others led.
LEMMA KeepLed ==
  ASSUME NEW s \in Seq(Said), NEW kept, NEW X, LedBy(s, X), Range(s) \ kept \subseteq X
  PROVE  LedBy(Keep(s, kept), X)
<1> DEFINE Fit(z) == Range(z) \ kept \subseteq X
           T == {z \in Seq(Said) : LedBy(z, X) /\ Fit(z) => LedBy(Keep(z, kept), X)}
<1>1. <<>> \in T
  <2>1. <<>> \in Seq(Said) /\ Keep(<<>>, kept) = <<>> /\ LedBy(<<>>, X)
    BY KeepEmpty, OfEmpty, LedEmpty
  <2> QED
    BY <2>1
<1>2. ASSUME NEW z \in Seq(Said), NEW x \in Said, z \in T PROVE Append(z, x) \in T
  <2>1. Append(z, x) \in Seq(Said)
    BY AppendProperties
  <2> SUFFICES ASSUME LedBy(Append(z, x), X), Fit(Append(z, x))
               PROVE  LedBy(Keep(Append(z, x), kept), X)
    BY <2>1
  <2>2. Range(Append(z, x)) = Range(z) \cup {x}
    BY RangeAppended
  <2>3. LedBy(Keep(z, kept), X)
    BY <1>2, <2>2, LedAppended
  <2>4. /\ Keep(z, kept) \in Seq(Said) /\ Range(Keep(z, kept)) = Range(z) \cap kept
    BY KeepSeq
  <2>5. Keep(Append(z, x), kept)
          = IF x \in kept THEN Append(Keep(z, kept), x) ELSE Keep(z, kept)
    BY KeepAppend
  <2>6. x.role = "assistant" =>
          C!QuestionOf(x.request) \in X \cup Range(Keep(z, kept))
    BY <2>2, <2>4, LedAppended
  <2>7. LedBy(Append(Keep(z, kept), x), X)
    BY <2>3, <2>4, <2>6, LedAppended
  <2> QED
    BY <2>3, <2>5, <2>7
<1> HIDE DEF T
<1>3. Seq(Said) \subseteq T
  BY <1>1, <1>2, SeqInduct
<1> QED
  BY <1>3 DEF T

\* A request at rest.
LEMMA IdleRow == C!Idle \in TalkRow
  BY DEF C!Idle, TalkRow

\* It holds where nothing is said.
LEMMA InitChat ==
  ASSUME ChatAssumption, C!Init
  PROVE  ChatOK(exists, messages, talk, effects, excused, swallowed)
<1>1. C!Idle \in TalkRow
  BY IdleRow
<1>2. /\ exists = {} /\ messages = [k \in Chat |-> <<>>]
      /\ talk = [r \in C!Request |-> C!Idle]
      /\ effects = {} /\ excused = {} /\ swallowed = {}
  BY DEF C!Init
<1>3. /\ <<>> \in Seq(Said) /\ Len(<<>>) = 0 /\ Range(<<>>) = {}
  BY OfEmpty
<1>4. ChatTypes(exists, messages, talk, effects, excused, swallowed)
  BY <1>1, <1>2, <1>3 DEF ChatTypes, ChatAssumption
<1>5. \A r \in C!Request : talk[r] = C!Idle /\ talk[r].at = "idle"
  BY <1>2 DEF C!Idle
<1>6. BegunOK(exists, messages, talk)
  BY <1>2, <1>5 DEF BegunOK
<1>7. ASSUME NEW r \in C!Request
      PROVE  TalkOK(r, talk[r], exists, messages, effects, excused, swallowed)
  BY <1>5 DEF TalkOK, Speaking, Asked
<1>8. ASSUME NEW k \in Chat PROVE LedBy(messages[k], excused) /\ AnsweredBy(messages[k], talk)
  BY <1>2, <1>3, LedEmpty DEF AnsweredBy
<1> QED
  BY <1>4, <1>6, <1>7, <1>8 DEF ChatOK

\* What a step of r leaves alone for the others.
LeftTo(r) ==
  \A k \in Chat :
    /\ IF k \in exists' THEN k \in exists \/ (k = r /\ talk[r].at = "idle") ELSE messages'[k] = <<>>
    /\ k \in exists' \cap exists => Range(messages[k]) \subseteq Range(messages'[k]) \cup excused'
    /\ \/ Range(messages'[k]) \subseteq Range(messages[k]) \cup excused'
       \/ \A q \in C!Request : talk[q].at = "load" => talk[q].conv # k

\* What one request does leaves true what is known of the others.
LEMMA OthersTalk ==
  ASSUME ChatOK(exists, messages, talk, effects, excused, swallowed),
         NEW r \in C!Request,
         excused \subseteq excused', effects \subseteq effects',
         swallowed \subseteq swallowed',
         LeftTo(r),
         NEW q \in C!Request, q # r
  PROVE  TalkOK(q, talk[q], exists', messages', effects', excused', swallowed')
<1> DEFINE d == talk[q]
           k == d.conv
<1>1. /\ TalkOK(q, d, exists, messages, effects, excused, swallowed)
      /\ d.at # "idle" => k \in Chat /\ talk[k].at # "idle"
  BY DEF ChatOK, BegunOK
<1>2. CASE d.at = "idle"
  BY <1>2 DEF TalkOK, Speaking, Asked
<1>3. CASE d.at # "idle"
  <2>1. /\ k \in Chat /\ (k \in exists' => k \in exists)
        /\ k \in exists' => Range(messages[k]) \subseteq Range(messages'[k]) \cup excused'
    BY <1>1, <1>3 DEF LeftTo
  <2>2. d.at = "load" => Range(messages'[k]) \subseteq Range(messages[k]) \cup excused'
    BY <1>1, <1>3 DEF LeftTo
  <2> HIDE DEF k
  <2>3. k = d.conv
    BY DEF k
  <2> HIDE DEF d
  <2>4. TalkOK(q, d, exists', messages', effects', excused', swallowed')
    BY <1>1, <2>1, <2>2, <2>3 DEF TalkOK, Speaking, Asked
  <2> QED
    BY <2>4 DEF d
<1> QED
  BY <1>2, <1>3

\* What is to be shown of a step of one request.
LEMMA ChatMoves ==
  ASSUME ChatOK(exists, messages, talk, effects, excused, swallowed),
         NEW r \in C!Request, NEW c \in TalkRow, c.at # "idle", talk[r].at # "answered",
         c.conv \in Chat, c.conv = r \/ talk[c.conv].at # "idle",
         exists' \subseteq Chat, effects \subseteq effects', effects' \subseteq Chat,
         excused \subseteq excused',
         excused' \subseteq Said, swallowed \subseteq swallowed', swallowed' \subseteq Chat,
         messages' \in [Chat -> Seq(Said)], \A k \in Chat : Len(messages'[k]) <= MaxMessages,
         LeftTo(r),
         talk' = [talk EXCEPT ![r] = c],
         \A k \in Chat : LedBy(messages'[k], excused') /\ AnsweredBy(messages'[k], talk'),
         TalkOK(r, c, exists', messages', effects', excused', swallowed')
  PROVE  ChatOK(exists', messages', talk', effects', excused', swallowed')
<1>1. /\ talk \in [C!Request -> TalkRow] /\ talk' \in [C!Request -> TalkRow] /\ talk'[r] = c
      /\ \A q \in C!Request : q # r => talk'[q] = talk[q]
  BY DEF ChatOK, ChatTypes
<1>2. ChatTypes(exists', messages', talk', effects', excused', swallowed')
  BY <1>1 DEF ChatTypes
<1>3. Chat \subseteq C!Request
  BY DEF C!Request
<1>4. ASSUME NEW q \in C!Request, talk[q].at # "idle" PROVE talk'[q].at # "idle"
  BY <1>1, <1>4
<1>5. BegunOK(exists', messages', talk')
  <2>1. ASSUME NEW k \in Chat
        PROVE  IF k \in exists' THEN talk'[k].at # "idle" ELSE messages'[k] = <<>>
    <3>1. k \in exists => talk[k].at # "idle"
      BY DEF ChatOK, BegunOK
    <3>2. IF k \in exists' THEN k \in exists \/ k = r ELSE messages'[k] = <<>>
      BY DEF LeftTo
    <3> QED
      BY <1>1, <1>3, <1>4, <3>1, <3>2
  <2>2. ASSUME NEW q \in C!Request, talk'[q].at # "idle"
        PROVE  talk'[q].conv \in Chat /\ talk'[talk'[q].conv].at # "idle"
    <3>1. CASE q = r
      BY <1>1, <1>3, <1>4, <3>1
    <3>2. CASE q # r
      <4>1. talk[q].conv \in Chat /\ talk[talk[q].conv].at # "idle"
        BY <1>1, <2>2, <3>2 DEF ChatOK, BegunOK
      <4> QED
        BY <1>1, <1>3, <1>4, <3>2, <4>1
    <3> QED
      BY <3>1, <3>2
  <2> QED
    BY <2>1, <2>2 DEF BegunOK
<1>6. ASSUME NEW q \in C!Request
      PROVE  TalkOK(q, talk'[q], exists', messages', effects', excused', swallowed')
  <2>1. CASE q = r
    BY <1>1, <2>1
  <2>2. CASE q # r
    <3>1. TalkOK(q, talk[q], exists', messages', effects', excused', swallowed')
      BY <2>2, OthersTalk
    <3> QED
      BY <1>1, <2>2, <3>1
  <2> QED
    BY <2>1, <2>2
<1> QED
  BY <1>2, <1>5, <1>6 DEF ChatOK

\* The requests that have answered stay so.
LEMMA AnswersStay ==
  ASSUME ChatOK(exists, messages, talk, effects, excused, swallowed),
         NEW r \in C!Request, NEW c \in TalkRow, talk[r].at # "answered",
         talk' = [talk EXCEPT ![r] = c], NEW k \in Chat
  PROVE  AnsweredBy(messages[k], talk')
<1>1. talk \in [C!Request -> TalkRow] /\ messages[k] \in Seq(Said)
  BY DEF ChatOK, ChatTypes
<1>2. AnsweredBy(messages[k], talk)
  BY DEF ChatOK
<1>3. \A m \in Range(messages[k]) : m.request \in C!Request
  <2>1. Range(messages[k]) \subseteq Said
    BY <1>1 DEF Range
  <2> QED
    BY <2>1 DEF Said, C!Request
<1>4. \A q \in C!Request : talk[q].at = "answered" => talk'[q].at = "answered"
  BY <1>1
<1> QED
  BY <1>2, <1>3, <1>4 DEF AnsweredBy

\* A step that leaves the messages alone.
LEMMA OnlyTalk ==
  ASSUME ChatOK(exists, messages, talk, effects, excused, swallowed),
         NEW r \in C!Request, NEW c \in TalkRow, c.at # "idle", talk[r].at # "answered",
         c.conv \in Chat, c.conv = r \/ talk[c.conv].at # "idle",
         exists' = exists \/ (exists' = exists \cup {r} /\ r \in Chat /\ talk[r].at = "idle"),
         effects \subseteq effects', effects' \subseteq Chat, excused \subseteq excused',
         excused' \subseteq Said, swallowed \subseteq swallowed', swallowed' \subseteq Chat,
         talk' = [talk EXCEPT ![r] = c], messages' = messages,
         TalkOK(r, c, exists', messages, effects', excused', swallowed')
  PROVE  ChatOK(exists', messages', talk', effects', excused', swallowed')
<1>1. /\ talk \in [C!Request -> TalkRow] /\ messages \in [Chat -> Seq(Said)]
      /\ exists \subseteq Chat /\ \A k \in Chat : Len(messages[k]) <= MaxMessages
  BY DEF ChatOK, ChatTypes
<1>2. LeftTo(r)
  BY DEF LeftTo, ChatOK, BegunOK
<1>3. ASSUME NEW k \in Chat PROVE LedBy(messages[k], excused') /\ AnsweredBy(messages[k], talk')
  <2>1. LedBy(messages[k], excused) /\ AnsweredBy(messages[k], talk)
    BY DEF ChatOK
  <2>2. LedBy(messages[k], excused')
    BY <2>1 DEF LedBy
  <2>3. AnsweredBy(messages[k], talk')
    BY AnswersStay
  <2> QED
    BY <2>2, <2>3
<1>4. exists' \subseteq Chat /\ messages' \in [Chat -> Seq(Said)]
  BY <1>1
<1> QED
  BY <1>1, <1>2, <1>3, <1>4, ChatMoves

\* What a request's record is after Goto.
Gone(c, place) == [c EXCEPT !.at = place, !.newest = {}, !.all = {}]

\* A request goes on.
LEMMA GoneRow ==
  ASSUME NEW c \in TalkRow,
         NEW place \in {"question", "act", "answer", "answered", "done"}
  PROVE  /\ Gone(c, place) \in TalkRow /\ Gone(c, place).at = place
         /\ Gone(c, place).op = c.op /\ Gone(c, place).conv = c.conv
  BY DEF Gone, TalkRow

\* That is what Goto does.
LEMMA GoesTo ==
  ASSUME ChatOK(exists, messages, talk, effects, excused, swallowed),
         NEW r \in C!Request, NEW place, C!Goto(r, place)
  PROVE  talk' = [talk EXCEPT ![r] = Gone(talk[r], place)]
  BY DEF C!Goto, Gone, ChatOK, ChatTypes

\* What is known of a request that has begun.
LEMMA HasBegun ==
  ASSUME ChatOK(exists, messages, talk, effects, excused, swallowed),
         NEW r \in C!Request, talk[r].at # "idle"
  PROVE  /\ talk[r] \in TalkRow /\ talk[r].conv \in Chat
         /\ talk[talk[r].conv].at # "idle"
         /\ TalkOK(r, talk[r], exists, messages, effects, excused, swallowed)
         /\ messages[talk[r].conv] \in Seq(Said)
         /\ Range(messages[talk[r].conv]) \subseteq Said
         /\ effects \subseteq Chat /\ excused \subseteq Said /\ swallowed \subseteq Chat
<1>1. talk[r].conv \in Chat /\ talk[talk[r].conv].at # "idle"
  BY DEF ChatOK, BegunOK
<1>2. \A k \in Chat : messages[k] \in Seq(Said)
  BY DEF ChatOK, ChatTypes
<1>3. \A s \in Seq(Said) : Range(s) \subseteq Said
  BY DEF Range
<1> QED
  BY <1>1, <1>2, <1>3 DEF ChatOK, ChatTypes

\* A view of a conversation begins.
LEMMA ViewBegun ==
  ASSUME ChatOK(exists, messages, talk, effects, excused, swallowed),
         NEW r \in C!Request, NEW op \in C!Purpose(r), NEW k \in Chat, C!BeginView(r, op, k)
  PROVE  ChatOK(exists', messages', talk', effects', excused', swallowed')
<1> DEFINE c == [C!Idle EXCEPT !.at = "load", !.op = op, !.conv = k, !.newest = C!Newest(k)]
<1>1. /\ talk[r].at = "idle" /\ k \in exists /\ talk' = [talk EXCEPT ![r] = c]
      /\ excused' = excused \cup (C!Rows(k) \ C!Newest(k))
      /\ UNCHANGED <<exists, messages, effects, swallowed>>
  BY DEF C!BeginView
<1>2. /\ messages[k] \in Seq(Said) /\ excused \subseteq Said
      /\ effects \subseteq Chat /\ swallowed \subseteq Chat
  BY DEF ChatOK, ChatTypes
<1>3. C!Rows(k) = Range(messages[k]) /\ C!Rows(k) \subseteq Said
  BY <1>2, RowsAreRange DEF Range
<1>4. C!Newest(k) \subseteq C!Rows(k)
  BY DEF C!Newest, C!Rows
<1>5. op \in {"chat", "show", "delete"} /\ (op = "chat" => r \in Chat)
  BY DEF C!Purpose
<1>6. /\ c \in TalkRow /\ c.at = "load" /\ c.op = op /\ c.conv = k
      /\ c.newest = C!Newest(k)
  BY <1>3, <1>4, <1>5, IdleRow DEF TalkRow
<1> HIDE DEF c
<1>7. talk[k].at # "idle"
  BY <1>1 DEF ChatOK, BegunOK
<1>8. TalkOK(r, c, exists', messages, effects', excused', swallowed')
  BY <1>1, <1>3, <1>5, <1>6 DEF TalkOK, Speaking, Asked
<1> QED
  BY <1>1, <1>2, <1>3, <1>6, <1>7, <1>8, OnlyTalk

\* It has loaded all messages.
LEMMA AllLoaded ==
  ASSUME ChatOK(exists, messages, talk, effects, excused, swallowed),
         NEW r \in C!Request, C!LoadAll(r)
  PROVE  ChatOK(exists', messages', talk', effects', excused', swallowed')
<1> DEFINE c == [talk[r] EXCEPT !.at = IF talk[r].op = "delete" THEN "delete" ELSE "trim",
                                !.all = C!Rows(talk[r].conv)]
<1>1. talk[r].at = "load" /\ UNCHANGED <<exists, messages, effects, excused, swallowed>>
  BY DEF C!LoadAll
<1>2. talk' = [talk EXCEPT ![r] = c]
  BY DEF C!LoadAll, ChatOK, ChatTypes
<1>3. C!Rows(talk[r].conv) = Range(messages[talk[r].conv])
  BY RowsAreRange
<1>4. /\ c \in TalkRow /\ c.conv = talk[r].conv /\ c.newest = talk[r].newest
      /\ c.op = talk[r].op /\ c.all = Range(messages[talk[r].conv])
      /\ c.at = IF talk[r].op = "delete" THEN "delete" ELSE "trim"
  BY <1>1, <1>3, HasBegun DEF TalkRow
<1> HIDE DEF c
<1>5. TalkOK(r, c, exists', messages, effects', excused', swallowed')
  BY <1>1, <1>4, HasBegun DEF TalkOK, Speaking, Asked
<1> QED
  BY <1>1, <1>2, <1>4, <1>5, HasBegun, OnlyTalk

\* A request fails.
LEMMA TalkFailed ==
  ASSUME ChatOK(exists, messages, talk, effects, excused, swallowed),
         NEW r \in C!Request, C!Fail(r)
  PROVE  ChatOK(exists', messages', talk', effects', excused', swallowed')
<1> DEFINE c == Gone(talk[r], "done")
<1>1. /\ talk[r].at \notin {"idle", "answered", "done"}
      /\ UNCHANGED <<exists, messages, effects, excused, swallowed>>
      /\ talk' = [talk EXCEPT ![r] = c]
  BY GoesTo DEF C!Fail
<1>2. c \in TalkRow /\ c.at = "done" /\ c.conv = talk[r].conv
  BY <1>1, HasBegun, GoneRow
<1> HIDE DEF c
<1>3. TalkOK(r, c, exists', messages, effects', excused', swallowed')
  BY <1>2 DEF TalkOK, Speaking, Asked
<1> QED
  BY <1>1, <1>2, <1>3, HasBegun, OnlyTalk

\* A conversation is created.
LEMMA ChatCreated ==
  ASSUME ChatOK(exists, messages, talk, effects, excused, swallowed),
         NEW r \in Chat, C!Create(r)
  PROVE  ChatOK(exists', messages', talk', effects', excused', swallowed')
<1> DEFINE c == [C!Idle EXCEPT !.at = "question", !.op = "chat", !.conv = r]
<1>1. /\ talk[r].at = "idle" /\ exists' = exists \cup {r} /\ talk' = [talk EXCEPT ![r] = c]
      /\ UNCHANGED <<messages, effects, excused, swallowed>>
  BY DEF C!Create
<1>2. c \in TalkRow /\ c.at = "question" /\ c.conv = r /\ r \in C!Request
  BY IdleRow DEF TalkRow, C!Request
<1> HIDE DEF c
<1>3. TalkOK(r, c, exists', messages, effects', excused', swallowed')
  BY <1>2 DEF TalkOK, Speaking, Asked
<1>4. effects \subseteq Chat /\ excused \subseteq Said /\ swallowed \subseteq Chat
  BY DEF ChatOK, ChatTypes
<1> QED
  BY <1>1, <1>2, <1>3, <1>4, OnlyTalk

\* The answer is generated, with its effect.
LEMMA ChatActs ==
  ASSUME ChatOK(exists, messages, talk, effects, excused, swallowed),
         NEW r \in C!Request, C!Act(r)
  PROVE  ChatOK(exists', messages', talk', effects', excused', swallowed')
<1>1. talk[r].at = "act" /\ UNCHANGED <<exists, messages, excused, swallowed>>
  BY DEF C!Act
<1>2. PICK op \in {"info", "task", "preference"} :
        /\ talk' = [talk EXCEPT ![r].op = op,
                      ![r].at = IF op = "preference" THEN "commit" ELSE "answer"]
        /\ effects' = IF op = "task" THEN effects \cup {r} ELSE effects
  BY DEF C!Act
<1> DEFINE c == [talk[r] EXCEPT !.op = op,
                    !.at = IF op = "preference" THEN "commit" ELSE "answer"]
<1>3. talk' = [talk EXCEPT ![r] = c]
  BY <1>2 DEF ChatOK, ChatTypes
<1>4. /\ c \in TalkRow /\ c.conv = talk[r].conv /\ c.op = op
      /\ c.at = IF op = "preference" THEN "commit" ELSE "answer"
  BY <1>1, HasBegun DEF TalkRow
<1> HIDE DEF c
<1>5. r \in Chat
  BY <1>1, HasBegun DEF TalkOK, Speaking
<1>6. TalkOK(r, c, exists', messages, effects', excused', swallowed')
  BY <1>1, <1>2, <1>4, <1>5, HasBegun DEF TalkOK, Speaking, Asked
<1> QED
  BY <1>1, <1>2, <1>3, <1>4, <1>5, <1>6, HasBegun, OnlyTalk

\* The effect is committed, or lost.
LEMMA EffectCommitted ==
  ASSUME ChatOK(exists, messages, talk, effects, excused, swallowed),
         NEW r \in C!Request, C!CommitEffect(r)
  PROVE  ChatOK(exists', messages', talk', effects', excused', swallowed')
<1> DEFINE c == Gone(talk[r], "answer")
<1>1. /\ talk[r].at = "commit" /\ UNCHANGED <<exists, messages, excused>>
      /\ talk' = [talk EXCEPT ![r] = c]
      /\ \/ effects' = effects \cup {r} /\ UNCHANGED swallowed
         \/ swallowed' = swallowed \cup {r} /\ UNCHANGED effects
  BY GoesTo DEF C!CommitEffect
<1>2. c \in TalkRow /\ c.at = "answer" /\ c.conv = talk[r].conv
  BY <1>1, HasBegun, GoneRow
<1> HIDE DEF c
<1>3. r \in Chat
  BY <1>1, HasBegun DEF TalkOK, Speaking
<1>4. TalkOK(r, c, exists', messages, effects', excused', swallowed')
  BY <1>1, <1>2, <1>3, HasBegun DEF TalkOK, Speaking, Asked
<1> QED
  BY <1>1, <1>2, <1>3, <1>4, HasBegun, OnlyTalk

\* A view deletes what is above the limit.
LEMMA ViewTrims ==
  ASSUME ChatAssumption, ChatOK(exists, messages, talk, effects, excused, swallowed),
         NEW r \in C!Request, C!Trim(r)
  PROVE  ChatOK(exists', messages', talk', effects', excused', swallowed')
<1> DEFINE k == talk[r].conv
           gone == talk[r].all \ talk[r].newest
           s == Keep(messages[k], Range(messages[k]) \ gone)
           place == IF talk[r].op = "chat" THEN "question" ELSE "done"
           c == Gone(talk[r], place)
<1>1. /\ talk[r].at = "trim" /\ UNCHANGED <<exists, effects, excused, swallowed>>
      /\ talk' = [talk EXCEPT ![r] = c]
  BY GoesTo DEF C!Trim
<1>2. messages' = [messages EXCEPT ![k] = s]
  BY ChatKeeps, RowsAreRange DEF C!Trim, C!Without
<1>3. /\ c \in TalkRow /\ c.at = place /\ c.conv = k /\ k \in Chat
      /\ talk[k].at # "idle" /\ gone \subseteq excused /\ messages[k] \in Seq(Said)
      /\ excused \subseteq Said /\ effects \subseteq Chat /\ swallowed \subseteq Chat
      /\ place = "question" => r \in Chat
  <2>1. place \in {"question", "done"}
    OBVIOUS
  <2> QED
    BY <1>1, <2>1, HasBegun, GoneRow DEF TalkOK
<1> HIDE DEF c, gone
<1>4. /\ s \in Seq(Said) /\ Len(s) <= Len(messages[k]) /\ Len(s) \in Nat
      /\ Range(s) = Range(messages[k]) \ gone
  <2>1. Range(messages[k]) \cap (Range(messages[k]) \ gone) = Range(messages[k]) \ gone
    OBVIOUS
  <2> QED
    BY <1>3, <2>1, KeepSeq
<1>5. messages[k] = <<>> => s = <<>>
  BY KeepEmpty
<1>6. LedBy(messages[k], excused)
  BY <1>3 DEF ChatOK
<1>7. LedBy(s, excused)
  <2>1. Range(messages[k]) \ (Range(messages[k]) \ gone) \subseteq excused
    BY <1>3
  <2> QED
    BY <1>3, <1>6, <2>1, KeepLed
<1> HIDE DEF s, k
<1>8. /\ messages \in [Chat -> Seq(Said)] /\ exists \subseteq Chat
      /\ \A j \in Chat : Len(messages[j]) <= MaxMessages /\ Len(messages[j]) \in Nat
  BY DEF ChatOK, ChatTypes
<1>9. messages' \in [Chat -> Seq(Said)] /\ \A j \in Chat : Len(messages'[j]) <= MaxMessages
  <2>1. Len(s) <= MaxMessages
    BY <1>3, <1>4, <1>8 DEF ChatAssumption
  <2> QED
    BY <1>2, <1>3, <1>4, <1>8, <2>1
<1>10. LeftTo(r)
  <2> SUFFICES ASSUME NEW j \in Chat
               PROVE  /\ j \notin exists => messages'[j] = <<>>
                      /\ Range(messages[j]) \subseteq Range(messages'[j]) \cup excused
                      /\ Range(messages'[j]) \subseteq Range(messages[j]) \cup excused
    BY <1>1 DEF LeftTo
  <2>1. j \notin exists => messages[j] = <<>>
    BY DEF ChatOK, BegunOK
  <2> QED
    BY <1>2, <1>3, <1>4, <1>5, <1>8, <2>1
<1>11. ASSUME NEW j \in Chat PROVE LedBy(messages'[j], excused') /\ AnsweredBy(messages'[j], talk')
  <2>1. LedBy(messages[j], excused) /\ AnsweredBy(messages[j], talk')
    BY <1>1, <1>3, AnswersStay DEF ChatOK
  <2>2. AnsweredBy(messages[k], talk')
    BY <1>1, <1>3, AnswersStay
  <2>3. AnsweredBy(s, talk')
    BY <1>4, <2>2 DEF AnsweredBy
  <2> QED
    BY <1>1, <1>2, <1>3, <1>7, <1>8, <2>1, <2>3
<1>12. TalkOK(r, c, exists', messages', effects', excused', swallowed')
  BY <1>3 DEF TalkOK, Speaking, Asked
<1>13. c.at # "idle" /\ talk[r].at # "answered"
  BY <1>1, <1>3
<1> QED
  BY <1>1, <1>3, <1>8, <1>9, <1>10, <1>11, <1>12, <1>13, ChatMoves

\* A conversation is deleted with its messages.
LEMMA ChatDeleted ==
  ASSUME ChatAssumption, ChatOK(exists, messages, talk, effects, excused, swallowed),
         NEW r \in C!Request, C!Delete(r)
  PROVE  ChatOK(exists', messages', talk', effects', excused', swallowed')
<1> DEFINE k == talk[r].conv
           c == Gone(talk[r], "done")
<1>1. /\ talk[r].at = "delete" /\ UNCHANGED <<effects, excused, swallowed>>
      /\ talk' = [talk EXCEPT ![r] = c]
      /\ exists' = exists \ {k} /\ messages' = [messages EXCEPT ![k] = <<>>]
  BY GoesTo DEF C!Delete
<1>2. /\ c \in TalkRow /\ c.at = "done" /\ c.conv = k /\ k \in Chat
      /\ talk[k].at # "idle"
      /\ excused \subseteq Said /\ effects \subseteq Chat /\ swallowed \subseteq Chat
  BY <1>1, HasBegun, GoneRow
<1> HIDE DEF c, k
<1>3. /\ messages \in [Chat -> Seq(Said)] /\ exists' \subseteq Chat
      /\ \A j \in Chat : Len(messages[j]) <= MaxMessages /\ Len(messages[j]) \in Nat
  BY <1>1 DEF ChatOK, ChatTypes
<1>4. <<>> \in Seq(Said) /\ Len(<<>>) = 0 /\ Range(<<>>) = {}
  BY OfEmpty
<1>5. messages' \in [Chat -> Seq(Said)] /\ \A j \in Chat : Len(messages'[j]) <= MaxMessages
  <2>1. \A j \in Chat : Len(messages'[j]) <= Len(messages[j])
    BY <1>1, <1>2, <1>3, <1>4
  <2>2. messages' \in [Chat -> Seq(Said)]
    BY <1>1, <1>2, <1>3, <1>4
  <2>3. \A j \in Chat : Len(messages'[j]) \in Nat
    BY <2>2
  <2> QED
    BY <1>3, <2>1, <2>2, <2>3 DEF ChatAssumption
<1>6. LeftTo(r)
  <2> SUFFICES ASSUME NEW j \in Chat
               PROVE  /\ j \notin exists' => messages'[j] = <<>>
                      /\ j \in exists' => messages'[j] = messages[j] /\ j \in exists
                      /\ Range(messages'[j]) \subseteq Range(messages[j])
    BY DEF LeftTo
  <2>1. j \notin exists => messages[j] = <<>>
    BY DEF ChatOK, BegunOK
  <2> QED
    BY <1>1, <1>2, <1>3, <1>4, <2>1
<1>7. ASSUME NEW j \in Chat PROVE LedBy(messages'[j], excused') /\ AnsweredBy(messages'[j], talk')
  <2>1. LedBy(messages[j], excused) /\ AnsweredBy(messages[j], talk')
    BY <1>1, <1>2, AnswersStay DEF ChatOK
  <2>2. LedBy(<<>>, excused) /\ AnsweredBy(<<>>, talk')
    BY <1>4, LedEmpty DEF AnsweredBy
  <2> QED
    BY <1>1, <1>2, <1>3, <2>1, <2>2
<1>8. TalkOK(r, c, exists', messages', effects', excused', swallowed')
  BY <1>2 DEF TalkOK, Speaking, Asked
<1>9. c.at # "idle" /\ talk[r].at # "answered"
  BY <1>1, <1>2
<1> QED
  BY <1>1, <1>2, <1>3, <1>5, <1>6, <1>7, <1>8, <1>9, ChatMoves

\* A question or an answer is stored.
LEMMA MessageAdded ==
  ASSUME ChatAssumption, ChatOK(exists, messages, talk, effects, excused, swallowed),
         NEW r \in C!Request, C!Question(r) \/ C!Answer(r)
  PROVE  ChatOK(exists', messages', talk', effects', excused', swallowed')
<1> DEFINE k == talk[r].conv
           asks == talk[r].at = "question"
           role == IF asks THEN "user" ELSE "assistant"
           place == IF asks THEN "act" ELSE "answered"
           m == [request |-> r, role |-> role]
<1>1. /\ talk[r].at \in {"question", "answer"} /\ C!Add(r, role, place)
  BY DEF C!Question, C!Answer
<1>2. /\ r \in Chat /\ talk[r] \in TalkRow /\ k \in Chat /\ talk[k].at # "idle"
      /\ messages[k] \in Seq(Said)
      /\ TalkOK(r, talk[r], exists, messages, effects, excused, swallowed)
      /\ excused \subseteq Said /\ effects \subseteq Chat /\ swallowed \subseteq Chat
  BY <1>1, HasBegun DEF TalkOK, Speaking
<1>3. m \in Said
  BY <1>2 DEF Said
<1>4. CASE /\ k \notin exists
           /\ C!Goto(r, "done") /\ UNCHANGED <<exists, messages, effects, excused, swallowed>>
  <2> DEFINE c == Gone(talk[r], "done")
  <2>1. talk' = [talk EXCEPT ![r] = c]
    BY <1>4, GoesTo
  <2>2. c \in TalkRow /\ c.at = "done" /\ c.conv = k
    BY <1>2, GoneRow
  <2> HIDE DEF c, k
  <2>3. TalkOK(r, c, exists', messages, effects', excused', swallowed')
    BY <2>2 DEF TalkOK, Speaking, Asked
  <2> QED
    BY <1>1, <1>2, <1>4, <2>1, <2>2, <2>3, OnlyTalk
<1>5. CASE /\ k \in exists /\ Len(messages[k]) < MaxMessages
           /\ messages' = [messages EXCEPT ![k] = Append(@, m)]
           /\ excused' = IF C!Viewed(k) THEN excused \cup {m} ELSE excused
           /\ C!Goto(r, place) /\ UNCHANGED <<exists, effects, swallowed>>
  <2> DEFINE c == Gone(talk[r], place)
             s == Append(messages[k], m)
  <2>1. talk' = [talk EXCEPT ![r] = c]
    BY <1>5, GoesTo
  <2>2. c \in TalkRow /\ c.at = place /\ c.conv = k /\ c.op = talk[r].op
    BY <1>2, GoneRow
  <2>3. /\ messages \in [Chat -> Seq(Said)] /\ exists \subseteq Chat
        /\ \A j \in Chat : Len(messages[j]) <= MaxMessages /\ Len(messages[j]) \in Nat
    BY DEF ChatOK, ChatTypes
  <2>4. messages' = [messages EXCEPT ![k] = s]
    BY <1>2, <1>5, <2>3
  <2>5. s \in Seq(Said) /\ Len(s) = Len(messages[k]) + 1 /\ Range(s) = Range(messages[k]) \cup {m}
    BY <1>2, <1>3, AppendProperties, RangeAppended
  <2>6. LedBy(messages[k], excused)
    BY <1>2 DEF ChatOK
  <2>7. m.role = "assistant" => talk[r].at = "answer" /\ ~asks
    BY <1>1
  <2>8. talk[r].at = "answer" => C!QuestionOf(r) \in excused \cup Range(messages[k])
    BY <1>2, <1>5 DEF TalkOK, Asked
  <2>9. LedBy(s, excused)
    BY <1>2, <1>3, <2>6, <2>7, <2>8, LedAppended
  <2>10. /\ excused \subseteq excused' /\ excused' \subseteq Said
         /\ m \in excused' \/ \A q \in C!Request : talk[q].at = "load" => talk[q].conv # k
    BY <1>2, <1>3, <1>5 DEF C!Viewed
  <2>11. \A t : LedBy(t, excused) => LedBy(t, excused')
    BY <2>10 DEF LedBy
  <2>12. TalkOK(r, c, exists', messages', effects', excused', swallowed')
    <3>1. m = IF asks THEN C!QuestionOf(r) ELSE C!AnswerOf(r)
      BY DEF C!QuestionOf, C!AnswerOf
    <3>2. messages'[k] = s
      BY <1>2, <2>3, <2>4
    <3>3. talk[r].at = "answer" /\ talk[r].op # "info" => r \in effects \cup swallowed
      BY <1>2 DEF TalkOK
    <3>4. /\ c.at \in Asked => C!QuestionOf(r) \in Range(s) \cup excused'
          /\ c.at = "answered" => C!AnswerOf(r) \in Range(s) \cup excused'
      BY <1>1, <2>2, <2>5, <2>8, <2>10, <3>1 DEF Asked
    <3>5. c.at \in {"answer", "answered"} /\ c.op # "info" => r \in effects' \cup swallowed'
      BY <1>1, <1>5, <2>2, <3>3
    <3>6. c.at \in {"act", "answered"}
      BY <2>2
    <3> HIDE DEF c, s, k
    <3> QED
      BY <1>2, <2>2, <3>2, <3>4, <3>5, <3>6 DEF TalkOK
  <2>13. c.at # "idle" /\ talk[r].at # "answered"
    BY <1>1, <2>2
  <2>14. m.role = "assistant" => talk'[m.request].at = "answered"
    <3>1. talk'[r] = c
      BY <2>1 DEF ChatOK, ChatTypes
    <3> QED
      BY <2>2, <3>1
  <2> HIDE DEF c, s, k, m
  <2>15. messages' \in [Chat -> Seq(Said)] /\ \A j \in Chat : Len(messages'[j]) <= MaxMessages
    <3>1. Len(s) <= MaxMessages
      BY <1>2, <1>5, <2>3, <2>5 DEF ChatAssumption
    <3> QED
      BY <1>2, <2>3, <2>4, <2>5, <3>1
  <2>16. LeftTo(r)
    <3> SUFFICES ASSUME NEW j \in Chat
                 PROVE  /\ j \notin exists => messages'[j] = <<>>
                        /\ Range(messages[j]) \subseteq Range(messages'[j])
                        /\ \/ Range(messages'[j]) \subseteq Range(messages[j]) \cup excused'
                           \/ \A q \in C!Request : talk[q].at = "load" => talk[q].conv # j
      BY <1>5 DEF LeftTo
    <3>1. j \notin exists => messages[j] = <<>>
      BY DEF ChatOK, BegunOK
    <3>2. CASE j = k
      BY <1>2, <1>5, <2>3, <2>4, <2>5, <2>10, <3>2
    <3>3. CASE j # k
      BY <1>2, <2>3, <2>4, <3>1, <3>3
    <3> QED
      BY <3>2, <3>3
  <2>17. ASSUME NEW j \in Chat
         PROVE  LedBy(messages'[j], excused') /\ AnsweredBy(messages'[j], talk')
    <3>1. LedBy(messages[j], excused) /\ AnsweredBy(messages[j], talk')
      BY <2>1, <2>2, <2>13, AnswersStay DEF ChatOK
    <3>2. AnsweredBy(messages[k], talk')
      BY <1>2, <2>1, <2>2, <2>13, AnswersStay
    <3>3. AnsweredBy(s, talk')
      BY <2>5, <2>14, <3>2 DEF AnsweredBy
    <3> QED
      BY <1>2, <2>3, <2>4, <2>9, <2>11, <3>1, <3>3
  <2> QED
    BY <1>2, <1>5, <2>1, <2>2, <2>3, <2>10, <2>12, <2>13, <2>15, <2>16, <2>17, ChatMoves
<1> QED
  BY <1>1, <1>4, <1>5 DEF C!Add

\* Each step of the conversations keeps it.
LEMMA ChatSteps ==
  ASSUME ChatAssumption, ChatOK(exists, messages, talk, effects, excused, swallowed),
         [C!Next]_(C!vars)
  PROVE  ChatOK(exists', messages', talk', effects', excused', swallowed')
<1>1. CASE UNCHANGED C!vars
  <2>1. UNCHANGED <<exists, messages, talk, effects, excused, swallowed>>
    BY <1>1 DEF C!vars
  <2> QED
    BY <2>1
<1>2. CASE C!Next
  BY <1>2, ViewBegun, AllLoaded, ViewTrims, ChatDeleted, ChatCreated, MessageAdded,
     ChatActs, EffectCommitted, TalkFailed DEF C!Next
<1> QED
  BY <1>1, <1>2

\* It is enough for what ConversationsHold says of Conversations.
LEMMA ChatHolds ==
  ASSUME ChatOK(exists, messages, talk, effects, excused, swallowed)
  PROVE  C!TypeOK /\ C!MessagesAreKept /\ C!AnswersAreTrue
<1>1. \A k \in Chat : /\ messages[k] \in Seq(Said) /\ Len(messages[k]) <= MaxMessages
                      /\ C!Rows(k) = Range(messages[k]) /\ Range(messages[k]) \subseteq Said
                      /\ \A i \in DOMAIN messages[k] : /\ messages[k][i] \in Range(messages[k])
                                                      /\ i \in 1..Len(messages[k])
  BY RowsAreRange DEF ChatOK, ChatTypes, Range
<1>2. \A r \in C!Request : talk[r] \in TalkRow
  BY DEF ChatOK, ChatTypes
<1>3. C!TypeOK
  <2>1. \A m \in Said : C!IsMessage(m)
    BY DEF Said, C!IsMessage
  <2>2. \A r \in C!Request :
          talk[r].at \in {"idle", "load", "trim", "delete", "question", "act",
                         "commit", "answer", "answered", "done"}
    BY <1>2 DEF TalkRow
  <2>3. exists \subseteq Chat /\ effects \subseteq Chat
    BY DEF ChatOK, ChatTypes
  <2> QED
    BY <1>1, <2>1, <2>2, <2>3 DEF C!TypeOK
<1>4. Chat \subseteq C!Request
  BY DEF C!Request
<1>5. C!MessagesAreKept
  <2> SUFFICES ASSUME NEW r \in Chat, talk[r].conv \in exists
               PROVE  /\ talk[r].at \in {"act", "commit", "answer", "answered"} =>
                           C!QuestionOf(r) \in C!Rows(talk[r].conv) \cup excused
                      /\ talk[r].at = "answered" =>
                           C!AnswerOf(r) \in C!Rows(talk[r].conv) \cup excused
    BY DEF C!MessagesAreKept
  <2>1. TalkOK(r, talk[r], exists, messages, effects, excused, swallowed)
    BY <1>4 DEF ChatOK
  <2> QED
    BY <2>1, RowsAreRange DEF TalkOK, Asked
<1>6. C!AnswersAreTrue
  <2> SUFFICES ASSUME NEW k \in Chat, NEW i \in DOMAIN messages[k]
               PROVE  /\ k \in exists
                      /\ messages[k][i].role = "assistant" =>
                           /\ \/ C!QuestionOf(messages[k][i].request) \in excused
                              \/ \E j \in 1..(i - 1) :
                                   messages[k][j] = C!QuestionOf(messages[k][i].request)
                           /\ talk[messages[k][i].request].op # "info" =>
                                messages[k][i].request \in effects \cup swallowed
    BY DEF C!AnswersAreTrue
  <2>1. k \in exists
    <3>1. k \notin exists => messages[k] = <<>>
      BY DEF ChatOK, BegunOK
    <3>2. DOMAIN messages[k] = 1..Len(messages[k])
      BY <1>1
    <3> QED
      BY <3>1, <3>2
  <2> DEFINE m == messages[k][i]
  <2>2. m \in Range(messages[k]) /\ m \in Said /\ i \in 1..Len(messages[k])
    BY <1>1
  <2>3. m.request \in C!Request
    BY <1>4, <2>2 DEF Said
  <2>4. LedBy(messages[k], excused) /\ AnsweredBy(messages[k], talk)
    BY DEF ChatOK
  <2>5. m.role = "assistant" => talk[m.request].at = "answered"
    BY <2>2, <2>4 DEF AnsweredBy
  <2>6. TalkOK(m.request, talk[m.request], exists, messages, effects, excused, swallowed)
    BY <2>3 DEF ChatOK
  <2>7. m.role = "assistant" /\ talk[m.request].op # "info" => m.request \in effects \cup swallowed
    BY <2>5, <2>6 DEF TalkOK
  <2> QED
    BY <2>1, <2>2, <2>4, <2>7 DEF LedBy
<1> QED
  BY <1>3, <1>5, <1>6

-----------------------------------------------------------------------------
(* PermissionCache.                                                        *)

P == INSTANCE PermissionCache

\* The size of the cache is a number, no user is none, and there are roles.
PermissionAssumption ==
  /\ MaxSize \in Nat /\ NoUser \notin User
  /\ Default \in Role /\ Seeded \in [Role -> SUBSET Permission]

\* Where a lookup stands.
Lookups ==
  [pc : {"idle", "drop", "query", "store"}, user : User \cup {NoUser},
   found : SUBSET Permission, late : BOOLEAN]

\* The cache has one entry of a user.
OfUsers(s) == \A i, j \in 1..Len(s) : s[i].user = s[j].user => i = j

\* The policy, the cache and the lookups keep their ranges.
PermissionTypes ==
  /\ policy \in P!Policy
  /\ change \in P!Policy \cup {P!None}
  /\ entries \in Seq(P!Entry)
  /\ Len(entries) <= MaxSize + 1 /\ OfUsers(entries)
  /\ expired \in 0..Len(entries)
  /\ lookup \in [Reader -> Lookups]
  /\ \A r \in Reader : lookup[r].pc # "idle" => lookup[r].user \in User
  /\ overlapped \subseteq User

\* Users have roles that exist.
Assigned(p) == \A u \in User : p.assigned[u] \subseteq p.roles
\* An entry says what the policy says.
Grants(p, e) == e.permissions = P!PermissionsOf(p, e.user)
\* So do all entries, but for some users.
Current(s, p, out) == \A e \in Range(s) : e.user \notin out => Grants(p, e)

\* The entries say what the policy says, and what a change that begins will
\* say; a lookup that read after the last change found the same.
PermissionsCurrent ==
  /\ Assigned(policy) /\ (change # P!None => Assigned(change))
  /\ Current(entries, policy, overlapped)
  /\ change # P!None => Current(entries, change, overlapped)
  /\ \A r \in Reader :
       lookup[r].pc = "store" /\ ~lookup[r].late =>
         lookup[r].found = P!PermissionsOf(policy, lookup[r].user)

\* The module keeps as this one does.
LEMMA PermissionKeeps ==
  /\ \A s, kept : P!Keep(s, kept) = Keep(s, kept)
  /\ \A s : P!Range(s) = Range(s)
BY DEF P!Keep, Keep, P!Range, Range

\* An entry of a new user may be appended.
LEMMA OfUsersAppended ==
  ASSUME NEW V, NEW s \in Seq(V), NEW x \in V
  PROVE  OfUsers(Append(s, x)) <=> OfUsers(s) /\ \A y \in Range(s) : y.user # x.user
<1> DEFINE t == Append(s, x)
           n == Len(s)
<1>1. /\ n \in Nat /\ t \in Seq(V) /\ Len(t) = n + 1 /\ t[n + 1] = x
      /\ \A i \in 1..n : t[i] = s[i]
  BY AppendProperties, LenProperties
<1>2. Range(s) = {s[i] : i \in 1..n}
  BY RangeEquality
<1> HIDE DEF t, n
<1>3. \A i \in 1..n + 1 : i \in 1..n \/ i = n + 1
  BY <1>1
<1>4. n + 1 \in 1..n + 1 /\ \A i \in 1..n : i \in 1..n + 1 /\ i # n + 1
  BY <1>1
<1>5. ASSUME OfUsers(t) PROVE OfUsers(s) /\ \A y \in Range(s) : y.user # x.user
  <2>1. \A i, j \in 1..n + 1 : t[i].user = t[j].user => i = j
    BY <1>1, <1>5 DEF OfUsers
  <2>2. \A i, j \in 1..n : s[i].user = s[j].user => i = j
    BY <1>1, <1>4, <2>1
  <2>3. \A i \in 1..n : s[i].user # x.user
    BY <1>1, <1>4, <2>1
  <2> QED
    BY <1>2, <2>2, <2>3 DEF OfUsers, n
<1>6. ASSUME OfUsers(s), \A y \in Range(s) : y.user # x.user PROVE OfUsers(t)
  <2>1. \A i, j \in 1..n : s[i].user = s[j].user => i = j
    BY <1>6 DEF OfUsers, n
  <2>2. \A i \in 1..n : s[i].user # x.user
    BY <1>2, <1>6
  <2>3. \A i, j \in 1..n + 1 : t[i].user = t[j].user => i = j
    BY <1>1, <1>3, <2>1, <2>2
  <2> QED
    BY <1>1, <2>3 DEF OfUsers
<1> QED
  BY <1>5, <1>6 DEF t

\* Entries may be removed.
LEMMA KeepOfUsers ==
  ASSUME NEW V, NEW s \in Seq(V), NEW kept, OfUsers(s)
  PROVE  OfUsers(Keep(s, kept))
<1> DEFINE T == {q \in Seq(V) : OfUsers(q) => OfUsers(Keep(q, kept))}
<1>1. <<>> \in T
  BY KeepEmpty, EmptySeq DEF OfUsers
<1>2. ASSUME NEW q \in Seq(V), NEW x \in V, q \in T
      PROVE  Append(q, x) \in T
  <2> SUFFICES ASSUME OfUsers(Append(q, x))
               PROVE  OfUsers(Keep(Append(q, x), kept))
    BY AppendProperties
  <2>1. OfUsers(q) /\ \A y \in Range(q) : y.user # x.user
    BY OfUsersAppended
  <2>2. Keep(q, kept) \in Seq(V) /\ Range(Keep(q, kept)) \subseteq Range(q)
    BY KeepSeq
  <2>3. OfUsers(Keep(q, kept))
    BY <1>2, <2>1
  <2>4. OfUsers(Append(Keep(q, kept), x))
    BY <2>1, <2>2, <2>3, OfUsersAppended
  <2>5. Keep(Append(q, x), kept)
          = IF x \in kept THEN Append(Keep(q, kept), x) ELSE Keep(q, kept)
    BY KeepAppend
  <2> QED
    BY <2>3, <2>4, <2>5
<1> HIDE DEF T
<1>3. Seq(V) \subseteq T
  BY <1>1, <1>2, SeqInduct
<1> QED
  BY <1>3 DEF T

\* What stays of the entries, and how many of them are past their time.
LEMMA WithoutSome ==
  ASSUME NEW V, NEW s \in Seq(V), NEW n \in 0..Len(s), NEW users
  PROVE  /\ P!WithoutUsers(s, users) \in Seq(V)
         /\ Len(P!WithoutUsers(s, users)) \in Nat
         /\ Len(P!WithoutUsers(s, users)) <= Len(s)
         /\ Range(P!WithoutUsers(s, users)) = {e \in Range(s) : e.user \notin users}
         /\ OfUsers(s) => OfUsers(P!WithoutUsers(s, users))
         /\ Len(P!WithoutUsers(SubSeq(s, 1, n), users)) \in 0..Len(P!WithoutUsers(s, users))
<1> DEFINE kept == {e \in Range(s) : e.user \notin users}
           p == SubSeq(s, 1, n)
<1>1. P!WithoutUsers(s, users) = Keep(s, kept)
  BY PermissionKeeps DEF P!WithoutUsers
<1>2. /\ Keep(s, kept) \in Seq(V) /\ Len(Keep(s, kept)) \in Nat
      /\ Len(Keep(s, kept)) <= Len(s) /\ Range(Keep(s, kept)) = kept
  BY KeepSeq
<1>3. p \in Seq(V) /\ Range(p) \subseteq Range(s)
  BY LenProperties, RangeOfPart
<1>4. P!WithoutUsers(p, users) = Keep(p, {e \in Range(p) : e.user \notin users})
  BY PermissionKeeps DEF P!WithoutUsers
<1>5. Keep(p, {e \in Range(p) : e.user \notin users}) = Keep(p, kept)
  <2>1. Range(p) \cap {e \in Range(p) : e.user \notin users} = Range(p) \cap kept
    BY <1>3
  <2> HIDE DEF kept, p
  <2> QED
    BY <1>3, <2>1, KeepSame
<1>6. Len(Keep(p, kept)) \in Nat /\ Len(Keep(p, kept)) <= Len(Keep(s, kept))
  <2>1. Len(Keep(p, kept)) \in Nat
    BY <1>3, KeepSeq
  <2>2. Len(Keep(p, kept)) <= Len(Keep(s, kept))
    BY KeepPart
  <2> QED
    BY <2>1, <2>2
<1>7. OfUsers(s) => OfUsers(Keep(s, kept))
  BY KeepOfUsers
<1> HIDE DEF kept, p
<1>8. Len(P!WithoutUsers(p, users)) \in 0..Len(Keep(s, kept))
  BY <1>2, <1>4, <1>5, <1>6
<1> QED
  BY <1>1, <1>2, <1>7, <1>8 DEF kept, p

\* What an eviction leaves.
LEMMA EvictedEntries ==
  ASSUME PermissionAssumption, PermissionTypes
  PROVE  /\ P!Evicted \in Seq(P!Entry) /\ Len(P!Evicted) <= MaxSize
         /\ Len(P!Evicted) \in Nat
         /\ OfUsers(P!Evicted) /\ Range(P!Evicted) \subseteq Range(entries)
<1> DEFINE n == Len(entries)
           m == P!FirstKept
<1>1. n \in Nat /\ MaxSize \in Nat /\ expired \in 0..n /\ entries \in Seq(P!Entry)
  BY LenProperties DEF PermissionAssumption, PermissionTypes
<1>2. m \in 1..n + 1 /\ n \in m - 1..n /\ n - m + 1 <= MaxSize /\ n - m + 1 \in Nat
  BY <1>1 DEF P!FirstKept
<1>3. P!Evicted = SubSeq(entries, m, n)
  BY DEF P!Evicted
<1> HIDE DEF m
<1>4. /\ SubSeq(entries, m, n) \in Seq(P!Entry) /\ Len(SubSeq(entries, m, n)) = n - m + 1
      /\ Range(SubSeq(entries, m, n)) \subseteq Range(entries)
      /\ \A i \in 1..n - m + 1 : SubSeq(entries, m, n)[i] = entries[m + i - 1]
  BY <1>1, <1>2, RangeOfPart
<1>5. OfUsers(SubSeq(entries, m, n))
  <2>1. \A i, j \in 1..n : entries[i].user = entries[j].user => i = j
    BY DEF PermissionTypes, OfUsers
  <2> HIDE DEF n
  <2>2. \A i \in 1..n - m + 1 : m + i - 1 \in 1..n
    BY <1>1, <1>2
  <2>3. \A i, j \in 1..n - m + 1 : m + i - 1 = m + j - 1 => i = j
    BY <1>1, <1>2
  <2>4. \A i, j \in 1..n - m + 1 :
          SubSeq(entries, m, n)[i].user = SubSeq(entries, m, n)[j].user => i = j
    BY <1>4, <2>1, <2>2, <2>3
  <2> QED
    BY <1>4, <2>4 DEF OfUsers
<1> QED
  BY <1>2, <1>3, <1>4, <1>5

\* It holds where nothing is cached.
LEMMA InitPermissions ==
  ASSUME PermissionAssumption, P!Init
  PROVE  PermissionTypes /\ PermissionsCurrent
<1>1. /\ policy = [roles |-> {}, granted |-> [r \in Role |-> {}],
                   assigned |-> [u \in User |-> {}]]
      /\ change = P!None /\ entries = <<>> /\ expired = 0
      /\ lookup = [r \in Reader |-> P!Idle] /\ overlapped = {}
  BY DEF P!Init
<1>2. P!Idle \in Lookups /\ P!Idle.pc = "idle"
  BY DEF P!Idle, Lookups
<1>3. policy \in P!Policy
  BY <1>1 DEF P!Policy
<1>4. entries \in Seq(P!Entry) /\ Len(entries) = 0 /\ Range(entries) = {}
  BY <1>1, OfEmpty
<1>5. PermissionTypes
  BY <1>1, <1>2, <1>3, <1>4 DEF PermissionTypes, PermissionAssumption, OfUsers
<1>6. Assigned(policy)
  BY <1>1 DEF Assigned
<1>7. PermissionsCurrent
  BY <1>1, <1>2, <1>4, <1>6 DEF PermissionsCurrent, Current
<1> QED
  BY <1>5, <1>7

\* A lookup at rest.
LEMMA IdleLookup ==
  P!Idle \in Lookups /\ P!Idle.pc = "idle" /\ P!Idle' = P!Idle
BY DEF P!Idle, Lookups

\* A lookup that begins.
LEMMA LookupRecords ==
  ASSUME NEW u \in User, NEW pc \in {"query", "drop"}
  PROVE  /\ [P!Idle EXCEPT !.pc = pc, !.user = u] \in Lookups
         /\ [P!Idle EXCEPT !.pc = pc, !.user = u].pc = pc
         /\ [P!Idle EXCEPT !.pc = pc, !.user = u].user = u
BY DEF P!Idle, Lookups

\* A step of a lookup leaves of the entries what it leaves, and does not touch
\* the policy.
LEMMA EntriesShrink ==
  ASSUME PermissionTypes, PermissionsCurrent, UNCHANGED <<policy, change, overlapped>>,
         entries' \in Seq(P!Entry), Range(entries') \subseteq Range(entries),
         Len(entries') <= MaxSize + 1, OfUsers(entries'), expired' \in 0..Len(entries'),
         lookup' \in [Reader -> Lookups],
         \A r \in Reader : lookup'[r].pc # "idle" => lookup'[r].user \in User,
         \A r \in Reader : lookup'[r].pc = "store" /\ ~lookup'[r].late =>
            lookup'[r].found = P!PermissionsOf(policy, lookup'[r].user)
  PROVE  PermissionTypes' /\ PermissionsCurrent'
<1>1. PermissionTypes'
  <2>1. policy' \in P!Policy' /\ change' \in (P!Policy' \cup {P!None'})
        /\ overlapped' \subseteq User
    BY DEF PermissionTypes, P!Policy, P!None
  <2> QED
    BY <2>1 DEF PermissionTypes, OfUsers, P!Entry, Lookups
<1>2. ASSUME NEW p, Current(entries, p, overlapped)
      PROVE  Current(entries', p, overlapped)
  BY <1>2 DEF Current
<1>3. PermissionsCurrent'
  <2>1. P!None' = P!None
    BY DEF P!None
  <2>2. Assigned(policy) /\ Current(entries', policy, overlapped)
    BY <1>2 DEF PermissionsCurrent
  <2>3. change # P!None => Assigned(change) /\ Current(entries', change, overlapped)
    BY <1>2 DEF PermissionsCurrent
  <2> QED
    BY <2>1, <2>2, <2>3
    DEF PermissionsCurrent, Assigned, Current, Grants, Range, P!PermissionsOf
<1> QED
  BY <1>1, <1>3

\* A lookup begins, drops an expired entry and reads.
LEMMA LookupSteps ==
  ASSUME PermissionAssumption, PermissionTypes, PermissionsCurrent,
         NEW r \in Reader,
         (\E u \in User : P!Lookup(r, u)) \/ P!Drop(r) \/ P!Query(r)
  PROVE  PermissionTypes' /\ PermissionsCurrent'
<1>0. /\ lookup \in [Reader -> Lookups] /\ entries \in Seq(P!Entry)
      /\ Len(entries) \in Nat /\ MaxSize \in Nat
      /\ Len(entries) <= MaxSize + 1 /\ OfUsers(entries) /\ expired \in 0..Len(entries)
      /\ \A q \in Reader : lookup[q].pc # "idle" => lookup[q].user \in User
      /\ \A q \in Reader :
           lookup[q].pc = "store" /\ ~lookup[q].late =>
             lookup[q].found = P!PermissionsOf(policy, lookup[q].user)
  BY LenProperties DEF PermissionTypes, PermissionsCurrent, PermissionAssumption
<1>1. ASSUME NEW l \in Lookups, lookup' = [lookup EXCEPT ![r] = l],
             l.pc # "idle" => l.user \in User,
             l.pc = "store" /\ ~l.late => l.found = P!PermissionsOf(policy, l.user)
      PROVE  /\ lookup' \in [Reader -> Lookups]
             /\ \A q \in Reader : lookup'[q].pc # "idle" => lookup'[q].user \in User
             /\ \A q \in Reader :
                  lookup'[q].pc = "store" /\ ~lookup'[q].late =>
                    lookup'[q].found = P!PermissionsOf(policy, lookup'[q].user)
  <2>1. lookup'[r] = l /\ \A q \in Reader \ {r} : lookup'[q] = lookup[q]
    BY <1>0, <1>1
  <2>2. lookup' \in [Reader -> Lookups]
    BY <1>0, <1>1
  <2> QED
    BY <1>0, <1>1, <2>1, <2>2
<1>2. ASSUME NEW u \in User, P!Lookup(r, u)
      PROVE  PermissionTypes' /\ PermissionsCurrent'
  <2>1. PICK evict \in P!MayEvict :
          LET kept == IF evict THEN P!Evicted ELSE entries
              old == IF evict THEN 0 ELSE expired
              s == {i \in DOMAIN kept : kept[i].user = u}
          IN  /\ entries' = kept
              /\ expired' = old
              /\ lookup' = [lookup EXCEPT ![r] =
                   IF s = {} THEN [P!Idle EXCEPT !.pc = "query", !.user = u]
                   ELSE IF s \subseteq 1..old
                   THEN [P!Idle EXCEPT !.pc = "drop", !.user = u]
                   ELSE P!Idle]
              /\ UNCHANGED <<policy, change, overlapped>>
    BY <1>2 DEF P!Lookup, P!Now
  <2>2. /\ entries' \in Seq(P!Entry) /\ Range(entries') \subseteq Range(entries)
        /\ Len(entries') <= MaxSize + 1 /\ OfUsers(entries')
        /\ expired' \in 0..Len(entries')
    <3>1. CASE evict
      <4>1. entries' = P!Evicted /\ expired' = 0
        BY <2>1, <3>1
      <4> QED
        BY <1>0, <4>1, EvictedEntries
    <3>2. CASE ~evict
      <4>1. entries' = entries /\ expired' = expired
        BY <2>1, <3>2
      <4> QED
        BY <1>0, <4>1
    <3> QED
      BY <3>1, <3>2
  <2>3. \E l \in Lookups : /\ lookup' = [lookup EXCEPT ![r] = l]
                          /\ l.pc # "store" /\ (l.pc # "idle" => l.user \in User)
    <3> DEFINE ask == [P!Idle EXCEPT !.pc = "query", !.user = u]
               drop == [P!Idle EXCEPT !.pc = "drop", !.user = u]
    <3>1. \/ lookup' = [lookup EXCEPT ![r] = ask]
          \/ lookup' = [lookup EXCEPT ![r] = drop]
          \/ lookup' = [lookup EXCEPT ![r] = P!Idle]
      BY <2>1
    <3>2. /\ ask \in Lookups /\ ask.pc = "query" /\ ask.user \in User
          /\ drop \in Lookups /\ drop.pc = "drop" /\ drop.user \in User
      BY LookupRecords
    <3> HIDE DEF ask, drop
    <3> QED
      BY <3>1, <3>2, IdleLookup
  <2>4. UNCHANGED <<policy, change, overlapped>>
    BY <2>1
  <2> QED
    BY <1>1, <2>2, <2>3, <2>4, EntriesShrink
<1>3. CASE P!Drop(r)
  <2> DEFINE u == lookup[r].user
  <2>1. /\ lookup[r].pc = "drop"
        /\ entries' = P!WithoutUsers(entries, {u})
        /\ expired' = Len(P!WithoutUsers(SubSeq(entries, 1, expired), {u}))
        /\ lookup' = [lookup EXCEPT ![r] =
             IF P!Cached(u) THEN [P!Idle EXCEPT !.pc = "query", !.user = u] ELSE P!Idle]
        /\ UNCHANGED <<policy, change, overlapped>>
    BY <1>3 DEF P!Drop, P!Invalidate, P!Now
  <2>2. u \in User
    BY <1>0, <2>1
  <2>3. /\ entries' \in Seq(P!Entry) /\ Range(entries') \subseteq Range(entries)
        /\ Len(entries') <= MaxSize + 1 /\ OfUsers(entries')
        /\ expired' \in 0..Len(entries')
    <3> DEFINE t == P!WithoutUsers(entries, {u})
               e == P!WithoutUsers(SubSeq(entries, 1, expired), {u})
    <3>1. /\ t \in Seq(P!Entry) /\ Len(t) \in Nat /\ Len(t) <= Len(entries)
          /\ Range(t) = {x \in Range(entries) : x.user \notin {u}}
          /\ OfUsers(entries) => OfUsers(t)
          /\ Len(e) \in 0..Len(t)
      BY <1>0, WithoutSome
    <3>2. entries' = t /\ expired' = Len(e)
      BY <2>1
    <3> HIDE DEF t, e
    <3> QED
      BY <1>0, <3>1, <3>2
  <2>4. \E l \in Lookups : /\ lookup' = [lookup EXCEPT ![r] = l]
                          /\ l.pc # "store" /\ (l.pc # "idle" => l.user \in User)
    <3> DEFINE ask == [P!Idle EXCEPT !.pc = "query", !.user = u]
    <3>1. lookup' = [lookup EXCEPT ![r] = ask] \/ lookup' = [lookup EXCEPT ![r] = P!Idle]
      BY <2>1
    <3>2. ask \in Lookups /\ ask.pc = "query" /\ ask.user \in User
      BY <2>2, LookupRecords
    <3> HIDE DEF ask
    <3> QED
      BY <3>1, <3>2, IdleLookup
  <2>5. UNCHANGED <<policy, change, overlapped>>
    BY <2>1
  <2> QED
    BY <1>1, <2>3, <2>4, <2>5, EntriesShrink
<1>4. CASE P!Query(r)
  <2> DEFINE f == P!PermissionsOf(policy, lookup[r].user)
             l == [lookup[r] EXCEPT !.pc = "store", !.found = f]
  <2>1. /\ lookup[r].pc = "query" /\ lookup' = [lookup EXCEPT ![r] = l]
        /\ UNCHANGED <<policy, change, entries, expired, overlapped>>
    BY <1>4 DEF P!Query, P!Now
  <2>2. lookup[r] \in Lookups /\ lookup[r].user \in User
    BY <1>0, <2>1
  <2>3. f \subseteq Permission
    BY <2>2 DEF P!PermissionsOf, PermissionTypes, P!Policy, PermissionsCurrent, Assigned
  <2> HIDE DEF f
  <2>4. l \in Lookups /\ l.pc = "store" /\ l.found = f /\ l.user = lookup[r].user
    BY <2>2, <2>3 DEF Lookups
  <2> HIDE DEF l
  <2>5. /\ lookup' \in [Reader -> Lookups]
        /\ \A q \in Reader : lookup'[q].pc # "idle" => lookup'[q].user \in User
        /\ \A q \in Reader :
             lookup'[q].pc = "store" /\ ~lookup'[q].late =>
               lookup'[q].found = P!PermissionsOf(policy, lookup'[q].user)
    BY <1>1, <2>1, <2>2, <2>4 DEF f
  <2> QED
    BY <1>0, <2>1, <2>5, EntriesShrink
<1> QED
  BY <1>2, <1>3, <1>4

\* A lookup stores what it found.
LEMMA StoreStep ==
  ASSUME PermissionAssumption, PermissionTypes, PermissionsCurrent,
         NEW r \in Reader, P!Store(r)
  PROVE  PermissionTypes' /\ PermissionsCurrent'
<1> DEFINE u == lookup[r].user
           new == [user |-> u, permissions |-> lookup[r].found]
<1>0. /\ lookup \in [Reader -> Lookups] /\ entries \in Seq(P!Entry)
      /\ Len(entries) \in Nat /\ MaxSize \in Nat
      /\ Len(entries) <= MaxSize + 1 /\ OfUsers(entries) /\ expired \in 0..Len(entries)
  BY LenProperties DEF PermissionTypes, PermissionAssumption
<1>1. PICK evict \in P!MayEvict :
        LET kept == IF evict THEN P!Evicted ELSE entries
        IN  /\ lookup[r].pc = "store"
            /\ entries' = Append(P!WithoutUsers(kept, {u}), new)
            /\ expired' = IF evict THEN 0
                          ELSE Len(P!WithoutUsers(SubSeq(entries, 1, expired), {u}))
            /\ overlapped' = IF lookup[r].late \/ change # P!None
                             THEN overlapped \cup {u} ELSE overlapped \ {u}
            /\ lookup' = [lookup EXCEPT ![r] = P!Idle]
            /\ UNCHANGED <<policy, change>>
  BY <1>0 DEF P!Store, P!Now
<1> DEFINE kept == IF evict THEN P!Evicted ELSE entries
           t == P!WithoutUsers(kept, {u})
<1>2. lookup[r].pc = "store" /\ u \in User /\ new \in P!Entry /\ new.user = u
      /\ new.permissions = lookup[r].found
  BY <1>0, <1>1 DEF PermissionTypes, Lookups, P!Entry
<1>3. kept \in Seq(P!Entry) /\ Len(kept) \in Nat /\ Len(kept) <= MaxSize /\ OfUsers(kept)
      /\ Range(kept) \subseteq Range(entries)
  <2>1. CASE evict
    BY <2>1, EvictedEntries
  <2>2. CASE ~evict
    <3>1. Len(entries) <= MaxSize
      <4>1. Len(entries) > MaxSize => evict = TRUE
        BY DEF P!MayEvict
      <4> QED
        BY <1>0, <2>2, <4>1
    <3> QED
      BY <1>0, <2>2, <3>1
  <2> QED
    BY <2>1, <2>2
<1>4. /\ t \in Seq(P!Entry) /\ Len(t) \in Nat /\ Len(t) <= MaxSize /\ OfUsers(t)
      /\ Range(t) \subseteq Range(entries) /\ \A e \in Range(t) : e.user # u
  <2> HIDE DEF kept
  <2>1. 0 \in 0..Len(kept)
    BY <1>3
  <2>2. /\ t \in Seq(P!Entry) /\ Len(t) \in Nat /\ Len(t) <= Len(kept)
        /\ Range(t) = {e \in Range(kept) : e.user \notin {u}}
        /\ OfUsers(kept) => OfUsers(t)
    BY <1>3, <2>1, WithoutSome
  <2> HIDE DEF t
  <2> QED
    BY <1>0, <1>3, <2>2
<1>5. entries' = Append(t, new) /\ lookup' = [lookup EXCEPT ![r] = P!Idle]
      /\ UNCHANGED <<policy, change>>
  BY <1>1
<1> DEFINE e == P!WithoutUsers(SubSeq(entries, 1, expired), {u})
<1>6. expired' \in 0..Len(t)
  <2>1. CASE evict
    BY <1>1, <1>4, <2>1
  <2>2. CASE ~evict
    <3>1. expired' = Len(e) /\ kept = entries
      BY <1>1, <2>2
    <3>2. Len(e) \in 0..Len(P!WithoutUsers(entries, {u}))
      BY <1>0, WithoutSome
    <3> QED
      BY <3>1, <3>2
  <2> QED
    BY <2>1, <2>2
<1> HIDE DEF t, new, e
<1>7. /\ entries' \in Seq(P!Entry) /\ Len(entries') = Len(t) + 1
      /\ Range(entries') = Range(t) \cup {new} /\ OfUsers(entries')
  <2>1. /\ Append(t, new) \in Seq(P!Entry) /\ Len(Append(t, new)) = Len(t) + 1
    BY <1>2, <1>4, AppendProperties
  <2>2. Range(Append(t, new)) = Range(t) \cup {new}
    BY <1>2, <1>4, RangeAppended
  <2>3. OfUsers(Append(t, new))
    BY <1>2, <1>4, OfUsersAppended
  <2> QED
    BY <1>5, <2>1, <2>2, <2>3
<1>8. /\ lookup' \in [Reader -> Lookups] /\ lookup'[r] = P!Idle
      /\ \A q \in Reader \ {r} : lookup'[q] = lookup[q]
  BY <1>0, <1>5, IdleLookup
<1>9. PermissionTypes'
  <2>1. policy' \in P!Policy' /\ change' \in (P!Policy' \cup {P!None'})
    BY <1>5 DEF PermissionTypes, P!Policy, P!None
  <2>2. overlapped' \subseteq User
    BY <1>1, <1>2 DEF PermissionTypes
  <2>3. \A q \in Reader : lookup'[q].pc # "idle" => lookup'[q].user \in User
    BY <1>8, IdleLookup DEF PermissionTypes
  <2>4. Len(entries') <= MaxSize + 1 /\ expired' \in 0..Len(entries')
    BY <1>0, <1>4, <1>6, <1>7
  <2> QED
    BY <1>7, <1>8, <2>1, <2>2, <2>3, <2>4 DEF PermissionTypes, OfUsers, P!Entry, Lookups
<1>10. ASSUME NEW p, Current(entries, p, overlapped),
              lookup[r].late \/ change # P!None \/ Grants(p, new)
       PROVE  Current(entries', p, overlapped')
  <2> SUFFICES ASSUME NEW x \in Range(entries'), x.user \notin overlapped'
               PROVE  Grants(p, x)
    BY DEF Current
  <2>1. CASE x = new
    <3>1. ~(lookup[r].late \/ change # P!None)
      BY <1>1, <1>2, <2>1
    <3> QED
      BY <1>10, <2>1, <3>1
  <2>2. CASE x # new
    <3>1. x \in Range(entries) /\ x.user # u
      BY <1>4, <1>7, <2>2
    <3>2. x.user \notin overlapped
      BY <1>1, <3>1
    <3> QED
      BY <1>10, <3>1, <3>2 DEF Current
  <2> QED
    BY <2>1, <2>2
<1>11. PermissionsCurrent'
  <2>1. P!None' = P!None
    BY DEF P!None
  <2>2. lookup[r].late \/ Grants(policy, new)
    BY <1>2 DEF PermissionsCurrent, Grants
  <2>3. Assigned(policy) /\ Current(entries', policy, overlapped')
    BY <1>10, <2>2 DEF PermissionsCurrent
  <2>4. change # P!None => Assigned(change) /\ Current(entries', change, overlapped')
    BY <1>10 DEF PermissionsCurrent
  <2>5. \A q \in Reader : lookup'[q].pc = "store" /\ ~lookup'[q].late =>
          lookup'[q].found = P!PermissionsOf(policy, lookup'[q].user)
    BY <1>8, IdleLookup DEF PermissionsCurrent
  <2> QED
    BY <1>5, <2>1, <2>3, <2>4, <2>5
    DEF PermissionsCurrent, Assigned, Current, Grants, Range, P!PermissionsOf
<1> QED
  BY <1>9, <1>11

\* A change that is written: it differs from the policy for nobody whose entry
\* stays, unless the entry counts as overlapped.
LEMMA PolicyWritten ==
  ASSUME PermissionAssumption, PermissionTypes, PermissionsCurrent,
         NEW p \in P!Policy, P!Write(p), Assigned(p),
         entries' \in Seq(P!Entry), Range(entries') \subseteq Range(entries),
         Len(entries') <= MaxSize + 1, OfUsers(entries'), expired' \in 0..Len(entries'),
         overlapped \subseteq overlapped', overlapped' \subseteq User,
         \A e \in Range(entries') : e.user \notin overlapped' =>
           P!PermissionsOf(p, e.user) = P!PermissionsOf(policy, e.user)
  PROVE  PermissionTypes' /\ PermissionsCurrent'
<1>1. change' = p /\ UNCHANGED <<policy, lookup>>
  BY DEF P!Write
<1>2. PermissionTypes'
  <2>1. policy' \in P!Policy' /\ change' \in (P!Policy' \cup {P!None'})
    BY <1>1 DEF PermissionTypes, P!Policy, P!None
  <2> QED
    BY <1>1, <2>1 DEF PermissionTypes, OfUsers, P!Entry, Lookups
<1>3. Current(entries', policy, overlapped')
  BY DEF PermissionsCurrent, Current
<1>4. Current(entries', p, overlapped')
  BY <1>3 DEF Current, Grants
<1>5. PermissionsCurrent'
  BY <1>1, <1>3, <1>4
  DEF PermissionsCurrent, Assigned, Current, Grants, Range, P!PermissionsOf
<1> QED
  BY <1>2, <1>5

\* The entries that an invalidation leaves.
LEMMA Invalidated ==
  ASSUME PermissionAssumption, PermissionTypes, NEW users, P!Invalidate(users)
  PROVE  /\ entries' \in Seq(P!Entry)
         /\ Range(entries') = {e \in Range(entries) : e.user \notin users}
         /\ Len(entries') <= MaxSize + 1 /\ OfUsers(entries')
         /\ expired' \in 0..Len(entries')
<1> DEFINE t == P!WithoutUsers(entries, users)
           e == P!WithoutUsers(SubSeq(entries, 1, expired), users)
<1>0. /\ entries \in Seq(P!Entry) /\ Len(entries) \in Nat /\ MaxSize \in Nat
      /\ Len(entries) <= MaxSize + 1 /\ OfUsers(entries) /\ expired \in 0..Len(entries)
  BY LenProperties DEF PermissionTypes, PermissionAssumption
<1>1. entries' = t /\ expired' = Len(e)
  BY DEF P!Invalidate
<1>2. /\ t \in Seq(P!Entry) /\ Len(t) \in Nat /\ Len(t) <= Len(entries)
      /\ Range(t) = {x \in Range(entries) : x.user \notin users}
      /\ OfUsers(entries) => OfUsers(t)
      /\ Len(e) \in 0..Len(t)
  BY <1>0, WithoutSome
<1> HIDE DEF t, e
<1> QED
  BY <1>0, <1>1, <1>2

\* A change of the policy that clears the cache.
LEMMA PolicyCleared ==
  ASSUME PermissionAssumption, PermissionTypes, PermissionsCurrent,
         NEW p \in P!Policy, Assigned(p), P!WriteAndClear(p)
  PROVE  PermissionTypes' /\ PermissionsCurrent'
<1>1. P!Write(p) /\ P!Invalidate(User) /\ overlapped' = overlapped
  BY DEF P!WriteAndClear
<1>2. /\ entries' \in Seq(P!Entry)
      /\ Range(entries') = {e \in Range(entries) : e.user \notin User}
      /\ Len(entries') <= MaxSize + 1 /\ OfUsers(entries')
      /\ expired' \in 0..Len(entries')
  BY <1>1, Invalidated
<1>3. Range(entries) \subseteq P!Entry
  BY RangeOfSeq DEF PermissionTypes
<1>4. Range(entries') = {}
  BY <1>2, <1>3 DEF P!Entry
<1>5. overlapped' \subseteq User
  BY <1>1 DEF PermissionTypes
<1> QED
  BY <1>1, <1>2, <1>4, <1>5, PolicyWritten

\* A change of the roles of one user, that invalidates this user.
LEMMA OneUserStep ==
  ASSUME PermissionAssumption, PermissionTypes, PermissionsCurrent,
         NEW u \in User, NEW given \in SUBSET Role, given \subseteq policy.roles,
         NEW p, p = [policy EXCEPT !.assigned[u] = given],
         P!Write(p), P!Invalidate({u}), UNCHANGED overlapped
  PROVE  PermissionTypes' /\ PermissionsCurrent'
<1>1. policy \in P!Policy /\ Assigned(policy) /\ overlapped \subseteq User
  BY DEF PermissionTypes, PermissionsCurrent
<1>2. /\ p \in P!Policy /\ p.roles = policy.roles /\ p.granted = policy.granted
      /\ p.assigned[u] = given
      /\ \A v \in User \ {u} : p.assigned[v] = policy.assigned[v]
  BY <1>1 DEF P!Policy
<1>3. Assigned(p)
  BY <1>1, <1>2 DEF Assigned
<1>4. \A v \in User \ {u} : P!PermissionsOf(p, v) = P!PermissionsOf(policy, v)
  BY <1>2 DEF P!PermissionsOf
<1>5. /\ entries' \in Seq(P!Entry)
      /\ Range(entries') = {e \in Range(entries) : e.user \notin {u}}
      /\ Len(entries') <= MaxSize + 1 /\ OfUsers(entries')
      /\ expired' \in 0..Len(entries')
  BY Invalidated
<1>6. \A e \in Range(entries') : e.user \in User \ {u}
  <2>1. Range(entries) \subseteq P!Entry
    BY RangeOfSeq DEF PermissionTypes
  <2> QED
    BY <1>5, <2>1 DEF P!Entry
<1> QED
  BY <1>1, <1>2, <1>3, <1>4, <1>5, <1>6, PolicyWritten

\* Seeding keeps the assignments.
LEMMA SeededPolicy ==
  ASSUME PermissionAssumption, NEW p \in P!Policy
  PROVE  /\ P!SeedRoles(p) \in P!Policy /\ P!SeedRoles(p).roles = Role
         /\ P!SeedRoles(p).assigned = p.assigned /\ Assigned(P!SeedRoles(p))
<1>1. /\ P!SeedRoles(p) \in P!Policy /\ P!SeedRoles(p).roles = Role
      /\ P!SeedRoles(p).assigned = p.assigned
  BY DEF P!SeedRoles, P!Policy, PermissionAssumption
<1>2. Assigned(P!SeedRoles(p))
  BY <1>1 DEF Assigned, P!Policy
<1> QED
  BY <1>1, <1>2

\* A user without a role gets the default one.
LEMMA EnsureStep ==
  ASSUME PermissionAssumption, PermissionTypes, PermissionsCurrent,
         NEW u \in User, P!EnsureRole(u)
  PROVE  PermissionTypes' /\ PermissionsCurrent'
<1> DEFINE p == IF policy.roles = {} THEN P!SeedRoles(policy) ELSE policy
           q == [p EXCEPT !.assigned[u] = {Default}]
<1>1. /\ policy.assigned[u] = {} /\ Default \in p.roles /\ P!Write(q)
      /\ overlapped' = IF P!Cached(u) THEN overlapped \cup {u} ELSE overlapped
      /\ UNCHANGED <<entries, expired>>
  BY DEF P!EnsureRole
<1>2. policy \in P!Policy /\ Assigned(policy) /\ overlapped \subseteq User /\ Default \in Role
      /\ entries \in Seq(P!Entry) /\ Range(entries) \subseteq P!Entry
  BY RangeOfSeq DEF PermissionTypes, PermissionsCurrent, PermissionAssumption
<1>3. /\ p \in P!Policy /\ Assigned(p) /\ p.assigned = policy.assigned
      /\ p = policy \/ policy.roles = {}
  BY <1>2, SeededPolicy
<1> HIDE DEF p
<1>4. /\ q \in P!Policy /\ q.roles = p.roles /\ q.granted = p.granted
      /\ q.assigned[u] = {Default}
      /\ \A v \in User \ {u} : q.assigned[v] = p.assigned[v]
  BY <1>2, <1>3 DEF P!Policy
<1> HIDE DEF q
<1>5. Assigned(q)
  BY <1>1, <1>3, <1>4 DEF Assigned
<1>6. ASSUME NEW v \in User \ {u}
      PROVE  P!PermissionsOf(q, v) = P!PermissionsOf(policy, v)
  <2>1. CASE p = policy
    BY <1>4, <2>1 DEF P!PermissionsOf
  <2>2. CASE policy.roles = {}
    <3>1. policy.assigned[v] = {} /\ q.assigned[v] = {}
      BY <1>2, <1>3, <1>4, <2>2 DEF Assigned
    <3> QED
      BY <3>1 DEF P!PermissionsOf
  <2> QED
    BY <1>3, <2>1, <2>2
<1>7. ASSUME NEW e \in Range(entries), e.user \notin overlapped'
      PROVE  e.user \in User \ {u}
  <2>1. e.user \in User
    BY <1>2 DEF P!Entry
  <2>2. PICK i \in DOMAIN entries : entries[i] = e
    BY DEF Range
  <2>3. e.user = u => P!Cached(u)
    BY <2>2 DEF P!Cached
  <2> QED
    BY <1>1, <1>7, <2>1, <2>3
<1>8. overlapped \subseteq overlapped' /\ overlapped' \subseteq User
  BY <1>1, <1>2
<1>9. \A e \in Range(entries') : e.user \notin overlapped' =>
        P!PermissionsOf(q, e.user) = P!PermissionsOf(policy, e.user)
  BY <1>1, <1>6, <1>7
<1>10. /\ entries' \in Seq(P!Entry) /\ Range(entries') \subseteq Range(entries)
       /\ Len(entries') <= MaxSize + 1 /\ OfUsers(entries')
       /\ expired' \in 0..Len(entries')
  BY <1>1, <1>2 DEF PermissionTypes
<1> QED
  BY <1>1, <1>4, <1>5, <1>8, <1>9, <1>10, PolicyWritten

\* The changes that the routes make.
LEMMA ChangeSteps ==
  ASSUME PermissionAssumption, PermissionTypes, PermissionsCurrent, P!ChangePolicy
  PROVE  PermissionTypes' /\ PermissionsCurrent'
<1>0. policy \in P!Policy /\ Assigned(policy)
  BY DEF PermissionTypes, PermissionsCurrent
<1>1. ASSUME NEW r \in Role, NEW rights \in SUBSET Permission,
             P!CreateRole(r, rights)
      PROVE  PermissionTypes' /\ PermissionsCurrent'
  <2> DEFINE p == [policy EXCEPT !.roles = @ \cup {r}, !.granted[r] = rights]
  <2>1. p \in P!Policy /\ p.roles = policy.roles \cup {r} /\ p.assigned = policy.assigned
    BY <1>0 DEF P!Policy
  <2>2. P!WriteAndClear(p)
    BY <1>1 DEF P!CreateRole
  <2> HIDE DEF p
  <2>3. Assigned(p)
    BY <1>0, <2>1 DEF Assigned
  <2> QED
    BY <2>1, <2>2, <2>3, PolicyCleared
<1>2. ASSUME NEW r \in Role, P!UpdateRole(r)
      PROVE  PermissionTypes' /\ PermissionsCurrent'
  BY <1>0, <1>2, PolicyCleared DEF P!UpdateRole
<1>3. ASSUME NEW r \in Role, P!DeleteRole(r)
      PROVE  PermissionTypes' /\ PermissionsCurrent'
  <2> DEFINE p == [roles |-> policy.roles \ {r},
                   granted |-> [policy.granted EXCEPT ![r] = {}],
                   assigned |-> [u \in User |-> policy.assigned[u] \ {r}]]
  <2>1. p \in P!Policy
    BY <1>0 DEF P!Policy
  <2>2. P!WriteAndClear(p)
    BY <1>3 DEF P!DeleteRole
  <2>3. p.roles = policy.roles \ {r} /\ \A u \in User : p.assigned[u] = policy.assigned[u] \ {r}
    OBVIOUS
  <2> HIDE DEF p
  <2>4. Assigned(p)
    BY <1>0, <2>3 DEF Assigned
  <2> QED
    BY <2>1, <2>2, <2>4, PolicyCleared
<1>4. ASSUME NEW r \in Role, NEW q \in Permission,
             P!AssignPermission(r, q) \/ P!RevokePermission(r, q)
      PROVE  PermissionTypes' /\ PermissionsCurrent'
  <2>1. PICK c \in SUBSET Permission :
          P!WriteAndClear([policy EXCEPT !.granted[r] = c])
    <3>1. policy.granted[r] \in SUBSET Permission
      BY <1>0 DEF P!Policy
    <3>2. CASE P!AssignPermission(r, q)
      <4>1. P!WriteAndClear([policy EXCEPT !.granted[r] = policy.granted[r] \cup {q}])
        BY <3>2 DEF P!AssignPermission
      <4> QED
        BY <3>1, <4>1
    <3>3. CASE P!RevokePermission(r, q)
      <4>1. P!WriteAndClear([policy EXCEPT !.granted[r] = policy.granted[r] \ {q}])
        BY <3>3 DEF P!RevokePermission
      <4> QED
        BY <3>1, <4>1
    <3> QED
      BY <1>4, <3>2, <3>3
  <2> DEFINE p == [policy EXCEPT !.granted[r] = c]
  <2>2. p \in P!Policy /\ p.roles = policy.roles /\ p.assigned = policy.assigned
    BY <1>0 DEF P!Policy
  <2>3. P!WriteAndClear(p)
    BY <2>1
  <2> HIDE DEF p
  <2>4. Assigned(p)
    BY <1>0, <2>2 DEF Assigned
  <2> QED
    BY <2>2, <2>3, <2>4, PolicyCleared
<1>5. ASSUME NEW u \in User, NEW given \in SUBSET Role,
             P!AssignRoles(u, given) \/ P!RevokeRoles(u, given)
      PROVE  PermissionTypes' /\ PermissionsCurrent'
  <2>1. policy.assigned[u] \subseteq policy.roles /\ policy.roles \subseteq Role
    BY <1>0 DEF Assigned, P!Policy
  <2>2. CASE P!AssignRoles(u, given)
    <3> DEFINE all == policy.assigned[u] \cup given
    <3>1. /\ P!Write([policy EXCEPT !.assigned[u] = all])
          /\ P!Invalidate({u}) /\ UNCHANGED overlapped /\ given \subseteq policy.roles
      BY <2>2 DEF P!AssignRoles
    <3>2. all \in SUBSET Role /\ all \subseteq policy.roles
      BY <2>1, <3>1
    <3> HIDE DEF all
    <3> QED
      BY <3>1, <3>2, OneUserStep
  <2>3. CASE P!RevokeRoles(u, given)
    <3> DEFINE rest == policy.assigned[u] \ given
    <3>1. /\ P!Write([policy EXCEPT !.assigned[u] = rest])
          /\ P!Invalidate({u}) /\ UNCHANGED overlapped
      BY <2>3 DEF P!RevokeRoles
    <3>2. rest \in SUBSET Role /\ rest \subseteq policy.roles
      BY <2>1
    <3> HIDE DEF rest
    <3> QED
      BY <3>1, <3>2, OneUserStep
  <2> QED
    BY <1>5, <2>2, <2>3
<1>6. CASE P!Seed
  BY <1>0, <1>6, SeededPolicy, PolicyCleared DEF P!Seed
<1> QED
  BY <1>1, <1>2, <1>3, <1>4, <1>5, <1>6, EnsureStep DEF P!ChangePolicy

\* Each step of the cache and of the policy keeps it.
LEMMA PermissionSteps ==
  ASSUME PermissionAssumption, PermissionTypes, PermissionsCurrent, [P!Next]_(P!vars)
  PROVE  PermissionTypes' /\ PermissionsCurrent'
<1>0. /\ lookup \in [Reader -> Lookups] /\ entries \in Seq(P!Entry)
      /\ Len(entries) \in Nat /\ Len(entries) <= MaxSize + 1 /\ OfUsers(entries)
      /\ expired \in 0..Len(entries) /\ policy \in P!Policy
      /\ \A q \in Reader : lookup[q].pc # "idle" => lookup[q].user \in User
      /\ \A q \in Reader :
           lookup[q].pc = "store" /\ ~lookup[q].late =>
             lookup[q].found = P!PermissionsOf(policy, lookup[q].user)
  BY LenProperties DEF PermissionTypes, PermissionsCurrent
<1>1. CASE UNCHANGED P!vars
  <2>1. UNCHANGED <<policy, change, entries, expired, lookup, overlapped>>
    BY <1>1 DEF P!vars
  <2> QED
    BY <1>0, <2>1, EntriesShrink
<1>2. CASE P!Expire
  <2>1. UNCHANGED <<policy, change, entries, lookup, overlapped>>
        /\ expired < Len(entries) /\ expired' = expired + 1
    BY <1>2 DEF P!Expire
  <2>2. expired' \in 0..Len(entries)
    BY <1>0, <2>1
  <2> QED
    BY <1>0, <2>1, <2>2, EntriesShrink
<1>3. CASE P!Rollback
  <2>1. change' = P!None /\ UNCHANGED <<policy, entries, expired, lookup, overlapped>>
        /\ P!None' = P!None
    BY <1>3 DEF P!Rollback, P!None
  <2>2. PermissionTypes'
    BY <2>1 DEF PermissionTypes, OfUsers, P!Entry, Lookups, P!Policy
  <2>3. PermissionsCurrent'
    BY <2>1 DEF PermissionsCurrent, Assigned, Current, Grants, Range, P!PermissionsOf
  <2> QED
    BY <2>2, <2>3
<1>4. CASE P!Commit
  <2>1. /\ change # P!None /\ policy' = change /\ change' = P!None /\ P!None' = P!None
        /\ lookup' = [r \in Reader |->
                        [lookup[r] EXCEPT !.late = @ \/ lookup[r].pc = "store"]]
        /\ UNCHANGED <<entries, expired, overlapped>>
    BY <1>4 DEF P!Commit, P!None
  <2>2. ASSUME NEW r \in Reader
        PROVE  /\ lookup'[r] \in Lookups /\ lookup'[r].pc = lookup[r].pc
               /\ lookup'[r].user = lookup[r].user
               /\ lookup'[r].pc = "store" => lookup'[r].late
    <3> DEFINE b == lookup[r].late \/ lookup[r].pc = "store"
    <3>1. lookup'[r] = [lookup[r] EXCEPT !.late = b]
      BY <2>1
    <3>2. b \in BOOLEAN /\ (lookup[r].pc = "store" => b) /\ lookup[r] \in Lookups
      BY <1>0
    <3> HIDE DEF b
    <3> QED
      BY <3>1, <3>2 DEF Lookups
  <2>3. lookup' \in [Reader -> Lookups]
    <3>1. lookup' = [r \in Reader |-> lookup'[r]]
      BY <2>1
    <3> QED
      BY <2>2, <3>1
  <2>4. PermissionTypes'
    <3>1. policy' \in P!Policy' /\ change' \in (P!Policy' \cup {P!None'})
      BY <2>1 DEF PermissionTypes, P!Policy
    <3>2. \A r \in Reader : lookup'[r].pc # "idle" => lookup'[r].user \in User
      BY <1>0, <2>2
    <3> QED
      BY <2>1, <2>3, <3>1, <3>2 DEF PermissionTypes, OfUsers, P!Entry, Lookups
  <2>5. Assigned(change) /\ Current(entries, change, overlapped)
    BY <2>1 DEF PermissionsCurrent
  <2>6. PermissionsCurrent'
    BY <2>1, <2>2, <2>5
    DEF PermissionsCurrent, Assigned, Current, Grants, Range, P!PermissionsOf
  <2> QED
    BY <2>4, <2>6
<1> QED
  BY <1>1, <1>2, <1>3, <1>4, LookupSteps, StoreStep, ChangeSteps DEF P!Next

\* It is enough for what AccessIsTrue says of PermissionCache.
LEMMA PermissionsHold ==
  ASSUME PermissionTypes, PermissionsCurrent
  PROVE  P!TypeOK /\ P!CacheIsCurrent
<1>1. DOMAIN entries = 1..Len(entries) /\ entries \in Seq(P!Entry)
  BY LenProperties DEF PermissionTypes
<1>2. P!TypeOK
  BY <1>1 DEF P!TypeOK, PermissionTypes, OfUsers, Lookups
<1>3. P!CacheIsCurrent
  BY DEF P!CacheIsCurrent, PermissionsCurrent, Current, Grants, Range
<1> QED
  BY <1>2, <1>3

-----------------------------------------------------------------------------
(* LoginGate.                                                              *)

O == INSTANCE LoginGate WITH Account <- Name, account <- owner, tokens <- issued

\* There is a name, finitely many threads, and the limits are numbers, at least
\* one failure and one instant of lockout.
GateAssumption ==
  /\ Name # {} /\ IsFiniteSet(Thread)
  /\ MaxFailed \in Nat \ {0} /\ Lockout \in Nat \ {0}
  /\ MaxTime \in Nat /\ Lifetime \in Nat /\ Interval \in Nat

\* The time.
Instant == 0..MaxTime
\* Where a login stands.
LoginSet ==
  [pc : {"idle", "checked", "locked", "wrong", "right", "failed", "disabled", "in"},
   name : Name]
\* The tokens.
TokenSet == [user : Name, until : 0..MaxTime + Lifetime]
\* Where a request stands.
VisitSet ==
  [pc : {"idle", "resolved", "served", "refused"}, user : Name,
   until : 0..MaxTime + Lifetime, at : Instant,
   seen : {"active", "disabled", "gone"}, changed : BOOLEAN]

\* The clock, the failures, the logins and the requests keep their ranges.
GateTypes ==
  /\ now \in Instant /\ cleaned \in Instant
  /\ attempts \in [Name -> Seq(Instant)] /\ wrong \in [Name -> Seq(Instant)]
  /\ login \in [Thread -> LoginSet]
  /\ owner \in [Name -> {"active", "disabled", "gone"}]
  /\ issued \subseteq TokenSet
  /\ visit \in [Visitor -> VisitSet]

\* The instants whose failures count at n.
Window(n) == {t \in 0..MaxTime : n - t < Lockout}
\* The threads that may yet record a failure of n.
Guess(V, n) == {t \in Thread : V[t].pc \in {"checked", "wrong"} /\ V[t].name = n}

\* The failures are in the order of time, those that count are all there, and
\* there are at most the limit and those under way.
AttemptsOK ==
  \A n \in Name :
    /\ Ascending(attempts[n]) /\ \A t \in Range(attempts[n]) : t <= now
    /\ Keep(attempts[n], Window(now)) = wrong[n]
    /\ Len(wrong[n]) + Cardinality(Guess(login, n)) <= MaxFailed - 1 + Cardinality(Thread)

\* A request is resolved in time, with the state of its account at that moment.
VisitsOK ==
  \A v \in Visitor :
    /\ visit[v].pc \in {"resolved", "served"} =>
         /\ visit[v].at <= visit[v].until
         /\ visit[v].changed \/ owner[visit[v].user] = visit[v].seen
    /\ visit[v].pc = "served" => visit[v].seen = "active"

\* The module keeps as this one does.
LEMMA GateKeeps == \A s, kept : O!Keep(s, kept) = Keep(s, kept)
BY DEF O!Keep, Keep

\* Logins and requests at rest.
LEMMA GateIdles ==
  ASSUME GateAssumption
  PROVE  /\ O!NoLogin \in LoginSet /\ O!NoLogin.pc = "idle"
         /\ O!NoVisit \in VisitSet /\ O!NoVisit.pc = "idle"
         /\ O!NoLogin' = O!NoLogin /\ O!NoVisit' = O!NoVisit
         /\ \A n \in Name, pc \in {"locked", "checked"} :
              /\ [O!NoLogin EXCEPT !.name = n, !.pc = pc] \in LoginSet
              /\ [O!NoLogin EXCEPT !.name = n, !.pc = pc].pc = pc
              /\ [O!NoLogin EXCEPT !.name = n, !.pc = pc].name = n
<1>1. (CHOOSE n \in Name : TRUE) \in Name
  BY DEF GateAssumption
<1>2. 0 \in Instant /\ 0 \in 0..MaxTime + Lifetime
  BY DEF GateAssumption, Instant
<1>3. O!NoLogin \in LoginSet /\ O!NoLogin.pc = "idle"
  BY <1>1 DEF O!NoLogin, LoginSet
<1>4. O!NoVisit \in VisitSet /\ O!NoVisit.pc = "idle"
  BY <1>1, <1>2 DEF O!NoVisit, VisitSet
<1>5. O!NoLogin' = O!NoLogin /\ O!NoVisit' = O!NoVisit
  BY DEF O!NoLogin, O!NoVisit
<1>6. ASSUME NEW n \in Name, NEW pc \in {"locked", "checked"}
      PROVE  /\ [O!NoLogin EXCEPT !.name = n, !.pc = pc] \in LoginSet
             /\ [O!NoLogin EXCEPT !.name = n, !.pc = pc].pc = pc
             /\ [O!NoLogin EXCEPT !.name = n, !.pc = pc].name = n
  BY <1>3 DEF LoginSet
<1> QED
  BY <1>3, <1>4, <1>5, <1>6

\* Finitely many threads guess.
LEMMA GuessingThreads ==
  ASSUME GateAssumption, NEW V, NEW n
  PROVE  /\ IsFiniteSet(Guess(V, n)) /\ Cardinality(Guess(V, n)) \in Nat
         /\ Cardinality(Guess(V, n)) <= Cardinality(Thread) /\ Cardinality(Thread) \in Nat
<1>1. Guess(V, n) \subseteq Thread /\ IsFiniteSet(Thread)
  BY DEF Guess, GateAssumption
<1> QED
  BY <1>1, FS_Subset, FS_CardinalityType

\* It holds where nobody tried.
LEMMA InitGate ==
  ASSUME GateAssumption, O!Init
  PROVE  GateTypes /\ AttemptsOK /\ VisitsOK
<1>1. /\ now = 0 /\ cleaned = 0 /\ attempts = [n \in Name |-> <<>>]
      /\ wrong = [n \in Name |-> <<>>] /\ login = [t \in Thread |-> O!NoLogin]
      /\ owner = [a \in Name |-> "active"] /\ issued = {}
      /\ visit = [v \in Visitor |-> O!NoVisit]
  BY DEF O!Init
<1>2. <<>> \in Seq(Instant) /\ Len(<<>>) = 0 /\ 0 \in Instant
  BY EmptySeq DEF GateAssumption, Instant
<1>3. GateTypes
  BY <1>1, <1>2, GateIdles DEF GateTypes
<1>4. VisitsOK
  BY <1>1, GateIdles DEF VisitsOK
<1>5. ASSUME NEW n \in Name
      PROVE  /\ Ascending(attempts[n]) /\ \A t \in Range(attempts[n]) : t <= now
             /\ Keep(attempts[n], Window(now)) = wrong[n]
             /\ Len(wrong[n]) + Cardinality(Guess(login, n))
                  <= MaxFailed - 1 + Cardinality(Thread)
  <2>1. attempts[n] = <<>> /\ wrong[n] = <<>>
    BY <1>1
  <2>2. Ascending(attempts[n]) /\ Range(attempts[n]) = {}
    BY <2>1, OfEmpty
  <2>3. Keep(attempts[n], Window(now)) = wrong[n]
    BY <2>1, KeepEmpty
  <2>4. Len(wrong[n]) + Cardinality(Guess(login, n)) <= MaxFailed - 1 + Cardinality(Thread)
    BY <2>1, <1>2, GuessingThreads DEF GateAssumption
  <2> QED
    BY <2>2, <2>3, <2>4
<1> QED
  BY <1>3, <1>4, <1>5 DEF AttemptsOK

\* The failures of a name that are dropped by the sweep do not count any more.
LEMMA SweepsOnlyStale ==
  ASSUME GateAssumption, GateTypes, AttemptsOK, NEW n \in Name
  PROVE  /\ O!Swept[n] \in Seq(Instant) /\ Ascending(O!Swept[n])
         /\ \A t \in Range(O!Swept[n]) : t <= now
         /\ Keep(O!Swept[n], Window(now)) = wrong[n]
<1>1. /\ attempts[n] \in Seq(Instant) /\ Ascending(attempts[n])
      /\ \A t \in Range(attempts[n]) : t <= now
      /\ Keep(attempts[n], Window(now)) = wrong[n]
  BY DEF GateTypes, AttemptsOK
<1>2. O!Swept[n] = IF O!Cleanup /\ O!Stale(n) THEN <<>> ELSE attempts[n]
  BY DEF O!Swept
<1>3. CASE O!Cleanup /\ O!Stale(n)
  <2> DEFINE s == attempts[n]
  <2>1. <<>> \in Seq(Instant) /\ Len(<<>>) = 0 /\ Range(<<>>) = {}
    BY OfEmpty
  <2>2. Keep(s, Window(now)) = <<>>
    <3>1. CASE s = <<>>
      BY <3>1, KeepEmpty
    <3>2. CASE s # <<>>
      <4>1. now - s[Len(s)] > Lockout
        BY <1>3, <3>2 DEF O!Stale
      <4>2. /\ Len(s) \in Nat /\ Len(s) # 0 /\ Range(s) = {s[i] : i \in 1..Len(s)}
            /\ \A i \in 1..Len(s) : s[i] \in Instant
        BY <1>1, <3>2, EmptySeq, LenProperties, RangeEquality, ElementOfSeq
      <4>3. \A i \in 1..Len(s) : s[i] <= s[Len(s)]
        BY <1>1, <4>2 DEF Ascending
      <4>4. now \in Nat /\ Lockout \in Nat /\ \A i \in 1..Len(s) : s[i] \in Nat
        BY <4>2 DEF GateTypes, GateAssumption, Instant
      <4>5. \A i \in 1..Len(s) : ~(now - s[i] < Lockout)
        BY <4>1, <4>2, <4>3, <4>4
      <4>6. Range(s) \cap Window(now) = {}
        BY <4>2, <4>5 DEF Window
      <4>7. Keep(s, Window(now)) \in Seq(Instant) /\ Range(Keep(s, Window(now))) = {}
        BY <1>1, <4>6, KeepSeq
      <4> QED
        BY <4>7, EmptyRange
    <3> QED
      BY <3>1, <3>2
  <2>3. Ascending(<<>>)
    BY <2>1 DEF Ascending
  <2>4. Keep(<<>>, Window(now)) = <<>>
    BY KeepEmpty
  <2> QED
    BY <1>1, <1>2, <1>3, <2>1, <2>2, <2>3, <2>4
<1>4. CASE ~(O!Cleanup /\ O!Stale(n))
  BY <1>1, <1>2, <1>4
<1> QED
  BY <1>3, <1>4

\* A login checks the failures.
LEMMA CheckStep ==
  ASSUME GateAssumption, GateTypes, AttemptsOK, NEW t \in Thread, NEW n \in Name,
         O!Check(t, n)
  PROVE  /\ attempts' \in [Name -> Seq(Instant)] /\ login' \in [Thread -> LoginSet]
         /\ cleaned' \in Instant /\ AttemptsOK'
<1> DEFINE recent == Keep(O!Swept[n], Window(now))
           pc == IF Len(recent) >= MaxFailed THEN "locked" ELSE "checked"
           next == [O!NoLogin EXCEPT !.name = n, !.pc = pc]
<1>1. /\ login[t].pc = "idle" /\ attempts' = [O!Swept EXCEPT ![n] = recent]
      /\ login' = [login EXCEPT ![t] = next]
      /\ cleaned' = IF O!Cleanup THEN now ELSE cleaned
      /\ UNCHANGED <<now, wrong, owner, issued, visit>>
  BY GateKeeps DEF O!Check, O!Within, O!Time, Window
<1>2. recent = wrong[n] /\ recent \in Seq(Instant) /\ Ascending(recent)
      /\ \A x \in Range(recent) : x <= now
  <2>1. /\ O!Swept[n] \in Seq(Instant) /\ Ascending(O!Swept[n])
        /\ \A x \in Range(O!Swept[n]) : x <= now
        /\ recent = wrong[n]
    BY SweepsOnlyStale
  <2>2. recent \in Seq(Instant) /\ Range(recent) \subseteq Range(O!Swept[n])
    BY <2>1, KeepSeq
  <2>3. Instant \subseteq Nat
    BY DEF Instant
  <2>5. O!Swept[n] \in Seq(Nat)
    BY <2>1, <2>3, WiderSeq
  <2>4. Ascending(recent)
    BY <2>1, <2>5, KeepAscends
  <2> QED
    BY <2>1, <2>2, <2>4
<1>3. next \in LoginSet /\ next.pc = pc /\ next.name = n /\ pc \in {"locked", "checked"}
  <2>1. pc \in {"locked", "checked"}
    OBVIOUS
  <2> HIDE DEF pc
  <2> QED
    BY <2>1, GateIdles
<1>4. O!Swept = [m \in Name |-> O!Swept[m]] /\ DOMAIN O!Swept = Name
  BY DEF O!Swept
<1>5. /\ attempts' = [m \in Name |-> attempts'[m]] /\ attempts'[n] = recent
      /\ \A m \in Name \ {n} : attempts'[m] = O!Swept[m]
  BY <1>1, <1>4
<1>6. recent = Keep(recent, Window(now))
  BY <1>2, SweepsOnlyStale, KeepKeep
<1> HIDE DEF next, recent
<1>7. attempts' \in [Name -> Seq(Instant)]
  BY <1>2, <1>5, SweepsOnlyStale
<1>8. login' \in [Thread -> LoginSet] /\ cleaned' \in Instant
  BY <1>1, <1>3 DEF GateTypes
<1>9. ASSUME NEW m \in Name
      PROVE  /\ Ascending(attempts'[m]) /\ \A x \in Range(attempts'[m]) : x <= now
             /\ Keep(attempts'[m], Window(now)) = wrong[m]
  <2>1. CASE m = n
    BY <1>2, <1>5, <1>6, <2>1
  <2>2. CASE m # n
    BY <1>5, <2>2, SweepsOnlyStale
  <2> QED
    BY <2>1, <2>2
<1>10. ASSUME NEW m \in Name
       PROVE  Len(wrong[m]) + Cardinality(Guess(login', m))
                <= MaxFailed - 1 + Cardinality(Thread)
  <2>1. /\ login'[t] = next /\ \A u \in Thread \ {t} : login'[u] = login[u]
    BY <1>1 DEF GateTypes
  <2>2. Len(wrong[m]) \in Nat /\ MaxFailed \in Nat \ {0}
    BY LenProperties DEF GateTypes, GateAssumption
  <2>3. Len(wrong[m]) + Cardinality(Guess(login, m)) <= MaxFailed - 1 + Cardinality(Thread)
    BY DEF AttemptsOK
  <2>4. CASE m = n /\ pc = "checked"
    <3>1. Len(wrong[m]) < MaxFailed
      BY <1>2, <2>2, <2>4
    <3> QED
      BY <2>2, <3>1, GuessingThreads
  <2>5. CASE ~(m = n /\ pc = "checked")
    <3>1. Guess(login', m) = Guess(login, m)
      BY <1>1, <1>3, <2>1, <2>5 DEF Guess
    <3> QED
      BY <2>3, <3>1
  <2> QED
    BY <2>4, <2>5
<1>11. AttemptsOK'
  BY <1>1, <1>9, <1>10 DEF AttemptsOK, Window, Guess, Ascending, Range
<1> QED
  BY <1>7, <1>8, <1>11

\* The window of a later time is within that of an earlier one.
LEMMA TickStep ==
  ASSUME GateAssumption, GateTypes, AttemptsOK, O!Tick
  PROVE  now' \in Instant /\ wrong' \in [Name -> Seq(Instant)] /\ AttemptsOK'
<1>1. /\ now < MaxTime /\ now' = now + 1
      /\ wrong' = [n \in Name |-> Keep(wrong[n], Window(now'))]
      /\ UNCHANGED <<attempts, cleaned, login, owner, issued, visit>>
  BY GateKeeps DEF O!Tick, O!Time, Window
<1>2. /\ now \in Nat /\ MaxTime \in Nat /\ Lockout \in Nat /\ now' \in Instant
      /\ now <= now'
  BY <1>1 DEF GateTypes, GateAssumption, Instant
<1>3. Window(now') \subseteq Window(now)
  BY <1>1, <1>2 DEF Window
<1>4. ASSUME NEW n \in Name
      PROVE  /\ wrong'[n] \in Seq(Instant)
             /\ Ascending(attempts[n]) /\ \A t \in Range(attempts[n]) : t <= now'
             /\ Keep(attempts[n], Window(now')) = wrong'[n]
             /\ Len(wrong'[n]) + Cardinality(Guess(login, n))
                  <= MaxFailed - 1 + Cardinality(Thread)
  <2>1. /\ attempts[n] \in Seq(Instant) /\ wrong[n] \in Seq(Instant)
        /\ Ascending(attempts[n]) /\ \A t \in Range(attempts[n]) : t <= now
        /\ Keep(attempts[n], Window(now)) = wrong[n]
        /\ Len(wrong[n]) + Cardinality(Guess(login, n))
             <= MaxFailed - 1 + Cardinality(Thread)
    BY DEF GateTypes, AttemptsOK
  <2>2. wrong'[n] = Keep(wrong[n], Window(now'))
    BY <1>1
  <2>3. /\ wrong'[n] \in Seq(Instant) /\ Len(wrong'[n]) \in Nat
        /\ Len(wrong'[n]) <= Len(wrong[n]) /\ Len(wrong[n]) \in Nat
    BY <2>1, <2>2, KeepSeq, LenProperties
  <2>4. Keep(attempts[n], Window(now')) = wrong'[n]
    BY <1>3, <2>1, <2>2, KeepKeep
  <2>5. Range(attempts[n]) \subseteq Instant
    BY <2>1, RangeOfSeq
  <2>6. \A t \in Range(attempts[n]) : t <= now'
    BY <1>2, <2>1, <2>5 DEF Instant
  <2>7. Len(wrong'[n]) + Cardinality(Guess(login, n))
          <= MaxFailed - 1 + Cardinality(Thread)
    BY <2>1, <2>3, GuessingThreads DEF GateAssumption
  <2> QED
    BY <2>1, <2>3, <2>4, <2>6, <2>7
<1>5. wrong' = [n \in Name |-> wrong'[n]]
  BY <1>1
<1>6. AttemptsOK'
  BY <1>1, <1>4 DEF AttemptsOK, Window, Guess, Ascending, Range
<1> QED
  BY <1>2, <1>4, <1>5, <1>6

\* A failure is recorded.
LEMMA RecordStep ==
  ASSUME GateAssumption, GateTypes, AttemptsOK, NEW t \in Thread, O!Record(t)
  PROVE  /\ attempts' \in [Name -> Seq(Instant)] /\ wrong' \in [Name -> Seq(Instant)]
         /\ login' \in [Thread -> LoginSet] /\ AttemptsOK'
<1> DEFINE n == login[t].name
           recent == Keep(attempts[n], Window(now))
<1>1. /\ login[t].pc = "wrong"
      /\ attempts' = [attempts EXCEPT ![n] = Append(recent, now)]
      /\ wrong' = [wrong EXCEPT ![n] = Append(@, now)]
      /\ login' = [login EXCEPT ![t].pc = "failed"]
      /\ UNCHANGED <<now, cleaned, owner, issued, visit>>
  BY GateKeeps DEF O!Record, O!Within, O!Time, Window
<1>2. /\ n \in Name /\ now \in Instant /\ now \in Nat /\ Instant \subseteq Nat
      /\ now \in Window(now)
  BY DEF GateTypes, LoginSet, GateAssumption, Instant, Window
<1>3. /\ attempts[n] \in Seq(Instant) /\ wrong[n] \in Seq(Instant)
      /\ Ascending(attempts[n]) /\ \A x \in Range(attempts[n]) : x <= now
      /\ recent = wrong[n]
  BY <1>2 DEF GateTypes, AttemptsOK
<1>4. recent \in Seq(Instant) /\ Range(recent) \subseteq Range(attempts[n])
  BY <1>3, KeepSeq
<1>5. Ascending(recent) /\ recent \in Seq(Nat)
  <2>1. attempts[n] \in Seq(Nat)
    BY <1>2, <1>3, WiderSeq
  <2>2. recent \in Seq(Nat)
    BY <1>2, <1>4, WiderSeq
  <2> QED
    BY <1>3, <2>1, <2>2, KeepAscends
<1>6. /\ Append(recent, now) \in Seq(Instant) /\ Ascending(Append(recent, now))
      /\ \A x \in Range(Append(recent, now)) : x <= now
  <2>1. Append(recent, now) \in Seq(Instant)
    BY <1>2, <1>4, AppendProperties
  <2>2. Range(Append(recent, now)) = Range(recent) \cup {now}
    BY <1>2, <1>4, RangeAppended
  <2>3. Ascending(Append(recent, now))
    BY <1>2, <1>3, <1>4, <1>5, AscendingAppended
  <2> QED
    BY <1>2, <1>3, <1>4, <2>1, <2>2, <2>3
<1>7. /\ Append(wrong[n], now) \in Seq(Instant)
      /\ Len(Append(wrong[n], now)) = Len(wrong[n]) + 1 /\ Len(wrong[n]) \in Nat
  BY <1>2, <1>3, AppendProperties, LenProperties
<1>8. Keep(Append(recent, now), Window(now)) = Append(wrong[n], now)
  <2>1. Keep(recent, Window(now)) = recent
    BY <1>3, KeepKeep
  <2> QED
    BY <1>2, <1>3, <1>4, <2>1, KeepAppend
<1> HIDE DEF recent
<1>9. /\ attempts'[n] = Append(recent, now) /\ wrong'[n] = Append(wrong[n], now)
      /\ \A m \in Name \ {n} : attempts'[m] = attempts[m] /\ wrong'[m] = wrong[m]
      /\ attempts' \in [Name -> Seq(Instant)] /\ wrong' \in [Name -> Seq(Instant)]
  BY <1>1, <1>2, <1>6, <1>7 DEF GateTypes
<1>10. /\ login' \in [Thread -> LoginSet] /\ login'[t].pc = "failed"
       /\ \A u \in Thread \ {t} : login'[u] = login[u]
  BY <1>1 DEF GateTypes, LoginSet
<1>11. ASSUME NEW m \in Name
       PROVE  /\ Ascending(attempts'[m]) /\ \A x \in Range(attempts'[m]) : x <= now
              /\ Keep(attempts'[m], Window(now)) = wrong'[m]
  BY <1>6, <1>8, <1>9 DEF AttemptsOK
<1>12. ASSUME NEW m \in Name
       PROVE  Len(wrong'[m]) + Cardinality(Guess(login', m))
                <= MaxFailed - 1 + Cardinality(Thread)
  <2>1. /\ Len(wrong[m]) + Cardinality(Guess(login, m))
             <= MaxFailed - 1 + Cardinality(Thread)
        /\ Len(wrong[m]) \in Nat /\ MaxFailed \in Nat
    BY LenProperties DEF AttemptsOK, GateTypes, GateAssumption
  <2>2. CASE m = n
    <3>1. Guess(login', m) = Guess(login, m) \ {t} /\ t \in Guess(login, m)
      BY <1>1, <1>10, <2>2 DEF Guess
    <3>2. Cardinality(Guess(login', m)) = Cardinality(Guess(login, m)) - 1
      BY <3>1, GuessingThreads, FS_RemoveElement
    <3>3. Len(wrong'[m]) = Len(wrong[m]) + 1
      BY <1>7, <1>9, <2>2
    <3>4. /\ Cardinality(Guess(login', m)) \in Nat /\ Cardinality(Guess(login, m)) \in Nat
          /\ Cardinality(Thread) \in Nat
      BY GuessingThreads
    <3> QED
      BY <2>1, <3>2, <3>3, <3>4
  <2>3. CASE m # n
    <3>1. Guess(login', m) = Guess(login, m)
      BY <1>10, <2>3 DEF Guess
    <3> QED
      BY <1>9, <2>1, <2>3, <3>1
  <2> QED
    BY <2>2, <2>3
<1>13. AttemptsOK'
  BY <1>1, <1>11, <1>12 DEF AttemptsOK, Window, Guess, Ascending, Range
<1> QED
  BY <1>9, <1>10, <1>13

\* A success clears the failures.
LEMMA ClearStep ==
  ASSUME GateAssumption, GateTypes, AttemptsOK, NEW t \in Thread, O!Clear(t)
  PROVE  GateTypes' /\ AttemptsOK'
<1> DEFINE n == login[t].name
<1>1. /\ login[t].pc = "right"
      /\ \E pc \in {"in", "failed"} : login' = [login EXCEPT ![t].pc = pc]
      /\ \/ /\ attempts' = [attempts EXCEPT ![n] = <<>>]
            /\ wrong' = [wrong EXCEPT ![n] = <<>>]
         \/ UNCHANGED <<attempts, wrong>>
      /\ issued' \subseteq issued \cup {O!Issued(n)}
      /\ UNCHANGED <<now, cleaned, owner, visit>>
  BY DEF O!Clear
<1>2. n \in Name /\ now \in Instant /\ now \in Nat
  BY DEF GateTypes, LoginSet, Instant
<1>3. O!Issued(n) \in TokenSet
  BY <1>2 DEF O!Issued, TokenSet, Instant, GateAssumption
<1>4. /\ login' \in [Thread -> LoginSet] /\ login'[t].pc \in {"in", "failed"}
      /\ \A u \in Thread \ {t} : login'[u] = login[u]
  BY <1>1 DEF GateTypes, LoginSet
<1>5. \A m \in Name : Guess(login', m) = Guess(login, m)
  BY <1>1, <1>4 DEF Guess
<1>6. <<>> \in Seq(Instant)
  BY OfEmpty
<1>7. ASSUME NEW m \in Name
      PROVE  \/ attempts'[m] = attempts[m] /\ wrong'[m] = wrong[m]
             \/ attempts'[m] = <<>> /\ wrong'[m] = <<>>
  BY <1>1 DEF GateTypes
<1>8. GateTypes'
  <2>1. attempts' \in [Name -> Seq(Instant)] /\ wrong' \in [Name -> Seq(Instant)]
    BY <1>1, <1>6 DEF GateTypes
  <2> QED
    BY <1>1, <1>3, <1>4, <2>1 DEF GateTypes, Instant, TokenSet, LoginSet, VisitSet
<1>9. ASSUME NEW m \in Name
      PROVE  /\ Ascending(attempts'[m]) /\ \A x \in Range(attempts'[m]) : x <= now
             /\ Keep(attempts'[m], Window(now)) = wrong'[m]
             /\ Len(wrong'[m]) + Cardinality(Guess(login', m))
                  <= MaxFailed - 1 + Cardinality(Thread)
  <2>1. CASE attempts'[m] = attempts[m] /\ wrong'[m] = wrong[m]
    BY <1>5, <2>1 DEF AttemptsOK
  <2>2. CASE attempts'[m] = <<>> /\ wrong'[m] = <<>>
    <3>1. 0 + Cardinality(Guess(login', m)) <= MaxFailed - 1 + Cardinality(Thread)
      BY GuessingThreads DEF GateAssumption
    <3> QED
      BY <2>2, <3>1, OfEmpty, KeepEmpty
  <2> QED
    BY <1>7, <2>1, <2>2
<1>10. AttemptsOK'
  BY <1>1, <1>9 DEF AttemptsOK, Window, Guess, Ascending, Range
<1> QED
  BY <1>8, <1>10

\* Steps that do not touch the failures, and let no further thread guess.
LEMMA LoginStep ==
  ASSUME GateAssumption, GateTypes, AttemptsOK, NEW t \in Thread,
         O!Verify(t) \/ O!Return(t)
  PROVE  GateTypes' /\ AttemptsOK'
<1>1. /\ UNCHANGED <<now, attempts, cleaned, wrong, owner, issued, visit>>
      /\ \/ /\ login[t].pc = "checked"
            /\ \E pc \in {"wrong", "disabled", "right"} :
                 login' = [login EXCEPT ![t].pc = pc]
         \/ login' = [login EXCEPT ![t] = O!NoLogin]
  BY DEF O!Verify, O!Return
<1>2. /\ login' \in [Thread -> LoginSet]
      /\ \A u \in Thread \ {t} : login'[u] = login[u]
      /\ \/ login[t].pc = "checked" /\ login'[t].name = login[t].name
         \/ login'[t].pc = "idle"
  <2>1. login \in [Thread -> LoginSet] /\ login[t] \in LoginSet
    BY DEF GateTypes
  <2>2. ASSUME NEW pc \in {"wrong", "disabled", "right"}
        PROVE  /\ [login[t] EXCEPT !.pc = pc] \in LoginSet
               /\ [login[t] EXCEPT !.pc = pc].name = login[t].name
    BY <2>1 DEF LoginSet
  <2>3. \A u \in Thread \ {t} : login'[u] = login[u]
    BY <1>1, <2>1
  <2>4. CASE login' = [login EXCEPT ![t] = O!NoLogin]
    BY <2>1, <2>3, <2>4, GateIdles
  <2>5. ASSUME NEW pc \in {"wrong", "disabled", "right"}, login[t].pc = "checked",
               login' = [login EXCEPT ![t].pc = pc]
        PROVE  login' \in [Thread -> LoginSet] /\ login'[t].name = login[t].name
    <3>1. login' = [login EXCEPT ![t] = [login[t] EXCEPT !.pc = pc]]
      BY <2>5
    <3> QED
      BY <2>1, <2>2, <3>1
  <2> QED
    BY <1>1, <2>3, <2>4, <2>5
<1>3. GateTypes'
  BY <1>1, <1>2 DEF GateTypes, Instant, TokenSet, LoginSet, VisitSet
<1>4. ASSUME NEW m \in Name
      PROVE  Len(wrong[m]) + Cardinality(Guess(login', m))
               <= MaxFailed - 1 + Cardinality(Thread)
  <2>1. Guess(login', m) \subseteq Guess(login, m)
    BY <1>2 DEF Guess
  <2>2. Cardinality(Guess(login', m)) <= Cardinality(Guess(login, m))
    BY <2>1, GuessingThreads, FS_Subset
  <2>3. Len(wrong[m]) + Cardinality(Guess(login, m)) <= MaxFailed - 1 + Cardinality(Thread)
        /\ Len(wrong[m]) \in Nat /\ MaxFailed \in Nat
    BY LenProperties DEF AttemptsOK, GateTypes, GateAssumption
  <2> QED
    BY <2>2, <2>3, GuessingThreads
<1>5. AttemptsOK'
  BY <1>1, <1>4 DEF AttemptsOK, Window, Guess, Ascending, Range
<1> QED
  BY <1>3, <1>5

\* Accounts change, and requests are resolved, served and done.
LEMMA VisitSteps ==
  ASSUME GateAssumption, GateTypes, VisitsOK,
         \/ \E a \in Name, value \in {"active", "disabled", "gone"} : O!Change(a, value)
         \/ \E v \in Visitor : O!Resolve(v) \/ O!Admit(v) \/ O!Leave(v)
  PROVE  /\ owner' \in [Name -> {"active", "disabled", "gone"}]
         /\ visit' \in [Visitor -> VisitSet] /\ VisitsOK'
         /\ UNCHANGED <<now, attempts, cleaned, login, wrong, issued>>
<1> USE DEF GateTypes
<1>1. ASSUME NEW a \in Name, NEW value \in {"active", "disabled", "gone"},
             O!Change(a, value)
      PROVE  /\ owner' \in [Name -> {"active", "disabled", "gone"}]
             /\ visit' \in [Visitor -> VisitSet] /\ VisitsOK'
             /\ UNCHANGED <<now, attempts, cleaned, login, wrong, issued>>
  <2>1. /\ owner' = [owner EXCEPT ![a] = value]
        /\ visit' = [v \in Visitor |->
                       IF visit[v].user = a THEN [visit[v] EXCEPT !.changed = TRUE]
                                            ELSE visit[v]]
        /\ UNCHANGED <<now, attempts, cleaned, login, wrong, issued>>
    BY <1>1 DEF O!Change
  <2>2. ASSUME NEW v \in Visitor
        PROVE  /\ visit'[v] \in VisitSet /\ visit'[v].pc = visit[v].pc
               /\ visit'[v].at = visit[v].at /\ visit'[v].until = visit[v].until
               /\ visit'[v].user = visit[v].user /\ visit'[v].seen = visit[v].seen
               /\ visit'[v].changed
                    = IF visit[v].user = a THEN TRUE ELSE visit[v].changed
    BY <2>1 DEF VisitSet
  <2>3. visit' = [v \in Visitor |-> visit'[v]]
    BY <2>1
  <2>4. \A u \in Name \ {a} : owner'[u] = owner[u]
    BY <2>1
  <2>5. \A v \in Visitor : visit[v].user \in Name
    BY DEF VisitSet
  <2>6. ASSUME NEW v \in Visitor
        PROVE  /\ visit'[v].pc \in {"resolved", "served"} =>
                    /\ visit'[v].at <= visit'[v].until
                    /\ visit'[v].changed \/ owner'[visit'[v].user] = visit'[v].seen
               /\ visit'[v].pc = "served" => visit'[v].seen = "active"
    <3>1. /\ visit[v].pc \in {"resolved", "served"} =>
               /\ visit[v].at <= visit[v].until
               /\ visit[v].changed \/ owner[visit[v].user] = visit[v].seen
          /\ visit[v].pc = "served" => visit[v].seen = "active"
      BY DEF VisitsOK
    <3>2. visit[v].user = a \/ owner'[visit[v].user] = owner[visit[v].user]
      BY <2>4, <2>5
    <3> QED
      BY <2>2, <3>1, <3>2
  <2>7. VisitsOK'
    BY <2>6 DEF VisitsOK
  <2> QED
    BY <2>1, <2>2, <2>3, <2>7
<1>2. ASSUME NEW v \in Visitor, O!Resolve(v) \/ O!Admit(v) \/ O!Leave(v)
      PROVE  /\ owner' \in [Name -> {"active", "disabled", "gone"}]
             /\ visit' \in [Visitor -> VisitSet] /\ VisitsOK'
             /\ UNCHANGED <<now, attempts, cleaned, login, wrong, issued>>
  <2>0. UNCHANGED <<now, attempts, cleaned, login, wrong, owner, issued>>
    BY <1>2 DEF O!Resolve, O!Admit, O!Leave
  <2> SUFFICES ASSUME TRUE
               PROVE  /\ visit' \in [Visitor -> VisitSet]
                      /\ \A w \in Visitor \ {v} : visit'[w] = visit[w]
                      /\ visit'[v].pc \in {"resolved", "served"} =>
                           /\ visit'[v].at <= visit'[v].until
                           /\ visit'[v].changed
                              \/ owner[visit'[v].user] = visit'[v].seen
                      /\ visit'[v].pc = "served" => visit'[v].seen = "active"
    BY <2>0 DEF VisitsOK
  <2>1. CASE O!Resolve(v)
    <3>1. PICK k \in issued : visit' = [visit EXCEPT ![v] =
            [pc |-> IF O!Verified(k) /\ owner[k.user] # "gone" THEN "resolved"
                                                              ELSE "refused",
             user |-> k.user, until |-> k.until, at |-> now, seen |-> owner[k.user],
             changed |-> FALSE]]
      BY <2>1 DEF O!Resolve
    <3>2. k.user \in Name /\ k.until \in 0..MaxTime + Lifetime
      BY DEF TokenSet
    <3>3. /\ visit'[v].pc = (IF O!Verified(k) /\ owner[k.user] # "gone" THEN "resolved"
                                                                  ELSE "refused")
          /\ visit'[v].at = now /\ visit'[v].until = k.until
          /\ visit'[v].user = k.user /\ visit'[v].seen = owner[k.user]
          /\ \A w \in Visitor \ {v} : visit'[w] = visit[w]
      BY <3>1
    <3>4. visit' \in [Visitor -> VisitSet]
      BY <3>1, <3>2 DEF VisitSet
    <3> QED
      BY <3>3, <3>4 DEF O!Verified
  <2>2. CASE O!Admit(v)
    <3>1. PICK pc \in {"served", "refused"} :
            /\ visit' = [visit EXCEPT ![v].pc = pc]
            /\ pc = "served" => visit[v].seen = "active"
      BY <2>2 DEF O!Admit
    <3>2. visit[v].pc = "resolved"
      BY <2>2 DEF O!Admit
    <3>3. /\ visit'[v] \in VisitSet /\ visit'[v].pc = pc
          /\ visit'[v].at = visit[v].at /\ visit'[v].until = visit[v].until
          /\ visit'[v].user = visit[v].user /\ visit'[v].seen = visit[v].seen
          /\ visit'[v].changed = visit[v].changed
          /\ \A w \in Visitor \ {v} : visit'[w] = visit[w]
      <4>1. visit[v] \in VisitSet /\ visit \in [Visitor -> VisitSet]
        OBVIOUS
      <4>2. visit'[v] = [visit[v] EXCEPT !.pc = pc]
            /\ \A w \in Visitor \ {v} : visit'[w] = visit[w]
        BY <3>1, <4>1
      <4> HIDE DEF GateTypes
      <4> QED
        BY <4>1, <4>2 DEF VisitSet
    <3>4. visit' \in [Visitor -> VisitSet]
      <4>1. visit' = [w \in Visitor |-> visit'[w]]
        BY <3>1
      <4> QED
        BY <3>3, <4>1
    <3>5. /\ visit[v].at <= visit[v].until
          /\ visit[v].changed \/ owner[visit[v].user] = visit[v].seen
      BY <3>2 DEF VisitsOK
    <3> HIDE DEF GateTypes
    <3>6. visit'[v].at <= visit'[v].until
      BY <3>3, <3>5
    <3>7. visit'[v].changed \/ owner[visit'[v].user] = visit'[v].seen
      BY <3>3, <3>5
    <3>8. visit'[v].pc = "served" => visit'[v].seen = "active"
      BY <3>1, <3>3
    <3> QED
      BY <3>3, <3>4, <3>6, <3>7, <3>8
  <2>3. CASE O!Leave(v)
    BY <2>3, GateIdles DEF O!Leave
  <2> QED
    BY <1>2, <2>1, <2>2, <2>3
<1> QED
  BY <1>1, <1>2

\* Each step of the gate keeps it.
LEMMA GateSteps ==
  ASSUME GateAssumption, GateTypes, AttemptsOK, VisitsOK, [O!Next]_(O!vars)
  PROVE  GateTypes' /\ AttemptsOK' /\ VisitsOK'
<1>0. ASSUME UNCHANGED <<owner, visit>> PROVE VisitsOK'
  BY <1>0 DEF VisitsOK
<1>1. CASE UNCHANGED O!vars
  <2>1. UNCHANGED <<now, attempts, cleaned, login, wrong, owner, issued, visit>>
    BY <1>1 DEF O!vars
  <2>2. GateTypes'
    BY <2>1 DEF GateTypes, Instant, TokenSet, LoginSet, VisitSet
  <2>3. AttemptsOK'
    BY <2>1 DEF AttemptsOK, Window, Guess, Ascending, Range
  <2> QED
    BY <1>0, <2>1, <2>2, <2>3
<1>2. CASE O!Tick
  <2>1. UNCHANGED <<attempts, cleaned, login, owner, issued, visit>>
    BY <1>2 DEF O!Tick
  <2>2. now' \in Instant /\ wrong' \in [Name -> Seq(Instant)] /\ AttemptsOK'
    BY <1>2, TickStep
  <2>3. GateTypes'
    BY <2>1, <2>2 DEF GateTypes, Instant, TokenSet, LoginSet, VisitSet
  <2> QED
    BY <1>0, <2>1, <2>2, <2>3
<1>3. ASSUME NEW t \in Thread, NEW n \in Name, O!Check(t, n)
      PROVE  GateTypes' /\ AttemptsOK' /\ VisitsOK'
  <2>1. UNCHANGED <<now, wrong, owner, issued, visit>>
    BY <1>3 DEF O!Check
  <2>2. /\ attempts' \in [Name -> Seq(Instant)] /\ login' \in [Thread -> LoginSet]
        /\ cleaned' \in Instant /\ AttemptsOK'
    BY <1>3, CheckStep
  <2>3. GateTypes'
    BY <2>1, <2>2 DEF GateTypes, Instant, TokenSet, LoginSet, VisitSet
  <2> QED
    BY <1>0, <2>1, <2>2, <2>3
<1>4. ASSUME NEW t \in Thread, O!Record(t)
      PROVE  GateTypes' /\ AttemptsOK' /\ VisitsOK'
  <2>1. UNCHANGED <<now, cleaned, owner, issued, visit>>
    BY <1>4 DEF O!Record
  <2>2. /\ attempts' \in [Name -> Seq(Instant)] /\ wrong' \in [Name -> Seq(Instant)]
        /\ login' \in [Thread -> LoginSet] /\ AttemptsOK'
    BY <1>4, RecordStep
  <2>3. GateTypes'
    BY <2>1, <2>2 DEF GateTypes, Instant, TokenSet, LoginSet, VisitSet
  <2> QED
    BY <1>0, <2>1, <2>2, <2>3
<1>5. ASSUME NEW t \in Thread, O!Verify(t) \/ O!Clear(t) \/ O!Return(t)
      PROVE  GateTypes' /\ AttemptsOK' /\ VisitsOK'
  <2>1. UNCHANGED <<owner, visit>>
    BY <1>5 DEF O!Verify, O!Clear, O!Return
  <2> QED
    BY <1>0, <1>5, <2>1, ClearStep, LoginStep
<1>6. ASSUME \/ \E a \in Name, value \in {"active", "disabled", "gone"} :
                   O!Change(a, value)
             \/ \E v \in Visitor : O!Resolve(v) \/ O!Admit(v) \/ O!Leave(v)
      PROVE  GateTypes' /\ AttemptsOK' /\ VisitsOK'
  <2>1. /\ owner' \in [Name -> {"active", "disabled", "gone"}]
        /\ visit' \in [Visitor -> VisitSet] /\ VisitsOK'
        /\ UNCHANGED <<now, attempts, cleaned, login, wrong, issued>>
    BY <1>6, VisitSteps
  <2>2. GateTypes'
    BY <2>1 DEF GateTypes, Instant, TokenSet, LoginSet, VisitSet
  <2>3. AttemptsOK'
    BY <2>1 DEF AttemptsOK, Window, Guess, Ascending, Range
  <2> QED
    BY <2>1, <2>2, <2>3
<1> QED
  BY <1>1, <1>2, <1>3, <1>4, <1>5, <1>6 DEF O!Next

\* It is enough for what AccessIsTrue says of LoginGate.
LEMMA GateHolds ==
  ASSUME GateTypes, AttemptsOK, VisitsOK
  PROVE  O!TypeOK /\ O!LockoutHolds /\ O!ServedIsActive
<1>1. O!TypeOK
  BY DEF O!TypeOK, GateTypes, O!Time, Instant, LoginSet, TokenSet, VisitSet
<1>2. O!LockoutHolds
  <2>1. \A s : O!Cardinality(s) = Cardinality(s)
    BY DEF O!Cardinality, Cardinality
  <2>2. \A n \in Name : /\ O!Within(attempts[n]) = Keep(attempts[n], Window(now))
                       /\ O!Guessing(n) = Guess(login, n)
    BY GateKeeps DEF O!Within, O!Time, Window, O!Guessing, Guess
  <2> QED
    BY <2>1, <2>2 DEF O!LockoutHolds, AttemptsOK
<1>3. O!ServedIsActive
  BY DEF O!ServedIsActive, VisitsOK
<1> QED
  BY <1>1, <1>2, <1>3

-----------------------------------------------------------------------------
(* ServerLifespan.                                                         *)

L == INSTANCE ServerLifespan

\* There are finitely many workers, and crashes are bounded by a number.
LifespanAssumption == IsFiniteSet(Worker) /\ MaxCrashes \in Nat

\* Where a worker stands.
WorkerSet ==
  [pc : {"off", "refused", "templates", "write", "roles", "seed", "stores",
         "serving", "closing", "down"},
   missing : SUBSET Template, empty : BOOLEAN]
\* The steps that may fail without ending the startup.
Steps == {"templates", "roles", "stores"}

\* The workers about to write the template.
Writing(W, t) == {w \in Worker : W[w].pc = "write" /\ t \in W[w].missing}

\* The workers and what they share keep their ranges.
LifespanTypes ==
  /\ worker \in [Worker -> WorkerSet]
  /\ builtins \in [Template -> Nat]
  /\ roles \in BOOLEAN /\ together \in BOOLEAN
  /\ shared \in [Worker -> SUBSET L!FirstOf(L!Stores, Len(L!Stores))]
  /\ released \in [Worker -> SUBSET L!FirstOf(L!Resources, Len(L!Resources))]
  /\ failures \in [Worker -> SUBSET Steps]
  /\ crashes \in 0..MaxCrashes

\* A worker past a step that did not fail finds what the step writes.
Seeding(w) ==
  /\ worker[w].pc = "write" => \A t \in Template \ worker[w].missing : builtins[t] > 0
  /\ worker[w].pc = "seed" /\ ~worker[w].empty => roles
  /\ worker[w].pc \in {"roles", "seed", "stores", "serving"} /\ profile = "full"
       /\ "templates" \notin failures[w]
     => \A t \in Template : builtins[t] > 0
  /\ worker[w].pc \in {"stores", "serving"} /\ failures[w] \cap {"templates", "roles"} = {}
     => roles

\* So do all; and a template is there as often as workers wrote it.
LifespanOK ==
  /\ \A w \in Worker : Seeding(w)
  /\ \A t \in Template :
       /\ ~together => builtins[t] <= 1
       /\ builtins[t] + Cardinality(Writing(worker, t)) <= Cardinality(Worker)

\* Finitely many workers write.
LEMMA WritingWorkers ==
  ASSUME LifespanAssumption, NEW W, NEW t
  PROVE  /\ IsFiniteSet(Writing(W, t)) /\ Cardinality(Writing(W, t)) \in Nat
         /\ Cardinality(Writing(W, t)) <= Cardinality(Worker)
         /\ Cardinality(Worker) \in Nat
<1>1. Writing(W, t) \subseteq Worker /\ IsFiniteSet(Worker)
  BY DEF Writing, LifespanAssumption
<1> QED
  BY <1>1, FS_Subset, FS_CardinalityType

\* The lists of the stores and resources.
LEMMA LifespanLists ==
  /\ Len(L!Stores) = 3 /\ Len(L!Resources) = 9
  /\ IsFiniteSet(L!FirstOf(L!Resources, 9))
  /\ \A n \in 0..3 : L!FirstOf(L!Stores, n) \subseteq L!FirstOf(L!Stores, 3)
  /\ \A n \in 1..9 : L!Resources[n] \in L!FirstOf(L!Resources, 9)
<1>1. Len(L!Stores) = 3 /\ Len(L!Resources) = 9
  BY DEF L!Stores, L!Resources
<1>2. IsFiniteSet(L!FirstOf(L!Resources, 9))
  <2> DEFINE f == [i \in 1..9 |-> L!Resources[i]]
  <2>1. f \in Surjection(1..9, L!FirstOf(L!Resources, 9))
    BY DEF Surjection, L!FirstOf
  <2>2. IsFiniteSet(1..9)
    <3>1. 1 \in Int /\ 9 \in Int
      OBVIOUS
    <3> QED
      BY <3>1, FS_Interval
  <2> HIDE DEF f
  <2> QED
    BY <2>1, <2>2, FS_Surjection
<1>3. \A n \in 0..3 : L!FirstOf(L!Stores, n) \subseteq L!FirstOf(L!Stores, 3)
  BY DEF L!FirstOf
<1>4. \A n \in 1..9 : L!Resources[n] \in L!FirstOf(L!Resources, 9)
  BY DEF L!FirstOf
<1> QED
  BY <1>1, <1>2, <1>3, <1>4

\* It holds where no worker started.
LEMMA InitLifespan ==
  ASSUME LifespanAssumption, L!Init
  PROVE  LifespanTypes /\ LifespanOK
<1>1. /\ worker = [w \in Worker |-> L!Off] /\ builtins = [t \in Template |-> 0]
      /\ roles = FALSE /\ shared = [w \in Worker |-> {}]
      /\ released = [w \in Worker |-> {}] /\ failures = [w \in Worker |-> {}]
      /\ together = FALSE /\ crashes = 0
  BY DEF L!Init
<1>2. L!Off \in WorkerSet /\ L!Off.pc = "off"
  BY DEF L!Off, WorkerSet
<1>3. LifespanTypes
  <2>1. 0 \in 0..MaxCrashes /\ 0 \in Nat /\ FALSE \in BOOLEAN
    BY DEF LifespanAssumption
  <2>2. \A T : [w \in Worker |-> {}] \in [Worker -> SUBSET T]
    OBVIOUS
  <2>3. builtins \in [Template -> Nat]
    BY <1>1
  <2>4. /\ shared \in [Worker -> SUBSET L!FirstOf(L!Stores, Len(L!Stores))]
        /\ released \in [Worker -> SUBSET L!FirstOf(L!Resources, Len(L!Resources))]
        /\ failures \in [Worker -> SUBSET Steps]
    BY <1>1, <2>2
  <2> QED
    BY <1>1, <1>2, <2>1, <2>3, <2>4 DEF LifespanTypes
<1>4. \A w \in Worker : Seeding(w)
  BY <1>1, <1>2 DEF Seeding
<1>5. ASSUME NEW t \in Template
      PROVE  builtins[t] = 0 /\ 0 + Cardinality(Writing(worker, t)) <= Cardinality(Worker)
  BY <1>1, WritingWorkers
<1> QED
  BY <1>3, <1>4, <1>5 DEF LifespanOK

\* Each step keeps the ranges.
LEMMA LifespanTypeSteps ==
  ASSUME LifespanAssumption, LifespanTypes, [L!Next]_(L!vars)
  PROVE  LifespanTypes'
<1> USE DEF LifespanTypes
<1>0. L!Off \in WorkerSet /\ L!Off' = L!Off /\ L!Stores' = L!Stores
      /\ L!Resources' = L!Resources /\ WorkerSet' = WorkerSet
  BY DEF L!Off, WorkerSet, L!Stores, L!Resources
<1>1. CASE UNCHANGED L!vars
  BY <1>1 DEF L!vars, WorkerSet, Steps, L!FirstOf, L!Stores, L!Resources
<1>2. ASSUME NEW w \in Worker, NEW pc \in {"refused", "templates", "write", "roles", "seed",
               "stores", "serving", "closing", "down"}, L!GoesTo(w, pc)
      PROVE  worker' \in [Worker -> WorkerSet]
  BY <1>2 DEF L!GoesTo, WorkerSet
<1>3. ASSUME NEW w \in Worker, NEW step \in Steps, L!Fails(w, step)
      PROVE  failures' \in [Worker -> SUBSET Steps]
  BY <1>3 DEF L!Fails
<1>4. ASSUME NEW w \in Worker, L!Start(w) \/ L!ReadTemplates(w) \/ L!CountRoles(w)
      PROVE  LifespanTypes'
  <2>1. worker' \in [Worker -> WorkerSet]
    <3>1. CASE L!Start(w)
      BY <3>1 DEF L!Start, L!Off, WorkerSet
    <3>2. CASE L!ReadTemplates(w)
      BY <3>2 DEF L!ReadTemplates, WorkerSet
    <3>3. CASE L!CountRoles(w)
      <4> DEFINE b == ~roles
      <4>1. worker[w] \in WorkerSet
        OBVIOUS
      <4>2. b \in BOOLEAN
        OBVIOUS
      <4>4. worker' = [worker EXCEPT ![w] = [worker[w] EXCEPT !.pc = "seed", !.empty = b]]
        BY <3>3 DEF L!CountRoles
      <4> HIDE DEF b, LifespanTypes
      <4>3. [worker[w] EXCEPT !.pc = "seed", !.empty = b] \in WorkerSet
        BY <4>1, <4>2 DEF WorkerSet
      <4> QED
        BY <4>3, <4>4 DEF LifespanTypes
    <3> QED
      BY <1>4, <3>1, <3>2, <3>3
  <2>2. UNCHANGED <<builtins, roles, shared, released, failures, together, crashes>>
    BY <1>4 DEF L!Start, L!ReadTemplates, L!CountRoles
  <2> QED
    BY <2>1, <2>2 DEF WorkerSet, Steps, L!FirstOf, L!Stores, L!Resources
<1>5. ASSUME NEW w \in Worker, L!WriteTemplates(w)
      PROVE  LifespanTypes'
  <2>1. UNCHANGED <<roles, shared, released, crashes>> /\ builtins' \in [Template -> Nat]
        /\ together' \in BOOLEAN
    <3>1. UNCHANGED <<roles, shared, released, crashes>>
      BY <1>5 DEF L!WriteTemplates
    <3>2. builtins' \in [Template -> Nat]
      BY <1>5 DEF L!WriteTemplates
    <3>3. together' \in BOOLEAN
      BY <1>5 DEF L!WriteTemplates
    <3> QED
      BY <3>1, <3>2, <3>3
  <2>2. worker' \in [Worker -> WorkerSet] /\ failures' \in [Worker -> SUBSET Steps]
    BY <1>5, <1>2, <1>3 DEF L!WriteTemplates, Steps
  <2> QED
    BY <2>1, <2>2 DEF WorkerSet, Steps, L!FirstOf, L!Stores, L!Resources
<1>6. ASSUME NEW w \in Worker, L!SeedRoles(w)
      PROVE  LifespanTypes'
  <2>1. UNCHANGED <<builtins, shared, released, together, crashes>> /\ roles' \in BOOLEAN
    BY <1>6 DEF L!SeedRoles
  <2>2. worker' \in [Worker -> WorkerSet] /\ failures' \in [Worker -> SUBSET Steps]
    BY <1>6, <1>2, <1>3 DEF L!SeedRoles, Steps
  <2> QED
    BY <2>1, <2>2 DEF WorkerSet, Steps, L!FirstOf, L!Stores, L!Resources
<1>7. ASSUME NEW w \in Worker, L!ConfigureStores(w)
      PROVE  LifespanTypes'
  <2>1. UNCHANGED <<builtins, roles, released, together, crashes>>
    BY <1>7 DEF L!ConfigureStores
  <2>2. worker' \in [Worker -> WorkerSet] /\ failures' \in [Worker -> SUBSET Steps]
    BY <1>7, <1>2, <1>3 DEF L!ConfigureStores, Steps
  <2>3. shared' \in [Worker -> SUBSET L!FirstOf(L!Stores, Len(L!Stores))]
    BY <1>7, LifespanLists DEF L!ConfigureStores
  <2> QED
    BY <2>1, <2>2, <2>3 DEF WorkerSet, Steps, L!FirstOf, L!Stores, L!Resources
<1>8. ASSUME NEW w \in Worker, L!BeginShutdown(w)
      PROVE  LifespanTypes'
  <2>1. /\ UNCHANGED <<builtins, roles, shared, released, together, crashes>>
        /\ failures' \in [Worker -> SUBSET Steps]
    BY <1>8 DEF L!BeginShutdown
  <2>2. worker' \in [Worker -> WorkerSet]
    BY <1>8, <1>2 DEF L!BeginShutdown
  <2> QED
    BY <2>1, <2>2 DEF WorkerSet, Steps, L!FirstOf, L!Stores, L!Resources
<1>9. ASSUME NEW w \in Worker, L!Release(w)
      PROVE  LifespanTypes'
  <2>1. UNCHANGED <<builtins, roles, shared, failures, together, crashes>>
    BY <1>9 DEF L!Release
  <2>2. worker' \in [Worker -> WorkerSet]
    BY <1>9, <1>2 DEF L!Release
  <2>3. released' \in [Worker -> SUBSET L!FirstOf(L!Resources, Len(L!Resources))]
    <3> DEFINE n == L!Cardinality(released[w])
    <3>1. n \in Nat
      <4>1. released[w] \subseteq L!FirstOf(L!Resources, 9)
        BY LifespanLists
      <4>2. Cardinality(released[w]) \in Nat
        BY <4>1, LifespanLists, FS_Subset, FS_CardinalityType
      <4>3. n = Cardinality(released[w])
        BY DEF L!Cardinality, Cardinality
      <4> QED
        BY <4>2, <4>3
    <3>2. n < 9 /\ released' = [released EXCEPT ![w] = @ \union {L!Resources[n + 1]}]
      BY <1>9, LifespanLists DEF L!Release
    <3> HIDE DEF n
    <3>3. L!Resources[n + 1] \in L!FirstOf(L!Resources, 9)
      BY <3>1, <3>2, LifespanLists
    <3> QED
      BY <3>2, <3>3, LifespanLists
  <2> QED
    BY <2>1, <2>2, <2>3 DEF WorkerSet, Steps, L!FirstOf, L!Stores, L!Resources
<1>10. ASSUME NEW w \in Worker, L!Crash(w)
       PROVE  LifespanTypes'
  <2>1. /\ UNCHANGED <<builtins, roles, together>>
        /\ worker' \in [Worker -> WorkerSet]
        /\ shared' \in [Worker -> SUBSET L!FirstOf(L!Stores, Len(L!Stores))]
        /\ released' \in [Worker -> SUBSET L!FirstOf(L!Resources, Len(L!Resources))]
        /\ failures' \in [Worker -> SUBSET Steps]
    BY <1>10, <1>0 DEF L!Crash
  <2>2. crashes' \in 0..MaxCrashes
    BY <1>10 DEF L!Crash, L!At, LifespanAssumption
  <2> QED
    BY <2>1, <2>2 DEF WorkerSet, Steps, L!FirstOf, L!Stores, L!Resources
<1> QED
  BY <1>1, <1>4, <1>5, <1>6, <1>7, <1>8, <1>9, <1>10 DEF L!Next

\* The worker that makes a step, and what the step does to the others.
LEMMA LifespanSteps ==
  ASSUME LifespanAssumption, LifespanTypes, LifespanOK, [L!Next]_(L!vars)
  PROVE  LifespanOK'
<1> USE DEF LifespanTypes
<1>1. CASE UNCHANGED L!vars
  BY <1>1 DEF L!vars, LifespanOK, Seeding, Writing
<1> SUFFICES ASSUME NEW w \in Worker,
                    \/ L!Start(w) \/ L!ReadTemplates(w) \/ L!WriteTemplates(w)
                    \/ L!CountRoles(w) \/ L!SeedRoles(w) \/ L!ConfigureStores(w)
                    \/ L!BeginShutdown(w) \/ L!Release(w) \/ L!Crash(w)
             PROVE  LifespanOK'
  BY <1>1 DEF L!Next
<1>2. /\ UNCHANGED <<secret, profile, redis>>
      /\ \A v \in Worker \ {w} : worker'[v] = worker[v] /\ failures'[v] = failures[v]
      /\ roles => roles'
  BY DEF L!Start, L!ReadTemplates, L!WriteTemplates, L!CountRoles, L!SeedRoles,
         L!ConfigureStores, L!BeginShutdown, L!Release, L!Crash, L!config, L!GoesTo,
         L!Fails
<1>3. ASSUME ~L!WriteTemplates(w)
      PROVE  UNCHANGED <<builtins, together>>
  BY <1>3 DEF L!Start, L!ReadTemplates, L!CountRoles, L!SeedRoles,
         L!ConfigureStores, L!BeginShutdown, L!Release, L!Crash
<1>4. \A t \in Template : builtins'[t] \in Nat /\ builtins'[t] >= builtins[t]
  BY <1>3 DEF L!WriteTemplates
<1>5. ASSUME NEW v \in Worker \ {w} PROVE Seeding(v)'
  <2>1. Seeding(v) /\ worker'[v] = worker[v] /\ failures'[v] = failures[v]
    BY <1>2 DEF LifespanOK
  <2>2. \A t \in Template : builtins[t] > 0 => builtins'[t] > 0
    BY <1>4
  <2> QED
    BY <1>2, <2>1, <2>2 DEF Seeding
<1>6. Seeding(w)'
  <2>0. worker[w] \in WorkerSet /\ Seeding(w)
    BY DEF LifespanOK
  <2>1. CASE L!Start(w) \/ L!Crash(w) \/ L!BeginShutdown(w)
    <3>1. worker'[w].pc \notin {"write", "seed", "stores", "serving"}
          /\ (worker'[w].pc = "roles" => profile # "full")
      BY <2>0, <2>1 DEF L!Start, L!Crash, L!BeginShutdown, L!Off, L!GoesTo, WorkerSet
    <3> QED
      BY <1>2, <3>1 DEF Seeding
  <2>2. CASE L!ReadTemplates(w)
    <3>1. worker'[w].pc = "write" /\ worker'[w].missing = {t \in Template : builtins[t] = 0}
      BY <2>0, <2>2 DEF L!ReadTemplates, WorkerSet
    <3>2. builtins' = builtins
      BY <2>2 DEF L!ReadTemplates
    <3> QED
      BY <3>1, <3>2 DEF Seeding
  <2>3. CASE L!WriteTemplates(w)
    <3>1. worker[w].pc = "write"
      BY <2>3 DEF L!WriteTemplates, L!At
    <3>2. \/ /\ worker'[w].pc = "roles"
             /\ builtins' = [t \in Template |->
                    IF t \in worker[w].missing THEN builtins[t] + 1
                    ELSE builtins[t]]
          \/ worker'[w].pc = "stores" /\ "templates" \in failures'[w]
      BY <2>0, <2>3 DEF L!WriteTemplates, L!GoesTo, L!Fails, WorkerSet
    <3>3. CASE worker'[w].pc = "roles" /\ builtins' = [t \in Template |->
                    IF t \in worker[w].missing THEN builtins[t] + 1
                    ELSE builtins[t]]
      <4>1. \A t \in Template : builtins'[t] > 0
        BY <2>0, <3>1, <3>3 DEF Seeding
      <4> QED
        BY <3>3, <4>1 DEF Seeding
    <3>4. CASE worker'[w].pc = "stores" /\ "templates" \in failures'[w]
      BY <3>4 DEF Seeding
    <3> QED
      BY <3>2, <3>3, <3>4
  <2>4. CASE L!CountRoles(w)
    <3>1. worker'[w].pc = "seed" /\ worker'[w].empty = ~roles /\ worker[w].pc = "roles"
          /\ UNCHANGED <<builtins, roles, failures>>
      BY <2>0, <2>4 DEF L!CountRoles, WorkerSet, L!At
    <3> QED
      BY <1>2, <2>0, <3>1 DEF Seeding
  <2>5. CASE L!SeedRoles(w)
    <3>1. worker'[w].pc = "stores" /\ worker[w].pc = "seed" /\ builtins' = builtins
      BY <2>0, <2>5 DEF L!SeedRoles, L!GoesTo, L!At, WorkerSet
    <3>2. \/ ~worker[w].empty /\ UNCHANGED <<roles, failures>>
          \/ roles' = TRUE /\ failures' = failures
          \/ failures'[w] = failures[w] \cup {"roles"}
      BY <2>5 DEF L!SeedRoles, L!Fails
    <3> QED
      BY <1>2, <2>0, <3>1, <3>2 DEF Seeding
  <2>6. CASE L!ConfigureStores(w)
    <3>1. worker'[w].pc = "serving" /\ worker[w].pc = "stores"
          /\ UNCHANGED <<builtins, roles>>
      BY <2>0, <2>6 DEF L!ConfigureStores, L!GoesTo, L!At, WorkerSet
    <3>2. failures[w] \subseteq failures'[w]
      BY <2>6 DEF L!ConfigureStores, L!Fails
    <3> QED
      BY <1>2, <2>0, <3>1, <3>2 DEF Seeding
  <2>7. CASE L!Release(w)
    <3>1. worker'[w].pc \in {"closing", "down"}
      BY <2>0, <2>7 DEF L!Release, L!GoesTo, L!At, WorkerSet
    <3> QED
      BY <3>1 DEF Seeding
  <2> QED
    BY <2>1, <2>2, <2>3, <2>4, <2>5, <2>6, <2>7
<1>7. ASSUME NEW t \in Template
      PROVE  ~together' => builtins'[t] <= 1
  <2>1. ~together => builtins[t] <= 1
    BY DEF LifespanOK
  <2>2. CASE ~L!WriteTemplates(w)
    BY <1>3, <2>1, <2>2
  <2>3. CASE L!WriteTemplates(w)
    <3>1. builtins[t] \in Nat
      OBVIOUS
    <3>2. \/ UNCHANGED <<builtins, together>>
          \/ /\ ~together' => ~together /\ (t \in worker[w].missing => ~(builtins[t] > 0))
             /\ builtins'[t] = IF t \in worker[w].missing THEN builtins[t] + 1
                              ELSE builtins[t]
      BY <2>3 DEF L!WriteTemplates
    <3> HIDE DEF LifespanTypes
    <3> QED
      BY <2>1, <3>1, <3>2
  <2> QED
    BY <2>2, <2>3
<1>8. ASSUME NEW t \in Template
      PROVE  builtins'[t] + Cardinality(Writing(worker', t)) <= Cardinality(Worker)
  <2>0. /\ builtins[t] + Cardinality(Writing(worker, t)) <= Cardinality(Worker)
        /\ builtins[t] \in Nat
    BY DEF LifespanOK
  <2>1. \A v \in Worker : v # w => (v \in Writing(worker', t) <=> v \in Writing(worker, t))
    BY <1>2 DEF Writing
  <2>2. CASE builtins'[t] = 0
    BY <2>2, WritingWorkers
  <2>3. CASE builtins'[t] # 0 /\ builtins'[t] = builtins[t]
    <3>1. w \in Writing(worker', t) => w \in Writing(worker, t)
      <4> SUFFICES ASSUME w \in Writing(worker', t) PROVE w \in Writing(worker, t)
        OBVIOUS
      <4>1. worker'[w].pc = "write" /\ t \in worker'[w].missing
        BY DEF Writing
      <4>2. ~L!ReadTemplates(w)
        <5> SUFFICES ASSUME L!ReadTemplates(w) PROVE FALSE
          OBVIOUS
        <5>1. worker[w] \in WorkerSet
          OBVIOUS
        <5>2. worker'[w].missing = {u \in Template : builtins[u] = 0}
              /\ builtins' = builtins
          BY <5>1 DEF L!ReadTemplates, WorkerSet
        <5> QED
          BY <2>3, <4>1, <5>2
      <4>3. worker[w].pc = "write" /\ worker'[w] = worker[w]
        <5>1. worker[w] \in WorkerSet /\ worker \in [Worker -> WorkerSet]
          OBVIOUS
        <5>2. CASE L!Start(w) \/ L!CountRoles(w) \/ L!Crash(w)
          <6>1. worker'[w].pc \in {"refused", "templates", "roles", "seed", "off"}
            <7>1. CASE L!Start(w)
              BY <5>1, <7>1 DEF L!Start, L!Off
            <7>2. CASE L!CountRoles(w)
              BY <5>1, <7>2 DEF L!CountRoles, WorkerSet
            <7>3. CASE L!Crash(w)
              BY <5>1, <7>3 DEF L!Crash, L!Off
            <7> QED
              BY <5>2, <7>1, <7>2, <7>3
          <6> QED
            BY <4>1, <6>1
        <5>3. ASSUME NEW pc, pc # "write", L!GoesTo(w, pc) PROVE FALSE
          BY <4>1, <5>1, <5>3 DEF L!GoesTo, WorkerSet
        <5>4. CASE L!WriteTemplates(w) \/ L!SeedRoles(w) \/ L!ConfigureStores(w)
                   \/ L!BeginShutdown(w)
          BY <5>3, <5>4 DEF L!WriteTemplates, L!SeedRoles, L!ConfigureStores,
                            L!BeginShutdown
        <5>5. CASE L!Release(w)
          <6>1. worker' = worker \/ L!GoesTo(w, "down")
            BY <5>5 DEF L!Release
          <6> QED
            BY <4>1, <5>3, <6>1
        <5> QED
          BY <4>2, <5>2, <5>4, <5>5
      <4> QED
        BY <4>1, <4>3 DEF Writing
    <3>2. Writing(worker', t) \subseteq Writing(worker, t)
      BY <2>1, <3>1 DEF Writing
    <3>3. Cardinality(Writing(worker', t)) <= Cardinality(Writing(worker, t))
      BY <3>2, WritingWorkers, FS_Subset
    <3> QED
      BY <2>0, <2>3, <3>3, WritingWorkers
  <2>4. CASE builtins'[t] # builtins[t]
    <3>1. L!WriteTemplates(w)
      BY <1>3, <2>4
    <3>2. /\ t \in worker[w].missing /\ worker[w].pc = "write"
          /\ builtins'[t] = builtins[t] + 1 /\ worker'[w].pc = "roles"
      BY <2>4, <3>1 DEF L!WriteTemplates, L!GoesTo, L!At, WorkerSet
    <3>3. Writing(worker', t) = Writing(worker, t) \ {w} /\ w \in Writing(worker, t)
      BY <2>1, <3>2 DEF Writing
    <3>4. Cardinality(Writing(worker', t)) = Cardinality(Writing(worker, t)) - 1
      <4>1. IsFiniteSet(Writing(worker, t))
        BY WritingWorkers
      <4>2. Cardinality(Writing(worker, t) \ {w}) = Cardinality(Writing(worker, t)) - 1
        BY <3>3, <4>1, FS_RemoveElement
      <4> QED
        BY <3>3, <4>2
    <3> QED
      BY <2>0, <3>2, <3>4, WritingWorkers
  <2> QED
    BY <2>2, <2>3, <2>4
<1> QED
  BY <1>5, <1>6, <1>7, <1>8 DEF LifespanOK

\* It is enough for what AccessIsTrue says of ServerLifespan.
LEMMA LifespanHolds ==
  ASSUME LifespanAssumption, LifespanTypes, LifespanOK
  PROVE  L!TypeOK /\ L!ServesSeeded /\ L!BuiltinsOnce
<1>1. L!TypeOK
  <2>1. L!Cardinality(Worker) = Cardinality(Worker)
    BY DEF L!Cardinality, Cardinality
  <2>2. ASSUME NEW t \in Template PROVE builtins[t] \in 0..L!Cardinality(Worker)
    BY <2>1, WritingWorkers DEF LifespanTypes, LifespanOK
  <2>3. builtins \in [Template -> 0..L!Cardinality(Worker)]
    BY <2>2 DEF LifespanTypes
  <2> QED
    BY <2>3 DEF L!TypeOK, LifespanTypes, WorkerSet, Steps
<1>2. L!ServesSeeded
  BY DEF L!ServesSeeded, L!At, LifespanOK, Seeding
<1>3. L!BuiltinsOnce
  BY DEF L!BuiltinsOnce, LifespanOK
<1> QED
  BY <1>1, <1>2, <1>3

-----------------------------------------------------------------------------
(* MemoryStore.                                                            *)

M == INSTANCE MemoryStore

\* The rows are bounded by a number.
MemoryAssumption == MaxRows \in Nat

\* A row of a memory.
MemoryRow ==
  [content : Content, edition : M!Edition, hashed : BOOLEAN,
   status : {"active", "inactive", "deleted"}]
\* Where a writer stands.
WriteRow ==
  [at : {"idle", "known", "again", "insert", "written"},
   content : Content \cup {NoContent}, edition : M!Edition, row : Nat]

\* The rows and the writers keep their ranges.
MemoryTypes(V, T, X) ==
  /\ V \in Seq(MemoryRow) /\ Len(V) <= MaxRows
  /\ T \in [Writer -> WriteRow] /\ X \subseteq 1..Len(V)

\* An active preference of a content.
Holds(m, c) == m.status = "active" /\ m.hashed = TRUE /\ m.content = c

\* A row of its content was crossed.
LookedTogether(V, X, c, j) == \E k \in X : k < j /\ V[k].content = c

\* What was written is there; and who found nothing and is about to insert has
\* missed only what was inserted since, and that is crossed.
WritesOK(t, V, X) ==
  /\ t.row <= Len(V) /\ (t.at # "idle" => t.content \in Content)
  /\ t.at = "written" => /\ t.row \in 1..Len(V)
                         /\ V[t.row].content = t.content /\ V[t.row].hashed = TRUE
  /\ t.at = "insert" =>
       \A i \in 1..Len(V) : Holds(V[i], t.content) => LookedTogether(V, X, t.content, Len(V) + 1)

\* Of two rows with one content, the writer of the second looked before the
\* first was there.
OnceOK(V, X) ==
  \A i, j \in 1..Len(V) :
    i < j /\ Holds(V[i], V[j].content) /\ Holds(V[j], V[j].content)
    => LookedTogether(V, X, V[j].content, j)

\* What a step of the store preserves.
MemoriesOK(V, T, X) ==
  /\ MemoryTypes(V, T, X) /\ OnceOK(V, X) /\ \A w \in Writer : WritesOK(T[w], V, X)

\* It holds where nothing is remembered.
LEMMA InitMemories == ASSUME MemoryAssumption, M!Init PROVE MemoriesOK(rows, write, crossed)
<1>1. rows = <<>> /\ crossed = {} /\ write = [w \in Writer |-> M!Idle]
  BY DEF M!Init
<1>2. Len(rows) = 0 /\ rows \in Seq(MemoryRow)
  BY <1>1, OfEmpty
<1>3. M!Idle \in WriteRow /\ M!Idle.at = "idle" /\ M!Idle.row = 0
  BY DEF M!Idle, WriteRow, M!Edition
<1>4. \A w \in Writer : write[w] = M!Idle
  BY <1>1
<1> QED
  BY <1>1, <1>2, <1>3, <1>4
     DEF MemoriesOK, MemoryTypes, OnceOK, WritesOK, MemoryAssumption

\* What a look finds.
LEMMA MatchesHold ==
  ASSUME MemoriesOK(rows, write, crossed), NEW c
  PROVE  M!Matches(c) = {i \in 1..Len(rows) : Holds(rows[i], c)}
<1>1. DOMAIN rows = 1..Len(rows) /\ \A i \in 1..Len(rows) : rows[i] \in MemoryRow
  BY DEF MemoriesOK, MemoryTypes
<1>2. \A i \in 1..Len(rows) : rows[i].hashed \in BOOLEAN
  BY <1>1 DEF MemoryRow
<1> QED
  BY <1>1, <1>2 DEF M!Matches, Holds

\* A writer moves, and the rows stay.
LEMMA WriterMoves ==
  ASSUME MemoriesOK(rows, write, crossed), NEW w \in Writer, NEW t \in WriteRow,
         write' = [write EXCEPT ![w] = t], UNCHANGED <<rows, crossed>>,
         WritesOK(t, rows, crossed)
  PROVE  MemoriesOK(rows', write', crossed')
<1>1. /\ write' \in [Writer -> WriteRow] /\ write'[w] = t
      /\ \A v \in Writer : v # w => write'[v] = write[v]
  BY DEF MemoriesOK, MemoryTypes
<1>2. \A v \in Writer : WritesOK(write'[v], rows, crossed)
  BY <1>1 DEF MemoriesOK
<1>3. MemoryTypes(rows, write', crossed)
  BY <1>1 DEF MemoriesOK, MemoryTypes
<1>4. OnceOK(rows, crossed)
  BY DEF MemoriesOK
<1> QED
  BY <1>2, <1>3, <1>4 DEF MemoriesOK

\* A writer looks, looks again, and ends.
LEMMA LookSteps ==
  ASSUME MemoriesOK(rows, write, crossed), NEW w \in Writer,
         \/ \E c \in Content, e \in M!Edition : M!Begin(w, c, e)
         \/ M!Again(w) \/ M!End(w)
  PROVE  MemoriesOK(rows', write', crossed')
<1>1. write[w] \in WriteRow /\ WritesOK(write[w], rows, crossed) /\ Len(rows) \in Nat
  BY DEF MemoriesOK, MemoryTypes
<1>2. M!Idle \in WriteRow /\ M!Idle.at = "idle" /\ M!Idle.row = 0
  BY DEF M!Idle, WriteRow, M!Edition
<1>3. ASSUME NEW c \in Content, NEW e \in M!Edition, M!Begin(w, c, e)
      PROVE  MemoriesOK(rows', write', crossed')
  <2> DEFINE place == IF M!Matches(c) = {} THEN "again" ELSE "known"
             t == [M!Idle EXCEPT !.at = place, !.content = c, !.edition = e]
  <2>1. write' = [write EXCEPT ![w] = t] /\ UNCHANGED <<rows, crossed>>
    BY <1>3 DEF M!Begin
  <2>2. place \in {"again", "known"}
    OBVIOUS
  <2> HIDE DEF place
  <2>3. t \in WriteRow /\ t.at = place /\ t.content = c /\ t.row = 0
    BY <1>2, <2>2 DEF WriteRow
  <2> HIDE DEF t
  <2>4. WritesOK(t, rows, crossed)
    BY <1>1, <2>2, <2>3 DEF WritesOK
  <2> QED
    BY <2>1, <2>3, <2>4, WriterMoves
<1>4. ASSUME write[w].at = "again", M!Matches(write[w].content) = {},
             write' = [write EXCEPT ![w].at = "insert"], UNCHANGED <<rows, crossed>>
      PROVE  MemoriesOK(rows', write', crossed')
  <2> DEFINE t == [write[w] EXCEPT !.at = "insert"]
  <2>1. write' = [write EXCEPT ![w] = t]
    BY <1>4 DEF MemoriesOK, MemoryTypes
  <2>2. t \in WriteRow /\ t.at = "insert" /\ t.content = write[w].content /\ t.row = write[w].row
    BY <1>1 DEF WriteRow
  <2> HIDE DEF t
  <2>3. \A i \in 1..Len(rows) : ~Holds(rows[i], t.content)
    BY <1>4, <2>2, MatchesHold
  <2>4. WritesOK(t, rows, crossed)
    BY <1>1, <1>4, <2>2, <2>3 DEF WritesOK
  <2> QED
    BY <1>4, <2>1, <2>2, <2>4, WriterMoves
<1>5. ASSUME write[w].at = "again", NEW i \in M!Matches(write[w].content),
             write' = [write EXCEPT ![w].at = "written", ![w].row = i],
             UNCHANGED <<rows, crossed>>
      PROVE  MemoriesOK(rows', write', crossed')
  <2> DEFINE t == [write[w] EXCEPT !.at = "written", !.row = i]
  <2>1. write' = [write EXCEPT ![w] = t]
    BY <1>5 DEF MemoriesOK, MemoryTypes
  <2>2. i \in 1..Len(rows) /\ Holds(rows[i], write[w].content)
    BY <1>5, MatchesHold
  <2> i \in Nat
    BY <1>1, <2>2
  <2>3. t \in WriteRow /\ t.at = "written" /\ t.content = write[w].content /\ t.row = i
    BY <1>1 DEF WriteRow
  <2> HIDE DEF t
  <2>4. WritesOK(t, rows, crossed)
    BY <1>1, <1>5, <2>2, <2>3 DEF WritesOK, Holds
  <2> QED
    BY <1>5, <2>1, <2>3, <2>4, WriterMoves
<1>6. ASSUME M!End(w) PROVE MemoriesOK(rows', write', crossed')
  <2>1. write' = [write EXCEPT ![w] = M!Idle] /\ UNCHANGED <<rows, crossed>>
    BY <1>6 DEF M!End
  <2>2. WritesOK(M!Idle, rows, crossed)
    BY <1>1, <1>2 DEF WritesOK
  <2> QED
    BY <1>2, <2>1, <2>2, WriterMoves
<1> QED
  BY <1>3, <1>4, <1>5, <1>6 DEF M!Again

\* A row is added.
LEMMA MemoryAdded ==
  ASSUME MemoriesOK(rows, write, crossed), Len(rows) < MaxRows, MemoryAssumption,
         NEW m \in MemoryRow, rows' = Append(rows, m),
         crossed' \subseteq crossed \cup {Len(rows) + 1}, crossed \subseteq crossed'
  PROVE  /\ rows' \in Seq(MemoryRow) /\ Len(rows') = Len(rows) + 1 /\ Len(rows') <= MaxRows
         /\ crossed' \subseteq 1..Len(rows') /\ Len(rows) \in Nat
         /\ rows'[Len(rows) + 1] = m
         /\ \A i \in 1..Len(rows) : rows'[i] = rows[i]
         /\ \A c, j : LookedTogether(rows, crossed, c, j) => LookedTogether(rows', crossed', c, j)
         /\ \A c : LookedTogether(rows, crossed, c, Len(rows) + 1)
                     => LookedTogether(rows', crossed', c, Len(rows') + 1)
<1>1. /\ rows \in Seq(MemoryRow) /\ Len(rows) \in Nat /\ crossed \subseteq 1..Len(rows)
  BY DEF MemoriesOK, MemoryTypes
<1> DEFINE n == Len(rows)
<1>2. /\ rows' \in Seq(MemoryRow) /\ Len(rows') = n + 1 /\ rows'[n + 1] = m
      /\ \A i \in 1..n : rows'[i] = rows[i]
  BY <1>1
<1>3. n + 1 <= MaxRows
  BY <1>1 DEF MemoryAssumption
<1>4. \A k \in crossed : k \in crossed' /\ k \in 1..n /\ rows'[k] = rows[k] /\ k < n + 2
  BY <1>1, <1>2
<1>5. crossed' \subseteq 1..n + 1
  BY <1>1
<1> HIDE DEF n
<1>6. \A c, j : LookedTogether(rows, crossed, c, j) => LookedTogether(rows', crossed', c, j)
  BY <1>4 DEF LookedTogether
<1>7. (n + 1) + 1 = n + 2
  BY <1>1 DEF n
<1>8. \A c : LookedTogether(rows, crossed, c, n + 1) => LookedTogether(rows', crossed', c, n + 2)
  BY <1>4 DEF LookedTogether
<1> QED
  BY <1>1, <1>2, <1>3, <1>5, <1>6, <1>7, <1>8 DEF n

\* It inserts a row.
LEMMA MemoryInserted ==
  ASSUME MemoriesOK(rows, write, crossed), MemoryAssumption, NEW w \in Writer, M!Insert(w)
  PROVE  MemoriesOK(rows', write', crossed')
<1> DEFINE c == write[w].content
           n == Len(rows)
           m == M!Row(c, write[w].edition, TRUE)
           t == [write[w] EXCEPT !.at = "written", !.row = n + 1]
<1>1. /\ write[w] \in WriteRow /\ WritesOK(write[w], rows, crossed) /\ n \in Nat
      /\ write[w].at = "insert" /\ n < MaxRows /\ c \in Content
  BY DEF MemoriesOK, MemoryTypes, M!Insert, WritesOK
<1>2. m \in MemoryRow /\ m.content = c /\ m.hashed = TRUE
  BY <1>1 DEF M!Row, MemoryRow, WriteRow
<1>3. /\ rows' = Append(rows, m)
      /\ crossed' = IF \E v \in Writer \ {w} : write[v].at = "insert" /\ write[v].content = c
                    THEN crossed \cup {n + 1} ELSE crossed
  BY DEF M!Insert
<1>4. write' = [write EXCEPT ![w] = t]
  BY DEF M!Insert, MemoriesOK, MemoryTypes
<1>5. t \in WriteRow /\ t.at = "written" /\ t.content = c /\ t.row = n + 1
  <2> DEFINE next == n + 1
  <2>1. next \in Nat
    BY <1>1
  <2> HIDE DEF next
  <2>2. [write[w] EXCEPT !.at = "written", !.row = next] \in WriteRow
    BY <1>1, <2>1 DEF WriteRow
  <2>3. t = [write[w] EXCEPT !.at = "written", !.row = next]
    BY DEF next
  <2>4. t.at = "written" /\ t.content = c /\ t.row = next
    BY <1>1, <2>3 DEF WriteRow
  <2> QED
    BY <2>2, <2>3, <2>4 DEF next
<1> HIDE DEF m, t, n, c
<1>6. crossed' \subseteq crossed \cup {n + 1} /\ crossed \subseteq crossed'
  BY <1>3
<1>7. /\ rows' \in Seq(MemoryRow) /\ Len(rows') = n + 1 /\ Len(rows') <= MaxRows
      /\ crossed' \subseteq 1..Len(rows')
      /\ rows'[n + 1] = m
      /\ \A i \in 1..n : rows'[i] = rows[i]
      /\ \A d, j : LookedTogether(rows, crossed, d, j) => LookedTogether(rows', crossed', d, j)
      /\ \A d : LookedTogether(rows, crossed, d, n + 1) => LookedTogether(rows', crossed', d, Len(rows') + 1)
  BY <1>1, <1>2, <1>3, <1>6, MemoryAdded DEF n
<1>8. /\ write' \in [Writer -> WriteRow] /\ write'[w] = t
      /\ \A v \in Writer : v # w => write'[v] = write[v]
  BY <1>4, <1>5 DEF MemoriesOK, MemoryTypes
<1>9. ASSUME NEW i \in 1..n + 1, NEW j \in 1..n + 1, i < j,
             Holds(rows'[i], rows'[j].content), Holds(rows'[j], rows'[j].content)
      PROVE  LookedTogether(rows', crossed', rows'[j].content, j)
  <2>1. i \in 1..n
    BY <1>1, <1>9
  <2>2. CASE j \in 1..n
    <3>1. LookedTogether(rows, crossed, rows[j].content, j)
      BY <1>7, <1>9, <2>1, <2>2 DEF MemoriesOK, OnceOK, n
    <3> QED
      BY <1>7, <2>2, <3>1
  <2>3. CASE j = n + 1
    <3>1. Holds(rows[i], c)
      BY <1>2, <1>7, <1>9, <2>1, <2>3
    <3>2. LookedTogether(rows, crossed, c, n + 1)
      BY <1>1, <2>1, <3>1 DEF WritesOK, n, c
    <3> QED
      BY <1>2, <1>7, <2>3, <3>2
  <2> QED
    BY <1>1, <2>2, <2>3
<1>10. OnceOK(rows', crossed')
  BY <1>7, <1>9 DEF OnceOK
<1>11. ASSUME NEW v \in Writer PROVE WritesOK(write'[v], rows', crossed')
  <2>1. CASE v = w
    BY <1>1, <1>2, <1>5, <1>7, <1>8, <2>1 DEF WritesOK
  <2>2. CASE v # w
    <3> DEFINE d == write[v]
    <3>1. WritesOK(d, rows, crossed) /\ d.row \in Nat /\ write'[v] = d
      BY <1>8, <2>2 DEF MemoriesOK, MemoryTypes, WriteRow
    <3>2. ASSUME d.at = "insert", NEW i \in 1..n + 1, Holds(rows'[i], d.content)
          PROVE  LookedTogether(rows', crossed', d.content, Len(rows') + 1)
      <4>1. CASE i \in 1..n
        <5>1. LookedTogether(rows, crossed, d.content, n + 1)
          BY <1>7, <3>1, <3>2, <4>1 DEF WritesOK, n
        <5> QED
          BY <1>7, <5>1
      <4>2. CASE i = n + 1
        <5>1. d.content = c
          BY <1>2, <1>7, <3>2, <4>2 DEF Holds
        <5>2. n + 1 \in crossed'
          BY <1>3, <2>2, <3>2, <5>1
        <5>3. n + 1 < Len(rows') + 1 /\ rows'[n + 1].content = d.content
          BY <1>1, <1>2, <1>7, <5>1
        <5> QED
          BY <5>2, <5>3 DEF LookedTogether
      <4> QED
        BY <1>1, <4>1, <4>2
    <3> HIDE DEF d
    <3>3. d.row <= Len(rows')
      BY <1>1, <1>7, <3>1 DEF WritesOK, n
    <3>4. d.at = "written" => /\ d.row \in 1..Len(rows')
                              /\ rows'[d.row].content = d.content /\ rows'[d.row].hashed = TRUE
      BY <1>1, <1>7, <3>1 DEF WritesOK, n
    <3> QED
      BY <1>7, <3>1, <3>2, <3>3, <3>4 DEF WritesOK
  <2> QED
    BY <2>1, <2>2
<1> QED
  BY <1>7, <1>8, <1>10, <1>11 DEF MemoriesOK, MemoryTypes

\* A reminder is written without a look.
LEMMA ReminderCreated ==
  ASSUME MemoriesOK(rows, write, crossed), MemoryAssumption, NEW c \in Content,
         M!CreateReminder(c)
  PROVE  MemoriesOK(rows', write', crossed')
<1> DEFINE n == Len(rows)
           m == M!Row(c, "personal", FALSE)
<1>1. /\ n < MaxRows /\ rows' = Append(rows, m) /\ UNCHANGED <<write, crossed>>
  BY DEF M!CreateReminder
<1>2. m \in MemoryRow /\ m.hashed = FALSE
  BY DEF M!Row, MemoryRow, M!Edition
<1>3. /\ crossed' \subseteq crossed \cup {Len(rows) + 1} /\ crossed \subseteq crossed'
  BY <1>1
<1> HIDE DEF m
<1>4. /\ rows' \in Seq(MemoryRow) /\ Len(rows') = n + 1 /\ Len(rows') <= MaxRows
      /\ crossed' \subseteq 1..Len(rows') /\ n \in Nat
      /\ rows'[n + 1] = m
      /\ \A i \in 1..n : rows'[i] = rows[i]
      /\ \A d, j : LookedTogether(rows, crossed, d, j) => LookedTogether(rows', crossed', d, j)
      /\ \A d : LookedTogether(rows, crossed, d, n + 1) => LookedTogether(rows', crossed', d, Len(rows') + 1)
  BY <1>1, <1>2, <1>3, MemoryAdded
<1> HIDE DEF n
<1>5. \A d : ~Holds(rows'[n + 1], d)
  BY <1>2, <1>4 DEF Holds
<1>6. OnceOK(rows', crossed')
  <2> SUFFICES ASSUME NEW i \in 1..n + 1, NEW j \in 1..n + 1, i < j,
                      Holds(rows'[i], rows'[j].content), Holds(rows'[j], rows'[j].content)
               PROVE  LookedTogether(rows', crossed', rows'[j].content, j)
    BY <1>4 DEF OnceOK
  <2>1. i \in 1..n /\ j \in 1..n
    BY <1>4, <1>5
  <2>2. LookedTogether(rows, crossed, rows[j].content, j)
    BY <1>4, <2>1 DEF MemoriesOK, OnceOK, n
  <2> QED
    BY <1>4, <2>1, <2>2
<1>7. ASSUME NEW v \in Writer PROVE WritesOK(write[v], rows', crossed')
  <2> DEFINE d == write[v]
  <2>1. WritesOK(d, rows, crossed) /\ d.row \in Nat
    BY DEF MemoriesOK, MemoryTypes, WriteRow
  <2> HIDE DEF d
  <2>2. d.row <= Len(rows')
    BY <1>4, <2>1 DEF WritesOK, n
  <2>3. d.at = "written" => /\ d.row \in 1..Len(rows')
                            /\ rows'[d.row].content = d.content /\ rows'[d.row].hashed = TRUE
    BY <1>4, <2>1 DEF WritesOK, n
  <2>4. ASSUME d.at = "insert", NEW i \in 1..Len(rows'), Holds(rows'[i], d.content)
        PROVE  LookedTogether(rows', crossed', d.content, Len(rows') + 1)
    <3>1. i \in 1..n /\ Holds(rows[i], d.content)
      BY <1>4, <1>5, <2>4
    <3>2. LookedTogether(rows, crossed, d.content, n + 1)
      BY <2>1, <2>4, <3>1 DEF WritesOK, n
    <3> QED
      BY <1>4, <3>2
  <2>5. WritesOK(d, rows', crossed')
    BY <2>1, <2>2, <2>3, <2>4 DEF WritesOK
  <2> QED
    BY <2>5 DEF d
<1> QED
  BY <1>1, <1>4, <1>6, <1>7 DEF MemoriesOK, MemoryTypes

\* A row leaves the active ones for good.
LEMMA MemoryLeaves ==
  ASSUME MemoriesOK(rows, write, crossed), NEW i \in DOMAIN rows,
         M!Disable(i) \/ M!Dismiss(i) \/ M!Delete(i)
  PROVE  MemoriesOK(rows', write', crossed')
<1>1. PICK s \in {"inactive", "deleted"} : rows' = [rows EXCEPT ![i].status = s]
  BY DEF M!Disable, M!Dismiss, M!Delete
<1>2. UNCHANGED <<write, crossed>>
  BY DEF M!Disable, M!Dismiss, M!Delete
<1> DEFINE n == Len(rows)
           m == [rows[i] EXCEPT !.status = s]
<1>3. rows \in Seq(MemoryRow) /\ n \in Nat /\ i \in 1..n /\ rows[i] \in MemoryRow
  BY DEF MemoriesOK, MemoryTypes
<1>4. rows' = [rows EXCEPT ![i] = m]
  BY <1>1, <1>3
<1>5. /\ m \in MemoryRow /\ m.status = s /\ m.content = rows[i].content
      /\ m.hashed = rows[i].hashed
  BY <1>3 DEF MemoryRow
<1> HIDE DEF m
<1>6. /\ rows' \in Seq(MemoryRow) /\ Len(rows') = n /\ rows'[i] = m
      /\ \A j \in 1..n : j # i => rows'[j] = rows[j]
  BY <1>3, <1>4, <1>5
<1>7. \A j \in 1..n : /\ rows'[j].content = rows[j].content
                      /\ rows'[j].hashed = rows[j].hashed
                      /\ \A c : Holds(rows'[j], c) => Holds(rows[j], c)
  BY <1>5, <1>6 DEF Holds
<1>8. crossed \subseteq 1..n
  BY DEF MemoriesOK, MemoryTypes
<1>9. \A c, j : LookedTogether(rows, crossed, c, j) => LookedTogether(rows', crossed, c, j)
  BY <1>7, <1>8 DEF LookedTogether
<1> HIDE DEF n
<1>10. OnceOK(rows', crossed)
  <2>1. OnceOK(rows, crossed)
    BY DEF MemoriesOK
  <2> QED
    BY <1>6, <1>7, <1>9, <2>1 DEF OnceOK, n
<1>11. ASSUME NEW v \in Writer PROVE WritesOK(write[v], rows', crossed)
  <2> DEFINE d == write[v]
  <2>1. WritesOK(d, rows, crossed) /\ Len(rows') = Len(rows)
    BY <1>6 DEF MemoriesOK, n
  <2> HIDE DEF d
  <2>2. WritesOK(d, rows', crossed)
    BY <1>7, <1>9, <2>1 DEF WritesOK, n
  <2> QED
    BY <2>2 DEF d
<1>12. Len(rows') <= MaxRows
  BY <1>6 DEF MemoriesOK, MemoryTypes, n
<1> QED
  BY <1>2, <1>6, <1>8, <1>10, <1>11, <1>12 DEF MemoriesOK, MemoryTypes

\* Each step of the store keeps it.
LEMMA MemorySteps ==
  ASSUME MemoryAssumption, MemoriesOK(rows, write, crossed), [M!Next]_(M!vars)
  PROVE  MemoriesOK(rows', write', crossed')
<1>1. CASE UNCHANGED M!vars
  <2>1. UNCHANGED <<rows, write, crossed>>
    BY <1>1 DEF M!vars
  <2> QED
    BY <2>1
<1>2. CASE M!Next
  BY <1>2, LookSteps, MemoryInserted, ReminderCreated, MemoryLeaves DEF M!Next
<1> QED
  BY <1>1, <1>2

\* It is enough for what ConversationsHold says of MemoryStore.
LEMMA MemoriesHold ==
  ASSUME MemoriesOK(rows, write, crossed)
  PROVE  M!TypeOK /\ M!RememberedOnce /\ M!WrittenIsThere
<1>1. /\ DOMAIN rows = 1..Len(rows) /\ Len(rows) \in Nat /\ Len(rows) <= MaxRows
      /\ \A i \in 1..Len(rows) : rows[i] \in MemoryRow
      /\ \A w \in Writer : write[w] \in WriteRow /\ WritesOK(write[w], rows, crossed)
      /\ crossed \subseteq 1..Len(rows)
  BY DEF MemoriesOK, MemoryTypes
<1>2. M!TypeOK
  <2>1. \A m \in MemoryRow : M!IsMemory(m)
    BY DEF MemoryRow, M!IsMemory
  <2>2. ASSUME NEW w \in Writer
        PROVE  /\ write[w].at \in {"idle", "known", "again", "insert", "written"}
               /\ write[w].row \in 0..Len(rows)
    BY <1>1 DEF WriteRow, WritesOK
  <2> QED
    BY <1>1, <2>1, <2>2 DEF M!TypeOK
<1>3. M!RememberedOnce
  <2> SUFFICES ASSUME NEW i \in 1..Len(rows), NEW j \in 1..Len(rows),
                      i < j, {i, j} \subseteq M!Matches(rows[i].content),
                      rows[i].content = rows[j].content
               PROVE  \E k \in crossed : k < j /\ rows[k].content = rows[j].content
    BY <1>1 DEF M!RememberedOnce
  <2>1. Holds(rows[i], rows[j].content) /\ Holds(rows[j], rows[j].content)
    BY MatchesHold
  <2> QED
    BY <2>1 DEF MemoriesOK, OnceOK, LookedTogether
<1>4. M!WrittenIsThere
  BY <1>1 DEF M!WrittenIsThere, WritesOK
<1> QED
  BY <1>2, <1>3, <1>4

-----------------------------------------------------------------------------
(* BackupService.                                                          *)

B == INSTANCE BackupService WITH states <- committed

\* Versions and seconds are numbers, there is a second, and no file is none.
BackupAssumption ==
  MaxVersion \in Nat /\ MaxSecond \in Nat /\ 1 <= MaxSecond
  /\ NoFile \notin 1..MaxSecond

\* The pages, the log and the files keep their ranges.
BackupTypeOK ==
  /\ main \in B!State
  /\ DOMAIN wal \subseteq Page /\ \A p \in DOMAIN wal : wal[p] \in 0..MaxVersion
  /\ version \in 0..MaxVersion
  /\ committed \subseteq B!State
  /\ second \in 1..MaxSecond
  /\ DOMAIN backups \subseteq 1..MaxSecond
  /\ \A f \in DOMAIN backups : backups[f] \in B!State
  /\ maker \in [file : 1..MaxSecond \cup {NoFile}, pages : B!State \cup {<<>>},
                gone : BOOLEAN]
  /\ maker # B!NotMaking => maker.pages \in B!State /\ maker.file \in 1..MaxSecond
  /\ restore \in [pc : {"idle", "checked", "copy"}, file : 1..MaxSecond \cup {NoFile},
                  pages : B!State \cup {<<>>}, todo : SUBSET Page]
  /\ restore.pc # "idle" => restore.file \in 1..MaxSecond
  /\ restore.pc = "copy" => restore.pages \in B!State
  /\ fouled \in BOOLEAN

\* They do at the beginning.
LEMMA InitBackupTypes ==
  ASSUME BackupAssumption, B!Init
  PROVE  BackupTypeOK
<1>1. DOMAIN B!Empty = {}
  BY DEF B!Empty
<1> QED
  <2>1. main \in B!State /\ MaxVersion \in Nat /\ MaxSecond \in Nat /\ 1 <= MaxSecond
    BY DEF BackupAssumption, B!Init, B!State
  <2>2. /\ DOMAIN wal = {} /\ version = 0 /\ committed = {main} /\ second = 1
        /\ DOMAIN backups = {} /\ maker = B!NotMaking /\ fouled = FALSE
    BY <1>1 DEF B!Init
  <2>3. restore = [pc |-> "idle", file |-> NoFile, pages |-> <<>>, todo |-> {}]
    BY DEF B!Init, B!Resting
  <2>4. maker \in [file : 1..MaxSecond \cup {NoFile}, pages : B!State \cup {<<>>},
                   gone : BOOLEAN]
    BY <2>2 DEF B!NotMaking
  <2>5. restore \in [pc : {"idle", "checked", "copy"}, file : 1..MaxSecond \cup {NoFile},
                     pages : B!State \cup {<<>>}, todo : SUBSET Page]
    BY <2>3
  <2>6. restore.pc = "idle"
    BY <2>3
  <2>7. /\ \A p \in DOMAIN wal : wal[p] \in 0..MaxVersion
        /\ \A f \in DOMAIN backups : backups[f] \in B!State
    BY <2>2
  <2>8. version \in 0..MaxVersion /\ second \in 1..MaxSecond
    BY <2>1, <2>2
  <2>9. committed \subseteq B!State /\ fouled \in BOOLEAN
    BY <2>1, <2>2
  <2> QED
    BY <2>1, <2>2, <2>4, <2>5, <2>6, <2>7, <2>8, <2>9 DEF BackupTypeOK

\* What the opening of a copy does, in each of its cases.
LEMMA CopyOpened ==
  ASSUME BackupAssumption, BackupTypeOK, B!OpenCopy
  PROVE  /\ restore.pc = "checked" 
         /\ UNCHANGED <<main, wal, version, committed, second, backups, maker>>
         /\ \/ /\ restore.file \in DOMAIN backups
               /\ restore' = [pc |-> "copy", file |-> restore.file,
                              pages |-> backups[restore.file], todo |-> Page]
               /\ fouled' = (fouled \/ wal # B!Empty)
            \/ /\ maker # B!NotMaking
               /\ restore' = [pc |-> "copy", file |-> restore.file,
                              pages |-> maker.pages, todo |-> Page]
               /\ fouled' = TRUE
            \/ restore' = B!Resting /\ UNCHANGED fouled
<1> DEFINE f == restore.file
           r == restore
<1>1. /\ r \in [pc : {"idle", "checked", "copy"}, file : 1..MaxSecond \cup {NoFile},
                pages : B!State \cup {<<>>}, todo : SUBSET Page]
      /\ r.pc = "checked" /\ f \in 1..MaxSecond
      /\ UNCHANGED <<main, wal, version, committed, second, backups, maker>>
  BY DEF B!OpenCopy, BackupTypeOK
<1>2. CASE f \in DOMAIN backups
  <2>1. /\ restore' = [r EXCEPT !.pc = "copy", !.todo = Page, !.pages = backups[f]]
        /\ fouled' = (fouled \/ wal # B!Empty)
    BY <1>2 DEF B!OpenCopy
  <2>2. restore' = [pc |-> "copy", file |-> f, pages |-> backups[f], todo |-> Page]
    BY <1>1, <2>1
  <2> QED
    BY <1>1, <1>2, <2>1, <2>2
<1>3. CASE f \notin DOMAIN backups /\ B!Unfinished(f)
  <2>1. /\ restore' = [r EXCEPT !.pc = "copy", !.todo = Page, !.pages = maker.pages]
        /\ fouled' = TRUE
    BY <1>3 DEF B!OpenCopy
  <2>2. restore' = [pc |-> "copy", file |-> f, pages |-> maker.pages, todo |-> Page]
    BY <1>1, <2>1
  <2>3. maker # B!NotMaking
    BY <1>1, <1>3 DEF B!Unfinished, B!NotMaking, BackupAssumption
  <2> QED
    BY <1>1, <2>1, <2>2, <2>3
<1>4. CASE f \notin DOMAIN backups /\ ~B!Unfinished(f)
  BY <1>1, <1>4 DEF B!OpenCopy
<1> QED
  BY <1>2, <1>3, <1>4

\* Each step keeps the ranges.
LEMMA BackupTypeSteps ==
  ASSUME BackupAssumption, BackupTypeOK, [B!Next]_(B!vars)
  PROVE  BackupTypeOK'
<1> USE DEF BackupTypeOK
<1>0. B!View \in B!State /\ DOMAIN B!Empty = {} /\ B!Empty' = B!Empty
      /\ B!NotMaking' = B!NotMaking /\ B!State' = B!State
      /\ MaxVersion \in Nat /\ MaxSecond \in Nat
  BY DEF B!View, B!State, B!Empty, B!NotMaking, BackupAssumption
<1>1. CASE UNCHANGED B!vars
  BY <1>0, <1>1 DEF B!vars
<1>2. ASSUME NEW pages \in (SUBSET Page) \ {{}}, B!Transaction(pages)
      PROVE  BackupTypeOK'
  BY <1>0, <1>2 DEF B!Transaction, B!State
<1>3. CASE B!Checkpoint
  BY <1>0, <1>3 DEF B!Checkpoint
<1>4. CASE B!Tick
  BY <1>0, <1>4 DEF B!Tick
<1>5. CASE B!BeginBackup
  BY <1>0, <1>5 DEF B!BeginBackup
<1>6. CASE B!EndBackup
  BY <1>0, <1>6 DEF B!EndBackup, B!NotMaking
<1>7. ASSUME NEW f \in 1..MaxSecond, B!BeginRestore(f)
      PROVE  BackupTypeOK'
  BY <1>0, <1>7 DEF B!BeginRestore, B!Resting
<1>8. ASSUME NEW f \in 1..MaxSecond, B!DeleteBackup(f)
      PROVE  BackupTypeOK'
  <2>1. /\ backups' = [g \in DOMAIN backups \ {f} |-> backups[g]]
        /\ UNCHANGED <<main, wal, version, committed, second, restore, fouled>>
    BY <1>8 DEF B!DeleteBackup
  <2>2. CASE B!Unfinished(f)
    <3>1. maker' = [maker EXCEPT !.gone = TRUE] /\ maker.file = f
      BY <1>8, <2>2 DEF B!DeleteBackup, B!Unfinished
    <3>2. maker # B!NotMaking
      BY <3>1 DEF B!NotMaking, BackupAssumption
    <3> QED
      BY <1>0, <2>1, <3>1, <3>2
  <2>3. CASE ~B!Unfinished(f)
    <3>1. maker' = maker
      BY <1>8, <2>3 DEF B!DeleteBackup
    <3> QED
      BY <1>0, <2>1, <3>1
  <2> QED
    BY <2>2, <2>3
<1>9. CASE B!OpenCopy
  <2>1. /\ restore.pc = "checked"
        /\ UNCHANGED <<main, wal, version, committed, second, backups, maker>>
        /\ fouled' \in BOOLEAN /\ Page \in SUBSET Page
        /\ restore.file \in 1..MaxSecond
    BY <1>9, CopyOpened
  <2>2. \/ restore' = B!Resting
        \/ \E s \in B!State : restore' = [pc |-> "copy", file |-> restore.file,
                                       pages |-> s, todo |-> Page]
    BY <1>9, CopyOpened
  <2>3. CASE restore' = B!Resting
    BY <1>0, <2>1, <2>3 DEF B!Resting
  <2>4. ASSUME NEW s \in B!State,
               restore' = [pc |-> "copy", file |-> restore.file, pages |-> s, todo |-> Page]
        PROVE  BackupTypeOK'
    BY <1>0, <2>1, <2>4
  <2> QED
    BY <2>2, <2>3, <2>4
<1>10. ASSUME NEW p \in Page, B!CopyPage(p)
       PROVE  BackupTypeOK'
  BY <1>0, <1>10 DEF B!CopyPage, B!Resting, B!State
<1> QED
  BY <1>1, <1>2, <1>3, <1>4, <1>5, <1>6, <1>7, <1>8, <1>9, <1>10 DEF B!Next

\* What the files, the pages that are copied and the view are, as long as
\* nothing has fouled them.
SnapshotsOK ==
  /\ \A s \in committed : s = [p \in Page |-> s[p]]
  /\ main = [p \in Page |-> main[p]]
  /\ ~fouled =>
       /\ \A f \in DOMAIN backups : backups[f] \in committed
       /\ maker # B!NotMaking => maker.pages \in committed
       /\ IF restore.pc = "copy"
          THEN /\ wal = B!Empty /\ restore.pages \in committed
               /\ \A p \in Page \ restore.todo : main[p] = restore.pages[p]
          ELSE B!View \in committed

\* At the beginning there is nothing but the first state.
LEMMA InitSnapshots == B!Init => SnapshotsOK
<1> SUFFICES ASSUME B!Init PROVE SnapshotsOK
  OBVIOUS
<1>1. /\ main = [p \in Page |-> 0] /\ wal = B!Empty /\ committed = {main}
      /\ backups = B!Empty /\ maker = B!NotMaking /\ restore.pc = "idle"
  BY DEF B!Init, B!Resting
<1>2. DOMAIN B!Empty = {}
  BY DEF B!Empty
<1>3. B!View = main
  BY <1>1, <1>2 DEF B!View
<1> QED
  BY <1>1, <1>2, <1>3 DEF SnapshotsOK

\* The view is a function of the pages.
LEMMA ViewOfPages == B!View = [p \in Page |-> B!View[p]]
BY DEF B!View

\* Each step keeps what is known of the files and of the main file.
LEMMA SnapshotSteps ==
  ASSUME BackupAssumption, BackupTypeOK, SnapshotsOK, [B!Next]_(B!vars)
  PROVE  SnapshotsOK'
<1> USE DEF SnapshotsOK
<1>1. CASE UNCHANGED B!vars
  BY <1>1 DEF B!vars, B!View, B!Empty, B!NotMaking
<1>2. ASSUME NEW pages \in (SUBSET Page) \ {{}}, B!Transaction(pages)
      PROVE  SnapshotsOK'
  <2> DEFINE new == [p \in Page |-> IF p \in pages THEN version + 1 ELSE B!View[p]]
  <2>1. /\ wal' = [p \in DOMAIN wal \cup pages |->
                     IF p \in pages THEN version + 1 ELSE wal[p]]
        /\ committed' = committed \cup {new} /\ fouled' = (fouled \/ restore.pc = "copy")
        /\ UNCHANGED <<main, backups, maker, restore>>
    BY <1>2 DEF B!Transaction
  <2>2. B!View' = new
    BY <2>1 DEF B!View
  <2>3. new = [p \in Page |-> new[p]]
    OBVIOUS
  <2> HIDE DEF new
  <2>4. B!NotMaking' = B!NotMaking
    BY DEF B!NotMaking
  <2> QED
    BY <2>1, <2>2, <2>3, <2>4
<1>3. CASE B!Checkpoint
  <2>1. /\ main' = B!View /\ wal' = B!Empty /\ wal # B!Empty
        /\ UNCHANGED <<committed, backups, maker, restore, fouled>>
    BY <1>3 DEF B!Checkpoint
  <2>2. DOMAIN wal' = {}
    BY <2>1 DEF B!Empty
  <2>3. B!View' = B!View
    BY <2>1, <2>2 DEF B!View
  <2>4. main' = [p \in Page |-> main'[p]]
    BY <2>1, ViewOfPages
  <2> QED
    BY <2>1, <2>3, <2>4 DEF B!NotMaking
<1>4. CASE B!Tick
  BY <1>4 DEF B!Tick, B!View, B!Empty, B!NotMaking
<1>5. CASE B!BeginBackup
  <2>1. /\ maker'.pages = B!View /\ DOMAIN backups' \subseteq DOMAIN backups
        /\ \A f \in DOMAIN backups' : backups'[f] = backups[f]
        /\ fouled' = (fouled \/ restore.pc = "copy")
        /\ UNCHANGED <<main, wal, committed, restore>>
    BY <1>5 DEF B!BeginBackup
  <2>2. B!View' = B!View /\ B!Empty' = B!Empty
    BY <2>1 DEF B!View, B!Empty
  <2> QED
    BY <2>1, <2>2
<1>6. CASE B!EndBackup
  <2>1. /\ \A f \in DOMAIN backups' : \/ f \in DOMAIN backups /\ backups'[f] = backups[f]
                                      \/ backups'[f] = maker.pages
        /\ maker # B!NotMaking /\ maker' = B!NotMaking
        /\ UNCHANGED <<main, wal, committed, restore, fouled>>
    BY <1>6 DEF B!EndBackup
  <2>2. B!View' = B!View /\ B!Empty' = B!Empty /\ B!NotMaking' = B!NotMaking
    BY <2>1 DEF B!View, B!Empty, B!NotMaking
  <2> QED
    BY <2>1, <2>2
<1>7. ASSUME NEW f \in 1..MaxSecond, B!BeginRestore(f)
      PROVE  SnapshotsOK'
  <2>1. /\ restore.pc = "idle" /\ restore'.pc = "checked"
        /\ UNCHANGED <<main, wal, committed, backups, maker, fouled>>
    BY <1>7 DEF B!BeginRestore, B!Resting
  <2> QED
    BY <2>1 DEF B!View, B!NotMaking
<1>8. ASSUME NEW f \in 1..MaxSecond, B!DeleteBackup(f)
      PROVE  SnapshotsOK'
  <2>1. /\ DOMAIN backups' \subseteq DOMAIN backups
        /\ \A g \in DOMAIN backups' : backups'[g] = backups[g]
        /\ UNCHANGED <<main, wal, committed, restore, fouled>>
    BY <1>8 DEF B!DeleteBackup
  <2>2. maker' = maker \/ (maker # B!NotMaking /\ maker'.pages = maker.pages)
    <3>1. CASE B!Unfinished(f)
      <4>1. maker' = [maker EXCEPT !.gone = TRUE] /\ maker.file = f
        BY <1>8, <3>1 DEF B!DeleteBackup, B!Unfinished
      <4>2. maker # B!NotMaking
        BY <4>1 DEF B!NotMaking, BackupAssumption
      <4>3. maker'.pages = maker.pages
        BY <4>1 DEF BackupTypeOK
      <4> QED
        BY <4>2, <4>3
    <3>2. CASE ~B!Unfinished(f)
      BY <1>8, <3>2 DEF B!DeleteBackup
    <3> QED
      BY <3>1, <3>2
  <2> QED
    BY <2>1, <2>2 DEF B!View, B!Empty, B!NotMaking
<1>9. CASE B!OpenCopy
  <2>1. restore.pc = "checked" /\ UNCHANGED <<main, wal, committed, backups, maker>>
    BY <1>9 DEF B!OpenCopy
  <2>2. B!View' = B!View /\ B!Empty' = B!Empty /\ B!NotMaking' = B!NotMaking
    BY <2>1 DEF B!View, B!Empty, B!NotMaking
  <2>3. \/ /\ restore.file \in DOMAIN backups /\ restore'.pc = "copy"
           /\ restore'.pages = backups[restore.file]
           /\ restore'.todo = Page
           /\ fouled' = (fouled \/ wal # B!Empty)
        \/ fouled' = TRUE
        \/ restore'.pc = "idle" /\ fouled' = fouled
    <3>1. \/ /\ restore.file \in DOMAIN backups
             /\ restore' = [pc |-> "copy", file |-> restore.file,
                            pages |-> backups[restore.file], todo |-> Page]
             /\ fouled' = (fouled \/ wal # B!Empty)
          \/ fouled' = TRUE
          \/ restore' = B!Resting /\ fouled' = fouled
      BY <1>9, CopyOpened
    <3>2. ASSUME restore' = [pc |-> "copy", file |-> restore.file,
                             pages |-> backups[restore.file], todo |-> Page]
          PROVE  /\ restore'.pc = "copy" /\ restore'.pages = backups[restore.file]
                 /\ restore'.todo = Page
      BY <3>2
    <3>3. B!Resting.pc = "idle"
      BY DEF B!Resting
    <3> QED
      BY <3>1, <3>2, <3>3
  <2> QED
    BY <2>1, <2>2, <2>3
<1>10. ASSUME NEW p \in Page, B!CopyPage(p)
       PROVE  SnapshotsOK'
  <2>1. /\ restore.pc = "copy" /\ p \in restore.todo
        /\ main' = [main EXCEPT ![p] = restore.pages[p]]
        /\ UNCHANGED <<wal, committed, backups, maker, fouled>>
    BY <1>10 DEF B!CopyPage
  <2>2. /\ main' = [q \in Page |-> main'[q]]
        /\ main'[p] = restore.pages[p]
        /\ \A q \in Page \ {p} : main'[q] = main[q]
    BY <2>1
  <2>3. B!Empty' = B!Empty /\ B!NotMaking' = B!NotMaking
    BY DEF B!Empty, B!NotMaking
  <2>4. CASE restore.todo = {p}
    <3>1. restore'.pc = "idle"
      BY <1>10, <2>4 DEF B!CopyPage, B!Resting
    <3>2. ASSUME ~fouled PROVE B!View' = restore.pages
      <4>1. wal' = B!Empty /\ DOMAIN B!Empty = {}
        BY <2>1, <3>2 DEF B!Empty
      <4>2. \A q \in Page : main'[q] = restore.pages[q]
        BY <2>1, <2>2, <2>4, <3>2
      <4>3. restore.pages = [q \in Page |-> restore.pages[q]]
        BY <2>1, <3>2
      <4>4. B!View' = [q \in Page |-> main'[q]]
        BY <4>1 DEF B!View
      <4> QED
        BY <4>2, <4>3, <4>4
    <3> QED
      BY <2>1, <2>2, <2>3, <3>1, <3>2
  <2>5. CASE restore.todo # {p}
    <3>1. restore'.pc = "copy" /\ restore'.pages = restore.pages
          /\ restore'.todo = restore.todo \ {p}
      BY <1>10, <2>1, <2>5 DEF B!CopyPage, BackupTypeOK
    <3> QED
      BY <2>1, <2>2, <2>3, <3>1
  <2> QED
    BY <2>4, <2>5
<1> QED
  BY <1>1, <1>2, <1>3, <1>4, <1>5, <1>6, <1>7, <1>8, <1>9, <1>10 DEF B!Next

\* It is enough for what HistoryIsTrue says of BackupService.
LEMMA SnapshotsHold ==
  ASSUME BackupAssumption, BackupTypeOK, SnapshotsOK
  PROVE  B!TypeOK /\ B!BackupsAreStates
<1>1. B!TypeOK
  BY DEF BackupTypeOK, B!TypeOK
<1>2. B!BackupsAreStates
  BY DEF SnapshotsOK, B!BackupsAreStates
<1> QED
  BY <1>1, <1>2

-----------------------------------------------------------------------------
(* MemoryRetrieval.                                                        *)

R == INSTANCE MemoryRetrieval WITH Fresh <- Recent, seen <- selected

\* There are finitely many memories, and sizes and limits are numbers.
RetrievalAssumption ==
  /\ IsFiniteSet(Memory) /\ Size \in [Memory -> Nat]
  /\ MaxResults \in Nat /\ TokenBudget \in Nat

\* How the tokens of the first n come of those before.
SumStep(s, f, n) == IF n = 0 THEN 0 ELSE f[n - 1] + Size[s[n]]
\* f are these sums, up to n.
SumsTo(s, f, n) == f = [k \in 0..n |-> SumStep(s, f, k)]

\* There are such sums.
LEMMA SumExists ==
  ASSUME NEW s
  PROVE  \A n \in Nat : \E f : SumsTo(s, f, n)
<1> DEFINE T == {n \in Nat : \E f : SumsTo(s, f, n)}
<1>1. 0 \in T
  <2> DEFINE g == [k \in 0..0 |-> 0]
  <2>1. \A k \in 0..0 : g[k] = SumStep(s, g, k)
    BY DEF SumStep
  <2>2. SumsTo(s, g, 0)
    BY <2>1 DEF SumsTo
  <2> QED
    BY <2>2
<1>2. ASSUME NEW n \in Nat, n \in T PROVE n + 1 \in T
  <2>1. PICK f : SumsTo(s, f, n)
    BY <1>2
  <2> DEFINE last == f[n] + Size[s[n + 1]]
             g == [k \in 0..n + 1 |-> IF k = n + 1 THEN last ELSE f[k]]
  <2>2. ASSUME NEW k \in 0..n + 1 PROVE g[k] = SumStep(s, g, k)
    <3>1. CASE k = n + 1
      <4>1. g[k] = last /\ k # 0 /\ k - 1 = n /\ g[n] = f[n]
        BY <3>1
      <4> QED
        BY <3>1, <4>1 DEF SumStep
    <3>2. CASE k \in 0..n
      <4>1. g[k] = f[k] /\ (k # 0 => g[k - 1] = f[k - 1])
        BY <3>2
      <4>2. f[k] = SumStep(s, f, k)
        BY <2>1, <3>2 DEF SumsTo
      <4> QED
        BY <4>1, <4>2 DEF SumStep
    <3> QED
      BY <3>1, <3>2
  <2>3. SumsTo(s, g, n + 1)
    BY <2>2 DEF SumsTo
  <2> QED
    BY <2>3
<1> HIDE DEF T
<1>3. \A n \in Nat : n \in T
  BY <1>1, <1>2, Induct
<1> QED
  BY <1>3 DEF T

\* The tokens of a list are a number.
LEMMA TokensCount ==
  ASSUME RetrievalAssumption, NEW s \in Seq(Memory)
  PROVE  R!Tokens(s) \in Nat
<1> DEFINE n == Len(s)
           f == CHOOSE g : SumsTo(s, g, n)
<1>1. SumsTo(s, f, n)
  BY SumExists
<1>2. R!Tokens(s) = f[n]
  <2>1. R!Tokens(s)
          = (CHOOSE g : g = [k \in 0..n |-> IF k = 0 THEN 0 ELSE g[k - 1] + Size[s[k]]])[n]
    BY DEF R!Tokens
  <2>2. f = CHOOSE g : g = [k \in 0..n |-> IF k = 0 THEN 0 ELSE g[k - 1] + Size[s[k]]]
    BY DEF SumsTo, SumStep
  <2> QED
    BY <2>1, <2>2
<1>3. n \in Nat /\ \A k \in 1..n : s[k] \in Memory
  OBVIOUS
<1> HIDE DEF f, n
<1>4. \A k \in 0..n : f[k] = SumStep(s, f, k)
  BY <1>1 DEF SumsTo
<1> DEFINE T == {k \in Nat : k <= n => f[k] \in Nat}
<1>5. 0 \in T
  BY <1>3, <1>4 DEF SumStep
<1>6. ASSUME NEW k \in Nat, k \in T PROVE k + 1 \in T
  <2> SUFFICES ASSUME k + 1 <= n PROVE f[k + 1] \in Nat
    OBVIOUS
  <2>1. f[k] \in Nat /\ k + 1 \in 0..n /\ k + 1 \in 1..n
    BY <1>3, <1>6
  <2>2. f[k + 1] = f[k] + Size[s[k + 1]]
    BY <1>4, <2>1 DEF SumStep
  <2>3. Size[s[k + 1]] \in Nat
    BY <1>3, <2>1 DEF RetrievalAssumption
  <2> QED
    BY <2>1, <2>2, <2>3
<1> HIDE DEF T
<1>7. n \in T
  BY <1>3, <1>5, <1>6, Induct
<1> QED
  BY <1>2, <1>3, <1>7 DEF T

\* None for an empty list.
LEMMA NoTokens == R!Tokens(<<>>) = 0
<1> DEFINE f == CHOOSE g : SumsTo(<<>>, g, 0)
<1>1. SumsTo(<<>>, f, 0)
  BY SumExists
<1>2. Len(<<>>) = 0
  BY OfEmpty
<1>3. R!Tokens(<<>>)
        = (CHOOSE g : g = [k \in 0..0 |->
                            IF k = 0 THEN 0 ELSE g[k - 1] + Size[<<>>[k]]])[0]
  BY <1>2 DEF R!Tokens
<1>4. R!Tokens(<<>>) = f[0]
  BY <1>3 DEF SumsTo, SumStep
<1> HIDE DEF f
<1>5. f[0] = SumStep(<<>>, f, 0)
  BY <1>1 DEF SumsTo
<1> QED
  BY <1>4, <1>5 DEF SumStep

\* The budget leaves a beginning of the list that is within it.
LEMMA BudgetKeeps ==
  ASSUME RetrievalAssumption, NEW s \in Seq(Memory)
  PROVE  \E n \in 0..Len(s) : /\ R!Within(s) = SubSeq(s, 1, n)
                              /\ R!Tokens(SubSeq(s, 1, n)) <= TokenBudget
<1> DEFINE Fit(n) == /\ R!Tokens(SubSeq(s, 1, n)) <= TokenBudget
                     /\ n < Len(s) => R!Tokens(SubSeq(s, 1, n + 1)) > TokenBudget
           T == {n \in 0..Len(s) : R!Tokens(SubSeq(s, 1, n)) <= TokenBudget}
<1>1. Len(s) \in Nat /\ T \subseteq 0..Len(s)
  OBVIOUS
<1>2. \A n \in 0..Len(s) : R!Tokens(SubSeq(s, 1, n)) \in Nat
  <2> SUFFICES ASSUME NEW n \in 0..Len(s) PROVE R!Tokens(SubSeq(s, 1, n)) \in Nat
    OBVIOUS
  <2>1. SubSeq(s, 1, n) \in Seq(Memory)
    BY <1>1
  <2> QED
    BY <2>1, TokensCount
<1>3. 0 \in T
  <2>1. SubSeq(s, 1, 0) = <<>>
    BY <1>1
  <2>2. R!Tokens(SubSeq(s, 1, 0)) = 0
    BY <2>1, NoTokens
  <2>3. 0 <= TokenBudget /\ 0 \in 0..Len(s)
    BY <1>1 DEF RetrievalAssumption
  <2> QED
    BY <2>2, <2>3
<1> HIDE DEF T
<1>4. PICK n \in T : \A k \in T : k <= n
  BY <1>1, <1>3, Greatest
<1>5. n \in 0..Len(s) /\ R!Tokens(SubSeq(s, 1, n)) <= TokenBudget
  BY <1>1, <1>4 DEF T
<1>6. n < Len(s) => n + 1 \notin T /\ n + 1 \in 0..Len(s)
  BY <1>1, <1>4, <1>5
<1>7. n < Len(s) => R!Tokens(SubSeq(s, 1, n + 1)) > TokenBudget
  BY <1>2, <1>6 DEF T, RetrievalAssumption
<1>8. Fit(n)
  BY <1>5, <1>7
<1> DEFINE m == CHOOSE k \in 0..Len(s) : Fit(k)
<1>9. m \in 0..Len(s) /\ Fit(m)
  BY <1>5, <1>8
<1>10. R!Within(s) = SubSeq(s, 1, m)
  BY DEF R!Within
<1> QED
  BY <1>9, <1>10

\* Cutting a list off leaves its first values.
LEMMA CutKeeps ==
  ASSUME RetrievalAssumption, NEW s \in Seq(Memory)
  PROVE  \E n \in 0..Len(s) : R!Cut(s) = SubSeq(s, 1, n) /\ n <= MaxResults
<1> DEFINE n == IF Len(s) < MaxResults THEN Len(s) ELSE MaxResults
<1>1. n \in 0..Len(s) /\ n <= MaxResults
  BY DEF RetrievalAssumption
<1> QED
  BY <1>1 DEF R!Cut

\* The result is a beginning of the ordered list, within both limits.
LEMMA ResultIsFirst ==
  ASSUME RetrievalAssumption, NEW s \in Seq(Memory), NEW z, z = R!Within(R!Cut(s))
  PROVE  /\ z \in Seq(Memory) /\ R!Tokens(z) <= TokenBudget /\ Len(z) <= MaxResults
         /\ Len(z) \in 0..Len(s) /\ \A i \in 1..Len(z) : z[i] = s[i]
<1>1. PICK n \in 0..Len(s) : R!Cut(s) = SubSeq(s, 1, n) /\ n <= MaxResults
  BY CutKeeps
<1> DEFINE t == SubSeq(s, 1, n)
<1>2. /\ t \in Seq(Memory) /\ Len(t) = n /\ n \in Nat /\ Len(s) \in Nat
      /\ \A i \in 1..n : t[i] = s[i]
  OBVIOUS
<1> HIDE DEF t
<1>3. PICK m \in 0..Len(t) : /\ R!Within(t) = SubSeq(t, 1, m)
                             /\ R!Tokens(SubSeq(t, 1, m)) <= TokenBudget
  BY <1>2, BudgetKeeps
<1>4. z = SubSeq(t, 1, m) /\ R!Tokens(z) <= TokenBudget
  BY <1>1, <1>3 DEF t
<1>5. /\ z \in Seq(Memory) /\ Len(z) = m /\ \A i \in 1..m : z[i] = t[i]
  BY <1>2, <1>3, <1>4
<1> QED
  BY <1>1, <1>2, <1>3, <1>4, <1>5 DEF RetrievalAssumption

\* What is filled up holds what the keywords found, and of the rest what is active.
LEMMA FillAdds ==
  ASSUME NEW n, NEW all \in R!Fill(n)
  PROVE  found \subseteq all /\ all \subseteq found \cup active
<1>1. CASE n = 0
  BY <1>1 DEF R!Fill
<1>2. CASE n # 0
  <2>1. PICK more \in R!Tops({m \in active \ found : Importance[m] >= MinImportance}, 2 * n) :
          all = found \cup more
    BY <1>2 DEF R!Fill
  <2>2. more \subseteq active
    BY DEF R!Tops
  <2> QED
    BY <2>1, <2>2
<1> QED
  BY <1>1, <1>2

\* An ordered list holds each of its set, the best first.
LEMMA OrderedHas ==
  ASSUME RetrievalAssumption, NEW V, V \subseteq Memory, NEW s \in R!Ordered(V)
  PROVE  /\ s \in Seq(Memory) /\ \A i \in 1..Len(s) : s[i] \in V
         /\ \A m \in V : \E i \in 1..Len(s) : s[i] = m
         /\ \A i, j \in 1..Len(s) : i < j => R!Score(s[i]) >= R!Score(s[j])
<1> DEFINE n == R!Cardinality(V)
<1>1. n \in Nat
  <2>1. n = Cardinality(V)
    BY DEF R!Cardinality, Cardinality
  <2>2. IsFiniteSet(V)
    BY FS_Subset DEF RetrievalAssumption
  <2> QED
    BY <2>1, <2>2, FS_CardinalityType
<1>2. s \in R!Bijection(1..n, V) /\ \A i, j \in DOMAIN s : i < j => R!Score(s[i]) >= R!Score(s[j])
  BY DEF R!Ordered
<1>3. s \in [1..n -> V] /\ \A m \in V : \E i \in 1..n : s[i] = m
  BY <1>2 DEF R!Bijection, R!Injection, R!Surjection
<1> HIDE DEF n
<1>4. s \in Seq(Memory) /\ Len(s) = n /\ DOMAIN s = 1..n
  BY <1>1, <1>3
<1> QED
  BY <1>2, <1>3, <1>4

\* What a step of the retrieval preserves.
RetrievalOK ==
  /\ active \subseteq Memory /\ found \subseteq Memory /\ selected \subseteq Memory
  /\ at \in {"idle", "fill", "done"}
  /\ at = "fill" => found \subseteq selected
  /\ R!RetrievedIsBest

\* It holds at rest.
LEMMA InitRetrieval == ASSUME R!Init PROVE RetrievalOK
  BY DEF R!Init, RetrievalOK, R!RetrievedIsBest

\* The retrieval takes the best, up to the budget.
LEMMA BestFound ==
  ASSUME RetrievalAssumption, RetrievalOK, R!Retrieve
  PROVE  RetrievalOK'
<1>1. /\ at = "fill" /\ at' = "done" /\ selected' = selected \cup active
      /\ UNCHANGED <<active, topic, found>>
  BY DEF R!Retrieve
<1>2. PICK all \in R!Fill(MaxResults - R!Cardinality(found)) :
        \E s \in R!Ordered({m \in all : R!Fits(m)}) : result' = R!Within(R!Cut(s))
  BY DEF R!Retrieve
<1> DEFINE V == {m \in all : R!Fits(m)}
<1>3. PICK s \in R!Ordered(V) : result' = R!Within(R!Cut(s))
  BY <1>2
<1>4. found \subseteq all /\ all \subseteq found \cup active
  BY FillAdds
<1>5. /\ V \subseteq Memory /\ V \subseteq selected'
      /\ \A m \in V : R!Fits(m)
      /\ \A m \in found : R!Fits(m) => m \in V
  BY <1>1, <1>4 DEF RetrievalOK
<1> HIDE DEF V
<1>6. /\ s \in Seq(Memory) /\ \A i \in 1..Len(s) : s[i] \in V
      /\ \A m \in V : \E i \in 1..Len(s) : s[i] = m
      /\ \A i, j \in 1..Len(s) : i < j => R!Score(s[i]) >= R!Score(s[j])
  BY <1>3, <1>5, OrderedHas
<1> DEFINE z == result'
<1>7. /\ z \in Seq(Memory) /\ R!Tokens(z) <= TokenBudget /\ Len(z) <= MaxResults
      /\ Len(z) \in 0..Len(s) /\ \A i \in 1..Len(z) : z[i] = s[i]
  BY <1>3, <1>6, ResultIsFirst
<1>8. DOMAIN z = 1..Len(z) /\ Len(z) \in Nat /\ Len(s) \in Nat
  BY <1>6, <1>7
<1> HIDE DEF z
<1>9. \A i \in DOMAIN z : R!Fits(z[i]) /\ z[i] \in selected'
  BY <1>5, <1>6, <1>7, <1>8
<1>10. ASSUME NEW m \in found, R!Fits(m)
       PROVE  \/ \E i \in DOMAIN z : z[i] = m
              \/ \A i \in DOMAIN z : R!Score(z[i]) >= R!Score(m)
  <2>1. PICK j \in 1..Len(s) : s[j] = m
    BY <1>5, <1>6, <1>10
  <2>2. CASE j <= Len(z)
    BY <1>7, <1>8, <2>1, <2>2
  <2>3. CASE ~(j <= Len(z))
    <3>1. \A i \in 1..Len(z) : i \in 1..Len(s) /\ i < j /\ z[i] = s[i]
      BY <1>7, <1>8, <2>3
    <3> QED
      BY <1>6, <1>8, <2>1, <3>1
  <2> QED
    BY <2>2, <2>3
<1>11. R!RetrievedIsBest'
  BY <1>1, <1>7, <1>9, <1>10 DEF R!RetrievedIsBest, z
<1> QED
  BY <1>1, <1>11 DEF RetrievalOK

\* Each step keeps it.
LEMMA RetrievalSteps ==
  ASSUME RetrievalAssumption, RetrievalOK, [R!Next]_(R!vars)
  PROVE  RetrievalOK'
<1>1. CASE UNCHANGED R!vars
  BY <1>1 DEF R!vars, RetrievalOK, R!RetrievedIsBest
<1>2. ASSUME NEW m \in Memory, R!Write(m) \/ R!Disable(m) PROVE RetrievalOK'
  <2>1. UNCHANGED <<at, topic, found, result, selected>> /\ active' \subseteq Memory
    BY <1>2 DEF R!Write, R!Disable, RetrievalOK
  <2>2. R!RetrievedIsBest'
    BY <2>1 DEF RetrievalOK, R!RetrievedIsBest
  <2> QED
    BY <2>1, <2>2 DEF RetrievalOK
<1>3. ASSUME NEW matching \in SUBSET Memory, R!SearchKeywords(matching) PROVE RetrievalOK'
  <2>1. /\ at' = "fill" /\ selected' = active /\ active' = active
        /\ found' \in R!Tops(active \cap matching, MaxResults)
    BY <1>3 DEF R!SearchKeywords
  <2>2. found' \subseteq active
    BY <2>1 DEF R!Tops
  <2>3. R!RetrievedIsBest'
    BY <2>1 DEF R!RetrievedIsBest
  <2> QED
    BY <2>1, <2>2, <2>3 DEF RetrievalOK
<1>4. ASSUME R!EndSearch PROVE RetrievalOK'
  <2>1. at' = "idle" /\ found' = {} /\ selected' = {} /\ active' = active
    BY <1>4 DEF R!EndSearch
  <2>2. R!RetrievedIsBest'
    BY <2>1 DEF R!RetrievedIsBest
  <2> QED
    BY <2>1, <2>2 DEF RetrievalOK
<1> QED
  BY <1>1, <1>2, <1>3, <1>4, BestFound DEF R!Next

\* It is enough for what ConversationsHold says of MemoryRetrieval.
LEMMA RetrievalHolds == ASSUME RetrievalOK PROVE R!TypeOK /\ R!RetrievedIsBest
  BY DEF RetrievalOK, R!TypeOK

-----------------------------------------------------------------------------
(* The other parts.                                                        *)

U == INSTANCE LiveUpdates
D == INSTANCE TaskDependencies WITH Request <- Callers, request <- adding
\* A chain with a platform in its middle that is not configured.
G == INSTANCE MessageGateway
       WITH Route <- <<w1, w3, w2>>, User <- {k1}, rows <- sent,
            ClassOf <- (w1 :> "feishu") @@ (w2 :> "slack")

-----------------------------------------------------------------------------
(* The composition.                                                        *)

updates ==
  <<kind, handler, user, open, registered, inbox, unread, created, cast, seen,
    stray>>
audit == <<stamp, pending, lock, draft, log, overtaken>>
permissions == <<policy, change, entries, expired, lookup, overlapped>>
dependencies == <<edges, adding, raced>>
signIn ==
  <<begun, states, overdue, codes, late, stale, request, accounts, writer,
    account, entered, tokens, came>>
backup ==
  <<main, wal, version, committed, second, backups, maker, restore, fouled>>
catalog == <<skills, promotions, call, history>>
conversations == <<exists, messages, talk, effects, excused, swallowed>>
memories == <<rows, write, crossed>>
retrieval == <<active, at, topic, found, result, selected>>
lifespan ==
  <<secret, profile, redis, worker, builtins, roles, shared, released, failures,
    together, crashes>>
gateway == <<health, token, sending, channels, sent, webhooks>>
gate == <<now, attempts, cleaned, login, wrong, owner, issued, visit>>
online == <<updates, audit, permissions>>
accounted == <<dependencies, signIn, backup>>
contents == <<catalog, conversations, memories, retrieval>>
served == <<lifespan, gateway, gate>>
allVars == <<focus, online, accounted, contents, served>>

SmallSeed == [r \in Role |-> {q1}]

\* The other identity has no address.
SmallMail == [i \in Identity |-> IF i = i1 THEN m1 ELSE NoMail]

\* A chat with a socket of some kind, or two notification sockets; two
\* notifications for the one, one for the other.
AllOf(k) == [s \in Socket |-> k]
Kinds == {[AllOf("chat") EXCEPT ![a2] = k] : k \in U!Kind}
SmallUpdates ==
  \/ kind \in Kinds /\ created = IF kind[a2] = "notify" THEN {} ELSE Note
  \/ kind = AllOf("notify") /\ created = {n2}

\* Four memories: m2 is the most important, m4 too unimportant, m1 and m3 are
\* of this week, m3 is unsure.
OfMemory(one, two, three, four) == (w1 :> one) @@ (w2 :> two) @@ (w3 :> three) @@ (r1 :> four)
SmallImportance == OfMemory(5, 6, 5, 2)
SmallSure == OfMemory(TRUE, TRUE, FALSE, TRUE)
SmallRecent == OfMemory(TRUE, FALSE, TRUE, FALSE)
SmallSize == OfMemory(2, 3, 1, 1)

AllInit ==
  /\ focus \in {"updates", "audit", "permissions", "dependencies", "signIn",
                "backup", "runs", "promotions", "chat", "memories", "retrieval",
                "lifespan", "gateway", "gate"}
  /\ U!Init
  /\ IF focus = "updates" THEN SmallUpdates ELSE kind = AllOf("chat") /\ created = {}
  /\ A!Init /\ P!Init /\ D!Init /\ S!Init /\ B!Init
  /\ K!Init
  /\ C!Init /\ M!Init /\ R!Init /\ (focus = "retrieval" \/ active = {})
  /\ L!Init /\ G!Init /\ O!Init
  /\ redis = (profile = "desktop")
  /\ focus = "lifespan" \/ (secret = "set" /\ profile = "full")

OnlineNext ==
  \/ focus = "updates" /\ U!Next /\ UNCHANGED <<audit, permissions>>
  \/ focus = "audit" /\ A!Next /\ UNCHANGED <<updates, permissions>>
  \/ focus = "permissions" /\ P!Next /\ UNCHANGED <<updates, audit>>

AccountedNext ==
  \/ focus = "dependencies" /\ D!Next /\ UNCHANGED <<signIn, backup>>
  \/ focus = "signIn" /\ S!Next /\ UNCHANGED <<dependencies, backup>>
  \/ focus = "backup" /\ B!Next /\ UNCHANGED <<dependencies, signIn>>

\* What the catalog leaves out in each of its two instances.
OneCallNoPromotion ==
  /\ \A c \in Call \ {a1} : call'[c] = K!Idle
  /\ call'[a1].op # "promote"
OneDefinitionNoRun ==
  /\ \A c \in DOMAIN call' : call'[c].definition # k2
  /\ \A i \in DOMAIN skills' : skills'[i].runs = <<>>

ContentsNext ==
  \/ /\ focus = "runs" /\ K!Next /\ OneCallNoPromotion
     /\ UNCHANGED <<conversations, memories, retrieval>>
  \/ /\ focus = "promotions" /\ K!Next /\ OneDefinitionNoRun
     /\ UNCHANGED <<conversations, memories, retrieval>>
  \/ focus = "chat" /\ C!Next /\ UNCHANGED <<catalog, memories, retrieval>>
  \/ /\ focus = "memories" /\ M!Next
     /\ UNCHANGED <<catalog, conversations, retrieval>>
  \/ /\ focus = "retrieval" /\ R!Next
     /\ UNCHANGED <<catalog, conversations, memories>>

ServedNext ==
  \/ focus = "lifespan" /\ L!Next /\ UNCHANGED <<gateway, gate>>
  \/ focus = "gateway" /\ G!Next /\ UNCHANGED <<lifespan, gate>>
  \/ focus = "gate" /\ O!Next /\ UNCHANGED <<lifespan, gateway>>

AllNext ==
  /\ UNCHANGED focus
  /\ \/ OnlineNext /\ UNCHANGED <<accounted, contents, served>>
     \/ AccountedNext /\ UNCHANGED <<online, contents, served>>
     \/ ContentsNext /\ UNCHANGED <<online, accounted, served>>
     \/ ServedNext /\ UNCHANGED <<online, accounted, contents>>

AllSpec == AllInit /\ [][AllNext]_allVars

-----------------------------------------------------------------------------
(* The properties, under names of their own.                               *)

(* Every part keeps its variables in their ranges and within its limits.   *)
AllTypeOK ==
  /\ focus = "updates" => U!TypeOK
  /\ focus = "audit" => A!TypeOK
  /\ focus = "permissions" => P!TypeOK
  /\ focus = "dependencies" => D!TypeOK
  /\ focus = "signIn" => S!TypeOK
  /\ focus = "backup" => B!TypeOK
  /\ focus \in {"runs", "promotions"} => K!TypeOK
  /\ focus = "chat" => C!TypeOK
  /\ focus = "memories" => M!TypeOK
  /\ focus = "retrieval" => R!TypeOK
  /\ focus = "lifespan" => L!TypeOK
  /\ focus = "gateway" => G!TypeOK
  /\ focus = "gate" => O!TypeOK

(* Of LiveUpdates: a socket is registered only while its handler serves it  *)
(* (connect and disconnect of the managers), and no notification is missed  *)
(* between the count and the pushes (notification_ws of ws_routes.py).  Of  *)
(* MessageGateway: a message is delivered once, but after a lost answer, it *)
(* is given up only when everything was tried, and the log says what became *)
(* of it (messaging_router.py, routes/webhooks.py).                         *)
UpdatesArrive ==
  /\ focus = "updates" => U!RegisteredIsServed /\ U!NothingIsMissed
  /\ focus = "gateway" => G!SentOnce /\ G!FailedHasTried /\ G!RowsAreTrue

(* Of AuditChain and BackupService: rows inserted in the order of their     *)
(* stamps form one chain (create and batch_create of audit_repo.py); a      *)
(* backup, and what is restored in peace, is a state the database has had   *)
(* (create_backup, restore_backup of backup_service.py).                    *)
HistoryIsTrue ==
  /\ focus = "audit" => A!LinkedInOrder
  /\ focus = "backup" => B!BackupsAreStates

(* Of PermissionCache and SignIn: the cache has the committed permissions,  *)
(* but for lookups that a change overlapped (get_user_permissions of        *)
(* auth/rbac.py); one callback per state, one token per sign-in, one        *)
(* account per identity (handle_callback and find_or_create_user of sso.py).*)
(* Of LoginGate: no failure is forgotten while it counts for the lockout,   *)
(* and requests are served on tokens in time, for active accounts (login of *)
(* routes/auth.py, dependencies.py).  Of ServerLifespan: a worker that      *)
(* serves without a failed step has roles and templates, and the templates  *)
(* once unless two workers seeded together (lifespan of main.py).           *)
AccessIsTrue ==
  /\ focus = "permissions" => P!CacheIsCurrent
  /\ focus = "signIn" => S!SignInOnce
  /\ focus = "gate" => O!LockoutHolds /\ O!ServedIsActive
  /\ focus = "lifespan" => L!ServesSeeded /\ L!BuiltinsOnce

(* Of TaskDependencies: no cycle without a race, and the order to execute   *)
(* tasks in follows the rows (detect_cycle and get_execution_order of       *)
(* task_dependency_repo.py).                                                *)
DependenciesHold ==
  focus = "dependencies" => D!AcyclicUnlessRaced /\ D!AnswersFollowRows

(* Of SkillCatalog: a stable skill was approved or rolled back and is not   *)
(* failing since (skill_registry.py, skill_evaluator.py), versions differ   *)
(* and promotions make one copy, but for calls that a commit crossed        *)
(* (_create_version, promote and review_promotion of marketplace.py).       *)
PublishedIsEarned ==
  focus \in {"runs", "promotions"} =>
    K!StableIsEarned /\ K!VersionsDiffer /\ K!PromotedOnce

(* Of Conversations: messages are kept, but for what a view may trim, and   *)
(* an answer follows its question and reports what was committed (chat.py,  *)
(* get_conversation of conversation_repo.py).  Of MemoryStore and           *)
(* MemoryRetrieval: a content is remembered once, unless two writers looked *)
(* together (memory_service.py), and what is retrieved is the best of what  *)
(* was found, within the limits (retriever.py).                             *)
ConversationsHold ==
  /\ focus = "chat" => C!MessagesAreKept /\ C!AnswersAreTrue
  /\ focus = "memories" => M!RememberedOnce /\ M!WrittenIsThere
  /\ focus = "retrieval" => R!RetrievedIsBest

-----------------------------------------------------------------------------
(* The steps of the whole are steps of its parts.                          *)

\* A step of the whole is a step of each part, or leaves it alone.
LEMMA OnlineParts ==
  ASSUME [AllNext]_allVars
  PROVE  /\ [U!Next]_(U!vars) /\ [A!Next]_(A!vars) /\ [P!Next]_(P!vars)
<1>1. OnlineNext \/ UNCHANGED online
  BY DEF AllNext, allVars
<1>2. /\ updates = U!vars /\ audit = A!vars /\ permissions = P!vars
      /\ updates' = U!vars' /\ audit' = A!vars' /\ permissions' = P!vars'
  BY DEF updates, U!vars, audit, A!vars, permissions, P!vars
<1>3. UNCHANGED online => UNCHANGED <<updates, audit, permissions>>
  BY DEF online
<1> QED
  BY <1>1, <1>2, <1>3 DEF OnlineNext

\* The same of the second group of parts.
LEMMA AccountedParts ==
  ASSUME [AllNext]_allVars
  PROVE  /\ [D!Next]_(D!vars) /\ [S!Next]_(S!vars) /\ [B!Next]_(B!vars)
<1>1. AccountedNext \/ UNCHANGED accounted
  BY DEF AllNext, allVars
<1>2. /\ dependencies = D!vars /\ signIn = S!vars /\ backup = B!vars
      /\ dependencies' = D!vars' /\ signIn' = S!vars' /\ backup' = B!vars'
  BY DEF dependencies, D!vars, signIn, S!vars, backup, B!vars
<1>3. UNCHANGED accounted => UNCHANGED <<dependencies, signIn, backup>>
  BY DEF accounted
<1> QED
  BY <1>1, <1>2, <1>3 DEF AccountedNext

\* The same of the third.
LEMMA ContentsParts ==
  ASSUME [AllNext]_allVars
  PROVE  /\ [K!Next]_(K!vars) /\ [C!Next]_(C!vars) /\ [M!Next]_(M!vars)
         /\ [R!Next]_(R!vars)
<1>1. ContentsNext \/ UNCHANGED contents
  BY DEF AllNext, allVars
<1>2. /\ catalog = K!vars /\ conversations = C!vars /\ memories = M!vars
      /\ retrieval = R!vars
      /\ catalog' = K!vars' /\ conversations' = C!vars' /\ memories' = M!vars'
      /\ retrieval' = R!vars'
  BY DEF catalog, K!vars, conversations, C!vars, memories, M!vars, retrieval, R!vars
<1>3. UNCHANGED contents => UNCHANGED <<catalog, conversations, memories, retrieval>>
  BY DEF contents
<1> QED
  BY <1>1, <1>2, <1>3 DEF ContentsNext

\* The same of the fourth.
LEMMA ServedParts ==
  ASSUME [AllNext]_allVars
  PROVE  /\ [L!Next]_(L!vars) /\ [G!Next]_(G!vars) /\ [O!Next]_(O!vars)
<1>1. ServedNext \/ UNCHANGED served
  BY DEF AllNext, allVars
<1>2. /\ lifespan = L!vars /\ gateway = G!vars /\ gate = O!vars
      /\ lifespan' = L!vars' /\ gateway' = G!vars' /\ gate' = O!vars'
  BY DEF lifespan, L!vars, gateway, G!vars, gate, O!vars
<1>3. UNCHANGED served => UNCHANGED <<lifespan, gateway, gate>>
  BY DEF served
<1> QED
  BY <1>1, <1>2, <1>3 DEF ServedNext

-----------------------------------------------------------------------------
(* The theorems.                                                           *)

\* The small instance is one of many: what the proofs ask of the constants is
\* that the limits are numbers, that what stands for none is none, that
\* there are a name, an edition and roles, and that some sets are finite.
ASSUME RecordsAssumption ==
  /\ AuditAssumption /\ BackupAssumption
  /\ PermissionAssumption /\ SignInAssumption /\ GateAssumption /\ LifespanAssumption
  /\ CatalogAssumption
  /\ ChatAssumption /\ MemoryAssumption /\ RetrievalAssumption

(* Whatever writers, batches, overtaking stamps, backups, failures of the   *)
(* copy and restores there are: the audit rows that were inserted in the    *)
(* order of their stamps form one chain (audit_repo.py), and a backup, and  *)
(* what is restored in peace, is a state the database has had               *)
(* (backup_service.py).                                                     *)
THEOREM HistoryHolds == AllSpec => []HistoryIsTrue
<1> DEFINE Inv ==
      /\ AuditTypeOK /\ StampsOK /\ LinksOK
      /\ BackupTypeOK /\ SnapshotsOK
<1>1. AllInit => Inv
  BY RecordsAssumption, InitAudit, InitBackupTypes, InitSnapshots DEF AllInit
<1>2. Inv /\ [AllNext]_allVars => Inv'
  <2> SUFFICES ASSUME Inv, [AllNext]_allVars PROVE Inv'
    OBVIOUS
  <2>1. [A!Next]_(A!vars) /\ [B!Next]_(B!vars)
    BY OnlineParts, AccountedParts
  <2>2. AuditTypeOK' /\ StampsOK' /\ LinksOK'
    BY <2>1, RecordsAssumption, AuditSteps
  <2>3. BackupTypeOK' /\ SnapshotsOK'
    BY <2>1, RecordsAssumption, BackupTypeSteps, SnapshotSteps
  <2> QED
    BY <2>2, <2>3
<1>3. Inv => HistoryIsTrue
  BY RecordsAssumption, AuditLinked, SnapshotsHold DEF HistoryIsTrue
<1> QED
  BY <1>1, <1>2, <1>3, PTL DEF AllSpec

(* Whatever readers, changes, callbacks, threads, requests, workers and     *)
(* crashes there are: what the cache of permissions says is what was        *)
(* committed, but for lookups that a change overlapped (auth/rbac.py); one  *)
(* callback per state, one token per sign-in, one account per identity      *)
(* (sso.py); no failure is forgotten while it counts, and requests are      *)
(* served in time, for active accounts (routes/auth.py, dependencies.py); a *)
(* worker that serves finds its roles and templates (main.py).              *)
THEOREM AccessHolds == AllSpec => []AccessIsTrue
<1> DEFINE Inv ==
      /\ PermissionTypes /\ PermissionsCurrent
      /\ SignInTypes /\ VisitsOnce /\ AccountsApart
      /\ GateTypes /\ AttemptsOK /\ VisitsOK
      /\ LifespanTypes /\ LifespanOK
<1>1. AllInit => Inv
  BY RecordsAssumption, InitPermissions, InitSignIn, InitGate, InitLifespan DEF AllInit
<1>2. Inv /\ [AllNext]_allVars => Inv'
  <2> SUFFICES ASSUME Inv, [AllNext]_allVars PROVE Inv'
    OBVIOUS
  <2>1. /\ [P!Next]_(P!vars) /\ [S!Next]_(S!vars)
        /\ [O!Next]_(O!vars) /\ [L!Next]_(L!vars)
    BY OnlineParts, AccountedParts, ServedParts
  <2>2. PermissionTypes' /\ PermissionsCurrent'
    BY <2>1, RecordsAssumption, PermissionSteps
  <2>3. SignInTypes' /\ VisitsOnce' /\ AccountsApart'
    BY <2>1, RecordsAssumption, SignInSteps
  <2>4. GateTypes' /\ AttemptsOK' /\ VisitsOK'
    BY <2>1, RecordsAssumption, GateSteps
  <2>5. LifespanTypes' /\ LifespanOK'
    BY <2>1, RecordsAssumption, LifespanTypeSteps, LifespanSteps
  <2> QED
    BY <2>2, <2>3, <2>4, <2>5
<1>3. Inv => AccessIsTrue
  <2>1. Inv => P!CacheIsCurrent /\ S!SignInOnce
    BY RecordsAssumption, PermissionsHold, SignInHolds
  <2>2. Inv => O!LockoutHolds /\ O!ServedIsActive /\ L!ServesSeeded /\ L!BuiltinsOnce
    BY RecordsAssumption, GateHolds, LifespanHolds
  <2> QED
    BY <2>1, <2>2 DEF AccessIsTrue
<1> QED
  BY <1>1, <1>2, <1>3, PTL DEF AllSpec

(* Whatever calls, editions, runs and promotions there are: a stable skill  *)
(* was approved or rolled back and is not failing since                     *)
(* (skill_registry.py, skill_evaluator.py), versions differ and a promotion *)
(* makes one copy, but for calls that a commit crossed (marketplace.py).    *)
THEOREM PublishedHolds == AllSpec => []PublishedIsEarned
<1>1. AllInit => CatalogHolds
  BY RecordsAssumption, InitCatalog DEF AllInit
<1>2. CatalogHolds /\ [AllNext]_allVars => CatalogHolds'
  <2> SUFFICES ASSUME CatalogHolds, [AllNext]_allVars PROVE CatalogHolds'
    OBVIOUS
  <2>1. [K!Next]_(K!vars)
    BY ContentsParts
  <2>2. CatalogOK(skills, promotions, call, history) /\ RunsOK(skills)
    BY DEF CatalogHolds
  <2>3. CatalogOK(skills', promotions', call', history') /\ RunsOK(skills')
    BY <2>1, <2>2, RecordsAssumption, CatalogSteps
  <2> QED
    BY <2>3 DEF CatalogHolds
<1>3. CatalogHolds => PublishedIsEarned
  BY RecordsAssumption, CatalogIsRight DEF CatalogHolds, PublishedIsEarned
<1> QED
  BY <1>1, <1>2, <1>3, PTL DEF AllSpec

(* Whatever requests, views, failures and writers there are: messages are   *)
(* kept, but for what a view may trim, and an answer follows its question   *)
(* and reports what was committed (chat.py, conversation_repo.py); a        *)
(* content is remembered once, unless two writers looked together           *)
(* (memory_service.py); what is retrieved is the best of what was found,    *)
(* within the limits (retriever.py).                                        *)
THEOREM ConversationsAreTrue == AllSpec => []ConversationsHold
<1> DEFINE Inv ==
      /\ ChatOK(exists, messages, talk, effects, excused, swallowed)
      /\ MemoriesOK(rows, write, crossed)
      /\ RetrievalOK
<1>1. AllInit => Inv
  BY RecordsAssumption, InitChat, InitMemories, InitRetrieval DEF AllInit
<1>2. Inv /\ [AllNext]_allVars => Inv'
  <2> SUFFICES ASSUME Inv, [AllNext]_allVars PROVE Inv'
    OBVIOUS
  <2>1. /\ [C!Next]_(C!vars) /\ [M!Next]_(M!vars) /\ [R!Next]_(R!vars)
    BY ContentsParts
  <2>2. ChatOK(exists', messages', talk', effects', excused', swallowed')
    BY <2>1, RecordsAssumption, ChatSteps
  <2>3. MemoriesOK(rows', write', crossed')
    BY <2>1, RecordsAssumption, MemorySteps
  <2>4. RetrievalOK'
    BY <2>1, RecordsAssumption, RetrievalSteps
  <2> QED
    BY <2>2, <2>3, <2>4
<1>3. Inv => ConversationsHold
  BY ChatHolds, MemoriesHold, RetrievalHolds DEF ConversationsHold
<1> QED
  BY <1>1, <1>2, <1>3, PTL DEF AllSpec
=============================================================================
