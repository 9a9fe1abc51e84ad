----------------------------- MODULE AuditChain -----------------------------
(***************************************************************************)
(* The hash chain of the audit log: AuditRepository.create and batch_create *)
(* (audit_repo.py), called by several transactions of one process, and     *)
(* verify (verify_audit_chain.py).                                         *)
(*                                                                         *)
(* A row's created_at is stamped when its INSERT is compiled; the INSERT   *)
(* then waits for the write lock of SQLite, unless the transaction has     *)
(* written before.  The row is linked to the head of the chain, the hashed *)
(* row with the latest created_at, under the lock.  Stamps are distinct    *)
(* and name the rows; a hash is the name of the row it was computed from,  *)
(* for no row is changed afterwards.                                       *)
(***************************************************************************)
EXTENDS Naturals, Sequences, FiniteSetsExt

CONSTANTS
  Writer,    \* transactions, one after the other in each session
  NoWriter,
  MaxBatch,  \* events of one flush
  MaxStamp   \* bound of the model

VARIABLES
  stamp,     \* _last_model_timestamp
  pending,   \* of each writer: the stamps of the events it flushes
  lock,      \* the writer that holds the write lock, or NoWriter
  draft,     \* the rows it has inserted and not yet committed
  log,       \* the committed rows: created_at and prev_entry_hash
  overtaken  \* rows inserted when a row with a later stamp was there

vars == <<stamp, pending, lock, draft, log, overtaken>>

Genesis == 0

Row == [at : 1..MaxStamp, prev : 0..MaxStamp]

TypeOK ==
  /\ stamp \in 0..MaxStamp
  /\ pending \in [Writer -> Seq(1..MaxStamp)]
  /\ \A w \in Writer : Len(pending[w]) <= MaxBatch
  /\ lock \in Writer \cup {NoWriter}
  /\ draft \subseteq Row /\ log \subseteq Row
  /\ lock = NoWriter => draft = {}
  /\ overtaken \subseteq {r.at : r \in draft \cup log}

Init ==
  /\ stamp = 0
  /\ pending = [w \in Writer |-> <<>>]
  /\ lock = NoWriter
  /\ draft = {}
  /\ log = {}
  /\ overtaken = {}

-----------------------------------------------------------------------------
\* _chain_head: by created_at, which no two rows share.
ChainHead(rows) == Max({r.at : r \in rows} \cup {Genesis})

(* Faulty variant: prev is not advanced from one event to the next.        *)
LinkedToHead(prev, stamps) ==
  {[at |-> stamps[i], prev |-> prev] : i \in DOMAIN stamps}

\* batch_create seals the events in order, create the one it has.
Linked(prev, stamps) ==
  {[at |-> stamps[i], prev |-> IF i = 1 THEN prev ELSE stamps[i - 1]] :
     i \in DOMAIN stamps}

\* The caller writes something else first.
Write(w) ==
  /\ lock = NoWriter /\ pending[w] = <<>>
  /\ lock' = w
  /\ UNCHANGED <<stamp, pending, draft, log, overtaken>>

\* _now for one more event of the flush.
Stamp(w) ==
  /\ Len(pending[w]) < MaxBatch /\ stamp < MaxStamp
  /\ stamp' = stamp + 1
  /\ pending' = [pending EXCEPT ![w] = Append(@, stamp')]
  /\ UNCHANGED <<lock, draft, log, overtaken>>

\* The INSERT, once it has the lock, the query for the head and the UPDATE
\* that seals the rows.
Create(w) ==
  LET prev == ChainHead(log \cup draft)
  IN  /\ pending[w] # <<>> /\ lock \in {NoWriter, w}
      /\ lock' = w
      /\ draft' = draft \cup Linked(prev, pending[w])
      /\ overtaken' = overtaken \cup
           {pending[w][i] : i \in {j \in DOMAIN pending[w] : pending[w][j] < prev}}
      /\ pending' = [pending EXCEPT ![w] = <<>>]
      /\ UNCHANGED <<stamp, log>>

Commit(w) ==
  /\ lock = w /\ pending[w] = <<>>
  /\ log' = log \cup draft
  /\ draft' = {}
  /\ lock' = NoWriter
  /\ UNCHANGED <<stamp, pending, overtaken>>

\* An error at any point, the busy timeout among them.
Rollback(w) ==
  /\ lock = w \/ pending[w] # <<>>
  /\ pending' = [pending EXCEPT ![w] = <<>>]
  /\ IF lock = w
     THEN /\ lock' = NoWriter
          /\ draft' = {}
          /\ overtaken' = overtaken \ {r.at : r \in draft}
     ELSE UNCHANGED <<lock, draft, overtaken>>
  /\ UNCHANGED <<stamp, log>>

Next ==
  \E w \in Writer :
    Write(w) \/ Stamp(w) \/ Create(w) \/ Commit(w) \/ Rollback(w)

Spec == Init /\ [][Next]_vars

-----------------------------------------------------------------------------
\* verify goes through the rows by created_at: each must be linked to the
\* row before it.  It does not look at the first row's link.
Intact(rows) ==
  \A r \in rows :
    LET before == {q \in rows : q.at < r.at}
    IN  before # {} => r.prev = ChainHead(before)

Prev(at) == (CHOOSE r \in log : r.at = at).prev

\* Where the links of a row lead to when overtaken rows are passed over.
Ancestor(r) ==
  LET f[k \in 0..MaxBatch] ==
        IF k = 0 THEN r.prev
        ELSE IF f[k - 1] \in overtaken THEN Prev(f[k - 1]) ELSE f[k - 1]
  IN  f[MaxBatch]

-----------------------------------------------------------------------------
(* Properties                                                              *)

(* Through concurrent transactions, batches and rollbacks, rows that are   *)
(* inserted in the order of their stamps form one chain without forks and  *)
(* gaps: each leads back to the one before it, over overtaken rows at most *)
(* (_chain_head and create of audit_repo.py); and a log without overtaken  *)
(* rows passes verify.                                                     *)
LinkedInOrder ==
  LET inOrder == {r \in log : r.at \notin overtaken}
  IN  /\ \A r \in inOrder :
           Ancestor(r) = ChainHead({q \in inOrder : q.at < r.at})
      /\ overtaken = {} => Intact(log)
=============================================================================
