--------------------------- MODULE IsolationBroker ---------------------------
(***************************************************************************)
(* The Windows isolation broker: the boundary that surrounds the children  *)
(* of one tool execution or terminal session.  A broker is made for one    *)
(* workspace; initialize() takes a restricted token, an AppContainer       *)
(* profile and the access lists (DACLs) of the workspace, close() gives    *)
(* everything back.  The access lists belong to the file system, so two    *)
(* brokers of one workspace share them.                                    *)
(*                                                                         *)
(* Every operation holds the broker's _state_lock from its first read to   *)
(* its last write and is one action; ProcessSandbox composes them with the *)
(* sandbox handles and the children.                                       *)
(***************************************************************************)
EXTENDS Integers

CONSTANTS
  Broker,      \* brokers, each named like the AppContainer package it makes
  Workspace,   \* workspace directories
  WorkspaceOf, \* the workspace_root of each broker
  Original     \* the access entries a workspace has of its own, no broker's

VARIABLES
  broker, \* the fields of each WindowsIsolationBroker
  dacl,   \* file system: who the entries of an access list grant access
  exists  \* file system: the workspace's file is (still) there

brokerVars == <<broker, dacl, exists>>

\* A workspace is its root directory and one file in it.
Part == {"root", "file"}
Dacl == SUBSET (Broker \cup {Original})
Snapshots == UNION {[parts -> Dacl] : parts \in SUBSET Part}
None == [p \in {} |-> {}]

BrokerState ==
  [verified: BOOLEAN,   \* boundary.initialization_verified
   accepting: BOOLEAN,
   launches: Nat,       \* _active_launches
   pending: BOOLEAN,    \* _cleanup_pending
   closed: BOOLEAN,
   token: BOOLEAN,      \* _restricted_token is held
   profile: {"none", "held", "undeleted"},
   saved: Snapshots,    \* _workspace_acl_snapshots
   secret: {"none", "issued", "consumed"}]

NewBroker ==
  [verified |-> FALSE, accepting |-> FALSE, launches |-> 0, pending |-> FALSE,
   closed |-> FALSE, token |-> FALSE, profile |-> "none",
   saved |-> None, secret |-> "none"]

BrokerTypeOK ==
  /\ broker \in [Broker -> BrokerState]
  /\ dacl \in [Workspace -> [Part -> Dacl]]
  /\ exists \in [Workspace -> BOOLEAN]

BrokerInit ==
  /\ broker = [b \in Broker |-> NewBroker]
  /\ dacl = [w \in Workspace |-> [p \in Part |-> {Original}]]
  /\ exists = [w \in Workspace |-> TRUE]

-----------------------------------------------------------------------------
Present(w, p) == p = "root" \/ exists[w]

\* The root gets a protected list of the host and this package alone, the
\* file keeps its own entries and gets one more (entries that a file only
\* inherits follow the root and are not modelled).
Granted(b, d) == [root |-> {b}, file |-> d.file \cup {b}]

Snapshot(b) ==
  LET w == WorkspaceOf[b]
  IN  [p \in {q \in Part : Present(w, q)} |-> dacl[w][p]]

(* What is still missing when the steps of the initialization stop at      *)
(* `stage`: each record keeps what the steps before it have taken.         *)
Stage == {"validate", "token", "profile", "acl"}
Reached(b, stage) ==
  [broker[b] EXCEPT
     !.token = stage # "validate",
     !.profile = IF stage \in {"profile", "acl"} THEN "held" ELSE "none",
     !.saved = IF stage = "acl" THEN Snapshot(b) ELSE @]

(* The five cleanup steps go on after an error.  `bad` are the steps that  *)
(* fail; restoring the file fails when the file is gone.  A failed step    *)
(* keeps its snapshot (or the profile's name) for the next close.          *)
Failing(b, s, bad) ==
  {p \in DOMAIN s.saved : p \in bad \/ ~Present(WorkspaceOf[b], p)}
    \cup (IF s.profile # "none" /\ "profile" \in bad THEN {"profile"} ELSE {})

(* Faulty variant: the snapshots are cleared even when a restore failed.   *)
CleanedForgetful(b, s, bad) ==
  LET failing == Failing(b, s, bad)
  IN  [s EXCEPT
         !.secret = "none",
         !.saved = None,
         !.profile = IF "profile" \in failing THEN "undeleted" ELSE "none",
         !.token = FALSE,
         !.pending = failing # {}]

Cleaned(b, s, bad) ==
  LET failing == Failing(b, s, bad)
  IN  [s EXCEPT
         !.secret = "none",
         !.saved = [p \in DOMAIN @ \cap failing |-> @[p]],
         !.profile = IF "profile" \in failing THEN "undeleted" ELSE "none",
         !.token = FALSE,
         !.pending = failing # {}]

Restored(b, s, bad, d) ==
  [p \in Part |-> IF p \in DOMAIN s.saved \ Failing(b, s, bad)
                  THEN s.saved[p] ELSE d[p]]

\* initialize succeeds: token, profile, snapshots, grants, all verified.
Initialize(b) ==
  LET w == WorkspaceOf[b]
  IN  /\ ~broker[b].verified /\ ~broker[b].closed /\ ~broker[b].pending
      /\ broker' = [broker EXCEPT ![b] =
                      [Reached(b, "acl") EXCEPT !.verified = TRUE,
                                                !.accepting = TRUE]]
      /\ dacl' = [dacl EXCEPT ![w] = Granted(b, @)]
      /\ UNCHANGED exists

(* initialize fails at some stage and rolls back what it has taken; at the *)
(* last stage the access lists may already be changed.                     *)
InitializeFails(b, stage, bad) ==
  LET w == WorkspaceOf[b]
      s == Reached(b, stage)
  IN  /\ ~broker[b].verified /\ ~broker[b].closed /\ ~broker[b].pending
      /\ broker' = [broker EXCEPT ![b] = Cleaned(b, s, bad)]
      /\ dacl' = [dacl EXCEPT ![w] =
                    Restored(b, s, bad,
                             IF stage = "acl" THEN Granted(b, @) ELSE @)]
      /\ UNCHANGED exists

MayLaunch(b) ==
  /\ broker[b].accepting /\ broker[b].verified /\ ~broker[b].pending
  /\ broker[b].token /\ broker[b].profile = "held"

\* close while children may be launched: no more launches, and an error.
CloseRefused(b) ==
  /\ ~broker[b].closed
  /\ broker[b].launches > 0
  /\ broker' = [broker EXCEPT ![b].accepting = FALSE]
  /\ UNCHANGED <<dacl, exists>>

(* Faulty variant: close cleans up although launches are active.           *)
CloseActive(b, bad) ==
  LET w == WorkspaceOf[b]
      s == [broker[b] EXCEPT !.accepting = FALSE]
      t == Cleaned(b, s, bad)
  IN  /\ ~broker[b].closed
      /\ broker' = [broker EXCEPT ![b] =
                      IF t.pending THEN t
                      ELSE [t EXCEPT !.verified = FALSE, !.closed = TRUE]]
      /\ dacl' = [dacl EXCEPT ![w] = Restored(b, s, bad, @)]
      /\ UNCHANGED exists

(* close: clean up; only without any error is the broker closed, else the  *)
(* boundary stays verified and the cleanup pending.                        *)
Close(b, bad) ==
  LET w == WorkspaceOf[b]
      s == [broker[b] EXCEPT !.accepting = FALSE]
      t == Cleaned(b, s, bad)
  IN  /\ ~broker[b].closed
      /\ broker[b].launches = 0
      /\ broker' = [broker EXCEPT ![b] =
                      IF t.pending THEN t
                      ELSE [t EXCEPT !.verified = FALSE, !.closed = TRUE]]
      /\ dacl' = [dacl EXCEPT ![w] = Restored(b, s, bad, @)]
      /\ UNCHANGED exists

\* issue_secret of one handle id: refused while it exists, closed or pending.
IssueSecret(b) ==
  /\ ~broker[b].closed /\ ~broker[b].pending
  /\ broker[b].secret = "none"
  /\ broker' = [broker EXCEPT ![b].secret = "issued"]
  /\ UNCHANGED <<dacl, exists>>

\* consume_secret: delivered or expired, the value is gone for good.
ConsumeSecret(b) ==
  /\ ~broker[b].closed /\ ~broker[b].pending
  /\ broker[b].secret = "issued"
  /\ broker' = [broker EXCEPT ![b].secret = "consumed"]
  /\ UNCHANGED <<dacl, exists>>
=============================================================================
