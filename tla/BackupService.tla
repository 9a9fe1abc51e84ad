--------------------------- MODULE BackupService ---------------------------
(***************************************************************************)
(* Backups of the live SQLite database: the admin routes and               *)
(* packages/admin/backup_service.py.  The database is in WAL mode: a       *)
(* commit goes to the log, which a checkpoint moves to the main file.      *)
(*                                                                         *)
(* A backup is taken by SQLite from one snapshot, under _backup_lock, into *)
(* a file named by the second; a restore copies a file over the main file  *)
(* of the running server, page after page, without the lock, and leaves    *)
(* the log where it is.  Left out: page caches of open connections, which  *)
(* a restore does not invalidate either, and disk errors.                  *)
(***************************************************************************)
EXTENDS Naturals

CONSTANTS
  Page,
  MaxVersion, \* bound of the model: transactions
  MaxSecond,  \* bound of the model: seconds, which name the files
  NoFile

VARIABLES
  main,      \* the main file: of each page the version it has
  wal,       \* the pages in the log, with theirs
  version,   \* transactions so far
  states,    \* the states of the database that were committed
  second,
  backups,   \* the files: their pages, by name
  maker,     \* the file that create_backup is writing, the snapshot, and
             \* whether the file was deleted meanwhile
  restore,   \* the restore under way: from which file, and what is to copy
  fouled     \* the log was not empty when the main file was replaced, or the
             \* database was written or backed up, or the file rewritten,
             \* meanwhile

vars ==
  <<main, wal, version, states, second, backups, maker, restore, fouled>>

State == [Page -> 0..MaxVersion]

Resting == [pc |-> "idle", file |-> NoFile, pages |-> <<>>, todo |-> {}]
NotMaking == [file |-> NoFile, pages |-> <<>>, gone |-> FALSE]

TypeOK ==
  /\ main \in State
  /\ DOMAIN wal \subseteq Page /\ \A p \in DOMAIN wal : wal[p] \in 0..MaxVersion
  /\ version \in 0..MaxVersion
  /\ states \subseteq State
  /\ second \in 1..MaxSecond
  /\ DOMAIN backups \subseteq 1..MaxSecond
  /\ \A f \in DOMAIN backups : backups[f] \in State
  /\ maker.file \in 1..MaxSecond \cup {NoFile} /\ maker.gone \in BOOLEAN
  /\ restore.pc \in {"idle", "checked", "copy"}
  /\ restore.todo \subseteq Page
  /\ fouled \in BOOLEAN

Empty == [p \in {} |-> 0]

Init ==
  /\ main = [p \in Page |-> 0]
  /\ wal = Empty
  /\ version = 0
  /\ states = {main}
  /\ second = 1
  /\ backups = Empty
  /\ maker = NotMaking
  /\ restore = Resting
  /\ fouled = FALSE

\* What a connection reads.
View == [p \in Page |-> IF p \in DOMAIN wal THEN wal[p] ELSE main[p]]

-----------------------------------------------------------------------------
(* The database.                                                           *)

Transaction(pages) ==
  /\ version < MaxVersion
  /\ version' = version + 1
  /\ wal' = [p \in DOMAIN wal \cup pages |->
               IF p \in pages THEN version' ELSE wal[p]]
  /\ states' = states \cup {[p \in Page |->
                               IF p \in pages THEN version' ELSE View[p]]}
  /\ fouled' = (fouled \/ restore.pc = "copy")
  /\ UNCHANGED <<main, second, backups, maker, restore>>

Checkpoint ==
  /\ wal # Empty
  /\ main' = View
  /\ wal' = Empty
  /\ UNCHANGED <<version, states, second, backups, maker, restore, fouled>>

Tick ==
  /\ second < MaxSecond
  /\ second' = second + 1
  /\ UNCHANGED <<main, wal, version, states, backups, maker, restore, fouled>>

-----------------------------------------------------------------------------
(* BackupService.                                                          *)

\* create_backup takes the lock and a snapshot; a file of the same second is
\* overwritten.
BeginBackup ==
  /\ maker = NotMaking
  /\ maker' = [file |-> second, pages |-> View, gone |-> FALSE]
  /\ backups' = [f \in DOMAIN backups \ {second} |-> backups[f]]
  /\ fouled' = (fouled \/ restore.pc = "copy")
  /\ UNCHANGED <<main, wal, version, states, second, restore>>

(* Faulty variant: the database is copied page after page.                 *)
EndPagedBackup ==
  /\ maker # NotMaking
  /\ \E pages \in SUBSET Page :
       backups' = [f \in DOMAIN backups \cup {maker.file} |->
         IF f = maker.file
         THEN [p \in Page |-> IF p \in pages THEN View[p] ELSE maker.pages[p]]
         ELSE backups[f]]
  /\ maker' = NotMaking
  /\ UNCHANGED <<main, wal, version, states, second, restore, fouled>>

\* A file that was deleted while it was written is not there at the end.
EndBackup ==
  /\ maker # NotMaking
  /\ backups' = IF maker.gone THEN backups
                ELSE [f \in DOMAIN backups \cup {maker.file} |->
                        IF f = maker.file THEN maker.pages ELSE backups[f]]
  /\ maker' = NotMaking
  /\ UNCHANGED <<main, wal, version, states, second, restore, fouled>>

Unfinished(f) == maker.file = f /\ ~maker.gone

\* restore_backup finds the file and opens it as a database.
BeginRestore(f) ==
  /\ restore.pc = "idle"
  /\ f \in DOMAIN backups \/ Unfinished(f)
  /\ restore' = [Resting EXCEPT !.pc = "checked", !.file = f]
  /\ UNCHANGED <<main, wal, version, states, second, backups, maker, fouled>>

\* copy2 opens it; when it was deleted since, the restore fails here.  When
\* it is being rewritten, what is read is neither the old nor the new one.
OpenCopy ==
  LET f == restore.file
  IN  /\ restore.pc = "checked"
      /\ IF f \in DOMAIN backups
         THEN /\ restore' = [restore EXCEPT !.pc = "copy", !.todo = Page,
                                            !.pages = backups[f]]
              /\ fouled' = (fouled \/ wal # Empty)
         ELSE IF Unfinished(f)
         THEN /\ restore' = [restore EXCEPT !.pc = "copy", !.todo = Page,
                                            !.pages = maker.pages]
              /\ fouled' = TRUE
         ELSE /\ restore' = Resting
              /\ UNCHANGED fouled
      /\ UNCHANGED <<main, wal, version, states, second, backups, maker>>

CopyPage(p) ==
  /\ restore.pc = "copy" /\ p \in restore.todo
  /\ main' = [main EXCEPT ![p] = restore.pages[p]]
  /\ restore' = IF restore.todo = {p} THEN Resting
                ELSE [restore EXCEPT !.todo = @ \ {p}]
  /\ UNCHANGED <<wal, version, states, second, backups, maker, fouled>>

DeleteBackup(f) ==
  /\ f \in DOMAIN backups \/ Unfinished(f)
  /\ backups' = [g \in DOMAIN backups \ {f} |-> backups[g]]
  /\ maker' = IF Unfinished(f) THEN [maker EXCEPT !.gone = TRUE] ELSE maker
  /\ UNCHANGED <<main, wal, version, states, second, restore, fouled>>

Next ==
  \/ \E pages \in (SUBSET Page) \ {{}} : Transaction(pages)
  \/ Checkpoint
  \/ Tick
  \/ BeginBackup
  \/ EndBackup
  \/ \E f \in 1..MaxSecond : BeginRestore(f) \/ DeleteBackup(f)
  \/ OpenCopy
  \/ \E p \in Page : CopyPage(p)

Spec == Init /\ [][Next]_vars

-----------------------------------------------------------------------------
(* Properties                                                              *)

(* Whatever is written, checkpointed, backed up, restored and deleted at   *)
(* the same time, a finished backup is a state the database has had; and   *)
(* so is what is read once a restore is over, unless the log was not empty *)
(* or a transaction or a backup came meanwhile (create_backup and          *)
(* restore_backup of admin/backup_service.py).                             *)
BackupsAreStates ==
  ~fouled =>
    /\ \A f \in DOMAIN backups : backups[f] \in states
    /\ restore.pc # "copy" => View \in states
=============================================================================
