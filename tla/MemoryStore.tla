----------------------------- MODULE MemoryStore -----------------------------
(* The memories of one user: preferences, which are written once per         *)
(* content, and reminders, which are not.  A write looks twice for its       *)
(* content, in the service and in the repository, before it inserts; looks   *)
(* hold no lock.                                                             *)
EXTENDS Integers, Sequences

CONSTANTS
  Writer, Content, NoContent,
  MaxRows          \* bound on the rows

Edition == {"personal", "enterprise"}

VARIABLES
  rows,     \* rows of memories, by age
  write,    \* per writer: what it writes and where it is
  crossed   \* rows inserted while another writer had looked for the last time

vars == <<rows, write, crossed>>

Idle == [at |-> "idle", content |-> NoContent, edition |-> "personal", row |-> 0]

Init ==
  /\ rows = <<>> /\ crossed = {}
  /\ write = [w \in Writer |-> Idle]

\* What rows hold.
IsMemory(row) ==
  /\ row.content \in Content /\ row.edition \in Edition /\ row.hashed \in BOOLEAN
  /\ row.status \in {"active", "inactive", "deleted"}

Row(c, e, hashed) ==
  [content |-> c, edition |-> e, hashed |-> hashed, status |-> "active"]

\* By the hash alone: the edition that is asked for is not looked at.
Matches(c) ==
  {i \in DOMAIN rows : /\ rows[i].status = "active" /\ rows[i].hashed
                       /\ rows[i].content = c}

-----------------------------------------------------------------------------
(* write_from_task, as save_preference calls it.                            *)

\* The service answers nothing when it finds the content.
Begin(w, c, e) ==
  /\ write[w].at = "idle"
  /\ write' = [write EXCEPT ![w] =
                 [Idle EXCEPT !.at = IF Matches(c) = {} THEN "again" ELSE "known",
                              !.content = c, !.edition = e]]
  /\ UNCHANGED <<rows, crossed>>

\* Faulty variant: the repository trusts the look of the service.
AgainNot(w) ==
  /\ write[w].at = "again"
  /\ write' = [write EXCEPT ![w].at = "insert"]
  /\ UNCHANGED <<rows, crossed>>

\* The repository returns what it finds as if it were new.
Again(w) ==
  LET found == Matches(write[w].content)
  IN  /\ write[w].at = "again"
      /\ \/ /\ found = {}
            /\ write' = [write EXCEPT ![w].at = "insert"]
         \/ \E i \in found :
              write' = [write EXCEPT ![w].at = "written", ![w].row = i]
      /\ UNCHANGED <<rows, crossed>>

\* Faulty variant: the hash is not stored.
InsertUnhashed(w) ==
  /\ write[w].at = "insert" /\ Len(rows) < MaxRows
  /\ rows' = Append(rows, Row(write[w].content, write[w].edition, FALSE))
  /\ write' = [write EXCEPT ![w].at = "written", ![w].row = Len(rows) + 1]
  /\ UNCHANGED crossed

\* The row, its hash and its audit row are one transaction.
Insert(w) ==
  /\ write[w].at = "insert" /\ Len(rows) < MaxRows
  /\ rows' = Append(rows, Row(write[w].content, write[w].edition, TRUE))
  /\ crossed' = IF \E v \in Writer \ {w} : /\ write[v].at = "insert"
                                           /\ write[v].content = write[w].content
                THEN crossed \cup {Len(rows) + 1} ELSE crossed
  /\ write' = [write EXCEPT ![w].at = "written", ![w].row = Len(rows) + 1]

\* The request ends; or fails, and its transaction with it.
End(w) ==
  /\ write[w].at # "idle"
  /\ write' = [write EXCEPT ![w] = Idle]
  /\ UNCHANGED <<rows, crossed>>

-----------------------------------------------------------------------------
(* create_reminder; dismiss and disable; delete.                            *)

CreateReminder(c) ==
  /\ Len(rows) < MaxRows
  /\ rows' = Append(rows, Row(c, "personal", FALSE))
  /\ UNCHANGED <<write, crossed>>

\* Faulty variant: a reminder can be taken up again.
DisableOrEnable(i) ==
  /\ rows[i].status # "deleted"
  /\ rows' = [rows EXCEPT ![i].status = IF @ = "active" THEN "inactive" ELSE "active"]
  /\ UNCHANGED <<write, crossed>>

Disable(i) ==
  /\ rows[i].status # "deleted"
  /\ rows' = [rows EXCEPT ![i].status = "inactive"]
  /\ UNCHANGED <<write, crossed>>

\* dismiss looks for reminders only.
Dismiss(i) ==
  /\ rows[i].status # "deleted" /\ ~rows[i].hashed
  /\ rows' = [rows EXCEPT ![i].status = "inactive"]
  /\ UNCHANGED <<write, crossed>>

Delete(i) ==
  /\ rows[i].status # "deleted"
  /\ rows' = [rows EXCEPT ![i].status = "deleted"]
  /\ UNCHANGED <<write, crossed>>

Next ==
  \/ \E w \in Writer :
       \/ \E c \in Content, e \in Edition : Begin(w, c, e)
       \/ Again(w) \/ Insert(w) \/ End(w)
  \/ \E c \in Content : CreateReminder(c)
  \/ \E i \in DOMAIN rows : Disable(i) \/ Dismiss(i) \/ Delete(i)

Spec == Init /\ [][Next]_vars

-----------------------------------------------------------------------------
(* Properties.                                                              *)

(* The variables are in their ranges.                                       *)
TypeOK ==
  /\ Len(rows) <= MaxRows /\ crossed \subseteq DOMAIN rows
  /\ \A i \in DOMAIN rows : IsMemory(rows[i])
  /\ \A w \in Writer :
       /\ write[w].at \in {"idle", "known", "again", "insert", "written"}
       /\ write[w].row \in 0..Len(rows)

(* A content is remembered once: of two active preferences with one content *)
(* the first was inserted when the second had looked for the last time      *)
(* (write_from_task of memory_service.py, create of memory_repo.py).        *)
RememberedOnce ==
  \A i, j \in DOMAIN rows :
    /\ i < j /\ {i, j} \subseteq Matches(rows[i].content)
    /\ rows[i].content = rows[j].content
    => \E k \in crossed : k < j /\ rows[k].content = rows[j].content

(* What a writer reports as written is a row of its content.  Being in      *)
(* another edition does not count (create of memory_repo.py).               *)
WrittenIsThere ==
  \A w \in Writer :
    write[w].at = "written" =>
      /\ rows[write[w].row].content = write[w].content
      /\ rows[write[w].row].hashed
=============================================================================
