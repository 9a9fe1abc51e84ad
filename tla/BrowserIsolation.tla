-------------------------- MODULE BrowserIsolation --------------------------
(* What a task's browser leaves behind: the contexts and directories of     *)
(* BrowserContextManager and the downloads of QuarantineZone.  Calls of the *)
(* manager are coroutines: between looking for a context and registering    *)
(* one, and between taking one out and wiping its directory, others run.    *)
EXTENDS Naturals, FiniteSets

CONSTANTS
  Key,               \* isolation keys: tenant, task and step
  Call,              \* calls of create_context, each with the context it makes
  NoCall,
  Closer,            \* calls of close_context and close_all
  NoKey,
  Download

VARIABLES
  creating,     \* of each call: its key and where it is
  contexts,     \* _contexts
  open,         \* contexts that are open in the browser
  partitions,   \* _partitions
  dirs,         \* directories on disk
  closing,      \* of each closer: its key, the context it took, what is left
  file,         \* of each download: where its bytes are
  verdict,      \* of each download: the result of its checks
  crossed,      \* history: calls that met another one of their key
  unclosed,     \* history: contexts that could not be closed
  unwiped       \* history: directories that rmtree could not remove

vars ==
  <<creating, contexts, open, partitions, dirs, closing, file, verdict,
    crossed, unclosed, unwiped>>

Content == {"clean", "tooLarge", "executable", "blockedName"}
Idle == [key |-> NoKey, pc |-> "none"]
NotClosing == [key |-> NoKey, context |-> NoCall, all |-> FALSE, pc |-> "none"]

Init ==
  /\ creating = [c \in Call |-> Idle]
  /\ contexts = [k \in Key |-> NoCall]
  /\ open = {} /\ partitions = {} /\ dirs = {}
  /\ closing = [d \in Closer |-> NotClosing]
  /\ file = [f \in Download |-> [content |-> "clean", at |-> {}]]
  /\ verdict = [f \in Download |-> "none"]
  /\ crossed = {} /\ unclosed = {} /\ unwiped = {}

Making(k) == {c \in Call : creating[c].key = k /\ creating[c].pc \in {"new", "headers"}}
Downloads == <<file, verdict>>

-----------------------------------------------------------------------------
(* create_context.                                                          *)

GetContext(c, k) ==
  /\ creating[c].pc = "none" /\ contexts[k] # NoCall
  /\ creating' = [creating EXCEPT ![c] = [key |-> k, pc |-> "done"]]
  /\ UNCHANGED <<contexts, open, partitions, dirs, closing, Downloads, crossed,
                 unclosed, unwiped>>

\* Nothing registered: the directory is made and the browser asked.
BeginContext(c, k) ==
  /\ creating[c].pc = "none" /\ contexts[k] = NoCall
  /\ creating' = [creating EXCEPT ![c] = [key |-> k, pc |-> "new"]]
  /\ partitions' = partitions \cup {k}
  /\ dirs' = IF k \in partitions THEN dirs ELSE dirs \cup {k}
  /\ unwiped' = IF k \in partitions THEN unwiped ELSE unwiped \ {k}
  /\ crossed' =
       IF Making(k) # {} \/ \E d \in Closer : closing[d].key = k
       THEN crossed \cup {c} \cup Making(k) ELSE crossed
  /\ UNCHANGED <<contexts, open, closing, Downloads, unclosed>>

Opened(c) ==
  /\ creating[c].pc = "new"
  /\ open' = open \cup {c}
  /\ creating' = [creating EXCEPT ![c].pc = "headers"]
  /\ UNCHANGED <<contexts, partitions, dirs, closing, Downloads, crossed, unclosed, unwiped>>

Register(c) ==
  /\ creating[c].pc = "headers"
  /\ contexts' = [contexts EXCEPT ![creating[c].key] = c]
  /\ creating' = [creating EXCEPT ![c].pc = "done"]
  /\ UNCHANGED <<open, partitions, dirs, closing, Downloads, crossed, unclosed, unwiped>>

\* The browser fails: at once, or when the context is already open.
CreateFails(c) ==
  /\ creating[c].pc \in {"new", "headers"}
  /\ creating' = [creating EXCEPT ![c].pc = "failed"]
  /\ UNCHANGED <<contexts, open, partitions, dirs, closing, Downloads, crossed,
                 unclosed, unwiped>>

-----------------------------------------------------------------------------
(* close_context, and close_all as a close of each key of its list.         *)

\* A close while contexts of its key are in the making crosses them.
BeginClose(d, k, all) ==
  /\ closing[d].pc = "none"
  /\ closing' = [closing EXCEPT ![d] =
                   [key |-> k, context |-> contexts[k], all |-> all,
                    pc |-> IF contexts[k] = NoCall THEN "wipe" ELSE "close"]]
  /\ contexts' = [contexts EXCEPT ![k] = NoCall]
  /\ crossed' = crossed \cup Making(k)
  /\ UNCHANGED <<creating, open, partitions, dirs, Downloads, unclosed,
                 unwiped>>

\* Faulty variant: nothing is closed, only forgotten.
CloseNothing(d) ==
  /\ closing[d].pc = "close"
  /\ closing' = [closing EXCEPT ![d].pc = "wipe"]
  /\ UNCHANGED <<creating, contexts, open, partitions, dirs, Downloads, crossed,
                 unclosed, unwiped>>

CloseContext(d) ==
  /\ closing[d].pc = "close"
  /\ open' = open \ {closing[d].context}
  /\ closing' = [closing EXCEPT ![d].pc = "wipe"]
  /\ UNCHANGED <<creating, contexts, partitions, dirs, Downloads, crossed,
                 unclosed, unwiped>>

\* A failure to close ends close_context, before the directory is wiped;
\* close_all goes on.
CloseFails(d) ==
  /\ closing[d].pc = "close"
  /\ unclosed' = unclosed \cup {closing[d].context}
  /\ closing' = [closing EXCEPT ![d] =
                   IF closing[d].all THEN [@ EXCEPT !.pc = "wipe"]
                                     ELSE NotClosing]
  /\ UNCHANGED <<creating, contexts, open, partitions, dirs, Downloads,
                 crossed, unwiped>>

\* Faulty variant: the directory is removed but still thought to be there.
WipeDirectory(d) ==
  /\ closing[d].pc = "wipe"
  /\ dirs' = dirs \ {closing[d].key}
  /\ closing' = [closing EXCEPT ![d] = NotClosing]
  /\ UNCHANGED <<creating, contexts, open, partitions, Downloads, crossed, unclosed, unwiped>>

\* Errors of rmtree are ignored.
Wipe(d) ==
  LET k == closing[d].key
  IN  /\ closing[d].pc = "wipe"
      /\ partitions' = partitions \ {k}
      /\ IF k \in partitions
         THEN \/ dirs' = dirs \ {k} /\ UNCHANGED unwiped
              \/ k \in dirs /\ unwiped' = unwiped \cup {k} /\ UNCHANGED dirs
         ELSE UNCHANGED <<dirs, unwiped>>
      /\ crossed' = crossed \cup Making(k)
      /\ closing' = [closing EXCEPT ![d] = NotClosing]
      /\ UNCHANGED <<creating, contexts, open, Downloads, unclosed>>

-----------------------------------------------------------------------------
(* quarantine_download.                                                     *)

Others ==
  UNCHANGED <<creating, contexts, open, partitions, dirs, closing, crossed, unclosed, unwiped>>

\* The bytes are written before anything is looked at.
Quarantine(f) ==
  /\ file[f].at = {}
  /\ \E content \in Content :
       file' = [file EXCEPT ![f] = [content |-> content, at |-> {"quarantine"}]]
  /\ UNCHANGED verdict /\ Others

\* Faulty variant: the name is not looked at.
CheckContent(f) ==
  /\ file[f].at = {"quarantine"} /\ verdict[f] = "none"
  /\ verdict' = [verdict EXCEPT ![f] =
                   IF file[f].content \in {"tooLarge", "executable"}
                   THEN "blocked" ELSE "clean"]
  /\ UNCHANGED file /\ Others

Check(f) ==
  /\ file[f].at = {"quarantine"} /\ verdict[f] = "none"
  /\ verdict' = [verdict EXCEPT ![f] =
                   IF file[f].content = "clean" THEN "clean" ELSE "blocked"]
  /\ UNCHANGED file /\ Others

\* shutil.move to another volume copies first, and may be cut short.
Release(f) ==
  /\ verdict[f] = "clean" /\ "quarantine" \in file[f].at
  /\ \E at \in {{"workspace"}, {"quarantine", "workspace"}} :
       file' = [file EXCEPT ![f].at = at]
  /\ UNCHANGED verdict /\ Others

Next ==
  \/ \E c \in Call :
       \/ \E k \in Key : GetContext(c, k) \/ BeginContext(c, k)
       \/ Opened(c) \/ Register(c) \/ CreateFails(c)
  \/ \E d \in Closer :
       \/ \E k \in Key, all \in BOOLEAN : BeginClose(d, k, all)
       \/ CloseContext(d) \/ CloseFails(d) \/ Wipe(d)
  \/ \E f \in Download : Quarantine(f) \/ Check(f) \/ Release(f)

Spec == Init /\ [][Next]_vars

-----------------------------------------------------------------------------
(* Properties.                                                              *)

(* The manager's dictionaries and the downloads are in their ranges.        *)
TypeOK ==
  /\ \A c \in Call : creating[c].pc \in {"none", "new", "headers", "done", "failed"}
  /\ contexts \in [Key -> Call \cup {NoCall}]
  /\ open \subseteq Call /\ partitions \subseteq Key /\ dirs \subseteq Key
  /\ \A d \in Closer : closing[d].pc \in {"none", "close", "wipe"}
  /\ verdict \in [Download -> {"none", "clean", "blocked"}]

(* Every context that is open can be found and closed, but for those whose  *)
(* creation or closing failed and those that met another call of their key  *)
(* (create_context, close_context of browser_isolation.py).                 *)
OpenIsKnown ==
  \A c \in open :
    \/ creating[c].pc \in {"headers", "failed"}
    \/ contexts[creating[c].key] = c
    \/ \E d \in Closer : closing[d].context = c
    \/ c \in crossed \cup unclosed

(* A registered context has its directory, unless its creation met a close  *)
(* of its key; and a directory is known until it is wiped, or could not be  *)
(* (get_partition_dir, close_context).                                      *)
DirectoriesFollow ==
  /\ \A k \in Key : contexts[k] \notin {NoCall} \cup crossed => k \in dirs
  /\ dirs \subseteq partitions \cup unwiped

(* Only what passed every check gets into a workspace, and what did not     *)
(* stays in quarantine (quarantine_download of quarantine.py).              *)
OnlyCleanIsReleased ==
  \A f \in Download :
    /\ "workspace" \in file[f].at => file[f].content = "clean"
    /\ verdict[f] = "blocked" => file[f].at = {"quarantine"}
=============================================================================
