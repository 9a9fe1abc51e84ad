---------------------------- MODULE Conversations ----------------------------
(* The conversations of the chat: POST /chat and the chat socket, which add  *)
(* a question and its answer, and the routes that show and delete a          *)
(* conversation.  Every repository call of a chat request is a transaction   *)
(* of its own in a pool thread.  Showing a conversation writes as well:      *)
(* get_conversation assigns the newest messages to a relationship that       *)
(* deletes orphans, and the session is committed afterwards.                 *)
EXTENDS Integers, Sequences, Filter

CONSTANTS
  Chat, Viewer,  \* requests that chat, and those that show or delete; a
                 \* conversation is named by the chat that began it
  NoConv,
  MessageLimit,  \* message_limit: 500 messages in the code
  MaxMessages    \* bound on the messages of a conversation

Request == Chat \cup Viewer

VARIABLES
  exists,    \* rows of conversations
  messages,  \* rows of conversation_messages, by age
  call,      \* per request: where it is and what it has read
  effects,   \* requests whose task, reminder or preference is committed
  excused,   \* messages a view may delete: those it did not want, and those
             \* added between its two reads
  swallowed  \* requests whose failed commit was ignored

vars == <<exists, messages, call, effects, excused, swallowed>>

Idle == [at |-> "idle", op |-> "none", conv |-> NoConv, newest |-> {}, all |-> {}]

Init ==
  /\ exists = {}
  /\ messages = [k \in Chat |-> <<>>]
  /\ call = [r \in Request |-> Idle]
  /\ effects = {} /\ excused = {} /\ swallowed = {}

\* What rows hold: every message names its request, its conversation is the one
\* whose messages have it.
IsMessage(row) == row.request \in Chat /\ row.role \in {"user", "assistant"}

Rows(k) == {messages[k][i] : i \in DOMAIN messages[k]}
Newest(k) == {messages[k][i] : i \in {j \in DOMAIN messages[k] :
                                        j > Len(messages[k]) - MessageLimit}}
Without(k, gone) == Keep(messages[k], Rows(k) \ gone)
Goto(r, place) ==
  call' = [call EXCEPT ![r].at = place, ![r].newest = {}, ![r].all = {}]

-----------------------------------------------------------------------------
(* get_conversation, and the routes that show and delete.                   *)

Purpose(r) == IF r \in Chat THEN {"chat"} ELSE {"show", "delete"}

\* The newest messages are read first.
BeginView(r, op, k) ==
  /\ call[r].at = "idle" /\ k \in exists
  /\ call' = [call EXCEPT ![r] = [Idle EXCEPT !.at = "load", !.op = op, !.conv = k,
                                              !.newest = Newest(k)]]
  /\ excused' = excused \cup (Rows(k) \ Newest(k))
  /\ UNCHANGED <<exists, messages, effects, swallowed>>

\* The assignment loads what the relationship held, with a select of its own.
LoadAll(r) ==
  /\ call[r].at = "load"
  /\ call' = [call EXCEPT ![r].at = IF call[r].op = "delete" THEN "delete" ELSE "trim",
                          ![r].all = Rows(call[r].conv)]
  /\ UNCHANGED <<exists, messages, effects, excused, swallowed>>

\* Faulty variant: the commit keeps the newest messages and nothing else.
TrimToNewest(r) ==
  LET k == call[r].conv
  IN  /\ call[r].at = "trim"
      /\ messages' = [messages EXCEPT ![k] = Without(k, Rows(k) \ call[r].newest)]
      /\ Goto(r, IF call[r].op = "chat" THEN "question" ELSE "done")
      /\ UNCHANGED <<exists, effects, excused, swallowed>>

\* The commit deletes the orphans of the assignment.
Trim(r) ==
  LET k == call[r].conv
  IN  /\ call[r].at = "trim"
      /\ messages' =
           [messages EXCEPT ![k] = Without(k, call[r].all \ call[r].newest)]
      /\ Goto(r, IF call[r].op = "chat" THEN "question" ELSE "done")
      /\ UNCHANGED <<exists, effects, excused, swallowed>>

Delete(r) ==
  LET k == call[r].conv
  IN  /\ call[r].at = "delete"
      /\ exists' = exists \ {k}
      /\ messages' = [messages EXCEPT ![k] = <<>>]
      /\ Goto(r, "done")
      /\ UNCHANGED <<effects, excused, swallowed>>

-----------------------------------------------------------------------------
(* chat and _handle_chat_message.                                           *)

\* Without a conversation, or with one that is gone, a new one is begun.
Create(r) ==
  /\ call[r].at = "idle"
  /\ exists' = exists \cup {r}
  /\ call' = [call EXCEPT ![r] = [Idle EXCEPT !.at = "question", !.op = "chat",
                                              !.conv = r]]
  /\ UNCHANGED <<messages, effects, excused, swallowed>>

Viewed(k) == \E r \in Request : call[r].at = "load" /\ call[r].conv = k

\* Faulty variant: the foreign key is not enforced.
AddOrphan(r, role, next) ==
  LET k == call[r].conv
      m == [request |-> r, role |-> role]
  IN  /\ Len(messages[k]) < MaxMessages
      /\ messages' = [messages EXCEPT ![k] = Append(@, m)]
      /\ excused' = IF Viewed(k) THEN excused \cup {m} ELSE excused
      /\ Goto(r, next) /\ UNCHANGED <<exists, effects, swallowed>>

\* add_message: a conversation that was deleted meanwhile fails the request.
Add(r, role, next) ==
  LET k == call[r].conv
      m == [request |-> r, role |-> role]
  IN  \/ /\ k \in exists /\ Len(messages[k]) < MaxMessages
         /\ messages' = [messages EXCEPT ![k] = Append(@, m)]
         /\ excused' = IF Viewed(k) THEN excused \cup {m} ELSE excused
         /\ Goto(r, next) /\ UNCHANGED <<exists, effects, swallowed>>
      \/ /\ k \notin exists
         /\ Goto(r, "done") /\ UNCHANGED <<exists, messages, effects, excused, swallowed>>

Question(r) == call[r].at = "question" /\ Add(r, "user", "act")
Answer(r) == call[r].at = "answer" /\ Add(r, "assistant", "answered")

\* Faulty variant: the reply does not wait for the handler's transaction.
ActLater(r) ==
  /\ call[r].at = "act"
  /\ \E op \in {"info", "task", "preference"} :
       call' = [call EXCEPT ![r].op = op,
                  ![r].at = IF op = "preference" THEN "commit" ELSE "answer"]
  /\ UNCHANGED <<exists, messages, effects, excused, swallowed>>

\* By the intent: an answer only, a task or reminder in a transaction of its
\* own, or a preference in the session of the request.
Act(r) ==
  /\ call[r].at = "act"
  /\ \E op \in {"info", "task", "preference"} :
       /\ call' = [call EXCEPT ![r].op = op,
                     ![r].at = IF op = "preference" THEN "commit" ELSE "answer"]
       /\ effects' = IF op = "task" THEN effects \cup {r} ELSE effects
  /\ UNCHANGED <<exists, messages, excused, swallowed>>

\* POST /chat answers whether or not the commit succeeds; the socket's handler
\* raises, which is Fail.
CommitEffect(r) ==
  /\ call[r].at = "commit"
  /\ \/ effects' = effects \cup {r} /\ UNCHANGED swallowed
     \/ swallowed' = swallowed \cup {r} /\ UNCHANGED effects
  /\ Goto(r, "answer")
  /\ UNCHANGED <<exists, messages, excused>>

\* An error, a timeout of the database, or the server stops.
Fail(r) ==
  /\ call[r].at \notin {"idle", "answered", "done"}
  /\ Goto(r, "done")
  /\ UNCHANGED <<exists, messages, effects, excused, swallowed>>

Next ==
  \E r \in Request :
    \/ \E op \in Purpose(r), k \in Chat : BeginView(r, op, k)
    \/ LoadAll(r) \/ Trim(r) \/ Delete(r)
    \/ (r \in Chat /\ Create(r)) \/ Question(r) \/ Act(r) \/ CommitEffect(r) \/ Answer(r)
    \/ Fail(r)

Spec == Init /\ [][Next]_vars

-----------------------------------------------------------------------------
(* Properties.                                                              *)

(* The variables are in their ranges.                                       *)
TypeOK ==
  /\ exists \subseteq Chat /\ effects \subseteq Chat
  /\ \A k \in Chat : /\ Len(messages[k]) <= MaxMessages
                      /\ \A m \in Rows(k) : IsMessage(m)
  /\ \A r \in Request :
       call[r].at \in {"idle", "load", "trim", "delete", "question", "act",
                       "commit", "answer", "answered", "done"}

QuestionOf(r) == [request |-> r, role |-> "user"]
AnswerOf(r) == [request |-> r, role |-> "assistant"]

(* A conversation that is not deleted keeps what was said in it, but for     *)
(* messages that were older than the newest of a view, or were added between *)
(* the two reads of one (get_conversation of conversation_repo.py).          *)
MessagesAreKept ==
  \A r \in Chat :
    call[r].conv \in exists =>
      /\ call[r].at \in {"act", "commit", "answer", "answered"} =>
           QuestionOf(r) \in Rows(call[r].conv) \cup excused
      /\ call[r].at = "answered" =>
           AnswerOf(r) \in Rows(call[r].conv) \cup excused

(* An answer comes after its question, in a conversation that exists, and    *)
(* what it reports was committed, unless the failed commit was ignored       *)
(* (chat of chat.py, _handle_chat_message of ws_routes.py).                  *)
AnswersAreTrue ==
  \A k \in Chat : \A i \in DOMAIN messages[k] :
    /\ k \in exists
    /\ LET r == messages[k][i].request
       IN  messages[k][i].role = "assistant" =>
             /\ QuestionOf(r) \in excused
                \/ \E j \in 1..(i - 1) : messages[k][j] = QuestionOf(r)
             /\ call[r].op # "info" => r \in effects \cup swallowed
=============================================================================
