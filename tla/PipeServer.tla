----------------------------- MODULE PipeServer -----------------------------
(* The named-pipe server of the Windows platform, WindowsNamedPipeIpc.      *)
(* serve runs an accept loop in a thread and waits for it; each connection  *)
(* has a thread of its own that reads, calls the handler and answers.  stop *)
(* sets an event and cancels the reads of the threads it knows; close also  *)
(* joins them, on the event loop, for a second each.  A cancellation that   *)
(* comes before the thread has entered its read is lost; a new serve clears *)
(* the event, whoever was meant to see it.                                  *)
EXTENDS Naturals, FiniteSets

CONSTANTS
  Peer, NoPeer,   \* clients: each connects once
  MaxInstances,   \* max_instances: pipe handles at a time
  MaxServes       \* the bound on calls of serve

Serve == 1..MaxServes

VARIABLES
  stopped,      \* _stop
  loop,         \* _event_loop is set
  serving,      \* of each call of serve: its coroutine
  accept,       \* of each call of serve: its accept loop
  peer,         \* of each accept loop: the client that has connected to it
  conn,         \* of each client: the thread of its connection
  shaken,       \* clients whose handshake is done
  registered,   \* _connection_threads
  closing,      \* what close waits for, and whether it does
  after,        \* history: requests handled since the event was set
  late,         \* history: clients whose thread began after the event was set
  overlapped    \* history: a serve began before an earlier one was over

vars ==
  <<stopped, loop, serving, accept, peer, conn, shaken, registered, closing,
    after, late, overlapped>>

Open(c) == conn[c] \notin {"none", "gone"}
Instances ==
  Cardinality({k \in Serve : accept[k] \in {"listen", "connected", "publish"}})
    + Cardinality({c \in Peer : Open(c)})

Init ==
  /\ stopped = FALSE /\ loop = FALSE
  /\ serving = [k \in Serve |-> "none"]
  /\ accept = [k \in Serve |-> "none"]
  /\ peer = [k \in Serve |-> NoPeer]
  /\ conn = [c \in Peer |-> "none"]
  /\ shaken = {} /\ registered = {}
  /\ closing = [waits |-> FALSE, threads |-> {}]
  /\ after = [c \in Peer |-> 0]
  /\ late = {} /\ overlapped = FALSE

-----------------------------------------------------------------------------
(* serve, on the event loop.  close keeps the loop waiting.                 *)

\* Another call may follow once the server was stopped or the last one ended.
BeginServe(k) ==
  /\ ~closing.waits
  /\ serving[k] = "none"
  /\ \A j \in 1..(k - 1) : serving[j] = "over" \/ (serving[j] = "waiting" /\ stopped)
  /\ stopped' = FALSE /\ loop' = TRUE
  /\ serving' = [serving EXCEPT ![k] = "waiting"]
  /\ accept' = [accept EXCEPT ![k] = "top"]
  /\ after' = [c \in Peer |-> 0]
  /\ overlapped' = (overlapped \/ \E j \in Serve : serving[j] = "waiting")
  /\ UNCHANGED <<peer, conn, shaken, registered, closing, late>>

EndServe(k) ==
  /\ ~closing.waits
  /\ serving[k] = "waiting" /\ accept[k] = "ended"
  /\ serving' = [serving EXCEPT ![k] = "over"]
  /\ loop' = FALSE
  /\ UNCHANGED <<stopped, accept, peer, conn, shaken, registered, closing,
                 after, late, overlapped>>

\* stop: only threads inside ReadFile notice.
Cancelled ==
  [c \in Peer |->
     IF c \in registered /\ conn[c] = "reading" THEN "leaving" ELSE conn[c]]

CancelServe(k) ==
  /\ ~closing.waits
  /\ serving[k] = "waiting"
  /\ serving' = [serving EXCEPT ![k] = "over"]
  /\ stopped' = TRUE /\ conn' = Cancelled /\ loop' = FALSE
  /\ UNCHANGED <<accept, peer, shaken, registered, closing, after, late,
                 overlapped>>

Stop ==
  /\ ~stopped
  /\ stopped' = TRUE /\ conn' = Cancelled
  /\ UNCHANGED <<loop, serving, accept, peer, shaken, registered, closing,
                 after, late, overlapped>>

BeginClose ==
  /\ ~closing.waits /\ \E k \in Serve : serving[k] # "none"
  /\ stopped' = TRUE /\ conn' = Cancelled
  /\ closing' = [waits |-> TRUE, threads |-> registered]
  /\ UNCHANGED <<loop, serving, accept, peer, shaken, registered, after, late,
                 overlapped>>

\* Every join has returned or timed out.
EndClose ==
  /\ closing.waits
  /\ registered' = registered \cap {c \in closing.threads : Open(c)}
  /\ closing' = [waits |-> FALSE, threads |-> {}]
  /\ UNCHANGED <<stopped, loop, serving, accept, peer, conn, shaken, after,
                 late, overlapped>>

-----------------------------------------------------------------------------
(* The accept loop of a call of serve, in its thread.                       *)

LoopOnly == UNCHANGED <<stopped, loop, serving, shaken, closing, after, overlapped>>

\* All instances busy: the loop looks again after a while.
CreatePipe(k) ==
  /\ accept[k] = "top"
  /\ \/ /\ stopped /\ accept' = [accept EXCEPT ![k] = "ended"]
     \/ /\ ~stopped /\ Instances < MaxInstances
        /\ accept' = [accept EXCEPT ![k] = "listen"]
  /\ LoopOnly /\ UNCHANGED <<peer, conn, registered, late>>

\* Another error of CreateNamedPipe ends the loop.
CreateFails(k) ==
  /\ accept[k] = "top"
  /\ accept' = [accept EXCEPT ![k] = "ended"]
  /\ LoopOnly /\ UNCHANGED <<peer, conn, registered, late>>

StopListening(k) ==
  /\ accept[k] = "listen" /\ stopped
  /\ accept' = [accept EXCEPT ![k] = "ended"]
  /\ LoopOnly /\ UNCHANGED <<peer, conn, registered, late>>

Connect(k, c) ==
  /\ accept[k] = "listen" /\ conn[c] = "none"
  /\ \A j \in Serve : peer[j] # c
  /\ accept' = [accept EXCEPT ![k] = "connected"]
  /\ peer' = [peer EXCEPT ![k] = c]
  /\ LoopOnly /\ UNCHANGED <<conn, registered, late>>

\* The last look at the event before the thread is made.
CheckStop(k) ==
  /\ accept[k] = "connected"
  /\ IF stopped
     THEN /\ accept' = [accept EXCEPT ![k] = "ended"]
          /\ peer' = [peer EXCEPT ![k] = NoPeer]
          /\ conn' = [conn EXCEPT ![peer[k]] = "gone"]
     ELSE /\ accept' = [accept EXCEPT ![k] = "publish"]
          /\ UNCHANGED <<peer, conn>>
  /\ LoopOnly /\ UNCHANGED <<registered, late>>

\* Faulty variant: the thread is started but not added.
PublishUnknown(k) ==
  /\ accept[k] = "publish"
  /\ conn' = [conn EXCEPT ![peer[k]] = "toRead"]
  /\ late' = IF stopped THEN late \cup {peer[k]} ELSE late
  /\ accept' = [accept EXCEPT ![k] = "top"]
  /\ peer' = [peer EXCEPT ![k] = NoPeer]
  /\ LoopOnly /\ UNCHANGED registered

Publish(k) ==
  /\ accept[k] = "publish"
  /\ registered' = registered \cup {peer[k]}
  /\ conn' = [conn EXCEPT ![peer[k]] = "toRead"]
  /\ late' = IF stopped THEN late \cup {peer[k]} ELSE late
  /\ accept' = [accept EXCEPT ![k] = "top"]
  /\ peer' = [peer EXCEPT ![k] = NoPeer]
  /\ LoopOnly

\* The switch to blocking reads fails: logged, and the handle is closed.
AcceptFails(k) ==
  /\ accept[k] = "publish"
  /\ conn' = [conn EXCEPT ![peer[k]] = "gone"]
  /\ accept' = [accept EXCEPT ![k] = "top"]
  /\ peer' = [peer EXCEPT ![k] = NoPeer]
  /\ LoopOnly /\ UNCHANGED <<registered, late>>

-----------------------------------------------------------------------------
(* The thread of a connection.                                              *)

ConnOnly == UNCHANGED <<stopped, loop, serving, accept, peer, closing, late, overlapped>>

EnterRead(c) ==
  /\ conn[c] = "toRead"
  /\ conn' = [conn EXCEPT ![c] = "reading"]
  /\ ConnOnly /\ UNCHANGED <<shaken, registered, after>>

\* The peer is the user, the nonce the server's and the version known: the
\* answer is written and the loop of requests begins.
Handshake(c) ==
  /\ conn[c] = "reading" /\ c \notin shaken
  /\ shaken' = shaken \cup {c}
  /\ conn' = [conn EXCEPT ![c] = "check"]
  /\ ConnOnly /\ UNCHANGED <<registered, after>>

\* Faulty variant: requests are read until the client leaves.
KeepReading(c) ==
  /\ conn[c] = "check"
  /\ conn' = [conn EXCEPT ![c] = "toRead"]
  /\ ConnOnly /\ UNCHANGED <<shaken, registered, after>>

CheckLoop(c) ==
  /\ conn[c] = "check"
  /\ conn' = [conn EXCEPT ![c] = IF stopped THEN "leaving" ELSE "toRead"]
  /\ ConnOnly /\ UNCHANGED <<shaken, registered, after>>

\* Within the rate, with the nonce and the next number.
Request(c) ==
  /\ conn[c] = "reading" /\ c \in shaken
  /\ conn' = [conn EXCEPT ![c] = "handling"]
  /\ ConnOnly /\ UNCHANGED <<shaken, registered, after>>

\* A coroutine of the handler runs on the event loop, and fails without one.
Handle(c) ==
  /\ conn[c] = "handling"
  /\ \/ /\ loop /\ ~closing.waits
        /\ conn' = [conn EXCEPT ![c] = "check"]
        /\ after' = [after EXCEPT ![c] = IF stopped /\ @ < 2 THEN @ + 1 ELSE @]
     \/ /\ ~loop /\ conn' = [conn EXCEPT ![c] = "leaving"]
        /\ UNCHANGED after
  /\ ConnOnly /\ UNCHANGED <<shaken, registered>>

\* A message that is refused, a client that leaves, a handler or write that
\* fails.
Fail(c) ==
  /\ conn[c] \in {"reading", "handling"}
  /\ conn' = [conn EXCEPT ![c] = "leaving"]
  /\ ConnOnly /\ UNCHANGED <<shaken, registered, after>>

Leave(c) ==
  /\ conn[c] = "leaving"
  /\ conn' = [conn EXCEPT ![c] = "gone"]
  /\ registered' = registered \ {c}
  /\ ConnOnly /\ UNCHANGED <<shaken, after>>

Next ==
  \/ \E k \in Serve :
       \/ BeginServe(k) \/ EndServe(k) \/ CancelServe(k)
       \/ CreatePipe(k) \/ CreateFails(k) \/ StopListening(k)
       \/ CheckStop(k) \/ Publish(k) \/ AcceptFails(k)
       \/ \E c \in Peer : Connect(k, c)
  \/ Stop \/ BeginClose \/ EndClose
  \/ \E c \in Peer :
       \/ EnterRead(c) \/ Handshake(c) \/ CheckLoop(c) \/ Request(c)
       \/ Handle(c) \/ Fail(c) \/ Leave(c)

Spec == Init /\ [][Next]_vars

-----------------------------------------------------------------------------
(* Properties.                                                              *)

(* The server's state is in its ranges, and the pipe has its limit.         *)
TypeOK ==
  /\ stopped \in BOOLEAN /\ loop \in BOOLEAN
  /\ serving \in [Serve -> {"none", "waiting", "over"}]
  /\ accept \in
       [Serve -> {"none", "top", "listen", "connected", "publish", "ended"}]
  /\ conn \in [Peer -> {"none", "toRead", "reading", "check", "handling",
                          "leaving", "gone"}]
  /\ registered \subseteq Peer /\ Instances <= MaxInstances

(* Every thread of a connection that goes on is known to stop and close, but *)
(* for those that began after the server was stopped, which close forgets   *)
(* (_serve_loop, close of local_ipc.py).                                    *)
ThreadsAreKnown == \A c \in Peer : Open(c) => c \in registered \cup late

(* After a stop a connection answers at most the one request it was in      *)
(* (_handle_connection).                                                    *)
StopIsSeen == \A c \in Peer : stopped => after[c] <= 1

(* While a server listens its handlers have their event loop, unless two    *)
(* calls of serve overlapped (serve).                                       *)
ServedHasLoop ==
  (\E k \in Serve : serving[k] = "waiting") => loop \/ overlapped
=============================================================================
