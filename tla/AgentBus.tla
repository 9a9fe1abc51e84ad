----------------------------- MODULE AgentBus -----------------------------
(* The in-memory bus between agents: AgentBus of                           *)
(* packages/agent_core/agent_bus.py with the routes of routes/agents.py.   *)
(* All of it runs on one event loop.  The bodies that hold the lock do not *)
(* await, so each operation is one step, but for the broadcast of a        *)
(* proposal, which is a task of its own.                                   *)
EXTENDS Naturals, Sequences, FiniteSets, Functions, Filter

CONSTANTS
  Agent, Everybody, Proposal, Option,
  QueueSize,     \* maxsize of a queue
  MaxLog,        \* _MAX_LOG
  MaxProposals,  \* _MAX_PROPOSALS
  MaxMessages    \* bound on the messages sent

VARIABLES
  sent,       \* the messages in the order of their sending: their recipients
  queues,     \* self._queues: the messages that wait for each known agent
  log,        \* self._message_log
  proposed,   \* the keys of _consensus_votes, in the order of the dictionary
  votes,      \* _consensus_votes: the choice of each voter
  announcing, \* the broadcasts in self._background_tasks
  got,        \* history: what each agent has received
  dropped     \* history: what did not fit into each agent's queue

vars == <<sent, queues, log, proposed, votes, announcing, got, dropped>>

Nothing == [k \in {} |-> 0]

Init ==
  /\ sent = <<>>
  /\ queues = Nothing
  /\ log = <<>>
  /\ proposed = <<>>
  /\ votes = Nothing
  /\ announcing = 0
  /\ got = [a \in Agent |-> <<>>]
  /\ dropped = [a \in Agent |-> {}]

Kept(d, keys) == [k \in DOMAIN d \intersect keys |-> d[k]]
With(d, key, value) ==
  [k \in DOMAIN d \union {key} |-> IF k = key THEN value ELSE d[k]]

-----------------------------------------------------------------------------
(* Faulty variant: the log is cut to the oldest entries.                   *)
LoggedOldest(message) ==
  LET longer == Append(log, message)
  IN  IF Len(longer) > 2 * MaxLog THEN SubSeq(longer, 1, MaxLog) ELSE longer

\* The log, cut to its newest half when it exceeds its limit.
Logged(message) ==
  LET longer == Append(log, message)
  IN  IF Len(longer) > 2 * MaxLog
      THEN SubSeq(longer, Len(longer) - MaxLog + 1, Len(longer))
      ELSE longer

\* send: the recipients' queues take the message unless they are full.  A
\* broadcast reaches the queues that exist; a message to one agent makes one.
Send(to) ==
  /\ Len(sent) < MaxMessages
  /\ LET message == Len(sent) + 1
         known == IF to = Everybody THEN DOMAIN queues ELSE {to}
         before == [a \in DOMAIN queues \union known |->
                      IF a \in DOMAIN queues THEN queues[a] ELSE <<>>]
         full == {a \in known : Len(before[a]) = QueueSize}
     IN  /\ sent' = Append(sent, to)
         /\ log' = Logged(message)
         /\ queues' = [a \in DOMAIN before |->
              IF a \in known \ full THEN Append(before[a], message) ELSE before[a]]
         /\ dropped' = [a \in Agent |->
              IF a \in full \/ (to = Everybody /\ a \notin known)
              THEN dropped[a] \union {message} ELSE dropped[a]]

\* A message of an agent to another one.
Post(to) ==
  /\ Send(to)
  /\ UNCHANGED <<proposed, votes, announcing, got>>

\* receive: the oldest message, or none when the time is up; the queue exists
\* from then on.
Receive(a) ==
  /\ LET queue == IF a \in DOMAIN queues THEN queues[a] ELSE <<>>
     IN  IF queue = <<>>
         THEN /\ queues' = With(queues, a, <<>>)
              /\ UNCHANGED got
         ELSE /\ queues' = With(queues, a, Tail(queue))
              /\ got' = [got EXCEPT ![a] = Append(@, Head(queue))]
  /\ UNCHANGED <<sent, log, proposed, votes, announcing, dropped>>

(* Faulty variant: the limit is looked at before the proposal is added.    *)
ProposeLate(p) ==
  /\ p \notin DOMAIN votes
  /\ LET more == Append(proposed, p)
         rest == SubSeq(more, 1 + (IF Len(proposed) > MaxProposals THEN 1 ELSE 0),
                        Len(more))
     IN  /\ proposed' = rest
         /\ votes' = Kept(With(votes, p, Nothing), Range(rest))
  /\ announcing' = announcing + 1
  /\ UNCHANGED <<sent, queues, log, got, dropped>>

\* propose_consensus: refused for a known id; the oldest proposals above the
\* limit are forgotten with their votes.
Propose(p) ==
  /\ p \notin DOMAIN votes
  /\ LET more == Append(proposed, p)
         excess == IF Len(more) > MaxProposals THEN Len(more) - MaxProposals ELSE 0
         rest == SubSeq(more, excess + 1, Len(more))
     IN  /\ proposed' = rest
         /\ votes' = Kept(With(votes, p, Nothing), Range(rest))
  /\ announcing' = announcing + 1
  /\ UNCHANGED <<sent, queues, log, got, dropped>>

\* The task of a proposal sends its broadcast.
Announce ==
  /\ announcing > 0
  /\ announcing' = announcing - 1
  /\ Send(Everybody)
  /\ UNCHANGED <<proposed, votes, got>>

\* cast_vote: the first vote of a voter counts, later ones are passed over;
\* an unknown proposal or option is refused.
Vote(p, voter, choice) ==
  /\ p \in DOMAIN votes /\ voter \notin DOMAIN votes[p]
  /\ votes' = [votes EXCEPT ![p] = With(@, voter, choice)]
  /\ UNCHANGED <<sent, queues, log, proposed, announcing, got, dropped>>

\* At most as many announcements as messages are left are begun.
Next ==
  \/ \E to \in Agent : Post(to)
  \/ \E a \in Agent : Receive(a)
  \/ \E p \in Proposal : announcing + Len(sent) < MaxMessages /\ Propose(p)
  \/ Announce
  \/ \E p \in Proposal, a \in Agent, o \in Option : Vote(p, a, o)

Spec == Init /\ [][Next]_vars

-----------------------------------------------------------------------------
VotesFor(p, o) == {a \in DOMAIN votes[p] : votes[p][a] = o}

\* get_consensus_result: decided, with more than half of the votes cast.
Decided(p) ==
  {o \in Option :
     p \in DOMAIN votes
     /\ 2 * Cardinality(VotesFor(p, o)) > Cardinality(DOMAIN votes[p])}

(* Properties                                                              *)

(* Queues and log are within their limits.                                 *)
TypeOK ==
  /\ DOMAIN queues \subseteq Agent
  /\ \A a \in DOMAIN queues : Len(queues[a]) <= QueueSize
  /\ Len(log) <= 2 * MaxLog
  /\ announcing \in 0 .. MaxMessages
  /\ \A p \in DOMAIN votes :
       DOMAIN votes[p] \subseteq Agent /\ Range(votes[p]) \subseteq Option

(* An agent gets what was sent to it in the order of the sending, each     *)
(* message once, and all of it but what found its queue full or a          *)
(* broadcast it had no queue for yet (send and receive of agent_bus.py).   *)
ReceivedInOrder ==
  \A a \in Agent :
    got[a] \o (IF a \in DOMAIN queues THEN queues[a] ELSE <<>>) =
      Keep([i \in 1 .. Len(sent) |-> i],
           {i \in 1 .. Len(sent) : sent[i] \in {a, Everybody} /\ i \notin dropped[a]})

(* The log ends with the newest message and lacks none in between: who     *)
(* asks for up to _MAX_LOG messages gets the newest ones (send and         *)
(* get_message_log).                                                       *)
LogIsRecent ==
  /\ Len(log) >= (IF Len(sent) < MaxLog THEN Len(sent) ELSE MaxLog)
  /\ \A i \in DOMAIN log : log[i] = Len(sent) - Len(log) + i

(* At most _MAX_PROPOSALS are open, the newest one among them, the votes   *)
(* are those of the open ones, and at most one option is decided           *)
(* (propose_consensus, cast_vote, get_consensus_result).                   *)
ProposalsAreBounded ==
  /\ Len(proposed) <= MaxProposals
  /\ Range(proposed) = DOMAIN votes /\ Cardinality(DOMAIN votes) = Len(proposed)
  /\ \A p \in DOMAIN votes : Cardinality(Decided(p)) <= 1
=============================================================================
