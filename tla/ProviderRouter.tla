--------------------------- MODULE ProviderRouter ---------------------------
(***************************************************************************)
(* Failover between language model providers (provider_router.py) by their *)
(* health (health_tracker.py): concurrent calls sort the providers of the  *)
(* chain, try one after another with retries, and share the health record  *)
(* of each provider with its circuit breaker and its rate limit.           *)
(*                                                                         *)
(* The calls run on one event loop and interleave where they await: at a   *)
(* provider's answer and during the delay before a retry.                  *)
(***************************************************************************)
EXTENDS Integers, Sequences, Functions, Filter

CONSTANTS
  Call,
  Chain,       \* the providers of the failover chain, in their order
  Configured,  \* the providers that could be instantiated
  MaxFailures, \* max_consecutive_failures
  MaxRetries   \* max_retries

VARIABLES
  health, \* ProviderHealth of each provider
  call    \* the state of each generate_with_failover

vars == <<health, call>>

Provider == Range(Chain) \cup Configured

Health ==
  [failures: 0..MaxFailures,             \* consecutive_failures, as far as
                                         \* they are told apart
   limited: BOOLEAN,                     \* before rate_limit_reset_at
   circuit: {"closed", "open", "over"}]  \* circuit_open_until: none, ahead, past

Fresh == [failures |-> 0, limited |-> FALSE, circuit |-> "closed"]

CallState ==
  [pc: {"idle", "next", "await", "delay", "answered", "failed"},
   ordered: Seq(Provider),
   attempt: 0..MaxRetries,
   tried: SUBSET Provider,
   missed: SUBSET Provider]  \* history: recovered between the two readings

NoCall == [pc |-> "idle", ordered |-> <<>>, attempt |-> 0,
           tried |-> {}, missed |-> {}]

TypeOK ==
  /\ health \in [Provider -> Health]
  /\ call \in [Call -> CallState]

Init ==
  /\ health = [p \in Provider |-> Fresh]
  /\ call = [c \in Call |-> NoCall]

-----------------------------------------------------------------------------
Healthy(h) == ~h.limited /\ (h.failures < MaxFailures \/ h.circuit = "over")

\* What the passing of time may make of a health record.
Later(h) ==
  {[h EXCEPT !.limited = l, !.circuit = o] :
     l \in {FALSE, h.limited},
     o \in {h.circuit, IF h.circuit = "open" THEN "over" ELSE h.circuit}}

Succeeded == Fresh
Failed(h) ==
  LET failures == IF h.failures < MaxFailures THEN h.failures + 1
                                              ELSE MaxFailures
  IN  [h EXCEPT !.failures = failures,
                !.circuit = IF failures = MaxFailures THEN "open" ELSE @]
Limited(h) == [h EXCEPT !.limited = TRUE]

Cooldown(p) ==
  /\ health' \in {[health EXCEPT ![p] = h] : h \in Later(health[p]) \ {health[p]}}
  /\ UNCHANGED call

\* The health is read twice, for the healthy providers and then for the
\* others; time may pass in between, but no other call runs.
Begin(c) ==
  /\ call[c].pc = "idle"
  /\ health' \in [Provider -> UNION {Later(health[p]) : p \in Provider}]
  /\ \A p \in Provider : health'[p] \in Later(health[p])
  /\ call' = [call EXCEPT ![c] =
       [NoCall EXCEPT
          !.pc = "next",
          !.ordered = Keep(Chain, {p \in Provider : Healthy(health[p])})
                        \o Keep(Chain, {p \in Provider : ~Healthy(health'[p])}),
          !.missed = {p \in Provider : ~Healthy(health[p]) /\ Healthy(health'[p])}]]

\* The loop over the ordered providers: the next one that is configured.
TryNext(c) ==
  /\ call[c].pc = "next"
  /\ IF call[c].ordered = <<>>
     THEN call' = [call EXCEPT ![c].pc = "failed"]
     ELSE LET p == Head(call[c].ordered)
          IN  IF p \in Configured
              THEN call' = [call EXCEPT ![c].pc = "await", ![c].attempt = 0,
                                        ![c].tried = @ \cup {p}]
              ELSE call' = [call EXCEPT ![c].ordered = Tail(@)]
  /\ UNCHANGED health

\* The provider's answer ends the call.
Succeed(c) ==
  /\ call[c].pc = "await"
  /\ health' = [health EXCEPT ![Head(call[c].ordered)] = Succeeded]
  /\ call' = [call EXCEPT ![c].pc = "answered"]

\* classify_error, as far as the router tells the errors apart: the ones that
\* are worth a retry, with or without a rate limit, and the others.
ErrorKind == {"limit", "passing", "permanent"}

\* An error: a rate limit is noted at once; up to `retries` times a call
\* tries again, then the provider has failed, and the call goes on with `pc`.
ErrorThen(c, retries, pc) ==
  /\ call[c].pc = "await"
  /\ \E kind \in ErrorKind :
       LET p == Head(call[c].ordered)
           again == kind # "permanent" /\ call[c].attempt < retries
           noted == IF kind = "limit" THEN Limited(health[p]) ELSE health[p]
       IN  /\ health' = [health EXCEPT ![p] = IF again THEN noted ELSE Failed(noted)]
           /\ call' = IF again
                      THEN [call EXCEPT ![c].pc = "delay", ![c].attempt = @ + 1]
                      ELSE [call EXCEPT ![c].pc = pc, ![c].ordered = Tail(@)]

(* Faulty variants: one attempt too many; the first failure ends the call. *)
ErrorOneMore(c) == ErrorThen(c, MaxRetries + 1, "next")
ErrorEndsCall(c) == ErrorThen(c, MaxRetries, "failed")

\* The next provider of the chain is tried.
Error(c) == ErrorThen(c, MaxRetries, "next")

Retry(c) ==
  /\ call[c].pc = "delay"
  /\ call' = [call EXCEPT ![c].pc = "await"]
  /\ UNCHANGED health

\* reset, by an operator.
Reset(p) ==
  /\ health' = [health EXCEPT ![p] = Fresh]
  /\ UNCHANGED call

\* A caller that has its result may call again.
Return(c) ==
  /\ call[c].pc \in {"answered", "failed"}
  /\ call' = [call EXCEPT ![c] = NoCall]
  /\ UNCHANGED health

Next ==
  \/ \E c \in Call : \/ Begin(c) \/ TryNext(c) \/ Succeed(c) \/ Error(c)
                     \/ Retry(c) \/ Return(c)
  \/ \E p \in Provider : Cooldown(p) \/ Reset(p)

Spec == Init /\ [][Next]_vars

-----------------------------------------------------------------------------
(* Properties                                                              *)

(* A call gives up on its chain only when it has tried every configured    *)
(* provider of it, whatever their health was and what other calls have     *)
(* done to it, save those that recovered while they were being sorted:     *)
(* "Try healthy first; if all unhealthy, try them anyway"                  *)
(* (provider_router.py:242).                                               *)
FailedHasTriedAll ==
  \A c \in Call :
    call[c].pc = "failed" =>
      Range(Chain) \cap Configured \subseteq call[c].tried \cup call[c].missed
=============================================================================
