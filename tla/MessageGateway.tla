-------------------------- MODULE MessageGateway --------------------------
(* Messages to and from chat platforms: MessagingRouter of                 *)
(* packages/messaging_gateway/messaging_router.py, the providers of the    *)
(* platforms, the routes of routes/webhooks.py and the rows of             *)
(* messaging_repo.py.  A send retries a failed attempt, a send over a      *)
(* chain tries one platform after another; both take an answer that was    *)
(* lost for a failure.  Requests are coroutines of one event loop.         *)
EXTENDS Naturals, Sequences, FiniteSets, Functions, Filter

CONSTANTS
  Platform,    \* the configured providers
  ClassOf,     \* the class of each provider
  Route,       \* a failover chain: a sequence of names, configured or not
  User, Sending,
  MaxFailures, \* max_consecutive_failures
  MaxAttempts, \* _MAX_SEND_RETRIES
  MaxChannels, MaxWebhooks \* bounds

\* Those that fetch an access token first.
Tokened == {p \in Platform : ClassOf[p] = "feishu"}

VARIABLES
  health,    \* self.health_tracker
  token,     \* the platforms whose cached token is in time
  sending,   \* what each sending request does
  channels,  \* the rows of MessagingChannel, the oldest first
  rows,      \* the rows of MessageLog
  webhooks   \* the webhooks received

vars == <<health, token, sending, channels, rows, webhooks>>

\* The health records and their tracker are those of the language models.
Tracker == INSTANCE ProviderRouter
             WITH Call <- Sending, Chain <- Route, Configured <- Platform,
                  MaxRetries <- MaxAttempts, call <- sending

\* delivered, lost: history, how often the platforms took the message, and
\* how often the answer to that was lost.
Idle == [pc |-> "idle", user |-> CHOOSE u \in User : TRUE, chained |-> FALSE,
         left |-> <<>>, attempts |-> 0, delivered |-> 0, lost |-> 0, tried |-> {}]

Init ==
  /\ health = [p \in Tracker!Provider |-> Tracker!Fresh]
  /\ token = {}
  /\ sending = [s \in Sending |-> Idle]
  /\ channels = <<>>
  /\ rows = <<>>
  /\ webhooks = 0

At(s) == Head(sending[s].left)
Goes(s, pc) == sending' = [sending EXCEPT ![s].pc = pc]

-----------------------------------------------------------------------------
\* create_channel: a user may register a platform several times.
CreateChannel(u, p) ==
  /\ Len(channels) < MaxChannels
  /\ channels' = Append(channels, [user |-> u, platform |-> p])
  /\ UNCHANGED <<health, token, sending, rows, webhooks>>

\* send_message, and message.send: the provider the request names; a name that
\* is not configured raises at once.
Begin(s, u, p) ==
  /\ sending[s].pc = "idle"
  /\ sending' = [sending EXCEPT ![s] =
       [Idle EXCEPT !.pc = IF p \in Tokened \ token THEN "token" ELSE "post",
                    !.user = u, !.left = <<p>>, !.attempts = 1, !.tried = {p}]]
  /\ UNCHANGED <<health, token, channels, rows, webhooks>>

\* The next configured platform of a chain, if there is one.
Following(state, left) ==
  LET known == Keep(left, Platform)
  IN  IF known = <<>> THEN [state EXCEPT !.pc = "failed", !.left = <<>>]
      ELSE [state EXCEPT
              !.pc = IF Head(known) \in Tokened \ token THEN "token" ELSE "post",
              !.left = known, !.attempts = @ + 1, !.tried = @ \union {Head(known)}]

Healthy == {p \in Range(Route) : Tracker!Healthy(health[p])}

(* Faulty variant: the unhealthy platforms are left out.                   *)
BeginHealthy(s, u) ==
  /\ sending[s].pc = "idle"
  /\ sending' = [sending EXCEPT ![s] =
       Following([Idle EXCEPT !.chained = TRUE, !.user = u],
                 Keep(Route, Healthy))]
  /\ UNCHANGED <<health, token, channels, rows, webhooks>>

\* send_with_failover: the healthy platforms first, then the others.
BeginChain(s, u) ==
  /\ sending[s].pc = "idle"
  /\ sending' = [sending EXCEPT ![s] =
       Following([Idle EXCEPT !.chained = TRUE, !.user = u],
                 Keep(Route, Healthy) \o Keep(Route, Range(Route) \ Healthy))]
  /\ UNCHANGED <<health, token, channels, rows, webhooks>>


\* An attempt has failed: the next one after a delay, or the next platform.
AfterFailure(state) ==
  IF state.chained THEN Following(state, Tail(state.left))
  ELSE [state EXCEPT !.pc = IF state.attempts < MaxAttempts THEN "delay"
                                                          ELSE "failed"]

Fails(s, state) ==
  /\ health' = [health EXCEPT ![At(s)] = Tracker!Failed(@)]
  /\ sending' = [sending EXCEPT ![s] = AfterFailure(state)]

\* _get_tenant_token: a token is fetched and kept, or there is none.
FetchToken(s) ==
  /\ sending[s].pc = "token"
  /\ \/ /\ token' = token \union {At(s)}
        /\ Goes(s, "post")
        /\ UNCHANGED health
     \/ Fails(s, sending[s]) /\ UNCHANGED token
  /\ UNCHANGED <<channels, rows, webhooks>>

ExpireToken(p) ==
  /\ p \in token
  /\ token' = token \ {p}
  /\ UNCHANGED <<health, sending, channels, rows, webhooks>>

\* What comes back for a message: a success, an error in the body, an error
\* status, or nothing that can be read.  Discord has no error in the body.
Answers(p, took) ==
  IF took THEN {"ok", "none"}
  ELSE IF ClassOf[p] = "discord" THEN {"status", "none"}
  ELSE {"error", "status", "none"}

\* send of the providers: which answers they report as sent.  Discord looks at
\* the status, the others into the body.
FeishuSends(answer) == answer = "ok"
SlackSends(answer) == answer = "ok"
DiscordSends(answer) == answer \notin {"status", "none"}
TelegramSends(answer) == answer = "ok"

Sends(p, answer) ==
  CASE ClassOf[p] = "feishu" -> FeishuSends(answer)
    [] ClassOf[p] = "slack" -> SlackSends(answer)
    [] ClassOf[p] = "discord" -> DiscordSends(answer)
    [] ClassOf[p] = "telegram" -> TelegramSends(answer)

\* An attempt: the platform takes the message or not, and answers.
Post(s) ==
  /\ sending[s].pc = "post"
  /\ \E took \in BOOLEAN : \E answer \in Answers(At(s), took) :
       LET given == [sending[s] EXCEPT !.delivered = @ + IF took THEN 1 ELSE 0]
       IN  \/ /\ Sends(At(s), answer)
              /\ sending' = [sending EXCEPT ![s] = [given EXCEPT !.pc = "sent"]]
              /\ health' = [health EXCEPT ![At(s)] = Tracker!Succeeded]
           \/ /\ ~Sends(At(s), answer)
              /\ Fails(s, [given EXCEPT !.lost = @ + IF took THEN 1 ELSE 0])
  /\ UNCHANGED <<token, channels, rows, webhooks>>

\* The delay before the next attempt is over.
Retry(s) ==
  /\ sending[s].pc = "delay"
  /\ sending' = [sending EXCEPT
       ![s].pc = IF At(s) \in Tokened \ token THEN "token" ELSE "post",
       ![s].attempts = @ + 1]
  /\ UNCHANGED <<health, token, channels, rows, webhooks>>

Cooldown(p) ==
  /\ health' \in {[health EXCEPT ![p] = h] : h \in Tracker!Later(health[p]) \ {health[p]}}
  /\ UNCHANGED <<token, sending, channels, rows, webhooks>>

-----------------------------------------------------------------------------
\* list_channels_by_user, the newest first.
ChannelsOf(u, p) ==
  {i \in DOMAIN channels : channels[i].user = u /\ channels[i].platform = p}
Newest(set) == CHOOSE i \in set : \A j \in set : j <= i

(* Faulty variant: the status is noted before it is known.                 *)
LogSent(s) ==
  /\ sending[s].pc \in {"sent", "failed"}
  /\ Goes(s, "done")
  /\ \E p \in sending[s].tried :
       rows' = IF ChannelsOf(sending[s].user, p) = {} THEN rows
               ELSE Append(rows, [channel |-> Newest(ChannelsOf(sending[s].user, p)),
                                  of |-> s, user |-> sending[s].user, platform |-> p,
                                  status |-> "sent", delivered |-> sending[s].delivered])
  /\ UNCHANGED <<health, token, channels, webhooks>>

\* send_message logs what became of the message in the newest channel its
\* user has on the platform; message.send, a user without a channel and an
\* insert that fails leave no row.
Log(s) ==
  /\ sending[s].pc \in {"sent", "failed"}
  /\ Goes(s, "done")
  /\ \/ UNCHANGED rows
     \/ /\ ~sending[s].chained
        /\ \E p \in sending[s].tried :
             /\ ChannelsOf(sending[s].user, p) # {}
             /\ rows' = Append(rows,
                  [channel |-> Newest(ChannelsOf(sending[s].user, p)), of |-> s,
                   user |-> sending[s].user, platform |-> p,
                   status |-> sending[s].pc, delivered |-> sending[s].delivered])
  /\ UNCHANGED <<health, token, channels, webhooks>>

\* A webhook: what it carries, and how its signature or token and its
\* timestamp stand when the code looks at them.
Hook == [kind: {"message", "bot", "challenge", "empty"},
         proof: {"good", "old", "wrong"}]

\* validate_webhook of the providers.  Telegram and Feishu look at no
\* timestamp; Slack alone tells messages of bots apart.
FeishuTakes(h) == h.kind \in {"message", "bot"} /\ h.proof # "wrong"
SlackTakes(h) == h.kind = "message" /\ h.proof = "good"
DiscordTakes(h) == h.kind \in {"message", "bot"} /\ h.proof = "good"
TelegramTakes(h) == h.kind \in {"message", "bot"} /\ h.proof # "wrong"

\* handle_webhook.
Takes(p, h) ==
  CASE ClassOf[p] = "feishu" -> FeishuTakes(h)
    [] ClassOf[p] = "slack" -> SlackTakes(h)
    [] ClassOf[p] = "discord" -> DiscordTakes(h)
    [] ClassOf[p] = "telegram" -> TelegramTakes(h)

\* receive_webhook: a message that is taken is logged if its sender's name on
\* the platform is the name of a user with a channel, and the insert works.
\* One that is sent again is logged again.
Webhook(u, p) ==
  /\ webhooks < MaxWebhooks
  /\ webhooks' = webhooks + 1
  /\ \/ UNCHANGED rows
     \/ \E taken \in {Takes(p, h) : h \in Hook} :
          /\ taken /\ ChannelsOf(u, p) # {}
          /\ rows' = Append(rows,
               [channel |-> Newest(ChannelsOf(u, p)), of |-> "webhook", user |-> u,
                platform |-> p, status |-> "received", delivered |-> 0])
  /\ UNCHANGED <<health, token, sending, channels>>

Next ==
  \/ \E u \in User, p \in Platform :
       CreateChannel(u, p) \/ Webhook(u, p)
  \/ \E s \in Sending :
       \/ \E u \in User : BeginChain(s, u) \/ \E p \in Platform : Begin(s, u, p)
       \/ FetchToken(s) \/ Post(s) \/ Retry(s) \/ Log(s)
  \/ \E p \in Platform : ExpireToken(p) \/ Cooldown(p)

Spec == Init /\ [][Next]_vars

-----------------------------------------------------------------------------
(* Properties                                                              *)

(* Requests, channels and rows keep their ranges.                          *)
TypeOK ==
  /\ health \in [Tracker!Provider -> Tracker!Health]
  /\ token \subseteq Tokened
  /\ \A s \in Sending :
       /\ sending[s].pc \in {"idle", "token", "post", "delay", "sent", "failed",
                             "done"}
       /\ sending[s].attempts \in 0 .. MaxAttempts + Len(Route)
       /\ sending[s].tried \subseteq Platform
  /\ Len(channels) <= MaxChannels /\ webhooks <= MaxWebhooks

(* What is reported as sent was taken by a platform, and each message is   *)
(* taken once, but for the attempts that follow a lost answer (send,       *)
(* send_with_failover of messaging_router.py and send of the providers).   *)
SentOnce ==
  \A s \in Sending :
    /\ sending[s].pc = "sent" => sending[s].delivered > 0
    /\ sending[s].delivered <= 1 + sending[s].lost
    /\ sending[s].pc = "failed" => sending[s].delivered = sending[s].lost

(* A message is given up only after every attempt, or every configured     *)
(* platform of the chain, whatever their health (the same functions).      *)
FailedHasTried ==
  \A s \in Sending :
    sending[s].pc = "failed" =>
      IF sending[s].chained THEN Range(Route) \intersect Platform \subseteq sending[s].tried
                            ELSE sending[s].attempts = MaxAttempts

(* A row of the log says what became of its message, in a channel its user *)
(* has on that platform; no message has two (send_message,                 *)
(* receive_webhook of webhooks.py).                                        *)
RowsAreTrue ==
  /\ \A i \in DOMAIN rows :
       /\ channels[rows[i].channel] = [user |-> rows[i].user,
                                       platform |-> rows[i].platform]
       /\ rows[i].status = "sent" => rows[i].delivered > 0
  /\ \A s \in Sending : Cardinality({i \in DOMAIN rows : rows[i].of = s}) <= 1
=============================================================================
