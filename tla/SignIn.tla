------------------------------- MODULE SignIn -------------------------------
(***************************************************************************)
(* Single sign-on (auth/sso.py and the routes of auth.py): a browser is    *)
(* sent to the provider with a one-time state, comes back to the callback, *)
(* which finds, links or creates the account, and exchanges a one-time     *)
(* code for its token.  The states and codes are in memory, under one      *)
(* lock, with an age and a limit on their number each; an account can also *)
(* be registered with a password.                                          *)
(*                                                                         *)
(* Callbacks run on the event loop: from the provider's last answer to the *)
(* end of the handler there is no await.  get_db commits afterwards.  A    *)
(* callback that has to wait for SQLite's write lock blocks the event loop *)
(* that the commit of the other request has to go through, until the busy  *)
(* timeout fails it.                                                       *)
(*                                                                         *)
(* Left out: user names, which are numbered until one is free; the states  *)
(* kept in Redis instead when a cache is configured; roles, which are in   *)
(* PermissionCache.                                                        *)
(***************************************************************************)
EXTENDS Naturals, Sequences, FiniteSets, Functions, Filter

CONSTANTS
  Visit,     \* sign-ins; they name the state and the code of each
  Request,   \* calls of the callback
  Identity,  \* users of the provider
  Account,
  Mail,
  MailOf,    \* of each identity: its address, or NoMail
  NoMail, Nobody, Local,
  MaxStates, \* _MAX_OAUTH_STATES
  MaxCodes   \* _MAX_SSO_CODES

VARIABLES
  begun,     \* the visits that were sent to the provider
  states,    \* _oauth_states, by created_at
  overdue,   \* how many of them, from the first, are older than 600 s
  codes,     \* _sso_codes, by created_at
  late,      \* how many of them are older than 60 s
  stale,     \* and older than 120 s
  request,   \* of each callback: where it is
  accounts,  \* the committed rows of users
  writer,    \* the request that holds the write lock, Local, or Nobody
  draft,     \* the account it has written
  entered,   \* how many callbacks a state has let in
  tokens,    \* how many tokens were handed out for a code
  came       \* the accounts an identity has signed in to

vars ==
  <<begun, states, overdue, codes, late, stale, request, accounts, writer,
    draft, entered, tokens, came>>

Row == [id : Account, sso : Identity \cup {Nobody}, mail : Mail \cup {NoMail}]
NoRow == [id |-> Nobody]

Idle == [pc |-> "idle", visit |-> Nobody, who |-> Nobody]

TypeOK ==
  /\ begun \subseteq Visit
  /\ states \in Seq(Visit) /\ Len(states) <= MaxStates + 1
  /\ overdue \in 0..Len(states)
  /\ codes \in Seq(Visit) /\ Len(codes) <= 2 * MaxCodes
  /\ late \in 0..Len(codes) /\ stale \in 0..late
  /\ request \in [Request -> [pc : {"idle", "asking", "saving"},
                              visit : Visit \cup {Nobody},
                              who : Identity \cup {Nobody}]]
  /\ accounts \subseteq Row
  /\ writer \in Request \cup {Local, Nobody}
  /\ draft \in Row \cup {NoRow}
  /\ entered \in [Visit -> Nat] /\ tokens \in [Visit -> Nat]
  /\ came \in [Identity -> SUBSET Account]

Init ==
  /\ begun = {} /\ states = <<>> /\ overdue = 0
  /\ codes = <<>> /\ late = 0 /\ stale = 0
  /\ request = [r \in Request |-> Idle]
  /\ accounts = {} /\ writer = Nobody /\ draft = NoRow
  /\ entered = [v \in Visit |-> 0] /\ tokens = [v \in Visit |-> 0]
  /\ came = [i \in Identity |-> {}]

database == <<accounts, writer, draft>>
history == <<entered, tokens, came>>

Minus(a, b) == IF a > b THEN a - b ELSE 0

\* The last n of a sequence, or all of it.
Newest(s, n) == SubSeq(s, Minus(Len(s), n) + 1, Len(s))

-----------------------------------------------------------------------------
(* States.                                                                 *)

\* _cleanup_expired_states_unlocked.
Pending == SubSeq(states, overdue + 1, Len(states))

\* get_authorization_url: it cleans up, and drops the oldest above the limit
\* before it adds one.
BeginVisit(v) ==
  /\ v \notin begun
  /\ begun' = begun \cup {v}
  /\ states' = Append(Newest(Pending, MaxStates), v)
  /\ overdue' = 0
  /\ UNCHANGED <<codes, late, stale, request, database, history>>

(* Faulty variant: the state is looked up and not taken.                   *)
EnterAgain(r, v) ==
  /\ request[r].pc = "idle" /\ v \in begun
  /\ states' = Pending /\ overdue' = 0
  /\ IF v \in Range(Pending)
     THEN /\ request' = [request EXCEPT ![r] =
                           [pc |-> "asking", visit |-> v, who |-> Nobody]]
          /\ entered' = [entered EXCEPT ![v] = @ + 1]
     ELSE UNCHANGED <<request, entered>>
  /\ UNCHANGED <<begun, codes, late, stale, database, tokens, came>>

\* handle_callback takes the state; without one it is refused.
Enter(r, v) ==
  /\ request[r].pc = "idle" /\ v \in begun
  /\ states' = Keep(Pending, Visit \ {v}) /\ overdue' = 0
  /\ IF v \in Range(Pending)
     THEN /\ request' = [request EXCEPT ![r] =
                           [pc |-> "asking", visit |-> v, who |-> Nobody]]
          /\ entered' = [entered EXCEPT ![v] = @ + 1]
     ELSE UNCHANGED <<request, entered>>
  /\ UNCHANGED <<begun, codes, late, stale, database, tokens, came>>

\* _exchange_code or _get_user_info fails.
Refused(r) ==
  /\ request[r].pc = "asking"
  /\ request' = [request EXCEPT ![r] = Idle]
  /\ UNCHANGED <<begun, states, overdue, codes, late, stale, database, history>>

-----------------------------------------------------------------------------
(* Accounts.                                                               *)

\* find_or_create_user: the account of the identity, else the account with
\* its address, which is linked to it, else a new one.
Found(i) ==
  IF \E a \in accounts : a.sso = i THEN {a \in accounts : a.sso = i}
  ELSE IF MailOf[i] # NoMail /\ \E a \in accounts : a.mail = MailOf[i]
       THEN {[a EXCEPT !.sso = i] : a \in {b \in accounts : b.mail = MailOf[i]}}
       ELSE [id : Account \ {a.id : a \in accounts}, sso : {i},
             mail : {MailOf[i]}]

\* The unique index on users.email; an absent address is stored as "", which
\* counts as one.
Conflicts(row) ==
  \E a \in accounts : a.id # row.id /\ row.sso # Nobody /\ a.sso # Nobody
                      /\ a.mail = row.mail

\* generate_auth_code; it evicts only above twice the limit: what is older
\* than 120 s, and the oldest above the limit.
AddCode(v) ==
  LET all == Append(codes, v)
      kept == Newest(SubSeq(all, stale + 1, Len(all)), MaxCodes)
      gone == IF Len(all) > 2 * MaxCodes THEN Len(all) - Len(kept) ELSE 0
  IN  /\ codes' = SubSeq(all, gone + 1, Len(all))
      /\ late' = Minus(late, gone)
      /\ stale' = Minus(stale, gone)

\* The provider has answered: the account and the audit row are written, and
\* the redirecting callback makes a code, the other one answers the token.
\* If the write lock is taken, it waits in vain.
SignInAs(r, i) ==
  /\ request[r].pc = "asking"
  /\ \/ /\ writer = Nobody
        /\ \E row \in Found(i) :
             /\ ~Conflicts(row)
             /\ draft' = row
             /\ writer' = r
             /\ request' = [request EXCEPT ![r].pc = "saving", ![r].who = i]
             /\ \/ AddCode(request[r].visit) /\ UNCHANGED tokens
                \/ /\ tokens' = [tokens EXCEPT ![request[r].visit] = @ + 1]
                   /\ UNCHANGED <<codes, late, stale>>
     \/ /\ writer # Nobody \/ \A row \in Found(i) : Conflicts(row)
        /\ request' = [request EXCEPT ![r] = Idle]
        /\ UNCHANGED <<writer, draft, codes, late, stale, tokens>>
  /\ UNCHANGED <<begun, states, overdue, accounts, entered, came>>

\* register, with an address nobody has.
Register(row) ==
  /\ writer = Nobody /\ row.sso = Nobody
  /\ ~\E a \in accounts : a.id = row.id \/ (row.mail # NoMail /\ a.mail = row.mail)
  /\ writer' = Local
  /\ draft' = row
  /\ UNCHANGED <<begun, states, overdue, codes, late, stale, request, accounts,
                 history>>

Finish == IF writer = Local THEN UNCHANGED request
          ELSE request' = [request EXCEPT ![writer] = Idle]

Commit ==
  /\ writer # Nobody
  /\ accounts' = {a \in accounts : a.id # draft.id} \cup {draft}
  /\ came' = IF writer = Local THEN came
             ELSE [came EXCEPT ![request[writer].who] = @ \cup {draft.id}]
  /\ Finish /\ writer' = Nobody /\ draft' = NoRow
  /\ UNCHANGED <<begun, states, overdue, codes, late, stale, entered, tokens>>

Rollback ==
  /\ writer # Nobody
  /\ Finish /\ writer' = Nobody /\ draft' = NoRow
  /\ UNCHANGED <<begun, states, overdue, codes, late, stale, accounts, history>>

-----------------------------------------------------------------------------
(* Codes.                                                                  *)

\* exchange_auth_code takes the code, and gives its token if it is not late.
Exchange(i) ==
  LET v == codes[i]
  IN  /\ codes' = SubSeq(codes, 1, i - 1) \o SubSeq(codes, i + 1, Len(codes))
      /\ late' = IF i <= late THEN late - 1 ELSE late
      /\ stale' = IF i <= stale THEN stale - 1 ELSE stale
      /\ tokens' = IF i <= late THEN tokens ELSE [tokens EXCEPT ![v] = @ + 1]
      /\ UNCHANGED <<begun, states, overdue, request, database, entered, came>>

\* Time passes: one more state or code reaches an age.
Age ==
  /\ \/ overdue < Len(states) /\ overdue' = overdue + 1 /\ UNCHANGED <<late, stale>>
     \/ late < Len(codes) /\ late' = late + 1 /\ UNCHANGED <<overdue, stale>>
     \/ stale < late /\ stale' = stale + 1 /\ UNCHANGED <<overdue, late>>
  /\ UNCHANGED <<begun, states, codes, request, database, history>>

Next ==
  \/ \E v \in Visit : BeginVisit(v) \/ \E r \in Request : Enter(r, v)
  \/ \E r \in Request : Refused(r) \/ \E i \in Identity : SignInAs(r, i)
  \/ \E row \in Row : Register(row)
  \/ Commit \/ Rollback
  \/ \E i \in DOMAIN codes : Exchange(i)
  \/ Age

Spec == Init /\ [][Next]_vars

-----------------------------------------------------------------------------
(* Properties                                                              *)

(* Whatever callbacks are repeated, late or fail, and whatever is evicted: *)
(* a state lets one callback in, a sign-in gives one token, and each time  *)
(* an identity signs in it is to the same account, its own or the one that *)
(* was registered with its address (handle_callback, exchange_auth_code    *)
(* and find_or_create_user of sso.py).                                     *)
SignInOnce ==
  /\ \A v \in Visit : entered[v] <= 1 /\ tokens[v] <= 1
  /\ \A i \in Identity : Cardinality(came[i]) <= 1
=============================================================================
