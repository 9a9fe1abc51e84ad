----------------------------- MODULE LoginGate -----------------------------
(* Signing in with a password and being let in afterwards: login and the   *)
(* lockout of routes/auth.py, the tokens of auth_service.py, and           *)
(* _resolve_current_user and require_permission of dependencies.py.        *)
(*                                                                         *)
(* login runs in a thread of the pool: the check of the lockout, the       *)
(* check of the password and the count of a failure each hold the lock     *)
(* apart, so several threads may pass the check before any of them counts. *)
(* A request resolves its user in a pool thread and is let in on the loop. *)
EXTENDS Naturals, Sequences, FiniteSets, Filter

CONSTANTS
  Name,       \* user names that are tried, and the accounts among them
  Account,
  Thread, Visitor,
  MaxFailed,  \* _MAX_FAILED_ATTEMPTS
  Lockout,    \* _LOCKOUT_SECONDS
  Interval,   \* _FAILED_LOGIN_CLEANUP_INTERVAL
  Lifetime,   \* token_expire_minutes
  MaxTime     \* bound on the clock

Time == 0 .. MaxTime

VARIABLES
  now,
  attempts,  \* _failed_login_store
  cleaned,   \* _failed_login_last_cleanup
  login,     \* what each thread does
  wrong,     \* history: the wrong passwords within _LOCKOUT_SECONDS and since
             \* the last right one, by name
  account,   \* the rows of User: "active", "disabled" or "gone"
  tokens,    \* the last token of each user, and until when it is good
  visit      \* what each request with a token does

vars == <<now, attempts, cleaned, login, wrong, account, tokens, visit>>

NoLogin == [pc |-> "idle", name |-> CHOOSE n \in Name : TRUE]
NoVisit == [pc |-> "idle", user |-> CHOOSE a \in Account : TRUE, until |-> 0, at |-> 0,
            seen |-> "gone", changed |-> FALSE]

Init ==
  /\ now = 0
  /\ attempts = [n \in Name |-> <<>>]
  /\ cleaned = 0
  /\ login = [t \in Thread |-> NoLogin]
  /\ wrong = [n \in Name |-> <<>>]
  /\ account = [a \in Account |-> "active"]
  /\ tokens = {}
  /\ visit = [v \in Visitor |-> NoVisit]

Within(times) == Keep(times, {t \in Time : now - t < Lockout})

Tick ==
  /\ now < MaxTime
  /\ now' = now + 1
  /\ wrong' = [n \in Name |-> Keep(wrong[n], {t \in Time : now' - t < Lockout})]
  /\ UNCHANGED <<attempts, cleaned, login, account, tokens, visit>>

-----------------------------------------------------------------------------
(* Signing in.                                                             *)

(* Faulty variant: a name is forgotten by its first failure.               *)
StaleByFirst(n) ==
  attempts[n] = <<>> \/ now - Head(attempts[n]) > Lockout - 1

\* A name without a failure in the window, for _cleanup_failed_login_store.
Stale(n) == attempts[n] = <<>> \/ now - attempts[n][Len(attempts[n])] > Lockout

Cleanup == now - cleaned >= Interval
Swept == [n \in Name |-> IF Cleanup /\ Stale(n) THEN <<>> ELSE attempts[n]]

\* _check_login_lockout: the failures in the window are kept and counted.
Check(t, n) ==
  /\ login[t].pc = "idle"
  /\ LET recent == Within(Swept[n])
     IN  /\ attempts' = [Swept EXCEPT ![n] = recent]
         /\ login' = [login EXCEPT ![t] =
              [NoLogin EXCEPT !.name = n,
                 !.pc = IF Len(recent) >= MaxFailed THEN "locked" ELSE "checked"]]
  /\ cleaned' = IF Cleanup THEN now ELSE cleaned
  /\ UNCHANGED <<now, wrong, account, tokens, visit>>

\* The account is looked up and the password verified.
Verify(t) ==
  /\ login[t].pc = "checked"
  /\ LET n == login[t].name
     IN  \E pc \in IF n \notin Account \/ account[n] = "gone" THEN {"wrong"}
                   ELSE IF account[n] = "disabled" THEN {"wrong", "disabled"}
                   ELSE {"wrong", "right"} :
           login' = [login EXCEPT ![t].pc = pc]
  /\ UNCHANGED <<now, attempts, cleaned, wrong, account, tokens, visit>>


\* _record_failed_login, and the answer 401.
Record(t) ==
  /\ login[t].pc = "wrong"
  /\ LET n == login[t].name
     IN  /\ attempts' = [attempts EXCEPT ![n] = Append(Within(@), now)]
         /\ wrong' = [wrong EXCEPT ![n] = Append(@, now)]
  /\ login' = [login EXCEPT ![t].pc = "failed"]
  /\ UNCHANGED <<now, cleaned, account, tokens, visit>>

\* create_access_token.
Issued(n) == [user |-> n, until |-> now + Lifetime]

\* _clear_failed_logins and create_access_token.  The role that is made sure
\* of in between, and the audit event after it, may raise.
Clear(t) ==
  /\ login[t].pc = "right"
  /\ LET n == login[t].name
     IN  \/ /\ attempts' = [attempts EXCEPT ![n] = <<>>]
            /\ wrong' = [wrong EXCEPT ![n] = <<>>]
            /\ login' = [login EXCEPT ![t].pc = "in"]
            /\ tokens' = {k \in tokens : k.user # n}
                          \union {Issued(n)}
         \/ /\ attempts' = [attempts EXCEPT ![n] = <<>>]
            /\ wrong' = [wrong EXCEPT ![n] = <<>>]
            /\ login' = [login EXCEPT ![t].pc = "failed"]
            /\ UNCHANGED tokens
         \/ /\ login' = [login EXCEPT ![t].pc = "failed"]
            /\ UNCHANGED <<attempts, wrong, tokens>>
  /\ UNCHANGED <<now, cleaned, account, visit>>

\* The thread takes the next request.
Return(t) ==
  /\ login[t].pc \in {"locked", "failed", "disabled", "in"}
  /\ login' = [login EXCEPT ![t] = NoLogin]
  /\ UNCHANGED <<now, attempts, cleaned, wrong, account, tokens, visit>>

-----------------------------------------------------------------------------
(* Being let in.                                                           *)

\* An administrator disables, enables or deletes an account.
Change(a, value) ==
  /\ account[a] \notin {value, "gone"}
  /\ account' = [account EXCEPT ![a] = value]
  /\ visit' = [v \in Visitor |->
                 IF visit[v].user = a THEN [visit[v] EXCEPT !.changed = TRUE]
                                      ELSE visit[v]]
  /\ UNCHANGED <<now, attempts, cleaned, login, wrong, tokens>>

\* verify_token, of a token the server has signed.
Verified(k) == now <= k.until

(* Faulty variant: the expiry is not looked at.                            *)
ResolveForEver(v) ==
  /\ visit[v].pc = "idle"
  /\ \E k \in tokens :
       visit' = [visit EXCEPT ![v] =
         [pc |-> IF account[k.user] = "gone" THEN "refused" ELSE "resolved",
          user |-> k.user, until |-> k.until, at |-> now, seen |-> account[k.user],
          changed |-> FALSE]]
  /\ UNCHANGED <<now, attempts, cleaned, login, wrong, account, tokens>>

\* _resolve_current_user: verify_token, and the row of the user.
Resolve(v) ==
  /\ visit[v].pc = "idle"
  /\ \E k \in tokens :
       visit' = [visit EXCEPT ![v] =
         [pc |-> IF Verified(k) /\ account[k.user] # "gone" THEN "resolved"
                                                           ELSE "refused",
          user |-> k.user, until |-> k.until, at |-> now, seen |-> account[k.user],
          changed |-> FALSE]]
  /\ UNCHANGED <<now, attempts, cleaned, login, wrong, account, tokens>>

(* Faulty variant: a disabled account is let in.                           *)
AdmitAny(v) ==
  /\ visit[v].pc = "resolved"
  /\ visit' = [visit EXCEPT ![v].pc = "served"]
  /\ UNCHANGED <<now, attempts, cleaned, login, wrong, account, tokens>>

\* _check_permission, on the row as it was read; the permission itself may be
\* there or not.
Admit(v) ==
  /\ visit[v].pc = "resolved"
  /\ \E pc \in IF visit[v].seen = "active" THEN {"served", "refused"}
                                           ELSE {"refused"} :
       visit' = [visit EXCEPT ![v].pc = pc]
  /\ UNCHANGED <<now, attempts, cleaned, login, wrong, account, tokens>>

Leave(v) ==
  /\ visit[v].pc \in {"served", "refused"}
  /\ visit' = [visit EXCEPT ![v] = NoVisit]
  /\ UNCHANGED <<now, attempts, cleaned, login, wrong, account, tokens>>

Next ==
  \/ Tick
  \/ \E t \in Thread :
       \/ \E n \in Name : Check(t, n)
       \/ Verify(t) \/ Record(t) \/ Clear(t) \/ Return(t)
  \/ \E a \in Account, value \in {"active", "disabled", "gone"} : Change(a, value)
  \/ \E v \in Visitor : Resolve(v) \/ Admit(v) \/ Leave(v)

Spec == Init /\ [][Next]_vars

-----------------------------------------------------------------------------
(* Properties                                                              *)

(* Names, threads and requests keep their ranges.                          *)
TypeOK ==
  /\ now \in Time /\ cleaned \in Time
  /\ attempts \in [Name -> Seq(Time)] /\ wrong \in [Name -> Seq(Time)]
  /\ \A t \in Thread :
       login[t] \in [pc: {"idle", "checked", "locked", "wrong", "right", "failed",
                          "disabled", "in"}, name: Name]
  /\ account \in [Account -> {"active", "disabled", "gone"}]
  /\ tokens \subseteq [user: Account, until: 0 .. MaxTime + Lifetime]
  /\ \A v \in Visitor : visit[v].pc \in {"idle", "resolved", "served", "refused"}

Guessing(n) == {t \in Thread : login[t].pc \in {"checked", "wrong"}
                               /\ login[t].name = n}

(* No failure of the last _LOCKOUT_SECONDS is forgotten until a right      *)
(* password, and at most _MAX_FAILED_ATTEMPTS fall into that time, but for *)
(* those of other threads that had passed the check already                *)
(* (_check_login_lockout, _record_failed_login and                         *)
(* _cleanup_failed_login_store of auth.py).                                *)
LockoutHolds ==
  \A n \in Name :
    /\ Within(attempts[n]) = wrong[n]
    /\ Len(wrong[n]) + Cardinality(Guessing(n))
         <= MaxFailed - 1 + Cardinality(Thread)

(* A request is served on a token in time and as a user whose account is   *)
(* active, unless it was changed after its row was read: a token outlives  *)
(* a disabled account, but opens nothing (_resolve_current_user and        *)
(* require_permission of dependencies.py).                                 *)
ServedIsActive ==
  \A v \in Visitor :
    visit[v].pc = "served" =>
      /\ account[visit[v].user] = "active" \/ visit[v].changed
      /\ visit[v].at <= visit[v].until
=============================================================================
