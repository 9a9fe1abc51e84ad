--------------------------- MODULE PermissionCache ---------------------------
(***************************************************************************)
(* Who may do what: roles, their permissions and the users that have them  *)
(* (rbac_repo.py, the routes of rbac.py, the role a user gets at sign-in), *)
(* and the cache of each user's permissions that every guarded request     *)
(* asks first (auth/rbac.py).                                              *)
(*                                                                         *)
(* A request that changes roles holds SQLite's write lock from its first   *)
(* write until get_db commits, after the handler has returned; it          *)
(* invalidates the cache in between.  Its own reads are taken together     *)
(* with its writes.  Lookups run on the event loop and in pool threads,    *)
(* beside it and beside each other; a SELECT sees what is committed.       *)
(***************************************************************************)
EXTENDS Naturals, Sequences, FiniteSets, Functions, Filter

CONSTANTS
  User, Role, Permission,
  System,     \* the roles with is_system
  Default,    \* the role with is_default
  Seeded,     \* of each role the permissions that the seed gives it
  Reader,     \* requests that look permissions up
  NoUser,
  MaxSize     \* _max_size of the cache

VARIABLES
  policy,     \* what is committed
  change,     \* the policy of the request that holds the write lock, or none
  entries,    \* _store: users and their permissions, by timestamp
  expired,    \* how many of them, from the first, are past their ttl
  lookup,     \* of each reader: what it does, for whom
  overlapped  \* users whose entry was stored by a lookup during which a
              \* change was under way, or changed without invalidation

vars == <<policy, change, entries, expired, lookup, overlapped>>

\* Roles that exist, the permissions of each, the roles of each user.
Policy == [roles : SUBSET Role,
           granted : [Role -> SUBSET Permission],
           assigned : [User -> SUBSET Role]]

None == [roles |-> {}]

Entry == [user : User, permissions : SUBSET Permission]

TypeOK ==
  /\ policy \in Policy
  /\ change \in Policy \cup {None}
  /\ entries \in Seq(Entry)
  /\ Len(entries) <= MaxSize + 1
  /\ \A i, j \in DOMAIN entries : entries[i].user = entries[j].user => i = j
  /\ expired \in 0..Len(entries)
  /\ lookup \in [Reader -> [pc : {"idle", "drop", "query", "store"},
                            user : User \cup {NoUser},
                            found : SUBSET Permission,
                            late : BOOLEAN]]
  /\ overlapped \subseteq User

Idle == [pc |-> "idle", user |-> NoUser, found |-> {}, late |-> FALSE]

Init ==
  /\ policy = [roles |-> {}, granted |-> [r \in Role |-> {}],
               assigned |-> [u \in User |-> {}]]
  /\ change = None
  /\ entries = <<>>
  /\ expired = 0
  /\ lookup = [r \in Reader |-> Idle]
  /\ overlapped = {}

\* get_user_permissions of the repository: through the roles a user has.
PermissionsOf(p, u) == UNION {p.granted[r] : r \in p.assigned[u]}

-----------------------------------------------------------------------------
(* _PermissionCache.                                                       *)

Cached(u) == \E i \in DOMAIN entries : entries[i].user = u

\* The entries that are not of these users.
WithoutUsers(s, users) == Keep(s, {e \in Range(s) : e.user \notin users})

\* invalidate and clear: the entries of these users go.
Invalidate(users) ==
  /\ entries' = WithoutUsers(entries, users)
  /\ expired' = Len(WithoutUsers(SubSeq(entries, 1, expired), users))

\* _evict_expired, when it does something: what is expired, then the oldest
\* above the size.
FirstKept ==
  IF Len(entries) - expired > MaxSize THEN Len(entries) - MaxSize + 1
  ELSE expired + 1

Evicted == SubSeq(entries, FirstKept, Len(entries))

\* It does so at most every _CLEANUP_INTERVAL, but always above the size.
MayEvict == {TRUE} \cup (IF Len(entries) > MaxSize THEN {} ELSE {FALSE})

-----------------------------------------------------------------------------
(* Lookups: get_user_permissions of RBACService.                           *)

Now(r, fields) == lookup' = [lookup EXCEPT ![r] = fields]

\* It evicts, and gets the entry: a fresh one is the answer.
Lookup(r, u) ==
  \E evict \in MayEvict :
    LET kept == IF evict THEN Evicted ELSE entries
        old == IF evict THEN 0 ELSE expired
        at == {i \in DOMAIN kept : kept[i].user = u}
    IN  /\ lookup[r].pc = "idle"
        /\ entries' = kept
        /\ expired' = old
        /\ Now(r, IF at = {} THEN [Idle EXCEPT !.pc = "query", !.user = u]
                  ELSE IF at \subseteq 1..old
                  THEN [Idle EXCEPT !.pc = "drop", !.user = u]
                  ELSE Idle)
        /\ UNCHANGED <<policy, change, overlapped>>

\* get deletes the expired entry; when another thread has done so, the
\* KeyError fails the request.
Drop(r) ==
  LET u == lookup[r].user
  IN  /\ lookup[r].pc = "drop"
      /\ Invalidate({u})
      /\ Now(r, IF Cached(u) THEN [Idle EXCEPT !.pc = "query", !.user = u]
                ELSE Idle)
      /\ UNCHANGED <<policy, change, overlapped>>

Query(r) ==
  /\ lookup[r].pc = "query"
  /\ Now(r, [lookup[r] EXCEPT
               !.pc = "store",
               !.found = PermissionsOf(policy, lookup[r].user)])
  /\ UNCHANGED <<policy, change, entries, expired, overlapped>>

\* set evicts before it stores, with the time it stores at.
Store(r) ==
  \E evict \in MayEvict :
    LET u == lookup[r].user
        kept == IF evict THEN Evicted ELSE entries
    IN  /\ lookup[r].pc = "store"
        /\ entries' = Append(WithoutUsers(kept, {u}),
                             [user |-> u, permissions |-> lookup[r].found])
        /\ expired' = IF evict THEN 0
                      ELSE Len(WithoutUsers(SubSeq(entries, 1, expired), {u}))
        /\ overlapped' = IF lookup[r].late \/ change # None
                         THEN overlapped \cup {u} ELSE overlapped \ {u}
        /\ Now(r, Idle)
        /\ UNCHANGED <<policy, change>>

\* Time passes: the oldest fresh entry reaches its ttl.
Expire ==
  /\ expired < Len(entries)
  /\ expired' = expired + 1
  /\ UNCHANGED <<policy, change, entries, lookup, overlapped>>

-----------------------------------------------------------------------------
(* Changes: a write and the invalidation after it.                         *)

Write(p) ==
  /\ change = None
  /\ change' = p
  /\ UNCHANGED <<policy, lookup>>

\* The routes on roles and permissions clear the cache.
WriteAndClear(p) ==
  /\ Write(p)
  /\ Invalidate(User)
  /\ UNCHANGED overlapped

CreateRole(r, permissions) ==
  /\ r \notin policy.roles
  /\ WriteAndClear([policy EXCEPT !.roles = @ \cup {r},
                                  !.granted[r] = permissions])

\* The description of a role; and a permission it has, or has not, already.
UpdateRole(r) == r \in policy.roles /\ WriteAndClear(policy)

DeleteRole(r) ==
  /\ r \in policy.roles \ System
  /\ WriteAndClear([roles |-> policy.roles \ {r},
                    granted |-> [policy.granted EXCEPT ![r] = {}],
                    assigned |-> [u \in User |-> policy.assigned[u] \ {r}]])

AssignPermission(r, q) ==
  /\ r \in policy.roles
  /\ WriteAndClear([policy EXCEPT !.granted[r] = @ \cup {q}])

RevokePermission(r, q) ==
  /\ r \in policy.roles
  /\ WriteAndClear([policy EXCEPT !.granted[r] = @ \ {q}])

\* Existing roles only gain what they lack.
SeedRoles(p) ==
  [p EXCEPT !.roles = Role,
            !.granted = [r \in Role |-> p.granted[r] \cup Seeded[r]]]

Seed == WriteAndClear(SeedRoles(policy))

\* Changes of one user's roles invalidate that user.
AssignRoles(u, roles) ==
  /\ roles \subseteq policy.roles
  /\ Write([policy EXCEPT !.assigned[u] = @ \cup roles])
  /\ Invalidate({u})
  /\ UNCHANGED overlapped

(* Faulty variant: the roles go, and the user's entry stays.               *)
RevokeRolesSilently(u, roles) ==
  /\ Write([policy EXCEPT !.assigned[u] = @ \ roles])
  /\ UNCHANGED <<entries, expired, overlapped>>

RevokeRoles(u, roles) ==
  /\ Write([policy EXCEPT !.assigned[u] = @ \ roles])
  /\ Invalidate({u})
  /\ UNCHANGED overlapped

\* _ensure_rbac_role at sign-in: a user without roles gets the default one,
\* and the roles are seeded if there are none.  The cache is left as it is.
EnsureRole(u) ==
  LET p == IF policy.roles = {} THEN SeedRoles(policy) ELSE policy
  IN  /\ policy.assigned[u] = {}
      /\ Default \in p.roles
      /\ Write([p EXCEPT !.assigned[u] = {Default}])
      /\ overlapped' = IF Cached(u) THEN overlapped \cup {u} ELSE overlapped
      /\ UNCHANGED <<entries, expired>>

\* get_db commits when the request is done, or rolls back.
Commit ==
  /\ change # None
  /\ policy' = change
  /\ change' = None
  /\ lookup' = [r \in Reader |->
                  [lookup[r] EXCEPT !.late = @ \/ lookup[r].pc = "store"]]
  /\ UNCHANGED <<entries, expired, overlapped>>

Rollback ==
  /\ change # None
  /\ change' = None
  /\ UNCHANGED <<policy, entries, expired, lookup, overlapped>>

ChangePolicy ==
  \/ \E r \in Role :
       \/ \E permissions \in SUBSET Permission : CreateRole(r, permissions)
       \/ UpdateRole(r)
       \/ DeleteRole(r)
       \/ \E q \in Permission : AssignPermission(r, q) \/ RevokePermission(r, q)
  \/ \E u \in User, roles \in (SUBSET Role) \ {{}} :
       AssignRoles(u, roles) \/ RevokeRoles(u, roles)
  \/ \E u \in User : EnsureRole(u)
  \/ Seed

Next ==
  \/ \E r \in Reader :
       \/ \E u \in User : Lookup(r, u)
       \/ Drop(r) \/ Query(r) \/ Store(r)
  \/ ChangePolicy
  \/ Commit
  \/ Rollback
  \/ Expire

Spec == Init /\ [][Next]_vars

-----------------------------------------------------------------------------
(* Properties                                                              *)

(* However lookups, changes, rollbacks and evictions interleave, the cache *)
(* has for a user the permissions that are committed; except for an entry  *)
(* stored by a lookup that a change overlapped, and for a user whom signing *)
(* in gave a role (invalidation in the routes of rbac.py, get_user_        *)
(* permissions of auth/rbac.py).                                           *)
CacheIsCurrent ==
  \A i \in DOMAIN entries :
    LET e == entries[i]
    IN  e.user \notin overlapped => e.permissions = PermissionsOf(policy, e.user)
=============================================================================
