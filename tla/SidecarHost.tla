----------------------------- MODULE SidecarHost -----------------------------
(***************************************************************************)
(* The desktop sidecar (sidecar_host.py): a process that prepares the user *)
(* database, serves the control API on a loopback port, and takes requests *)
(* of its launcher from a named pipe.  Sidecars share the database, may    *)
(* crash at any step, and are started again; a new one may overlap an old  *)
(* one.                                                                    *)
(*                                                                         *)
(* The database goes from absent ("none") to the packaged revision in one  *)
(* publish, or up through the revisions by migrations.                     *)
(***************************************************************************)
EXTENDS Integers

CONSTANTS
  Process,  \* sidecar processes
  MaxBoots  \* bound: how many boots there are

VARIABLES
  database, \* the user's database file
  host,     \* main() of each process with its pipe connection
  api,      \* the DeferredDesktopApplication of each process
  request,  \* one HTTP request through the pipe and one on the loopback port
  boots

vars == <<database, host, api, request, boots>>

Revision == {"none", "old", "head"}
Height(rev) == CASE rev = "none" -> 0 [] rev = "old" -> 1 [] rev = "head" -> 2
Way == {"proxied", "direct"}

HostState ==
  [pc: {"off", "check", "copy", "copied", "revise", "migrate", "http",
        "serving", "stopping"},
   link: {"none", "connected", "hello"}, \* the launcher's pipe and session
   proxying: BOOLEAN,                    \* the pipe thread awaits a response
   stop: BOOLEAN]                        \* stop_event

Off == [pc |-> "off", link |-> "none", proxying |-> FALSE, stop |-> FALSE]

ApiState ==
  [load: {"none", "importing", "entering", "ended"},  \* _load_task
   application: BOOLEAN,
   failure: BOOLEAN,
   ready: BOOLEAN,                                    \* _ready
   lifespan: BOOLEAN]                                 \* _lifespan_context

NoApi == [load |-> "none", application |-> FALSE, failure |-> FALSE,
          ready |-> FALSE, lifespan |-> FALSE]

NoRequest == [w \in Way |-> "none"]

TypeOK ==
  /\ database \in [rev: Revision, used: BOOLEAN]
  /\ host \in [Process -> HostState]
  /\ api \in [Process -> ApiState]
  /\ request \in [Process -> [Way -> {"none", "waiting", "forwarded"}]]
  /\ boots \in 0..MaxBoots
  /\ \A p \in Process : host[p].pc = "off" =>
       /\ host[p] = Off
       /\ api[p] = NoApi
       /\ request[p] = NoRequest

\* A first start, or an update of a program that has been used.
Init ==
  /\ database \in {[rev |-> "none", used |-> FALSE],
                   [rev |-> "old", used |-> TRUE]}
  /\ host = [p \in Process |-> Off]
  /\ api = [p \in Process |-> NoApi]
  /\ request = [p \in Process |-> NoRequest]
  /\ boots = 0

-----------------------------------------------------------------------------
At(p, pc) == host[p].pc = pc
Go(p, pc) == host' = [host EXCEPT ![p].pc = pc]

\* The end of a process, and of all that is only in its memory.
Exit(p) ==
  /\ host' = [host EXCEPT ![p] = Off]
  /\ api' = [api EXCEPT ![p] = NoApi]
  /\ request' = [request EXCEPT ![p] = NoRequest]

Boot(p) ==
  /\ At(p, "off") /\ boots < MaxBoots
  /\ boots' = boots + 1
  /\ Go(p, "check")
  /\ UNCHANGED <<database, api, request>>

\* The packaged bootstrap is verified, or there is none, or it is broken.
Check(p) ==
  /\ At(p, "check")
  /\ \/ Go(p, IF database.rev = "none" THEN "copy" ELSE "revise")
     \/ Go(p, "migrate")
     \/ host' = [host EXCEPT ![p] = Off]
  /\ UNCHANGED <<database, api, request, boots>>

\* Copy to a temporary name, flush, and verify what was written.
Copy(p) ==
  /\ At(p, "copy")
  /\ \/ Go(p, "copied")
     \/ host' = [host EXCEPT ![p] = Off]
  /\ UNCHANGED <<database, api, request, boots>>

(* Faulty variant: the copy is renamed over what is there.                 *)
PublishReplaces(p) ==
  /\ At(p, "copied")
  /\ database' = [rev |-> "head", used |-> FALSE]
  /\ Go(p, "revise")
  /\ UNCHANGED <<api, request, boots>>

\* The hard link fails when another sidecar has made the database meanwhile.
Publish(p) ==
  /\ At(p, "copied")
  /\ database' = IF database.rev = "none"
                 THEN [rev |-> "head", used |-> FALSE] ELSE database
  /\ Go(p, "revise")
  /\ UNCHANGED <<api, request, boots>>

Revise(p) ==
  /\ At(p, "revise")
  /\ Go(p, IF database.rev = "head" THEN "http" ELSE "migrate")
  /\ UNCHANGED <<database, api, request, boots>>

\* One revision at a time, each in its transaction; it may also fail, most
\* of all when two sidecars migrate at once.
Migrate(p) ==
  /\ At(p, "migrate")
  /\ \/ /\ database.rev = "head"
        /\ Go(p, "http")
        /\ UNCHANGED database
     \/ /\ database.rev \in {"none", "old"}
        /\ database' = [database EXCEPT !.rev =
                          IF @ = "none" THEN "old" ELSE "head"]
        /\ UNCHANGED host
     \/ host' = [host EXCEPT ![p] = Off] /\ UNCHANGED database
  /\ UNCHANGED <<api, request, boots>>

\* start_http_server and then the pipe, of which there is one instance: a
\* sidecar that does not get it stops its HTTP server again.
Listen(p) ==
  /\ At(p, "http")
  /\ api' = [api EXCEPT ![p].load = "importing"]
  /\ Go(p, IF \E q \in Process : At(q, "serving") THEN "stopping"
           ELSE "serving")
  /\ UNCHANGED <<database, request, boots>>

-----------------------------------------------------------------------------
(* The deferred application.                                               *)

(* Faulty variant: waiting requests are let in once the import is done.    *)
ImportReady(p) ==
  /\ api[p].load = "importing"
  /\ api' = [api EXCEPT ![p].load = "entering", ![p].application = TRUE,
                        ![p].ready = TRUE]
  /\ UNCHANGED <<database, host, request, boots>>

Import(p) ==
  /\ api[p].load = "importing"
  /\ \/ api' = [api EXCEPT ![p].load = "entering", ![p].application = TRUE]
     \/ api' = [api EXCEPT ![p].load = "ended", ![p].failure = TRUE,
                           ![p].ready = TRUE]
  /\ UNCHANGED <<database, host, request, boots>>

\* The application's own startup.
Enter(p) ==
  /\ api[p].load = "entering"
  /\ \/ api' = [api EXCEPT ![p].load = "ended", ![p].lifespan = TRUE,
                           ![p].ready = TRUE]
     \/ api' = [api EXCEPT ![p].load = "ended", ![p].failure = TRUE,
                           ![p].ready = TRUE]
  /\ UNCHANGED <<database, host, request, boots>>

\* A request waits for _ready, no longer than the timeout; then it goes to
\* the application, or is answered with status 503.
Answer(p, w) ==
  /\ request[p][w] = "waiting"
  /\ request' = [request EXCEPT ![p][w] =
                   IF api[p].ready /\ ~api[p].failure /\ api[p].application
                   THEN "forwarded" ELSE "none"]
  /\ host' = [host EXCEPT ![p].proxying =
                @ /\ (w = "direct" \/ request'[p][w] = "forwarded")]
  /\ UNCHANGED <<database, api, boots>>

\* The application answers a request; it may have written to the database.
Finish(p, w) ==
  /\ request[p][w] = "forwarded"
  /\ request' = [request EXCEPT ![p][w] = "none"]
  /\ host' = [host EXCEPT ![p].proxying = @ /\ w = "direct"]
  /\ \E used \in {database.used, TRUE} :
       database' = [database EXCEPT !.used = used]
  /\ UNCHANGED <<api, boots>>

-----------------------------------------------------------------------------
(* The pipe, served by one thread, one message at a time.                  *)

Serving(p) == At(p, "serving") /\ ~host[p].proxying /\ ~host[p].stop

Connect(p) ==
  /\ Serving(p) /\ host[p].link = "none"
  /\ host' = [host EXCEPT ![p].link = "connected"]
  /\ UNCHANGED <<database, api, request, boots>>

\* The one hello of a session with the right nonce, version and pid.
Hello(p) ==
  /\ Serving(p) /\ host[p].link = "connected"
  /\ host' = [host EXCEPT ![p].link = "hello"]
  /\ UNCHANGED <<database, api, request, boots>>

Disconnect(p) ==
  /\ Serving(p) /\ host[p].link # "none"
  /\ host' = [host EXCEPT ![p].link = "none"]
  /\ UNCHANGED <<database, api, request, boots>>

Proxy(p) ==
  /\ Serving(p) /\ host[p].link = "hello"
  /\ request[p]["proxied"] = "none"
  /\ request' = [request EXCEPT ![p]["proxied"] = "waiting"]
  /\ host' = [host EXCEPT ![p].proxying = TRUE]
  /\ UNCHANGED <<database, api, boots>>

\* The pipe thread gives up; the request itself goes on.
ProxyTimesOut(p) ==
  /\ host[p].proxying
  /\ host' = [host EXCEPT ![p].proxying = FALSE]
  /\ UNCHANGED <<database, api, request, boots>>

\* The launcher uses the port and the token that hello has told it.
Direct(p) ==
  /\ At(p, "serving") /\ host[p].link = "hello"
  /\ request[p]["direct"] = "none"
  /\ request' = [request EXCEPT ![p]["direct"] = "waiting"]
  /\ UNCHANGED <<database, host, api, boots>>

Shutdown(p) ==
  /\ Serving(p) /\ host[p].link = "hello"
  /\ host' = [host EXCEPT ![p].stop = TRUE, ![p].pc = "stopping"]
  /\ UNCHANGED <<database, api, request, boots>>

-----------------------------------------------------------------------------
Idle(p) == request[p] = NoRequest

\* The HTTP server lets its requests end, then shuts the lifespan down: a
\* load under way is cancelled, which also sets _ready.
ShutDownLifespan(p) ==
  /\ At(p, "stopping") /\ Idle(p)
  /\ api[p].load # "none"
  /\ api' = [api EXCEPT ![p].load = "none", ![p].ready = TRUE,
                        ![p].lifespan = FALSE]
  /\ UNCHANGED <<database, host, request, boots>>

(* Faulty variant: main waits for the HTTP thread as long as it takes.     *)
StopPatiently(p) ==
  /\ At(p, "stopping") /\ api[p].load = "none"
  /\ Exit(p)
  /\ UNCHANGED <<database, boots>>

\* main's join of the HTTP thread ends with it or with its timeout; then the
\* process ends, and its daemon threads with it.
Stop(p) ==
  /\ At(p, "stopping")
  /\ Exit(p)
  /\ UNCHANGED <<database, boots>>

Crash(p) ==
  /\ ~At(p, "off")
  /\ Exit(p)
  /\ UNCHANGED <<database, boots>>

Next ==
  \E p \in Process :
    \/ Boot(p) \/ Check(p) \/ Copy(p) \/ Publish(p) \/ Revise(p)
    \/ Migrate(p) \/ Listen(p)
    \/ Import(p) \/ Enter(p)
    \/ \E w \in Way : Answer(p, w) \/ Finish(p, w)
    \/ Connect(p) \/ Hello(p) \/ Disconnect(p)
    \/ Proxy(p) \/ ProxyTimesOut(p) \/ Direct(p) \/ Shutdown(p)
    \/ ShutDownLifespan(p) \/ Stop(p) \/ Crash(p)

Spec == Init /\ [][Next]_vars

\* http.stop and the end of main wait for nothing without a timeout.
FairSpec == Spec /\ \A p \in Process : WF_vars(Stop(p))

-----------------------------------------------------------------------------
(* Properties                                                              *)

(* Whatever sidecars crash, race or migrate, a database that is there is   *)
(* never replaced by the packaged one: neither its revision nor the user's *)
(* data goes back (_install_bootstrap, run_migrations).                    *)
DatabaseIsKept ==
  [][/\ Height(database'.rev) >= Height(database.rev)
     /\ database.used => database'.used]_vars

(* The application sees a request only while its lifespan is entered, and  *)
(* with the database at the revision it was written for (_load, __call__,  *)
(* _serve_lifespan, main).                                                 *)
ServedWhenReady ==
  \A p \in Process, w \in Way :
    request[p][w] = "forwarded" => api[p].lifespan /\ database.rev = "head"

(* A shutdown that the launcher was told of ends the process, whatever the *)
(* load and the requests do meanwhile (dispatch, HttpRuntime.stop).        *)
ShutdownEnds == \A p \in Process : host[p].stop ~> At(p, "off")
=============================================================================
