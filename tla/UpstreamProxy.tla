---------------------------- MODULE UpstreamProxy ----------------------------
(***************************************************************************)
(* The upstream proxy of a running saiai service                           *)
(* (src/tools/saiai-cli/src/upstream_proxy.rs): a refresher reads the      *)
(* proxy configuration every 30 seconds and publishes a snapshot of it     *)
(* when it changed, connections route themselves by the snapshot that is   *)
(* current when they start, automatic configuration (Windows) is evaluated *)
(* on a few blocking threads behind a cache per snapshot, and HTTP clients *)
(* are pooled per snapshot and route.                                      *)
(*                                                                         *)
(* A snapshot is known by its generation, its position in published.       *)
(* Times are abstract: an entry of the cache may expire at any time, which *)
(* also stands for the clearing of a cache that reached PAC_CACHE_LIMIT.   *)
(* Every connection of the model is https and asks once.                   *)
(***************************************************************************)
EXTENDS ProxyPolicy, FiniteSets

CONSTANTS Task,       \* connections
          Refresher,  \* the refresh task, which also warms the cache
          Nobody,
          Setting,    \* the upstream_proxy setting
          Environment,\* the proxy variables of the service
          Reading,    \* what reading the operating system may give
          Prewarm,    \* the Gateway targets resolved for every snapshot
          Permits,    \* PAC_EVALUATIONS
          MaxChanges  \* bound on the changes of the system's configuration

ASSUME UpstreamAssumption ==
    /\ Refresher \notin Task /\ Nobody \notin Task \cup {Refresher}
    /\ Prewarm \subseteq Target
    /\ Permits \in Nat \ {0} /\ MaxChanges \in Nat

VARIABLES os,        \* the system's configuration now
          changes,   \* how often it changed
          published, \* the inputs of every snapshot, the current one last
          refresher, \* [pc, reading, warm]: warm holds the targets to resolve
          call,      \* for every actor, the routing call it is in
          pac,       \* for every generation [cache, nothingFound, evaluator]
          clients,   \* HttpClients.cache: [generation, of]
          used       \* the client a connection was given, or Unset

vars == <<os, changes, published, refresher, call, pac, clients, used>>

Actor == Task \cup {Refresher}
Generation == 1 .. MaxChanges + 1
Route == Proxy \cup {Direct, Failed}
NoEntry == "none"
Client == [generation : Generation, route : Proxy \cup {Direct}]
NoCall == [pc |-> "idle", generation |-> 0, target |-> Unset, route |-> Unset]
Calls == [pc : {"routing", "blocking", "locking", "evaluating", "routed", "done"},
          generation : Generation, target : Target, route : Route \cup {Unset}]

Inputs(reading) == [mode |-> Setting, env |-> Environment,
                    os |-> IF Setting = "system" THEN reading ELSE [kind |-> "none"]]
Current == Len(published)
Policy(generation) == PolicyFromInputs(published[generation])
Permitted == {t \in Task : call[t].pc \in {"blocking", "locking", "evaluating"}}

TypeOK ==
    /\ os \in Reading /\ changes \in 0 .. MaxChanges
    /\ published \in Seq({Inputs(r) : r \in Reading}) /\ Current \in Generation
    /\ refresher \in [pc : {"waiting", "read", "warming"}, reading : Reading \cup {Unset},
                      warm : SUBSET Prewarm]
    /\ call \in [Actor -> Calls \cup {NoCall}]
    /\ pac \in [Generation -> [cache : [Target -> Route \cup {NoEntry}],
                               nothingFound : BOOLEAN, evaluator : Actor \cup {Nobody}]]
    /\ clients \in [generation : {0} \cup Generation, of : SUBSET Client]
    /\ used \in [Task -> Client \cup {Unset}]

\* UpstreamProxy::new has published one reading; spawn_refresh warms it first.
Init ==
    /\ os \in Reading /\ changes = 0
    /\ published = <<Inputs(os)>>
    /\ refresher = [pc |-> "warming", reading |-> Unset, warm |-> Prewarm]
    /\ call = [a \in Actor |-> NoCall]
    /\ pac = [g \in Generation |-> [cache |-> [t \in Target |-> NoEntry],
                                    nothingFound |-> FALSE, evaluator |-> Nobody]]
    /\ clients = [generation |-> 0, of |-> {}]
    /\ used = [t \in Task |-> Unset]

(***************************************************************************)
(* The system and the refresher.                                           *)
(***************************************************************************)
\* The user, a VPN client or the network changes the system's proxy.
ChangeSystem ==
    /\ changes < MaxChanges
    /\ os' \in Reading \ {os} /\ changes' = changes + 1
    /\ UNCHANGED <<published, refresher, call, pac, clients, used>>

\* refresh(): read_inputs, which takes a while ...
Read ==
    /\ refresher.pc = "waiting"
    /\ refresher' = [refresher EXCEPT !.pc = "read", !.reading = os]
    /\ UNCHANGED <<os, changes, published, call, pac, clients, used>>

\* BUG: an unreadable configuration is assumed to be the previous one.
ChangedReadably(inputs) == inputs # published[Current] /\ inputs.os.kind # "unreadable"
\* publish() compares the reading with the last one.
Changed(inputs) == inputs # published[Current]

\* ... then publish(), and prewarm() when it was a change.
Publish ==
    LET inputs == Inputs(refresher.reading) IN
    /\ refresher.pc = "read"
    /\ IF Changed(inputs)
       THEN /\ published' = Append(published, inputs)
            /\ refresher' = [pc |-> "warming", reading |-> Unset, warm |-> Prewarm]
       ELSE /\ refresher' = [refresher EXCEPT !.pc = "waiting", !.reading = Unset]
            /\ UNCHANGED published
    /\ UNCHANGED <<os, changes, call, pac, clients, used>>

\* prewarm() resolves the next target in the snapshot it took; route_blocking
\* is called directly, without a permit.
Warm(target) ==
    /\ refresher.pc = "warming" /\ target \in refresher.warm
    /\ call[Refresher].pc = "idle"
    /\ refresher' = [refresher EXCEPT !.warm = @ \ {target}]
    /\ call' = [call EXCEPT ![Refresher] =
                   [pc |-> "blocking", generation |-> Current, target |-> target, route |-> Unset]]
    /\ UNCHANGED <<os, changes, published, pac, clients, used>>
\* Its result is only there to be cached.
Warmed ==
    /\ call[Refresher].pc = "routed"
    /\ call' = [call EXCEPT ![Refresher] = NoCall]
    /\ UNCHANGED <<os, changes, published, refresher, pac, clients, used>>
Wait ==
    /\ refresher.pc = "warming" /\ refresher.warm = {} /\ call[Refresher].pc = "idle"
    /\ refresher' = [refresher EXCEPT !.pc = "waiting"]
    /\ UNCHANGED <<os, changes, published, call, pac, clients, used>>

(***************************************************************************)
(* Routing.                                                                *)
(***************************************************************************)
Routed(a, route) == call' = [call EXCEPT ![a].pc = "routed", ![a].route = route]
To(a, pc) == call' = [call EXCEPT ![a].pc = pc]
Entry(a) == pac[call[a].generation].cache[call[a].target]
Automatic(a) == Policy(call[a].generation).kind = "auto"

\* HttpClients::for_url: a request takes the current snapshot.
Ask(t, target) ==
    /\ call[t].pc = "idle"
    /\ call' = [call EXCEPT ![t] =
                   [pc |-> "routing", generation |-> Current, target |-> target, route |-> Unset]]
    /\ UNCHANGED <<os, changes, published, refresher, pac, clients, used>>

\* Snapshot::route: any policy but an automatic one decides at once.
RouteAtOnce(t) ==
    /\ call[t].pc = "routing" /\ ~Automatic(t)
    /\ Routed(t, RouteNow(Policy(call[t].generation), "https", call[t].target))
    /\ UNCHANGED <<os, changes, published, refresher, pac, clients, used>>
RouteCached(t) ==
    /\ call[t].pc = "routing" /\ Automatic(t) /\ Entry(t) # NoEntry
    /\ Routed(t, Entry(t))
    /\ UNCHANGED <<os, changes, published, refresher, pac, clients, used>>
\* An evaluation needs one of the permits, or fails after PAC_QUEUE_BUDGET.
Permit(t) ==
    /\ call[t].pc = "routing" /\ Automatic(t) /\ Entry(t) = NoEntry
    /\ Cardinality(Permitted) < Permits
    /\ To(t, "blocking")
    /\ UNCHANGED <<os, changes, published, refresher, pac, clients, used>>
TimeOut(t) ==
    /\ call[t].pc = "routing" /\ Automatic(t)
    /\ Cardinality(Permitted) = Permits
    /\ Routed(t, Failed)
    /\ UNCHANGED <<os, changes, published, refresher, pac, clients, used>>

\* route_blocking on a blocking thread: PacState::route looks at the cache,
\* then waits for the evaluation lock.
Blocking(a) ==
    LET policy == Policy(call[a].generation) IN
    /\ call[a].pc = "blocking"
    /\ CASE ~Automatic(a) \/ call[a].target \in Loopback ->
               Routed(a, IF Automatic(a) THEN Direct ELSE RouteNow(policy, "https", call[a].target))
         [] Automatic(a) /\ call[a].target \notin Loopback /\ Entry(a) # NoEntry -> Routed(a, Entry(a))
         [] OTHER -> To(a, "locking")
    /\ UNCHANGED <<os, changes, published, refresher, pac, clients, used>>

\* The second look at the cache, under the lock.
NotAnswered(a) == Entry(a) = NoEntry

Lock(a) ==
    LET g == call[a].generation IN
    /\ call[a].pc = "locking" /\ pac[g].evaluator = Nobody
    /\ IF NotAnswered(a)
       THEN To(a, "evaluating") /\ pac' = [pac EXCEPT ![g].evaluator = a]
       ELSE Routed(a, Entry(a)) /\ UNCHANGED pac
    /\ UNCHANGED <<os, changes, published, refresher, clients, used>>

\* Routes and errors are cached alike, and the lock is released.
Answered(a, route) ==
    [pac EXCEPT ![call[a].generation].evaluator = Nobody,
                ![call[a].generation].cache[call[a].target] = route]

\* WinHTTP answered: the route is cached and the lock released.  Discovery
\* that found nothing is not tried again for a while.
Evaluate(a, outcome) ==
    LET g == call[a].generation
        policy == Policy(g)
        detect == policy.detect /\ ~pac[g].nothingFound
        route == PacRoute(policy, detect, "https", call[a].target, outcome)
        asked == call[a].target \notin policy.fallback.bypass /\ (detect \/ policy.script)
    IN  /\ call[a].pc = "evaluating"
        /\ Routed(a, route)
        /\ pac' = [Answered(a, route) EXCEPT
                      ![g].nothingFound = @ \/ (asked /\ outcome = "notFound" /\ ~policy.script)]
        /\ UNCHANGED <<os, changes, published, refresher, clients, used>>

\* PAC_CACHE_TTL and PAC_ERROR_TTL, and AUTO_DETECT_RETRY, have passed.
Expire(g, target) ==
    /\ pac[g].cache[target] # NoEntry
    /\ pac' = [pac EXCEPT ![g].cache[target] = NoEntry]
    /\ UNCHANGED <<os, changes, published, refresher, call, clients, used>>
DetectAgain(g) ==
    /\ pac[g].nothingFound
    /\ pac' = [pac EXCEPT ![g].nothingFound = FALSE]
    /\ UNCHANGED <<os, changes, published, refresher, call, clients, used>>

(***************************************************************************)
(* Clients.                                                                *)
(***************************************************************************)
\* BUG: the snapshot is read again after the route was found.
SnapshotNow(t) == Current
\* The snapshot the connection took.
SnapshotOf(t) == call[t].generation

\* A newer generation starts an empty pool; an older one leaves it alone.
Pool(generation) ==
    IF generation > clients.generation THEN [generation |-> generation, of |-> {}] ELSE clients

\* route() is left with ? when it has no route.
HasRoute(t) == call[t].route # Failed

\* HttpClients::client.  A connection routed by an older snapshot gets a
\* client of its own that is not pooled.
GetClient(t) ==
    LET g == SnapshotOf(t)
        pool == Pool(g)
        pooled == {c \in pool.of : g = pool.generation /\ c.route = call[t].route}
        built == [generation |-> g, route |-> call[t].route]
    IN  /\ call[t].pc = "routed" /\ HasRoute(t)
        /\ IF pooled # {}
           THEN \E c \in pooled : used' = [used EXCEPT ![t] = c] /\ clients' = pool
           ELSE /\ used' = [used EXCEPT ![t] = built]
                /\ clients' = IF g = pool.generation THEN [pool EXCEPT !.of = @ \cup {built}] ELSE pool
        /\ To(t, "done")
        /\ UNCHANGED <<os, changes, published, refresher, pac>>
\* No route: the request fails.
Fail(t) ==
    /\ call[t].pc = "routed" /\ ~HasRoute(t)
    /\ To(t, "done")
    /\ UNCHANGED <<os, changes, published, refresher, pac, clients, used>>

\* What moves a connection on, and what moves the refresher on.
TaskStep(t) ==
    \/ RouteAtOnce(t) \/ RouteCached(t) \/ Permit(t) \/ TimeOut(t)
    \/ Blocking(t) \/ Lock(t) \/ \E outcome \in Outcome : Evaluate(t, outcome)
    \/ GetClient(t) \/ Fail(t)
RefresherStep ==
    \/ Read \/ Publish \/ \E target \in Target : Warm(target)
    \/ Warmed \/ Wait
    \/ Blocking(Refresher) \/ Lock(Refresher) \/ \E outcome \in Outcome : Evaluate(Refresher, outcome)

Next ==
    \/ ChangeSystem
    \/ RefresherStep
    \/ \E t \in Task : TaskStep(t) \/ \E target \in Target : Ask(t, target)
    \/ \E g \in Generation : DetectAgain(g) \/ \E target \in Target : Expire(g, target)

Spec == Init /\ [][Next]_vars

\* Threads are scheduled, the timer ticks, and WinHTTP is given timeouts
\* (WinHttpSetTimeouts), so an evaluation ends.
Fairness == WF_vars(RefresherStep) /\ \A t \in Task : WF_vars(TaskStep(t))
FairSpec == Spec /\ Fairness

(***************************************************************************)
(* Properties.                                                             *)
(***************************************************************************)
\* One client per generation and route: whatever was published while a
\* connection waited for its route, its client is one made for the snapshot
\* it routed itself by, and goes where that snapshot's policy can send it.
ClientOfItsSnapshot ==
    \A t \in Task : used[t] # Unset =>
        LET g == call[t].generation
            policy == Policy(g)
            target == call[t].target
        IN  /\ used[t] = [generation |-> g, route |-> call[t].route]
            /\ IF policy.kind = "auto" /\ target \notin Loopback
               THEN \E detect \in BOOLEAN, outcome \in Outcome :
                       used[t].route = PacRoute(policy, detect, "https", target, outcome)
               ELSE used[t].route = RouteNow(policy, "https", target)

\* Connections that ask for the same target at once share one evaluation:
\* nobody runs WinHTTP for an answer the cache already has.
OneEvaluation ==
    \A a \in Actor : call[a].pc = "evaluating" =>
        /\ Entry(a) = NoEntry
        /\ pac[call[a].generation].evaluator = a

\* Concurrent connections agree on the snapshot they use and on the evaluation they share.
ConnectionsAgree == ClientOfItsSnapshot /\ OneEvaluation

\* A connection is always given a client or an error, however many others
\* wait for automatic configuration.
RequestsAnswered == \A t \in Task : []<>(call[t].pc \in {"idle", "done"})

\* A configuration that stays is the one connections are routed by, also when
\* what stays is that it cannot be read.
ChangesAreFollowed ==
    \A r \in Reading : <>[](os = r) => <>[](published[Current] = Inputs(r))

\* Neither evaluations that hang nor readings that fail stop the service.
ServiceGoesOn == RequestsAnswered /\ ChangesAreFollowed
=============================================================================
