------------------------- MODULE UpstreamProxyProofs -------------------------
(***************************************************************************)
(* Proofs about UpstreamProxy for every set of connections, targets and    *)
(* proxies, any setting and any reading of the system, and any number of   *)
(* changes and permits: a connection gets a client for the snapshot that   *)
(* it routed itself by, with a route that this snapshot's policy gives,    *)
(* and no two actors evaluate one snapshot's configuration at once.        *)
(***************************************************************************)
EXTENDS UpstreamProxy, TLAPS

Pc == {"idle", "routing", "blocking", "locking", "evaluating", "routed", "done"}

Snapshot == {Inputs(r) : r \in Reading \cup {Unset}}
\* The shape of the state.  What a policy gives as a route depends on readings
\* of which nothing is assumed, so that routes are left open.
Shape ==
    /\ os \in Reading /\ changes \in 0 .. MaxChanges
    /\ published \in Seq(Snapshot) /\ Len(published) > 0
    /\ refresher.pc \in {"waiting", "read", "warming"}
    /\ refresher.reading \in Reading \cup {Unset}
    /\ refresher = [pc |-> refresher.pc, reading |-> refresher.reading, warm |-> refresher.warm]
    /\ refresher.warm \subseteq Target
    /\ DOMAIN call = Actor
    /\ \A a \in Actor :
          /\ call[a] = [pc |-> call[a].pc, generation |-> call[a].generation, target |-> call[a].target, route |-> call[a].route]
          /\ call[a].pc \in Pc
    /\ DOMAIN pac = Generation
    /\ \A g \in Generation :
          DOMAIN pac[g] = {"cache", "nothingFound", "evaluator"} /\ DOMAIN pac[g].cache = Target
    /\ clients = [generation |-> clients.generation, of |-> clients.of]
    /\ clients.generation \in Nat
    /\ DOMAIN used = Task

\* Every snapshot took a change of the system's configuration: one that was
\* read and is not published yet, or not even read, is one more.
Unread == IF refresher.pc = "read" THEN Inputs(os) # Inputs(refresher.reading) ELSE Inputs(os) # published[Current]
Unpublished == refresher.pc = "read" /\ Changed(Inputs(refresher.reading))
SnapshotsAreCounted ==
    Current + (IF Unread THEN 1 ELSE 0) + (IF Unpublished THEN 1 ELSE 0) <= changes + 1

\* A route that the policy of a snapshot can give.
AutomaticRoute(g, target, route) ==
    \E detect \in BOOLEAN, outcome \in Outcome : route = PacRoute(Policy(g), detect, "https", target, outcome)
AsksOutside(g, target) == Policy(g).kind = "auto" /\ target \notin Loopback
Possible(g, target, route) ==
    IF AsksOutside(g, target) THEN AutomaticRoute(g, target, route)
    ELSE route = RouteNow(Policy(g), "https", target)

\* A call is about a snapshot there is; only one that must ask outside waits
\* for the evaluation; its route is one of its snapshot or a failure.
CallsAreOfSnapshots ==
    \A a \in Actor :
       /\ call[a].pc # "idle" => call[a].generation \in 1 .. Current /\ call[a].target \in Target
       /\ call[a].pc \in {"locking", "evaluating"} => AsksOutside(call[a].generation, call[a].target)
       /\ call[a].pc \in {"routed", "done"} =>
             call[a].route = Failed \/ Possible(call[a].generation, call[a].target, call[a].route)
\* The cache of a snapshot has routes of its policy.
CacheIsOfItsSnapshot ==
    \A g \in Generation, target \in Target :
       pac[g].cache[target] # NoEntry =>
          /\ g \in 1 .. Current
          /\ AsksOutside(g, target) /\ AutomaticRoute(g, target, pac[g].cache[target])
\* The pool has clients of its own generation, and a connection that is done
\* the client it asked for.
ClientsAreOfTheirSnapshot ==
    /\ \A c \in clients.of : c = [generation |-> clients.generation, route |-> c.route]
    /\ \A t \in Task : used[t] # Unset =>
          /\ call[t].pc = "done" /\ call[t].route # Failed
          /\ used[t] = [generation |-> call[t].generation, route |-> call[t].route]

IInv == /\ Shape /\ SnapshotsAreCounted /\ CallsAreOfSnapshots /\ CacheIsOfItsSnapshot
        /\ ClientsAreOfTheirSnapshot /\ OneEvaluation

(***************************************************************************)
(* Snapshots and routes.                                                   *)
(***************************************************************************)
\* A snapshot that was published stays as it is.
LEMMA SnapshotsStay ==
    ASSUME Shape, Publish \/ UNCHANGED published
    PROVE  \A g \in 1 .. Current : g \in 1 .. Current' /\ Policy(g)' = Policy(g)
<1>1. published \in Seq(Snapshot)
  BY DEF Shape
<1>2. CASE UNCHANGED published
  BY <1>2 DEF Current, Policy
<1>3. ASSUME NEW x, published' = Append(published, x)
      PROVE  \A g \in 1 .. Current : g \in 1 .. Current' /\ Policy(g)' = Policy(g)
  <2>1. Current' = Current + 1 /\ \A g \in 1 .. Current : published'[g] = published[g]
    BY <1>1, <1>3 DEF Current
  <2> QED BY <2>1, <1>1 DEF Policy, Current
<1> QED BY <1>2, <1>3 DEF Publish

\* What an evaluation or a policy gives now, it gave then.
LEMMA PossibleStays ==
    ASSUME NEW g, NEW target, NEW route, Policy(g)' = Policy(g)
    PROVE  /\ AsksOutside(g, target)' = AsksOutside(g, target)
           /\ AutomaticRoute(g, target, route)' = AutomaticRoute(g, target, route)
           /\ Possible(g, target, route)' = Possible(g, target, route)
BY DEF AsksOutside, AutomaticRoute, Possible

(***************************************************************************)
(* The initial state and the steps.                                        *)
(***************************************************************************)
\* The invariant holds at first.
LEMMA InitIInv == Init => IInv
<1> SUFFICES ASSUME Init PROVE IInv
  OBVIOUS
<1>1. published = <<Inputs(os)>> /\ Inputs(os) \in Snapshot /\ changes = 0
  BY DEF Init, Snapshot
<1>2. published \in Seq(Snapshot) /\ Current = 1 /\ published[Current] = Inputs(os)
  BY <1>1 DEF Current
<1>3. Shape
  <2>1. \A a \in Actor : call[a] = NoCall
    BY DEF Init
  <2>2. \A g \in Generation : pac[g] = [cache |-> [t \in Target |-> NoEntry], nothingFound |-> FALSE, evaluator |-> Nobody]
    BY DEF Init
  <2>3. DOMAIN call = Actor /\ DOMAIN pac = Generation /\ DOMAIN used = Task
    BY DEF Init
  <2>4. /\ os \in Reading /\ refresher = [pc |-> "warming", reading |-> Unset, warm |-> Prewarm]
        /\ clients = [generation |-> 0, of |-> {}]
    BY DEF Init
  <2>5. \A a \in Actor :
           /\ call[a] = [pc |-> call[a].pc, generation |-> call[a].generation, target |-> call[a].target, route |-> call[a].route]
           /\ call[a].pc \in Pc
    BY <2>1 DEF NoCall, Pc
  <2>6. \A g \in Generation :
           DOMAIN pac[g] = {"cache", "nothingFound", "evaluator"} /\ DOMAIN pac[g].cache = Target
    BY <2>2
  <2>7. changes \in 0 .. MaxChanges /\ Len(published) > 0
    BY <1>1, UpstreamAssumption
  <2>8. /\ refresher = [pc |-> refresher.pc, reading |-> refresher.reading, warm |-> refresher.warm]
        /\ refresher.pc \in {"waiting", "read", "warming"} /\ refresher.reading \in Reading \cup {Unset}
        /\ refresher.warm \subseteq Target
        /\ clients = [generation |-> clients.generation, of |-> clients.of] /\ clients.generation \in Nat
    BY <2>4, UpstreamAssumption
  <2> QED BY <1>2, <2>3, <2>4, <2>5, <2>6, <2>7, <2>8 DEF Shape
<1>4. SnapshotsAreCounted
  BY <1>1, <1>2 DEF Init, SnapshotsAreCounted, Unread, Unpublished
<1>5. CallsAreOfSnapshots /\ OneEvaluation
  BY DEF Init, CallsAreOfSnapshots, OneEvaluation, NoCall
<1>6. CacheIsOfItsSnapshot /\ ClientsAreOfTheirSnapshot
  BY DEF Init, CacheIsOfItsSnapshot, ClientsAreOfTheirSnapshot
<1> QED BY <1>3, <1>4, <1>5, <1>6 DEF IInv

\* Generations are generations of the model: as many as there may be changes.
LEMMA GenerationsSuffice == ASSUME Shape, SnapshotsAreCounted PROVE 1 .. Current \subseteq Generation /\ Current \in Nat \ {0}
<1>1. Current \in Nat \ {0}
  BY DEF Shape, Current
<1>2. Current <= changes + 1
  BY <1>1 DEF SnapshotsAreCounted, Shape
<1> QED BY <1>1, <1>2, UpstreamAssumption DEF Shape, Generation

\* The parts of the invariant that are about calls, caches and clients, and
\* what a step leaves of them that changes none.
Routing == CallsAreOfSnapshots /\ CacheIsOfItsSnapshot /\ ClientsAreOfTheirSnapshot /\ OneEvaluation
\* A step that routes nothing keeps it, a new snapshot included.
LEMMA RoutingStays ==
    ASSUME IInv, Publish \/ UNCHANGED published, UNCHANGED <<call, pac, clients, used>>
    PROVE  Routing'
<1>1. \A g \in 1 .. Current : g \in 1 .. Current' /\ Policy(g)' = Policy(g)
  BY SnapshotsStay DEF IInv
<1>2. \A g \in 1 .. Current : \A target, route :
         /\ AsksOutside(g, target)' = AsksOutside(g, target)
         /\ AutomaticRoute(g, target, route)' = AutomaticRoute(g, target, route)
         /\ Possible(g, target, route)' = Possible(g, target, route)
  BY <1>1, PossibleStays
<1>3. CallsAreOfSnapshots'
  <2>1. call' = call
    OBVIOUS
  <2>2. \A a \in Actor : call[a].pc # "idle" => call[a].generation \in 1 .. Current
    BY DEF IInv, CallsAreOfSnapshots
  <2> QED BY <1>1, <1>2, <2>1, <2>2 DEF IInv, CallsAreOfSnapshots
<1>4. CacheIsOfItsSnapshot'
  BY <1>1, <1>2 DEF IInv, CacheIsOfItsSnapshot
<1>5. ClientsAreOfTheirSnapshot' /\ OneEvaluation'
  BY DEF IInv, ClientsAreOfTheirSnapshot, OneEvaluation, Entry
<1> QED BY <1>3, <1>4, <1>5 DEF Routing

\* The system changes, and the refresher reads, publishes and waits.
LEMMA RefreshStep == ASSUME IInv, ChangeSystem \/ Read \/ Publish \/ Wait PROVE IInv'
<1>1. Routing'
  BY RoutingStays DEF ChangeSystem, Read, Publish, Wait
<1>2. published \in Seq(Snapshot) /\ Current \in Nat \ {0} /\ changes \in Nat
  BY DEF IInv, Shape, Current
<1>3. CASE ChangeSystem
  <2>1. Shape'
    BY <1>3, UpstreamAssumption DEF IInv, Shape, ChangeSystem
  <2>2. SnapshotsAreCounted'
    <3>1. Current' = Current /\ Unpublished' = Unpublished /\ changes' = changes + 1
      BY <1>3 DEF ChangeSystem, Unpublished, Current, Changed, Inputs
    <3> QED BY <1>2, <3>1 DEF IInv, SnapshotsAreCounted
  <2> QED BY <1>1, <2>1, <2>2 DEF IInv, Routing
<1>4. CASE Read
  <2>1. Shape'
    BY <1>4 DEF IInv, Shape, Read
  <2>2. SnapshotsAreCounted'
    BY <1>2, <1>4 DEF IInv, Shape, Read, SnapshotsAreCounted, Unread, Unpublished, Current, Changed
  <2> QED BY <1>1, <2>1, <2>2 DEF IInv, Routing
<1>5. CASE Publish
  <2> DEFINE inputs == Inputs(refresher.reading)
  <2>0. inputs \in Snapshot
    BY DEF IInv, Shape, Snapshot
  <2>1. CASE Changed(inputs)
    <3>1. published' = Append(published, inputs) /\ refresher' = [pc |-> "warming", reading |-> Unset, warm |-> Prewarm]
          /\ refresher.pc = "read" /\ UNCHANGED <<os, changes, call, pac, clients, used>>
      BY <1>5, <2>1 DEF Publish
    <3>2. published' \in Seq(Snapshot) /\ Current' = Current + 1 /\ published'[Current'] = inputs
      BY <1>2, <2>0, <3>1 DEF Current
    <3>3. Shape'
      BY <1>2, <3>1, <3>2, UpstreamAssumption DEF IInv, Shape, Current
    <3>4. Unpublished /\ ~Unpublished' /\ Unread' = Unread
      BY <2>1, <3>1, <3>2 DEF Unpublished, Unread, Inputs
    <3>5. SnapshotsAreCounted'
      BY <1>2, <3>1, <3>2, <3>4 DEF IInv, SnapshotsAreCounted
    <3> QED BY <1>1, <3>3, <3>5 DEF IInv, Routing
  <2>2. CASE ~Changed(inputs)
    <3>1. refresher' = [refresher EXCEPT !.pc = "waiting", !.reading = Unset] /\ refresher.pc = "read"
          /\ UNCHANGED <<os, changes, published, call, pac, clients, used>>
      BY <1>5, <2>2 DEF Publish
    <3>2. Shape'
      BY <3>1 DEF IInv, Shape
    <3>3. refresher'.pc = "waiting" /\ inputs = published[Current]
      BY <2>2, <3>1 DEF IInv, Shape, Changed
    <3>4. ~Unpublished' /\ Unread' = Unread /\ ~Unpublished /\ Current' = Current
      BY <2>2, <3>1, <3>3 DEF Unpublished, Unread, Inputs, Current
    <3>5. SnapshotsAreCounted'
      BY <1>2, <3>1, <3>4 DEF IInv, SnapshotsAreCounted
    <3> QED BY <1>1, <3>2, <3>5 DEF IInv, Routing
  <2> QED BY <2>1, <2>2
<1>6. CASE Wait
  <2>1. Shape'
    BY <1>6 DEF IInv, Shape, Wait
  <2>2. SnapshotsAreCounted'
    BY <1>2, <1>6 DEF IInv, Shape, Wait, SnapshotsAreCounted, Unread, Unpublished, Current, Changed
  <2> QED BY <1>1, <2>1, <2>2 DEF IInv, Routing
<1> QED BY <1>3, <1>4, <1>5, <1>6

\* A call goes on, and nothing else changes but what is left to be warmed.
Call(pc, g, target, route) == [pc |-> pc, generation |-> g, target |-> target, route |-> route]
\* Such a step keeps the invariant.
LEMMA CallStep ==
    ASSUME IInv, NEW a \in Actor, NEW pc \in Pc \ {"evaluating"}, NEW g, NEW target, NEW route,
           call' = [call EXCEPT ![a] = Call(pc, g, target, route)],
           UNCHANGED <<os, changes, published, pac, clients, used>>,
           refresher' = refresher \/ \E w \in SUBSET Target : refresher' = [refresher EXCEPT !.warm = w],
           pc # "idle" => g \in 1 .. Current /\ target \in Target,
           pc = "locking" => AsksOutside(g, target),
           pc \in {"routed", "done"} => route = Failed \/ Possible(g, target, route),
           a \in Task => used[a] = Unset
    PROVE  IInv'
<1>1. /\ DOMAIN call' = Actor /\ \A b \in Actor \ {a} : call'[b] = call[b]
      /\ call'[a] = Call(pc, g, target, route)
  BY DEF IInv, Shape
<1>2. /\ call'[a].pc = pc /\ call'[a].generation = g /\ call'[a].target = target /\ call'[a].route = route
  BY <1>1 DEF Call
<1>3. Shape'
  <2>1. \A b \in Actor :
           /\ call'[b] = [pc |-> call'[b].pc, generation |-> call'[b].generation, target |-> call'[b].target, route |-> call'[b].route]
           /\ call'[b].pc \in Pc
    BY <1>1, <1>2 DEF IInv, Shape, Call
  <2>2. /\ refresher'.pc = refresher.pc /\ refresher'.reading = refresher.reading /\ refresher'.warm \subseteq Target
        /\ refresher' = [pc |-> refresher'.pc, reading |-> refresher'.reading, warm |-> refresher'.warm]
    BY DEF IInv, Shape
  <2> QED BY <1>1, <2>1, <2>2 DEF IInv, Shape
<1>4. SnapshotsAreCounted'
  <2>1. refresher'.pc = refresher.pc /\ refresher'.reading = refresher.reading
    BY DEF IInv, Shape
  <2> QED BY <2>1 DEF IInv, SnapshotsAreCounted, Unread, Unpublished, Current, Changed, Inputs
<1>5. Current' = Current /\ \A h : Policy(h)' = Policy(h)
  BY DEF Current, Policy
<1>6. \A h, x, r : /\ AsksOutside(h, x)' = AsksOutside(h, x)
                   /\ AutomaticRoute(h, x, r)' = AutomaticRoute(h, x, r)
                   /\ Possible(h, x, r)' = Possible(h, x, r)
  BY <1>5, PossibleStays
<1>7. CallsAreOfSnapshots'
  BY <1>1, <1>2, <1>5, <1>6 DEF IInv, CallsAreOfSnapshots
<1>8. CacheIsOfItsSnapshot'
  BY <1>5, <1>6 DEF IInv, CacheIsOfItsSnapshot
<1>9. ClientsAreOfTheirSnapshot'
  BY <1>1 DEF IInv, ClientsAreOfTheirSnapshot, Actor
<1>10. OneEvaluation'
  BY <1>1, <1>2 DEF IInv, OneEvaluation, Entry
<1> QED BY <1>3, <1>4, <1>7, <1>8, <1>9, <1>10 DEF IInv

\* A connection without its client, as the calls of the refresher always are.
Waiting(a) == a \in Task => used[a] = Unset
\* A connection has no client before its call is done.
LEMMA UndoneWait == ASSUME IInv, NEW a \in Actor, call[a].pc # "done" PROVE Waiting(a)
BY DEF IInv, ClientsAreOfTheirSnapshot, Waiting

\* The entry of the cache that a call finds is a route of its snapshot.
LEMMA EntryIsPossible ==
    ASSUME IInv, NEW a \in Actor, call[a].pc # "idle", Entry(a) # NoEntry
    PROVE  Possible(call[a].generation, call[a].target, Entry(a))
<1>1. call[a].generation \in Generation /\ call[a].target \in Target
  BY GenerationsSuffice DEF IInv, CallsAreOfSnapshots
<1> QED BY <1>1 DEF IInv, CacheIsOfItsSnapshot, Possible, Entry

\* What the policy answers at once.
LEMMA AtOnceIsPossible ==
    ASSUME NEW g, NEW target, ~AsksOutside(g, target)
    PROVE  Possible(g, target, RouteNow(Policy(g), "https", target))
BY DEF Possible

\* A step within a call, which keeps its snapshot and its target.
LEMMA GoesOn ==
    ASSUME IInv, NEW a \in Actor, call[a].pc # "idle", Waiting(a), NEW pc \in {"blocking", "locking", "routed", "done"}, NEW route,
           call' = [call EXCEPT ![a].pc = pc, ![a].route = route],
           UNCHANGED <<os, changes, published, refresher, pac, clients, used>>,
           pc = "locking" => AsksOutside(call[a].generation, call[a].target),
           pc \in {"routed", "done"} => route = Failed \/ Possible(call[a].generation, call[a].target, route)
    PROVE  IInv'
<1>1. call' = [call EXCEPT ![a] = Call(pc, call[a].generation, call[a].target, route)]
  <2>1. call[a] = Call(call[a].pc, call[a].generation, call[a].target, call[a].route)
    BY DEF IInv, Shape, Call
  <2>2. PICK p, g, target, r : call[a] = Call(p, g, target, r)
    BY <2>1
  <2>3. [call[a] EXCEPT !.pc = pc, !.route = route] = Call(pc, g, target, route)
    <3>1. [call[a] EXCEPT !.pc = pc, !.route = route] = [[call[a] EXCEPT !.pc = pc] EXCEPT !.route = route]
      OBVIOUS
    <3>2. [call[a] EXCEPT !.pc = pc] = Call(pc, g, target, r)
      BY <2>2 DEF Call
    <3>3. [Call(pc, g, target, r) EXCEPT !.route = route] = Call(pc, g, target, route)
      BY DEF Call
    <3> QED BY <3>1, <3>2, <3>3
  <2>4. g = call[a].generation /\ target = call[a].target
    BY <2>2 DEF Call
  <2> QED BY <2>3, <2>4
<1>2. call[a].generation \in 1 .. Current /\ call[a].target \in Target
  BY DEF IInv, CallsAreOfSnapshots
<1> QED BY <1>1, <1>2, CallStep DEF Pc, Waiting
\* The same without a route.
LEMMA Moves ==
    ASSUME IInv, NEW a \in Actor, NEW pc, To(a, pc)
    PROVE  call' = [call EXCEPT ![a].pc = pc, ![a].route = call[a].route]
BY DEF IInv, Shape, To

\* The connections' steps before they evaluate or have their route.
LEMMA TaskRoutes ==
    ASSUME IInv, NEW t \in Task,
           (\E target \in Target : Ask(t, target)) \/ RouteAtOnce(t) \/ RouteCached(t) \/ Permit(t) \/ TimeOut(t) \/ Fail(t)
    PROVE  IInv'
<1>0. t \in Actor
  BY DEF Actor
<1> DEFINE g == call[t].generation
           target == call[t].target
<1>1. ASSUME NEW x \in Target, Ask(t, x) PROVE IInv'
  <2>1. call' = [call EXCEPT ![t] = Call("routing", Current, x, Unset)] /\ call[t].pc = "idle"
        /\ UNCHANGED <<os, changes, published, refresher, pac, clients, used>>
    BY <1>1 DEF Ask, Call
  <2>2. Current \in 1 .. Current
    BY GenerationsSuffice DEF IInv
  <2>3. used[t] = Unset
    BY <1>0, <2>1, UndoneWait DEF Waiting
  <2> QED BY <1>0, <2>1, <2>2, <2>3, CallStep DEF Pc
<1>2. CASE RouteAtOnce(t)
  <2>1. call' = [call EXCEPT ![t].pc = "routed", ![t].route = RouteNow(Policy(g), "https", target)] /\ call[t].pc = "routing"
        /\ UNCHANGED <<os, changes, published, refresher, pac, clients, used>>
    BY <1>2 DEF RouteAtOnce, Routed
  <2>2. Possible(g, target, RouteNow(Policy(g), "https", target))
    BY <1>2, AtOnceIsPossible DEF RouteAtOnce, Automatic, AsksOutside
  <2>3. Waiting(t)
    BY <1>0, <2>1, UndoneWait
  <2> QED BY <1>0, <2>1, <2>2, <2>3, GoesOn
<1>3. CASE RouteCached(t)
  <2>1. call' = [call EXCEPT ![t].pc = "routed", ![t].route = Entry(t)] /\ call[t].pc = "routing" /\ Entry(t) # NoEntry
        /\ UNCHANGED <<os, changes, published, refresher, pac, clients, used>>
    BY <1>3 DEF RouteCached, Routed
  <2>2. Possible(g, target, Entry(t))
    BY <1>0, <2>1, EntryIsPossible
  <2>3. Waiting(t)
    BY <1>0, <2>1, UndoneWait
  <2> QED BY <1>0, <2>1, <2>2, <2>3, GoesOn
<1>4. CASE Permit(t)
  <2>1. To(t, "blocking") /\ call[t].pc = "routing" /\ UNCHANGED <<os, changes, published, refresher, pac, clients, used>>
    BY <1>4 DEF Permit
  <2>2. call' = [call EXCEPT ![t].pc = "blocking", ![t].route = call[t].route]
    BY <1>0, <2>1, Moves
  <2>3. Waiting(t)
    BY <1>0, <2>1, UndoneWait
  <2> QED BY <1>0, <2>1, <2>2, <2>3, GoesOn
<1>5. CASE TimeOut(t)
  <2>1. call' = [call EXCEPT ![t].pc = "routed", ![t].route = Failed] /\ call[t].pc = "routing"
        /\ UNCHANGED <<os, changes, published, refresher, pac, clients, used>>
    BY <1>5 DEF TimeOut, Routed
  <2>3. Waiting(t)
    BY <1>0, <2>1, UndoneWait
  <2> QED BY <1>0, <2>1, <2>3, GoesOn
<1>6. CASE Fail(t)
  <2>1. To(t, "done") /\ call[t].pc = "routed" /\ UNCHANGED <<os, changes, published, refresher, pac, clients, used>>
    BY <1>6 DEF Fail
  <2>2. call' = [call EXCEPT ![t].pc = "done", ![t].route = call[t].route]
    BY <1>0, <2>1, Moves
  <2>3. Waiting(t)
    BY <1>0, <2>1, UndoneWait
  <2>4. call[t].route = Failed \/ Possible(g, target, call[t].route)
    BY <1>0, <2>1 DEF IInv, CallsAreOfSnapshots
  <2> QED BY <1>0, <2>1, <2>2, <2>3, <2>4, GoesOn
<1> QED BY <1>1, <1>2, <1>3, <1>4, <1>5, <1>6

\* A blocking thread looks at the policy and at the cache.
LEMMA BlockingStep == ASSUME IInv, NEW a \in Actor, Blocking(a) PROVE IInv'
<1> DEFINE g == call[a].generation
           target == call[a].target
<1>1. call[a].pc = "blocking" /\ UNCHANGED <<os, changes, published, refresher, pac, clients, used>>
  BY DEF Blocking
<1>2. Waiting(a)
  BY <1>1, UndoneWait
<1>3. CASE ~AsksOutside(g, target)
  <2> DEFINE route == IF Automatic(a) THEN Direct ELSE RouteNow(Policy(g), "https", target)
  <2>1. Routed(a, route)
    BY <1>3 DEF Blocking, AsksOutside, Automatic
  <2>2. call' = [call EXCEPT ![a].pc = "routed", ![a].route = route]
    BY <2>1 DEF Routed
  <2>3. route = RouteNow(Policy(g), "https", target)
    BY <1>3 DEF RouteNow, AsksOutside, Automatic
  <2>4. Possible(g, target, route)
    BY <1>3, <2>3, AtOnceIsPossible
  <2> QED BY <1>1, <1>2, <2>2, <2>4, GoesOn
<1>4. CASE AsksOutside(g, target) /\ Entry(a) # NoEntry
  <2>1. call' = [call EXCEPT ![a].pc = "routed", ![a].route = Entry(a)]
    BY <1>4 DEF Blocking, AsksOutside, Automatic, Routed
  <2>2. Possible(g, target, Entry(a))
    BY <1>1, <1>4, EntryIsPossible
  <2> QED BY <1>1, <1>2, <2>1, <2>2, GoesOn
<1>5. CASE AsksOutside(g, target) /\ Entry(a) = NoEntry
  <2>1. To(a, "locking")
    BY <1>5 DEF Blocking, AsksOutside, Automatic
  <2>2. call' = [call EXCEPT ![a].pc = "locking", ![a].route = call[a].route]
    BY <2>1, Moves
  <2> QED BY <1>1, <1>2, <1>5, <2>2, GoesOn
<1> QED BY <1>3, <1>4, <1>5

\* The refresher starts to resolve a target, and drops the result.
LEMMA WarmStep == ASSUME IInv, Warmed \/ \E target \in Target : Warm(target) PROVE IInv'
<1>0. Refresher \in Actor /\ Refresher \notin Task
  BY UpstreamAssumption DEF Actor
<1>1. ASSUME NEW x \in Target, Warm(x) PROVE IInv'
  <2>1. /\ call' = [call EXCEPT ![Refresher] = Call("blocking", Current, x, Unset)]
        /\ refresher' = [refresher EXCEPT !.warm = refresher.warm \ {x}]
        /\ UNCHANGED <<os, changes, published, pac, clients, used>>
    BY <1>1 DEF Warm, Call
  <2>2. Current \in 1 .. Current
    BY GenerationsSuffice DEF IInv
  <2>3. refresher.warm \ {x} \in SUBSET Target
    BY DEF IInv, Shape
  <2>4. "blocking" \in Pc \ {"evaluating"} /\ Waiting(Refresher)
    BY <1>0 DEF Pc, Waiting
  <2>5. \E w \in SUBSET Target : refresher' = [refresher EXCEPT !.warm = w]
    BY <2>1, <2>3
  <2> QED BY <1>0, <2>1, <2>2, <2>4, <2>5, CallStep DEF Waiting
<1>2. CASE Warmed
  <2>1. /\ call' = [call EXCEPT ![Refresher] = Call("idle", 0, Unset, Unset)]
        /\ UNCHANGED <<os, changes, published, refresher, pac, clients, used>>
    BY <1>2 DEF Warmed, NoCall, Call
  <2>2. "idle" \in Pc \ {"evaluating"} /\ Waiting(Refresher)
    BY <1>0 DEF Pc, Waiting
  <2> QED BY <1>0, <2>1, <2>2, CallStep DEF Waiting
<1> QED BY <1>1, <1>2

(***************************************************************************)
(* Evaluations: what they do to the caches.                                *)
(***************************************************************************)
\* A call that must ask outside starts to evaluate, or has the answer.
Evaluates(a, pc, route) ==
    /\ Waiting(a) /\ call[a].pc \notin {"idle", "done"}
    /\ AsksOutside(call[a].generation, call[a].target)
    /\ pc = "routed" => AutomaticRoute(call[a].generation, call[a].target, route)
    /\ call'[a] = Call(pc, call[a].generation, call[a].target, route)
\* An entry of the cache is one of before, or a route of its snapshot.
Caches(g, target) ==
    pac'[g].cache[target] # NoEntry =>
       \/ pac'[g].cache[target] = pac[g].cache[target]
       \/ /\ g \in 1 .. Current /\ AsksOutside(g, target)
          /\ AutomaticRoute(g, target, pac'[g].cache[target])
\* A step that evaluates, or lets entries expire, keeps the invariant.
LEMMA EvaluationStep ==
    ASSUME IInv, UNCHANGED <<os, changes, published, refresher, clients, used>>,
           DOMAIN call' = Actor,
           \A a \in Actor : \/ call'[a] = call[a]
                            \/ \E pc \in {"evaluating", "routed"} : \E route : Evaluates(a, pc, route),
           DOMAIN pac' = Generation,
           \A g \in Generation : /\ DOMAIN pac'[g] = {"cache", "nothingFound", "evaluator"}
                                 /\ DOMAIN pac'[g].cache = Target
                                 /\ \A target \in Target : Caches(g, target),
           OneEvaluation'
    PROVE  IInv'
<1>1. Shape'
  <2>1. \A a \in Actor :
           /\ call'[a] = [pc |-> call'[a].pc, generation |-> call'[a].generation, target |-> call'[a].target, route |-> call'[a].route]
           /\ call'[a].pc \in Pc
    <3> SUFFICES ASSUME NEW a \in Actor
                 PROVE  /\ call'[a] = [pc |-> call'[a].pc, generation |-> call'[a].generation, target |-> call'[a].target, route |-> call'[a].route]
                        /\ call'[a].pc \in Pc
      OBVIOUS
    <3>1. CASE call'[a] = call[a]
      BY <3>1 DEF IInv, Shape
    <3>2. ASSUME NEW pc \in {"evaluating", "routed"}, NEW route, Evaluates(a, pc, route)
          PROVE  /\ call'[a] = [pc |-> call'[a].pc, generation |-> call'[a].generation, target |-> call'[a].target, route |-> call'[a].route]
                 /\ call'[a].pc \in Pc
      BY <3>2 DEF Evaluates, Call, Pc
    <3> QED BY <3>1, <3>2
  <2> QED BY <2>1 DEF IInv, Shape
<1>2. SnapshotsAreCounted'
  BY DEF IInv, SnapshotsAreCounted, Unread, Unpublished, Current, Changed, Inputs
<1>3. Current' = Current /\ \A g : Policy(g)' = Policy(g)
  BY DEF Current, Policy
<1>4. \A g, x, r : /\ AsksOutside(g, x)' = AsksOutside(g, x)
                   /\ AutomaticRoute(g, x, r)' = AutomaticRoute(g, x, r)
                   /\ Possible(g, x, r)' = Possible(g, x, r)
  BY <1>3, PossibleStays
<1>5. CallsAreOfSnapshots'
  <2> SUFFICES ASSUME NEW a \in Actor
               PROVE  /\ call'[a].pc # "idle" => call'[a].generation \in 1 .. Current /\ call'[a].target \in Target
                      /\ call'[a].pc \in {"locking", "evaluating"} => AsksOutside(call'[a].generation, call'[a].target)
                      /\ call'[a].pc \in {"routed", "done"} =>
                            call'[a].route = Failed \/ Possible(call'[a].generation, call'[a].target, call'[a].route)
    BY <1>3, <1>4 DEF CallsAreOfSnapshots
  <2>1. CASE call'[a] = call[a]
    BY <2>1 DEF IInv, CallsAreOfSnapshots
  <2>2. CASE \E pc \in {"evaluating", "routed"} : \E route : Evaluates(a, pc, route)
    <3>0. PICK pc \in {"evaluating", "routed"} : \E route : Evaluates(a, pc, route)
      BY <2>2
    <3>1. PICK route : Evaluates(a, pc, route)
      BY <3>0
    <3>2. /\ call'[a].pc = pc /\ call'[a].generation = call[a].generation /\ call'[a].target = call[a].target
          /\ call'[a].route = route
      BY <3>1 DEF Evaluates, Call
    <3>3. call[a].generation \in 1 .. Current /\ call[a].target \in Target
      BY <3>1 DEF IInv, CallsAreOfSnapshots, Evaluates
    <3>4. pc = "routed" => Possible(call[a].generation, call[a].target, route)
      BY <3>1 DEF Evaluates, Possible
    <3> QED BY <3>1, <3>2, <3>3, <3>4 DEF Evaluates
  <2> QED BY <2>1, <2>2
<1>6. CacheIsOfItsSnapshot'
  BY <1>3, <1>4 DEF IInv, CacheIsOfItsSnapshot, Caches
<1>7. ClientsAreOfTheirSnapshot'
  <2>1. ASSUME NEW t \in Task, used[t] # Unset
        PROVE  call'[t] = call[t]
    <3>1. t \in Actor /\ call[t].pc = "done"
      BY <2>1 DEF Actor, IInv, ClientsAreOfTheirSnapshot
    <3> QED BY <3>1 DEF Evaluates
  <2> QED BY <2>1 DEF IInv, ClientsAreOfTheirSnapshot
<1> QED BY <1>1, <1>2, <1>5, <1>6, <1>7 DEF IInv

\* A call that is under way is about a generation and a target of the model.
LEMMA CallsAreTyped ==
    ASSUME IInv, NEW a \in Actor, call[a].pc # "idle"
    PROVE  /\ call[a].generation \in Generation /\ call[a].generation \in 1 .. Current /\ call[a].target \in Target
BY GenerationsSuffice DEF IInv, CallsAreOfSnapshots

\* A call whose position and perhaps route changes, as the record it becomes.
Becomes(a, pc, route) == call' = [call EXCEPT ![a].pc = pc, ![a].route = route]
\* It is then this record, and the other calls are as they were.
LEMMA CallBecomes ==
    ASSUME IInv, NEW a \in Actor, NEW pc, NEW route, Becomes(a, pc, route)
    PROVE  /\ DOMAIN call' = Actor /\ \A b \in Actor \ {a} : call'[b] = call[b]
           /\ call'[a] = Call(pc, call[a].generation, call[a].target, route)
<1>1. DOMAIN call' = Actor /\ \A b \in Actor \ {a} : call'[b] = call[b]
  BY DEF IInv, Shape, Becomes
<1>2. /\ DOMAIN call[a] = {"pc", "generation", "target", "route"}
  BY DEF IInv, Shape, Becomes
<1>3. call'[a] = [[call[a] EXCEPT !.pc = pc] EXCEPT !.route = route]
  BY DEF IInv, Shape, Becomes
<1>4. DOMAIN call'[a] = {"pc", "generation", "target", "route"}
  BY <1>2, <1>3
<1>5. call'[a].pc = pc /\ call'[a].route = route
  BY <1>2, <1>3
<1>6. call'[a].generation = call[a].generation /\ call'[a].target = call[a].target
  BY <1>2, <1>3
<1>7. call'[a] = [x \in {"pc", "generation", "target", "route"} |-> call'[a][x]]
  BY <1>3, <1>4
<1>8. Call(pc, call[a].generation, call[a].target, route)
        = [x \in {"pc", "generation", "target", "route"} |-> Call(pc, call[a].generation, call[a].target, route)[x]]
  BY DEF Call
<1> QED BY <1>1, <1>5, <1>6, <1>7, <1>8 DEF Call

\* The evaluation lock.
LEMMA LockStep == ASSUME IInv, NEW a \in Actor, Lock(a) PROVE IInv'
<1> DEFINE g == call[a].generation
           target == call[a].target
<1>1. call[a].pc = "locking" /\ pac[g].evaluator = Nobody /\ UNCHANGED <<os, changes, published, refresher, clients, used>>
  BY DEF Lock
<1>2. Waiting(a) /\ g \in Generation /\ target \in Target
  BY <1>1, UndoneWait, CallsAreTyped
<1>3. AsksOutside(g, target)
  BY <1>1 DEF IInv, CallsAreOfSnapshots
<1>4. CASE ~NotAnswered(a)
  <2>1. call' = [call EXCEPT ![a].pc = "routed", ![a].route = Entry(a)] /\ UNCHANGED pac
    BY <1>4 DEF Lock, Routed
  <2>2. Possible(g, target, Entry(a))
    BY <1>1, <1>4, EntryIsPossible DEF NotAnswered
  <2> QED BY <1>1, <1>2, <2>1, <2>2, GoesOn
<1>5. CASE NotAnswered(a)
  <2>1. To(a, "evaluating") /\ pac' = [pac EXCEPT ![g].evaluator = a]
    BY <1>5 DEF Lock
  <2>2. /\ DOMAIN call' = Actor /\ \A b \in Actor \ {a} : call'[b] = call[b]
        /\ call'[a] = Call("evaluating", g, target, call[a].route)
    <3>1. Becomes(a, "evaluating", call[a].route)
      BY <2>1, Moves DEF Becomes
    <3> QED BY <3>1, CallBecomes
  <2>3. Evaluates(a, "evaluating", call[a].route)
    BY <1>1, <1>2, <1>3, <2>2 DEF Evaluates
  <2>4. /\ DOMAIN pac' = Generation
        /\ \A h \in Generation : /\ DOMAIN pac'[h] = {"cache", "nothingFound", "evaluator"}
                                 /\ pac'[h].cache = pac[h].cache
        /\ pac'[g].evaluator = a /\ \A h \in Generation \ {g} : pac'[h].evaluator = pac[h].evaluator
    BY <1>2, <2>1 DEF IInv, Shape
  <2>5. \A h \in Generation : DOMAIN pac'[h].cache = Target /\ \A x \in Target : Caches(h, x)
    BY <2>4 DEF IInv, Shape, Caches
  <2>6. OneEvaluation'
    <3> SUFFICES ASSUME NEW b \in Actor, call'[b].pc = "evaluating"
                 PROVE  /\ pac'[call'[b].generation].cache[call'[b].target] = NoEntry
                        /\ pac'[call'[b].generation].evaluator = b
      BY DEF OneEvaluation, Entry
    <3>1. CASE b = a
      BY <1>2, <1>5, <2>2, <2>4, <3>1 DEF Call, NotAnswered, Entry
    <3>2. CASE b # a
      <4>1. call'[b] = call[b]
        BY <2>2, <3>2
      <4>2. call[b].generation \in Generation /\ Entry(b) = NoEntry /\ pac[call[b].generation].evaluator = b
        BY <4>1, CallsAreTyped DEF IInv, OneEvaluation
      <4>3. b # Nobody
        BY UpstreamAssumption DEF Actor
      <4> QED BY <1>1, <2>4, <4>1, <4>2, <4>3 DEF Entry
    <3> QED BY <3>1, <3>2
  <2>7. \A b \in Actor : call'[b] = call[b] \/ \E pc \in {"evaluating", "routed"} : \E route : Evaluates(b, pc, route)
    BY <2>2, <2>3
  <2> QED BY <1>1, <2>2, <2>4, <2>5, <2>6, <2>7, EvaluationStep
<1> QED BY <1>4, <1>5

\* WinHTTP's answer.
LEMMA EvaluateStep == ASSUME IInv, NEW a \in Actor, NEW outcome \in Outcome, Evaluate(a, outcome) PROVE IInv'
<1> DEFINE g == call[a].generation
           target == call[a].target
           detect == Policy(g).detect /\ ~pac[g].nothingFound
           route == PacRoute(Policy(g), detect, "https", target, outcome)
           asked == target \notin Policy(g).fallback.bypass /\ (detect \/ Policy(g).script)
           found == asked /\ outcome = "notFound" /\ ~Policy(g).script
<1>1. call[a].pc = "evaluating" /\ UNCHANGED <<os, changes, published, refresher, clients, used>>
  BY DEF Evaluate
<1>2. Waiting(a) /\ g \in Generation /\ g \in 1 .. Current /\ target \in Target
  BY <1>1, UndoneWait, CallsAreTyped
<1>3. AsksOutside(g, target) /\ pac[g].evaluator = a
  BY <1>1 DEF IInv, CallsAreOfSnapshots, OneEvaluation
<1>4. AutomaticRoute(g, target, route)
  <2>1. detect \in BOOLEAN
    BY Zenon
  <2> QED BY <2>1 DEF AutomaticRoute
<1>5. /\ Routed(a, route)
      /\ pac' = [Answered(a, route) EXCEPT ![g].nothingFound = @ \/ found]
  BY DEF Evaluate
<1> HIDE DEF route
<1>6. Evaluates(a, "routed", route) /\ DOMAIN call' = Actor /\ \A b \in Actor \ {a} : call'[b] = call[b]
  <2>1. /\ DOMAIN call' = Actor /\ \A b \in Actor \ {a} : call'[b] = call[b]
        /\ call'[a] = Call("routed", g, target, route)
    <3>1. Becomes(a, "routed", route)
      BY <1>5 DEF Routed, Becomes
    <3> QED BY <3>1, CallBecomes
  <2> QED BY <1>1, <1>2, <1>3, <1>4, <2>1 DEF Evaluates
<1>7. /\ DOMAIN pac' = Generation
      /\ \A h \in Generation \ {g} : pac'[h] = pac[h]
      /\ DOMAIN pac'[g] = {"cache", "nothingFound", "evaluator"}
      /\ pac'[g].evaluator = Nobody
      /\ pac'[g].cache = [pac[g].cache EXCEPT ![target] = route]
  <2> DEFINE answered == Answered(a, route)
             entry == [[pac[g] EXCEPT !.evaluator = Nobody] EXCEPT !.cache[target] = route]
  <2>0. DOMAIN pac = Generation /\ DOMAIN pac[g] = {"cache", "nothingFound", "evaluator"}
    BY <1>2 DEF IInv, Shape
  <2>1. /\ DOMAIN answered = Generation /\ \A h \in Generation \ {g} : answered[h] = pac[h]
        /\ answered[g] = entry
    BY <1>2, <2>0 DEF Answered
  <2>2. /\ DOMAIN entry = {"cache", "nothingFound", "evaluator"} /\ entry.evaluator = Nobody
        /\ entry.cache = [pac[g].cache EXCEPT ![target] = route]
    BY <2>0
  <2> HIDE DEF answered, entry
  <2>3. pac' = [answered EXCEPT ![g].nothingFound = answered[g].nothingFound \/ found]
    BY <1>5 DEF answered
  <2> QED BY <1>2, <2>1, <2>2, <2>3
<1>8. \A h \in Generation : /\ DOMAIN pac'[h] = {"cache", "nothingFound", "evaluator"} /\ DOMAIN pac'[h].cache = Target
                            /\ \A x \in Target : Caches(h, x)
  BY <1>2, <1>3, <1>4, <1>7 DEF IInv, Shape, Caches
<1>9. OneEvaluation'
  <2> SUFFICES ASSUME NEW b \in Actor, call'[b].pc = "evaluating"
               PROVE  /\ pac'[call'[b].generation].cache[call'[b].target] = NoEntry
                      /\ pac'[call'[b].generation].evaluator = b
    BY DEF OneEvaluation, Entry
  <2>1. b # a /\ call'[b] = call[b]
    BY <1>6 DEF Evaluates, Call
  <2>2. call[b].generation \in Generation /\ Entry(b) = NoEntry /\ pac[call[b].generation].evaluator = b
    BY <2>1, CallsAreTyped DEF IInv, OneEvaluation
  <2> QED BY <1>3, <1>7, <2>1, <2>2 DEF Entry
<1>10. \A b \in Actor : call'[b] = call[b] \/ \E pc \in {"evaluating", "routed"} : \E r : Evaluates(b, pc, r)
  BY <1>6
<1> QED BY <1>1, <1>6, <1>7, <1>8, <1>9, <1>10, EvaluationStep

\* What has expired.
LEMMA ExpireStep ==
    ASSUME IInv, NEW g \in Generation, DetectAgain(g) \/ \E target \in Target : Expire(g, target)
    PROVE  IInv'
<1>1. UNCHANGED <<os, changes, published, refresher, call, clients, used>>
  BY DEF DetectAgain, Expire
<1>2. /\ DOMAIN pac' = Generation
      /\ \A h \in Generation :
            /\ DOMAIN pac'[h] = {"cache", "nothingFound", "evaluator"} /\ pac'[h].evaluator = pac[h].evaluator
            /\ DOMAIN pac'[h].cache = Target
            /\ \A x \in Target : pac'[h].cache[x] \in {NoEntry, pac[h].cache[x]}
  <2>1. CASE DetectAgain(g)
    BY <2>1 DEF IInv, Shape, DetectAgain
  <2>2. CASE \E x \in Target : Expire(g, x)
    <3>1. PICK x \in Target : pac' = [pac EXCEPT ![g].cache[x] = NoEntry]
      BY <2>2 DEF Expire
    <3> QED BY <3>1 DEF IInv, Shape
  <2> QED BY <2>1, <2>2
<1>3. DOMAIN call' = Actor /\ \A h \in Generation, x \in Target : Caches(h, x)
  BY <1>1, <1>2 DEF Caches, IInv, Shape
<1>4. OneEvaluation'
  <2> SUFFICES ASSUME NEW b \in Actor, call[b].pc = "evaluating"
               PROVE  /\ pac'[call[b].generation].cache[call[b].target] = NoEntry
                      /\ pac'[call[b].generation].evaluator = b
    BY <1>1 DEF OneEvaluation, Entry
  <2>1. /\ call[b].generation \in Generation /\ call[b].target \in Target
        /\ Entry(b) = NoEntry /\ pac[call[b].generation].evaluator = b
    BY CallsAreTyped DEF IInv, OneEvaluation
  <2> QED BY <1>2, <2>1 DEF Entry
<1> QED BY <1>1, <1>2, <1>3, <1>4, EvaluationStep

(***************************************************************************)
(* Clients, and the theorem.                                               *)
(***************************************************************************)
\* A connection gets its client, from the pool or a new one.
LEMMA ClientStep == ASSUME IInv, NEW t \in Task, GetClient(t) PROVE IInv'
<1> DEFINE g == call[t].generation
           route == call[t].route
           pool == Pool(g)
           built == [generation |-> g, route |-> route]
<1>1. /\ t \in Actor /\ call[t].pc = "routed" /\ route # Failed
      /\ UNCHANGED <<os, changes, published, refresher, pac>>
  BY DEF Actor, GetClient, HasRoute
<1>2. used' = [used EXCEPT ![t] = built]
  <2>1. ASSUME NEW c \in pool.of, g = pool.generation, c.route = route
        PROVE  c = built
    BY <2>1 DEF Pool, IInv, ClientsAreOfTheirSnapshot
  <2> QED BY <2>1 DEF GetClient, SnapshotOf
<1>3. /\ clients' = [generation |-> clients'.generation, of |-> clients'.of] /\ clients'.generation \in Nat
      /\ \A c \in clients'.of : c = [generation |-> clients'.generation, route |-> c.route]
  <2>1. g \in Nat
    BY <1>1, CallsAreTyped
  <2>2. /\ pool = [generation |-> pool.generation, of |-> pool.of] /\ pool.generation \in Nat
        /\ \A c \in pool.of : c = [generation |-> pool.generation, route |-> c.route]
    BY <2>1 DEF Pool, IInv, Shape, ClientsAreOfTheirSnapshot
  <2>3. clients' = pool \/ (g = pool.generation /\ clients' = [pool EXCEPT !.of = pool.of \cup {built}])
    BY DEF GetClient, SnapshotOf
  <2>4. ASSUME g = pool.generation, clients' = [pool EXCEPT !.of = pool.of \cup {built}]
        PROVE  /\ clients' = [generation |-> clients'.generation, of |-> clients'.of] /\ clients'.generation \in Nat
               /\ \A c \in clients'.of : c = [generation |-> clients'.generation, route |-> c.route]
    <3> HIDE DEF pool
    <3>1. clients' = [generation |-> g, of |-> pool.of \cup {built}]
      BY <2>2, <2>4
    <3> QED BY <2>1, <2>2, <2>4, <3>1
  <2> QED BY <2>2, <2>3, <2>4
<1>4. /\ DOMAIN call' = Actor /\ \A b \in Actor \ {t} : call'[b] = call[b]
      /\ call'[t] = Call("done", g, call[t].target, route)
  <2>1. Becomes(t, "done", route)
    BY <1>1, Moves DEF GetClient, Becomes
  <2> QED BY <1>1, <2>1, CallBecomes
<1>5. Shape'
  <2>1. \A a \in Actor :
           /\ call'[a] = [pc |-> call'[a].pc, generation |-> call'[a].generation, target |-> call'[a].target, route |-> call'[a].route]
           /\ call'[a].pc \in Pc
    BY <1>4 DEF IInv, Shape, Call, Pc
  <2> QED BY <1>1, <1>2, <1>3, <1>4, <2>1 DEF IInv, Shape
<1>6. SnapshotsAreCounted'
  BY <1>1 DEF IInv, SnapshotsAreCounted, Unread, Unpublished, Current, Changed, Inputs
<1>7. Current' = Current /\ \A h : Policy(h)' = Policy(h)
  BY <1>1 DEF Current, Policy
<1>8. \A h, x, r : /\ AsksOutside(h, x)' = AsksOutside(h, x)
                   /\ AutomaticRoute(h, x, r)' = AutomaticRoute(h, x, r)
                   /\ Possible(h, x, r)' = Possible(h, x, r)
  BY <1>7, PossibleStays
<1>9. CallsAreOfSnapshots'
  BY <1>1, <1>4, <1>7, <1>8 DEF IInv, CallsAreOfSnapshots, Call
<1>10. CacheIsOfItsSnapshot'
  BY <1>1, <1>7, <1>8 DEF IInv, CacheIsOfItsSnapshot
<1>11. ClientsAreOfTheirSnapshot'
  <2>1. DOMAIN used = Task
    BY DEF IInv, Shape
  <2>2. \A x \in Task : used'[x] # Unset =>
           /\ call'[x].pc = "done" /\ call'[x].route # Failed
           /\ used'[x] = [generation |-> call'[x].generation, route |-> call'[x].route]
    BY <1>1, <1>2, <1>4, <2>1 DEF IInv, ClientsAreOfTheirSnapshot, Call, Actor
  <2> QED BY <1>3, <2>2 DEF ClientsAreOfTheirSnapshot
<1>12. OneEvaluation'
  BY <1>1, <1>4 DEF IInv, OneEvaluation, Entry, Call
<1> QED BY <1>5, <1>6, <1>9, <1>10, <1>11, <1>12 DEF IInv

\* A step that changes nothing.
LEMMA StutteringStep == ASSUME IInv, UNCHANGED vars PROVE IInv'
<1>1. Routing'
  BY RoutingStays DEF vars
<1>2. Shape'
  BY DEF IInv, Shape, vars
<1>3. SnapshotsAreCounted'
  BY DEF IInv, SnapshotsAreCounted, Unread, Unpublished, Current, Changed, vars, Inputs
<1> QED BY <1>1, <1>2, <1>3 DEF IInv, Routing

\* Every step keeps the invariant.
LEMMA NextIInv == IInv /\ [Next]_vars => IInv'
<1> SUFFICES ASSUME IInv, [Next]_vars PROVE IInv'
  OBVIOUS
<1>0. Refresher \in Actor /\ Task \subseteq Actor
  BY DEF Actor
<1>1. CASE UNCHANGED vars
  BY <1>1, StutteringStep
<1>2. CASE ChangeSystem
  BY <1>2, RefreshStep
<1>3. CASE RefresherStep
  <2>1. CASE Read \/ Publish \/ Wait
    BY <2>1, RefreshStep
  <2>2. CASE Warmed \/ \E target \in Target : Warm(target)
    BY <2>2, WarmStep
  <2>3. CASE Blocking(Refresher) \/ Lock(Refresher)
    BY <1>0, <2>3, BlockingStep, LockStep
  <2>4. CASE \E outcome \in Outcome : Evaluate(Refresher, outcome)
    BY <1>0, <2>4, EvaluateStep
  <2> QED BY <1>3, <2>1, <2>2, <2>3, <2>4 DEF RefresherStep
<1>4. ASSUME NEW t \in Task, TaskStep(t) PROVE IInv'
  <2>1. CASE RouteAtOnce(t) \/ RouteCached(t) \/ Permit(t) \/ TimeOut(t) \/ Fail(t)
    BY <2>1, TaskRoutes
  <2>2. CASE Blocking(t) \/ Lock(t)
    BY <1>0, <2>2, BlockingStep, LockStep
  <2>3. CASE \E outcome \in Outcome : Evaluate(t, outcome)
    BY <1>0, <2>3, EvaluateStep
  <2>4. CASE GetClient(t)
    BY <2>4, ClientStep
  <2> QED BY <1>4, <2>1, <2>2, <2>3, <2>4 DEF TaskStep
<1>5. ASSUME NEW t \in Task, \E target \in Target : Ask(t, target) PROVE IInv'
  BY <1>5, TaskRoutes
<1>6. ASSUME NEW g \in Generation, DetectAgain(g) \/ \E target \in Target : Expire(g, target) PROVE IInv'
  BY <1>6, ExpireStep
<1> QED BY <1>1, <1>2, <1>3, <1>4, <1>5, <1>6 DEF Next

\* What the invariant says of a connection with its client.
LEMMA IInvAgrees == IInv => ConnectionsAgree
<1> SUFFICES ASSUME IInv PROVE ClientOfItsSnapshot
  BY DEF ConnectionsAgree, IInv
<1> SUFFICES ASSUME NEW t \in Task, used[t] # Unset
             PROVE  /\ used[t] = [generation |-> call[t].generation, route |-> call[t].route]
                    /\ Possible(call[t].generation, call[t].target, used[t].route)
  BY DEF ClientOfItsSnapshot, Possible, AsksOutside, AutomaticRoute
<1>1. t \in Actor /\ call[t].pc = "done" /\ call[t].route # Failed
      /\ used[t] = [generation |-> call[t].generation, route |-> call[t].route]
  BY DEF Actor, IInv, ClientsAreOfTheirSnapshot
<1>2. Possible(call[t].generation, call[t].target, call[t].route)
  BY <1>1 DEF IInv, CallsAreOfSnapshots
<1> QED BY <1>1, <1>2

\* Whatever is published, read, evaluated and expired while a connection waits
\* for its route, its client is one for the snapshot that it took when it
\* started, and goes where that snapshot's policy can send it; and an
\* evaluation that runs is the only one of its snapshot, for an answer that
\* the cache does not have (Snapshot::route, PacState::route, HttpClients).
THEOREM ConnectionsAlwaysAgree == Spec => []ConnectionsAgree
<1>1. Init => IInv
  BY InitIInv
<1>2. IInv /\ [Next]_vars => IInv'
  BY NextIInv
<1>3. IInv => ConnectionsAgree
  BY IInvAgrees
<1> QED BY <1>1, <1>2, <1>3, PTL DEF Spec

\* The refresher publishes a snapshot only for a change of the system's
\* configuration: readings that change nothing keep the caches and the pool.
THEOREM SnapshotsFollowChanges == Spec => [](Current <= changes + 1)
<1>1. IInv => Current <= changes + 1
  BY GenerationsSuffice DEF IInv, SnapshotsAreCounted, Shape
<1> QED BY <1>1, InitIInv, NextIInv, PTL DEF Spec
=============================================================================
