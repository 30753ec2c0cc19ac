-------------------------------- MODULE Locks --------------------------------
(***************************************************************************)
(* The goroutines of the daemon (cmd/pikonoded) and what they wait for:    *)
(* the mutex of the engine, wgLock, seenMut, dnsMut, the channel of the    *)
(* gateway, and answers from the network.  wsLock is taken with no other   *)
(* mutex held, and by none of these goroutines but Gateway's: it has its   *)
(* place in module Gateway, with the goroutine that reports our endpoint.  *)
(*                                                                         *)
(* Each goroutine runs programs, sequences of the operations it can wait   *)
(* at and of the calls of the WireGuard device; what the calls do is in    *)
(* module WgSync.  A callback that loops over peers makes one round.       *)
(***************************************************************************)
EXTENDS Naturals, SequencesExt

CONSTANT QueueCap  \* capacity of e.gw

ASSUME QueueAssumption == QueueCap \in Nat \ {0}

Mutexes == {"eng", "wg", "seen", "dns"}

Threads == {"main", "engine", "gateway", "discovery", "resolver"}

Lock(m) == [do |-> "lock", what |-> m]
Unlock(m) == [do |-> "unlock", what |-> m]
Await(x) == [do |-> "await", what |-> x]
Put(kind) == [do |-> "put", what |-> kind]
Go(t) == [do |-> "go", what |-> t]

\* A call of the device has a beginning and an end.
Call(c) == <<[do |-> "call", what |-> c], [do |-> "return", what |-> c]>>

Held(m, program) == <<Lock(m)>> \o program \o <<Unlock(m)>>

VARIABLES
    todo,    \* the rest of the program each goroutine runs
    running, \* goroutines that were started
    holder,  \* of each mutex
    gw,      \* e.gw
    device   \* calls of the device under way, as <<goroutine, call>>

vars == <<todo, running, holder, gw, device>>

-----------------------------------------------------------------------------
(* Callbacks, in the order the daemon registers them                       *)

LocalPeer == Held("seen", <<>>)

WgUpdatePeers == Held("wg", LocalPeer \o Call("peers"))

\* A faulty callback: no lock.
BugUpdateUnlocked == Call("peers")

WgOnUpdate == Held("wg", Call("peers"))

\* wgOnRebuild sets the address before wgUpdatePeers takes the lock.
WgOnRebuild == Call("address") \o WgUpdatePeers

DnsUpdatePeers == Held("dns", <<>>)

(* The engine's handlers, by the kind of message                           *)

\* A faulty rebuild: the names stay locked while the peers are mirrored.
BugNamesLocked ==
    {Held("eng", <<Await("server")>> \o Held("dns", WgOnRebuild))}

\* rebuildState, when the server fails and when it answers.
RebuildState ==
    {Held("eng", <<Await("server")>>),
     Held("eng", <<Await("server")>> \o WgOnRebuild \o DnsUpdatePeers)}

\* handleJoin and handleLeave: ignored, of another device, of this device.
HandleMembership ==
    {Held("eng", <<>>),
     Held("eng", WgUpdatePeers \o DnsUpdatePeers),
     Held("eng", <<Await("server")>> \o WgUpdatePeers \o DnsUpdatePeers)}

HandleUpdate == {Held("eng", WgOnUpdate \o DnsUpdatePeers)}

Handlers == [Connect |-> RebuildState, Membership |-> HandleMembership,
             Update |-> HandleUpdate, Disconnect |-> {<<>>}]

(* The other goroutines                                                    *)

\* A faulty handler: wgLock is taken before the engine.
BugWgBeforeEngine == {LocalPeer \o Held("wg", Held("eng", Call("peers")))}

\* onDiscovMessage, for a stranger and for a peer.
OnDiscovMessage ==
    {LocalPeer \o Held("eng", <<>>), LocalPeer \o Held("eng", Held("wg", Call("peers")))}

\* lookupDns, for one query.
LookupDns == {Held("dns", <<>>)}

\* A round of Gateway: a dial that fails, or a session.
GatewayRound ==
    {<<Await("server"), Put("Disconnect")>>} \cup
    {<<Await("server"), Put("Connect"), Await("server")>> \o messages \o <<Put("Disconnect")>> :
        messages \in {<<>>, <<Put("Membership")>>, <<Put("Update")>>}}

StartPikopunch == Held("wg", <<Await("server")>> \o Call("peers"))

Shutdown == Held("wg", Call("peers"))

\* startup and main, from startWireguard on: without a device to close main just
\* ends, and whatever fails later ends in Shutdown: a call of startWireguard,
\* Connect, which starts nothing then, and in startPikopunch the request or the
\* call.  The signal may never come.
Main ==
    LET wireguard == Held("wg", Call("peers"))
        up   == wireguard \o <<Go("resolver")>> \o Held("wg", Call("peers")) \o <<Await("server")>>
        link == <<Go("gateway"), Go("engine")>>
        rest == <<Go("discovery"), Await("signal")>>
    IN  {Held("wg", <<>>),
         wireguard \o Shutdown,
         up \o Shutdown,
         up \o link \o Held("wg", <<Await("server")>>) \o Shutdown,
         up \o link \o StartPikopunch \o Shutdown,
         up \o link \o StartPikopunch \o rest \o Shutdown}

\* What an idle goroutine begins next; the engine takes its from e.gw.
Programs(t) ==
    CASE t = "discovery" -> OnDiscovMessage
      [] t = "resolver"  -> LookupDns
      [] t = "gateway"   -> GatewayRound
      [] OTHER           -> {}

-----------------------------------------------------------------------------

Exited == todo["main"] = <<>>

Begin(t) ==
    /\ t \in running \ {"main"} /\ todo[t] = <<>>
    /\ \/ \E p \in Programs(t) : todo' = [todo EXCEPT ![t] = p] /\ UNCHANGED gw
       \/ /\ t = "engine" /\ gw # <<>>
          /\ \E p \in Handlers[Head(gw)] : todo' = [todo EXCEPT ![t] = p]
          /\ gw' = Tail(gw)
    /\ UNCHANGED <<running, holder, device>>

\* The next operation of t, when it need not wait.
Proceed(t) ==
    /\ todo[t] # <<>>
    /\ todo' = [todo EXCEPT ![t] = Tail(@)]
    /\ LET op == Head(todo[t])
       IN  \/ /\ op.do = "lock" /\ holder[op.what] = "nobody"
              /\ holder' = [holder EXCEPT ![op.what] = t]
              /\ UNCHANGED <<running, gw, device>>
           \/ /\ op.do = "unlock"
              /\ holder' = [holder EXCEPT ![op.what] = "nobody"]
              /\ UNCHANGED <<running, gw, device>>
           \/ /\ op.do = "put" /\ Len(gw) < QueueCap
              /\ gw' = Append(gw, op.what)
              /\ UNCHANGED <<running, holder, device>>
           \/ /\ op.do = "go"
              /\ running' = running \cup {op.what}
              /\ UNCHANGED <<holder, gw, device>>
           \/ /\ op.do = "call"
              /\ device' = device \cup {<<t, op.what>>}
              /\ UNCHANGED <<running, holder, gw>>
           \/ /\ op.do = "return"
              /\ device' = device \ {<<t, op.what>>}
              /\ UNCHANGED <<running, holder, gw>>

\* What t awaits comes.
Come(t, x) ==
    /\ todo[t] # <<>> /\ Head(todo[t]) = Await(x)
    /\ todo' = [todo EXCEPT ![t] = Tail(@)]
    /\ UNCHANGED <<running, holder, gw, device>>

-----------------------------------------------------------------------------

\* startWireguard has not run.
Init ==
    /\ \E p \in Main : todo = [t \in Threads |-> IF t = "main" THEN p ELSE <<>>]
    /\ running = {"main"}
    /\ holder = [m \in Mutexes |-> "nobody"]
    /\ gw = <<>>
    /\ device = {}

Next ==
    /\ ~Exited
    /\ \E t \in Threads : Begin(t) \/ Proceed(t) \/ \E x \in {"server", "signal"} : Come(t, x)

\* Goroutines run, and Go's mutexes and channels let nobody wait for ever.
Scheduling == \A t \in Threads : SF_vars(~Exited /\ Proceed(t)) /\ WF_vars(~Exited /\ Begin(t))

Spec == Init /\ [][Next]_vars

\* No request is ever sure to be answered: http.DefaultClient has no timeout.
FairSpec == Spec /\ Scheduling

ServerAnswers == \A t \in Threads : WF_vars(~Exited /\ Come(t, "server"))

-----------------------------------------------------------------------------

\* Of the calls that change peers and state no two overlap, from the engine's
\* callbacks, the discovery handler, startup and shutdown: all are made with wgLock.
\* SetIP is excepted, which wgOnRebuild calls without it, beside calls of startPikopunch
\* and of main, though "A Device is not thread-safe" (net/wg/wg.go).
PeerCallsSerialized ==
    \A c, e \in device : c[2] = "peers" /\ e[2] = "peers" => c = e

\* What t waits for u to do: release a mutex, or take a message.
WaitsFor(t, u) ==
    /\ todo[t] # <<>>
    /\ LET op == Head(todo[t])
       IN  \/ op.do = "lock" /\ holder[op.what] = u
           \/ op.do = "put" /\ Len(gw) >= QueueCap /\ u = "engine" /\ todo[u] # <<>>

\* No goroutines wait for each other in a circle, whatever holds the one they
\* start from: callbacks take wgLock, seenMut and dnsMut under the engine's mutex,
\* the discovery handler takes seenMut and lets go of it before it takes the
\* engine's, and the gateway holds none of these while the channel is full.
NoCircularWait ==
    \A T \in (SUBSET Threads) \ {{}} : \E t \in T : \A u \in T : ~WaitsFor(t, u)

\* If the server answers every request or refuses it, every goroutine that
\* waits, for a mutex or the channel, goes on: the orders in which they take the
\* mutexes do not close.
NobodyWaitsForEver ==
    ServerAnswers =>
        \A t \in Threads \ {"main"} : todo[t] # <<>> ~> todo[t] = <<>> \/ Exited

\* A query for a local name is looked up even while the server answers nobody
\* and the engine and wgLock are held for ever.
LookupsReturn ==
    todo["resolver"] # <<>> ~> todo["resolver"] = <<>> \/ Exited
=============================================================================
