------------------------------- MODULE WgSync -------------------------------
(***************************************************************************)
(* The daemon's WireGuard side: the callbacks that mirror the engine's     *)
(* peer list into the kernel (cmd/pikonoded/wg.go), the device they call   *)
(* (net/wg/wgctrl.go, net/ifctl/if_linux.go), and the local discovery      *)
(* handler that bypasses them (cmd/pikonoded/broadcast.go).                *)
(*                                                                         *)
(* The callbacks run inside the engine's handlers, under its mutex and     *)
(* wgLock: handler and callbacks are one action.  The discovery handler    *)
(* runs on its own goroutine in two critical sections, two actions here.   *)
(* A device ID stands for its public key and its IP, which never change.   *)
(***************************************************************************)
EXTENDS Engine

CONSTANTS
    LocalEndpoints,  \* endpoints a HELLO can come from
    NoEndpoint,      \* the empty string
    NetlinkFaults,   \* may netlink and wgctrl calls fail?
    Grace,           \* discovGracePeriod
    MaxNow           \* BOUND on the clock

ASSUME NoEndpointAssumption == NoEndpoint \notin LocalEndpoints

ASSUME ClockAssumption == Grace \in Nat /\ MaxNow \in Nat

ASSUME FaultAssumption == NetlinkFaults \in BOOLEAN

VARIABLES
    wgLastPeers,   \* wgLastPeers: IDs of the peers last mirrored
    wgPeers,       \* kernel: peers of the interface, by ID
    routes,        \* li.routes: IDs whose /128 route was ever asked for
    kernelRoutes,  \* kernel: IDs whose route exists
    seenPeers,     \* seenPeers: the last HELLO of each local peer
    hello,         \* the HELLO between the two halves of onDiscovMessage
    now,           \* time.Now()
    faultless      \* history: no netlink or wgctrl call has failed

wgVars == <<wgLastPeers, wgPeers, routes, kernelRoutes, faultless>>
discovVars == <<seenPeers, hello, now>>
nodeVars == <<engineVars, wgVars, discovVars>>

Seen == [endpoint : LocalEndpoints, lastSeen : 0..MaxNow]

KernelPeer == [allowed : BOOLEAN,
               endpoint : Endpoints \cup LocalEndpoints \cup {NoEndpoint}]

NoHello == [id |-> Self, endpoint |-> NoEndpoint]

\* The calls of a step that fail, of those made for the devices of ids.
Faults(ids) == IF NetlinkFaults THEN SUBSET ids ELSE {{}}

Remember(noRoute, noConf) == faultless' = (faultless /\ noRoute \cup noConf = {})

-----------------------------------------------------------------------------
(* net/wg, net/ifctl and the kernel                                        *)

\* AddPeer gives up when the route cannot be added; a route asked for before
\* is not asked for again, added or not.  The kernel ignores its own key.
Configured(ids, noRoute, noConf) ==
    {i \in ids \ ({Self} \cup noConf) : i \in routes \/ i \notin noRoute}

AddRoutes(ids, noRoute) ==
    /\ routes' = routes \cup ids
    /\ kernelRoutes' = kernelRoutes \cup (ids \ (routes \cup noRoute))

\* A faulty kernel call: the addresses given replace those of the peer.
BugAddressesReplaced(i, endpoint, allow) ==
    [allowed  |-> allow,
     endpoint |-> IF endpoint # NoEndpoint \/ i \notin DOMAIN wgPeers
                  THEN endpoint ELSE wgPeers[i].endpoint]

\* ConfigureDevice updates a peer it knows: no endpoint keeps the old one, no
\* address keeps the allowed IPs.
Merged(i, endpoint, allow) ==
    LET known == i \in DOMAIN wgPeers
    IN  [allowed  |-> allow \/ (known /\ wgPeers[i].allowed),
         endpoint |-> IF endpoint # NoEndpoint \/ ~known THEN endpoint
                                                         ELSE wgPeers[i].endpoint]

\* Faulty calls: a peer is never removed; adding one replaces all.
BugNothingRemoved(lost, added) ==
    [i \in DOMAIN wgPeers \cup DOMAIN added |->
        IF i \in DOMAIN added THEN added[i] ELSE wgPeers[i]]

BugPeersReplaced(lost, added) == IF added = <<>> THEN wgPeers ELSE added

\* The kernel's peers without lost and with records for the keys of added.
Mirror(lost, added) ==
    [i \in (DOMAIN wgPeers \ lost) \cup DOMAIN added |->
        IF i \in DOMAIN added THEN added[i] ELSE wgPeers[i]]

-----------------------------------------------------------------------------
(* cmd/pikonoded/broadcast.go                                              *)

\* discovPeer.Valid, as written: now + grace before the last HELLO.
Valid(p) == now + Grace < p.lastSeen

\* localPeer's first result.
LocalPeer(id) == id \in DOMAIN seenPeers /\ Valid(seenPeers[id])

\* Our own HELLO is ignored.
Heeded(id) == id # Self

\* onDiscovMessage up to seenMut.Unlock.
OnHello(id, endpoint) ==
    /\ hello = NoHello
    /\ Heeded(id)
    /\ seenPeers' = [i \in DOMAIN seenPeers \cup {id} |->
                        IF i = id THEN [endpoint |-> endpoint, lastSeen |-> now]
                                  ELSE seenPeers[i]]
    /\ hello' = [id |-> id, endpoint |-> endpoint]
    /\ UNCHANGED <<engineVars, wgVars, now>>

\* The peer the HELLO is of, if it is one.
BugGreeted == {hello.id}
Greeted == {hello.id} \cap Ids(peerState)

\* onDiscovMessage from eng.Lock: AddPeer(nil, addr) for a peer of ours.
OnHelloLocked(noConf) ==
    /\ hello # NoHello
    /\ hello' = NoHello
    /\ LET add == Greeted \ noConf
       IN  wgPeers' = Mirror({}, [i \in add |-> Merged(i, hello.endpoint, FALSE)])
    /\ Remember({}, noConf)
    /\ UNCHANGED <<engineVars, wgLastPeers, routes, kernelRoutes, seenPeers, now>>

Tick ==
    /\ now < MaxNow
    /\ now' = now + 1
    /\ UNCHANGED <<engineVars, wgVars, seenPeers, hello>>

-----------------------------------------------------------------------------
(* cmd/pikonoded/wg.go                                                     *)

\* wgUpdatePeers compares IDs only, ignores the errors of RemovePeer and
\* AddPeer, and remembers every peer as mirrored.
WgUpdatePeers(peers, noRoute, noConf) ==
    LET lost  == wgLastPeers \ (Ids(peers) \cup noConf)
        new   == {d \in peers : d.id \notin wgLastPeers}
        add   == Configured(Ids(new), noRoute, noConf)
        At(i) == IF LocalPeer(i) THEN seenPeers[i].endpoint
                 ELSE (CHOOSE d \in new : d.id = i).endpoint
    IN  /\ AddRoutes(Ids(new), noRoute)
        /\ Remember(noRoute, noConf)
        /\ wgPeers' = Mirror(lost, [i \in add |-> Merged(i, At(i), TRUE)])
        /\ wgLastPeers' = Ids(peers)

\* wgOnUpdate adds the updated device, whether or not it is a peer.
WgOnUpdate(dev, noRoute, noConf) ==
    LET add == Configured({dev.id}, noRoute, noConf)
    IN  /\ AddRoutes({dev.id}, noRoute)
        /\ Remember(noRoute, noConf)
        /\ wgPeers' = Mirror({}, [i \in add |-> Merged(i, dev.endpoint, TRUE)])
        /\ UNCHANGED wgLastPeers

-----------------------------------------------------------------------------
(* The engine's handlers with their callbacks                              *)

\* Whichever peer list a handler leaves, wgUpdatePeers mirrors it.
Mirrored ==
    LET new  == Ids(peerState') \ wgLastPeers
        lost == wgLastPeers \ Ids(peerState')
    IN  /\ \E noRoute \in Faults(new \ routes), noConf \in Faults(new \cup lost) :
              WgUpdatePeers(peerState', noRoute, noConf)
        /\ UNCHANGED discovVars

\* rebuildState returns before its callbacks when the request fails; a panic
\* ends the process, and the kernel keeps what it has.
NodeRebuildFails == RebuildFails /\ UNCHANGED <<wgVars, discovVars>>

NodeRebuild(answer) == RebuildState(answer) /\ Mirrored

\* A join without a callback.
BugJoinNotMirrored(nw, dev, answers) ==
    HandleJoin(nw, dev, answers) /\ UNCHANGED <<wgVars, discovVars>>

NodeJoin(nw, dev, answers) == HandleJoin(nw, dev, answers) /\ Mirrored

NodeLeave(nw, dev) == HandleLeave(nw, dev) /\ Mirrored

NodeLeavePanic(nw, dev) ==
    HandleLeavePanic(nw, dev) /\ UNCHANGED <<wgVars, discovVars>>

NodeUpdate(dev) ==
    /\ HandleUpdate(dev)
    /\ \E noRoute \in Faults({dev.id} \ routes), noConf \in Faults({dev.id}) :
          WgOnUpdate(dev, noRoute, noConf)
    /\ UNCHANGED discovVars

Discovery ==
    \/ \E id \in DeviceIds, e \in LocalEndpoints : OnHello(id, e)
    \/ \E noConf \in Faults(Greeted) : OnHelloLocked(noConf)
    \/ Tick

-----------------------------------------------------------------------------

NodeInit ==
    /\ EngineInit
    /\ wgLastPeers = {}
    /\ wgPeers = <<>>
    /\ routes = {}
    /\ kernelRoutes = {}
    /\ faultless = TRUE
    /\ seenPeers = <<>>
    /\ hello = NoHello
    /\ now = 0

NodeNext ==
    /\ ~crashed
    /\ \/ NodeRebuildFails
       \/ \E answer \in Listings : NodeRebuild(answer)
       \/ \E nw \in NetworkIds, dev \in Device :
             \/ NodeJoin(nw, dev, {v \in ApiNetworks : v.id = nw})
             \/ NodeLeave(nw, dev)
             \/ NodeLeavePanic(nw, dev)
       \/ \E dev \in Device : NodeUpdate(dev)
       \/ Discovery

NodeSpec == NodeInit /\ [][NodeNext]_nodeVars

-----------------------------------------------------------------------------

\* Types; wgPeers and seenPeers are maps whose keys are added as they come.
WgTypeOK ==
    /\ wgLastPeers \subseteq DeviceIds
    /\ DOMAIN wgPeers \subseteq DeviceIds \ {Self}
    /\ \A i \in DOMAIN wgPeers : wgPeers[i] \in KernelPeer
    /\ routes \subseteq DeviceIds
    /\ kernelRoutes \subseteq routes
    /\ DOMAIN seenPeers \subseteq DeviceIds \ {Self}
    /\ \A i \in DOMAIN seenPeers : seenPeers[i] \in Seen
    /\ hello \in [id : DeviceIds, endpoint : LocalEndpoints \cup {NoEndpoint}]
    /\ now \in 0..MaxNow
    /\ faultless \in BOOLEAN

\* wgLastPeers is the engine's peer list.  wgOnUpdate does not refresh it, so
\* the two may part, in one way only: an update that follows a failed rebuild
\* empties the peer list and leaves the mirror as it was.
LastPeersTrackPeers ==
    Ids(peerState) = wgLastPeers \/ (nwState = <<>> /\ peerState = {})

\* While no netlink call failed, every mirrored peer is in the kernel with its
\* address allowed and routed, whatever updates, HELLOs and leaves came between.
PeersConfigured ==
    faultless =>
        \A i \in wgLastPeers : /\ i \in DOMAIN wgPeers
                               /\ wgPeers[i].allowed
                               /\ i \in kernelRoutes

\* While no netlink call failed, a peer that leaves the mirror leaves the kernel
\* in the same step.
LostPeersLeaveKernel ==
    [][faultless' =>
        \A i \in wgLastPeers \ wgLastPeers' : i \notin DOMAIN wgPeers']_nodeVars

\* A kernel peer that is not mirrored can only have come by DeviceUpdate: a
\* HELLO never adds one, though it is handled in two critical sections and the
\* peer list may change between them.
StraysOnlyFromUpdates ==
    [][\A i \in DOMAIN wgPeers' \ (DOMAIN wgPeers \cup wgLastPeers') :
          \E dev \in Device : dev.id = i /\ HandleUpdate(dev)]_nodeVars

\* Even when netlink calls fail, a device that stays a peer stays in the
\* kernel, with its address allowed once it was.
PeersStayConfigured ==
    [][\A i \in DOMAIN wgPeers \cap wgLastPeers' :
          /\ i \in DOMAIN wgPeers'
          /\ wgPeers[i].allowed => wgPeers'[i].allowed]_nodeVars

\* "Use the locally discovered endpoint if we have one" (wgUpdatePeers):
\* a device added while its last HELLO is within the grace period gets the
\* endpoint of that HELLO.
LocalEndpointUsed ==
    [][\A i \in wgLastPeers' \ wgLastPeers :
          (/\ i \in DOMAIN seenPeers
           /\ now - seenPeers[i].lastSeen <= Grace
           /\ i \in DOMAIN wgPeers')
          => wgPeers'[i].endpoint = seenPeers[i].endpoint]_nodeVars
=============================================================================
