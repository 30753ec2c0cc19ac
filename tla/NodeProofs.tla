----------------------------- MODULE NodeProofs -----------------------------
(***************************************************************************)
(* The daemon's WireGuard side keeps the engine's promises and its own,    *)
(* whatever the API answers, the gateway delivers, HELLOs interleave and   *)
(* netlink calls fail.                                                     *)
(***************************************************************************)
EXTENDS WgSync, EngineProofs

-----------------------------------------------------------------------------
(* The callbacks and the discovery handler do not disturb the engine.      *)

LEMMA NodeStepIsEngineStep == [NodeNext]_nodeVars => [EngineNext]_engineVars
<1> SUFFICES ASSUME [NodeNext]_nodeVars
             PROVE  [EngineNext]_engineVars
  OBVIOUS
<1>1. CASE UNCHANGED nodeVars
  BY <1>1 DEF nodeVars
<1>2. CASE NodeRebuildFails /\ ~crashed
  BY <1>2 DEF NodeRebuildFails, EngineNext
<1>3. ASSUME NEW answer \in Listings, NodeRebuild(answer), ~crashed
      PROVE  EngineNext
  BY <1>3 DEF NodeRebuild, EngineNext
<1>4. ASSUME NEW nw \in NetworkIds, NEW dev \in Device, ~crashed,
             \/ NodeJoin(nw, dev, {v \in ApiNetworks : v.id = nw})
             \/ NodeLeave(nw, dev)
             \/ NodeLeavePanic(nw, dev)
      PROVE  EngineNext
  BY <1>4 DEF NodeJoin, NodeLeave, NodeLeavePanic, EngineNext
<1>5. ASSUME NEW dev \in Device, NodeUpdate(dev), ~crashed
      PROVE  EngineNext
  BY <1>5 DEF NodeUpdate, EngineNext
<1>6. CASE Discovery
  BY <1>6 DEF Discovery, OnHello, OnHelloLocked, Tick
<1> QED
  BY <1>1, <1>2, <1>3, <1>4, <1>5, <1>6 DEF NodeNext

\* WgSync implements Engine: every behaviour of the daemon's WireGuard side is
\* one of the engine, so what EngineProofs proves holds of it.
THEOREM NodeImplementsEngine == NodeSpec => EngineSpec
<1>1. NodeInit => EngineInit
  BY DEF NodeInit
<1> QED
  BY <1>1, NodeStepIsEngineStep, PTL DEF NodeSpec, EngineSpec

LEMMA NodeKeepsEngineInv == NodeSpec => []EngineInv
BY NodeImplementsEngine, EngineInvariance, PTL

-----------------------------------------------------------------------------
(* What an update leaves alone.                                            *)

\* handleUpdate overwrites a record by one of the same device.
LEMMA WithUpdateKeepsIds ==
    ASSUME NEW devs \in Seq(Device), NEW dev \in Device
    PROVE  Ids(ToSet(WithUpdate(devs, dev))) = Ids(ToSet(devs))
<1> DEFINE i == SelectInSeq(devs, LAMBDA d : d.id = dev.id)
           I == {n \in 1..Len(devs) : devs[n].id = dev.id}
<1>1. Len(devs) \in Nat /\ DOMAIN devs = 1..Len(devs)
  BY LenProperties
<1>2. CASE i = 0
  BY <1>2 DEF WithUpdate
<1>3. CASE i # 0
  <2>1. I # {} /\ i = Min(I)
    BY <1>3 DEF SelectInSeq
  <2>2. I \in SUBSET Nat
    BY <1>1
  <2>3. i \in 1..Len(devs) /\ devs[i].id = dev.id
    <3> HIDE DEF I
    <3>1. i \in I
      BY <2>1, <2>2, MinInSet
    <3> QED
      BY <3>1 DEF I
  <2>4. WithUpdate(devs, dev) = [devs EXCEPT ![i] = dev]
    BY <1>3 DEF WithUpdate
  <2> HIDE DEF i
  <2>5. \A n \in 1..Len(devs) : [devs EXCEPT ![i] = dev][n].id = devs[n].id
    BY <1>1, <2>3
  <2>6. DOMAIN [devs EXCEPT ![i] = dev] = 1..Len(devs)
    BY <1>1
  <2> QED
    BY <1>1, <2>4, <2>5, <2>6 DEF Ids, ToSet
<1> QED
  BY <1>2, <1>3

LEMMA UpdateKeepsListed ==
    ASSUME nwState \in Seq(Network), NEW dev \in Device, HandleUpdate(dev)
    PROVE  /\ DOMAIN nwState' = DOMAIN nwState
           /\ ListedIds(nwState') = ListedIds(nwState)
<1>1. Len(nwState) \in Nat /\ DOMAIN nwState = 1..Len(nwState)
      /\ \A n \in 1..Len(nwState) : nwState[n] \in Network
  BY LenProperties, ElementOfSeq
<1>2. nwState' = [n \in DOMAIN nwState |->
                     [nwState[n] EXCEPT !.devices = WithUpdate(@, dev)]]
  BY DEF HandleUpdate
<1>3. ASSUME NEW n \in DOMAIN nwState
      PROVE  Ids(ToSet(nwState'[n].devices)) = Ids(ToSet(nwState[n].devices))
  <2>1. nwState[n].devices \in Seq(Device)
        /\ nwState'[n].devices = WithUpdate(nwState[n].devices, dev)
    BY <1>1, <1>2 DEF Network
  <2> QED
    BY <2>1, WithUpdateKeepsIds
<1>4. DOMAIN nwState' = DOMAIN nwState
  BY <1>2
<1> QED
  BY <1>3, <1>4 DEF ListedIds

-----------------------------------------------------------------------------
(* The mirror and the peer list.                                           *)

LEMMA UpdateKeepsTrack ==
    ASSUME EngineInv, EngineInv', LastPeersTrackPeers,
           NEW dev \in Device, NodeUpdate(dev)
    PROVE  LastPeersTrackPeers'
<1>1. HandleUpdate(dev) /\ wgLastPeers' = wgLastPeers
  BY DEF NodeUpdate, WgOnUpdate
<1>2. nwState \in Seq(Network) /\ nwState' \in Seq(Network)
  BY DEF EngineInv, EngineTypeOK
<1>3. /\ DOMAIN nwState' = DOMAIN nwState
      /\ ListedIds(nwState') = ListedIds(nwState)
  BY <1>1, <1>2, UpdateKeepsListed
<1>4. CASE nwState # <<>>
  <2>1. nwState' # <<>>
    BY <1>2, <1>3, <1>4, EmptySeq, LenProperties
  <2>2. Ids(peerState') = Ids(peerState)
    BY <1>3, <1>4, <2>1 DEF EngineInv, PeersMatchCache
  <2> QED
    BY <1>1, <1>4, <2>2 DEF LastPeersTrackPeers
<1>5. CASE nwState = <<>>
  <2>1. DOMAIN nwState' = {} /\ nwState' = <<>>
    BY <1>2, <1>3, <1>5, EmptySeq, LenProperties
  <2>2. ListedIds(nwState') = {}
    BY <2>1 DEF ListedIds
  <2>3. peerState' = UpdatePeers(nwState', peerState)
    BY <1>1 DEF HandleUpdate
  <2>4. peerState' = {}
    BY <2>2, <2>3 DEF UpdatePeers, Ids
  <2> QED
    BY <2>1, <2>4 DEF LastPeersTrackPeers
<1> QED
  BY <1>4, <1>5

LEMMA NodeStepKeepsTrack ==
    ASSUME EngineInv, EngineInv', LastPeersTrackPeers, [NodeNext]_nodeVars
    PROVE  LastPeersTrackPeers'
<1> USE DEF LastPeersTrackPeers
<1>1. CASE UNCHANGED nodeVars
  BY <1>1 DEF nodeVars, engineVars, wgVars
<1>2. CASE NodeRebuildFails
  BY <1>2 DEF NodeRebuildFails, RebuildFails, wgVars
<1>3. CASE Mirrored
  BY <1>3 DEF Mirrored, WgUpdatePeers
<1>4. ASSUME NEW nw \in NetworkIds, NEW dev \in Device, NodeLeavePanic(nw, dev)
      PROVE  LastPeersTrackPeers'
  BY <1>4 DEF NodeLeavePanic, HandleLeavePanic, wgVars
<1>5. ASSUME NEW dev \in Device, NodeUpdate(dev)
      PROVE  LastPeersTrackPeers'
  <2> USE DEF LastPeersTrackPeers
  <2> QED
    BY <1>5, UpdateKeepsTrack
<1>6. CASE Discovery
  BY <1>6 DEF Discovery, OnHello, OnHelloLocked, Tick, engineVars, wgVars
<1> QED
  BY <1>1, <1>2, <1>3, <1>4, <1>5, <1>6
  DEF NodeNext, NodeRebuild, NodeJoin, NodeLeave

\* The mirror and the peer list part in one way only.
THEOREM MirrorTracksPeers == NodeSpec => []LastPeersTrackPeers
<1>1. NodeInit => LastPeersTrackPeers
  BY DEF NodeInit, EngineInit, LastPeersTrackPeers, Ids
<1> QED
  BY <1>1, NodeStepKeepsTrack, NodeKeepsEngineInv, PTL DEF NodeSpec

-----------------------------------------------------------------------------
(* The mirror and the kernel.                                              *)

\* What a call of the device leaves of a peer it gives addresses to, or has.
LEMMA MergedAllowed ==
    ASSUME NEW i, NEW endpoint, NEW allow \in BOOLEAN,
           allow \/ (i \in DOMAIN wgPeers /\ wgPeers[i].allowed)
    PROVE  Merged(i, endpoint, allow).allowed
BY DEF Merged

\* The inductive invariant: PeersConfigured needs that every route asked for is
\* there, for AddRoute asks once, and that the mirror does not hold this device,
\* whose key the kernel ignores.
KernelInv ==
    /\ faultless \in BOOLEAN
    /\ Self \notin wgLastPeers
    /\ faultless => kernelRoutes = routes
    /\ PeersConfigured

\* The steps the three action properties allow.
StayStep ==
    \A i \in DOMAIN wgPeers \cap wgLastPeers' :
        /\ i \in DOMAIN wgPeers'
        /\ wgPeers[i].allowed => wgPeers'[i].allowed

LeaveStep ==
    faultless' => \A i \in wgLastPeers \ wgLastPeers' : i \notin DOMAIN wgPeers'

StrayStep ==
    \A i \in DOMAIN wgPeers' \ (DOMAIN wgPeers \cup wgLastPeers') :
        \E dev \in Device : dev.id = i /\ HandleUpdate(dev)

KernelStep == KernelInv' /\ StayStep /\ LeaveStep /\ StrayStep

LEMMA WgSameStep ==
    ASSUME KernelInv, UNCHANGED wgVars
    PROVE  KernelStep
BY DEF KernelInv, PeersConfigured, wgVars, KernelStep, StayStep, LeaveStep, StrayStep

\* wgUpdatePeers, whichever of its calls fail.
LEMMA WgUpdatePeersStep ==
    ASSUME KernelInv, NEW noRoute, NEW noConf, Self \notin Ids(peerState'),
           WgUpdatePeers(peerState', noRoute, noConf)
    PROVE  KernelStep
<1> DEFINE lost  == wgLastPeers \ (Ids(peerState') \cup noConf)
           new   == {d \in peerState' : d.id \notin wgLastPeers}
           add   == Configured(Ids(new), noRoute, noConf)
           At(i) == IF LocalPeer(i) THEN seenPeers[i].endpoint
                    ELSE (CHOOSE d \in new : d.id = i).endpoint
           added == [i \in add |-> Merged(i, At(i), TRUE)]
<1>1. /\ AddRoutes(Ids(new), noRoute)
      /\ Remember(noRoute, noConf)
      /\ wgPeers' = Mirror(lost, added)
      /\ wgLastPeers' = Ids(peerState')
  BY DEF WgUpdatePeers
<1>2. Ids(new) = Ids(peerState') \ wgLastPeers
  BY DEF Ids
<1>3. DOMAIN added = add /\ \A i \in add : added[i].allowed
  BY MergedAllowed
<1>4. add \subseteq wgLastPeers' \ wgLastPeers
  BY <1>1, <1>2 DEF Configured
<1> HIDE DEF new, added
<1>5. /\ DOMAIN wgPeers' = (DOMAIN wgPeers \ lost) \cup add
      /\ \A i \in add : wgPeers'[i] = added[i]
      /\ \A i \in (DOMAIN wgPeers \ lost) \ add : wgPeers'[i] = wgPeers[i]
  BY <1>1, <1>3 DEF Mirror
<1> HIDE DEF add
<1>6. StayStep
  BY <1>1, <1>3, <1>5 DEF StayStep
<1>7. faultless' => faultless /\ noRoute = {} /\ noConf = {}
  BY <1>1 DEF Remember, KernelInv
<1>8. LeaveStep
  BY <1>1, <1>4, <1>5, <1>7 DEF LeaveStep
<1>9. StrayStep
  BY <1>4, <1>5 DEF StrayStep
<1>10. faultless' => kernelRoutes' = routes' /\ Ids(new) \subseteq routes'
                     /\ kernelRoutes \subseteq kernelRoutes'
  BY <1>1, <1>7 DEF AddRoutes, KernelInv
<1>11. PeersConfigured'
  <2> SUFFICES ASSUME faultless', NEW i \in wgLastPeers'
               PROVE  i \in DOMAIN wgPeers' /\ wgPeers'[i].allowed /\ i \in kernelRoutes'
    BY DEF PeersConfigured
  <2>1. CASE i \in wgLastPeers
    <3>1. i \in DOMAIN wgPeers /\ wgPeers[i].allowed /\ i \in kernelRoutes
      BY <1>7, <2>1 DEF KernelInv, PeersConfigured
    <3>2. i \notin lost /\ i \notin add
      BY <1>1, <1>4, <2>1
    <3> QED
      BY <1>5, <1>10, <3>1, <3>2
  <2>2. CASE i \notin wgLastPeers
    <3>1. i \in Ids(new) /\ i # Self
      BY <1>1, <1>2, <2>2
    <3>2. i \in add
      BY <1>7, <3>1 DEF add, Configured
    <3> QED
      BY <1>3, <1>5, <1>10, <3>1, <3>2
  <2> QED
    BY <2>1, <2>2
<1>12. KernelInv'
  <2>1. faultless' \in BOOLEAN
    BY <1>1 DEF Remember
  <2> QED
    BY <1>1, <1>10, <1>11, <2>1 DEF KernelInv
<1> QED
  BY <1>6, <1>8, <1>9, <1>12 DEF KernelStep

\* A step that adds to the kernel, or changes there, the peers of add only.
LEMMA AddingStep ==
    ASSUME KernelInv, NEW add, NEW e, NEW allow \in BOOLEAN,
           wgPeers' = Mirror({}, [i \in add |-> Merged(i, e, allow)]),
           wgLastPeers' = wgLastPeers,
           faultless' \in BOOLEAN, faultless' => faultless,
           faultless' => kernelRoutes' = routes' /\ kernelRoutes \subseteq kernelRoutes',
           \A i \in add \ (DOMAIN wgPeers \cup wgLastPeers) :
               \E dev \in Device : dev.id = i /\ HandleUpdate(dev)
    PROVE  KernelStep
<1> DEFINE added == [i \in add |-> Merged(i, e, allow)]
<1>1. DOMAIN added = add
      /\ \A i \in add \cap DOMAIN wgPeers : wgPeers[i].allowed => added[i].allowed
  BY MergedAllowed
<1> HIDE DEF added
<1>2. /\ DOMAIN wgPeers' = DOMAIN wgPeers \cup add
      /\ \A i \in add : wgPeers'[i] = added[i]
      /\ \A i \in DOMAIN wgPeers \ add : wgPeers'[i] = wgPeers[i]
  <2>1. wgPeers' = Mirror({}, added)
    BY DEF added
  <2> QED
    BY <1>1, <2>1 DEF Mirror
<1>3. \A i \in DOMAIN wgPeers : wgPeers[i].allowed => wgPeers'[i].allowed
  BY <1>1, <1>2
<1>4. StayStep /\ LeaveStep
  BY <1>2, <1>3 DEF StayStep, LeaveStep
<1>5. StrayStep
  BY <1>2 DEF StrayStep
<1>6. KernelInv'
  BY <1>2, <1>3 DEF KernelInv, PeersConfigured
<1> QED
  BY <1>4, <1>5, <1>6 DEF KernelStep

LEMMA NodeStepKeepsKernel ==
    ASSUME EngineInv', LastPeersTrackPeers, KernelInv, [NodeNext]_nodeVars
    PROVE  KernelStep
<1>1. CASE UNCHANGED wgVars
  BY <1>1, WgSameStep
<1>2. CASE Mirrored
  <2>1. Self \notin Ids(peerState')
    BY DEF EngineInv, PeerListSound
  <2> QED
    BY <1>2, <2>1, WgUpdatePeersStep DEF Mirrored
<1>3. ASSUME NEW dev \in Device, NodeUpdate(dev)
      PROVE  KernelStep
  <2>1. PICK noRoute, noConf : WgOnUpdate(dev, noRoute, noConf)
    BY <1>3 DEF NodeUpdate
  <2> DEFINE add == Configured({dev.id}, noRoute, noConf)
  <2>2. /\ AddRoutes({dev.id}, noRoute)
        /\ Remember(noRoute, noConf)
        /\ wgPeers' = Mirror({}, [i \in add |-> Merged(i, dev.endpoint, TRUE)])
        /\ wgLastPeers' = wgLastPeers
    BY <2>1 DEF WgOnUpdate
  <2>3. faultless' \in BOOLEAN
        /\ (faultless' => faultless /\ noRoute = {})
    BY <2>2 DEF Remember, KernelInv
  <2>4. faultless' => kernelRoutes' = routes' /\ kernelRoutes \subseteq kernelRoutes'
    BY <2>2, <2>3 DEF AddRoutes, KernelInv
  <2>5. \A i \in add : i = dev.id /\ HandleUpdate(dev)
    BY <1>3 DEF Configured, NodeUpdate
  <2> HIDE DEF add
  <2> QED
    BY <2>2, <2>3, <2>4, <2>5, AddingStep
<1>4. ASSUME NEW noConf, OnHelloLocked(noConf)
      PROVE  KernelStep
  <2> DEFINE add == Greeted \ noConf
  <2>1. /\ Remember({}, noConf)
        /\ wgPeers' = Mirror({}, [i \in add |-> Merged(i, hello.endpoint, FALSE)])
        /\ wgLastPeers' = wgLastPeers
        /\ routes' = routes /\ kernelRoutes' = kernelRoutes
    BY <1>4 DEF OnHelloLocked
  <2>2. faultless' \in BOOLEAN /\ (faultless' => faultless)
    BY <2>1 DEF Remember, KernelInv
  <2>3. add \subseteq wgLastPeers
    BY DEF LastPeersTrackPeers, Greeted, Ids
  <2>4. faultless' => kernelRoutes' = routes' /\ kernelRoutes \subseteq kernelRoutes'
    BY <2>1, <2>2 DEF KernelInv
  <2> HIDE DEF add
  <2> QED
    BY <2>1, <2>2, <2>3, <2>4, AddingStep
<1>5. CASE UNCHANGED nodeVars
  BY <1>1, <1>5 DEF nodeVars
<1>6. CASE NodeRebuildFails
  BY <1>1, <1>6 DEF NodeRebuildFails
<1>7. ASSUME NEW nw \in NetworkIds, NEW dev \in Device, NodeLeavePanic(nw, dev)
      PROVE  KernelStep
  BY <1>1, <1>7 DEF NodeLeavePanic
<1>8. CASE Discovery
  BY <1>1, <1>4, <1>8 DEF Discovery, OnHello, Tick
<1> QED
  BY <1>2, <1>3, <1>5, <1>6, <1>7, <1>8
  DEF NodeNext, NodeRebuild, NodeJoin, NodeLeave

LEMMA NodeKeepsKernelInv == NodeSpec => []KernelInv
<1>1. NodeInit => KernelInv
  BY DEF NodeInit, KernelInv, PeersConfigured
<1>2. EngineInv' /\ LastPeersTrackPeers /\ KernelInv /\ [NodeNext]_nodeVars
      => KernelInv'
  BY NodeStepKeepsKernel DEF KernelStep
<1> QED
  BY <1>1, <1>2, MirrorTracksPeers, NodeKeepsEngineInv, PTL DEF NodeSpec

\* While no call failed, every mirrored peer is in the kernel, with its address
\* allowed and routed.
THEOREM MirroredPeersAreConfigured == NodeSpec => []PeersConfigured
<1>1. KernelInv => PeersConfigured
  BY DEF KernelInv
<1> QED
  BY <1>1, NodeKeepsKernelInv, PTL

LEMMA NodeStepsAreKernelSteps ==
    NodeSpec => [][StayStep /\ LeaveStep /\ StrayStep]_nodeVars
<1>1. EngineInv' /\ LastPeersTrackPeers /\ KernelInv /\ [NodeNext]_nodeVars
      => [StayStep /\ LeaveStep /\ StrayStep]_nodeVars
  BY NodeStepKeepsKernel DEF KernelStep
<1> QED
  BY <1>1, MirrorTracksPeers, NodeKeepsEngineInv, NodeKeepsKernelInv, PTL DEF NodeSpec

\* While no call failed, a peer that leaves the mirror leaves the kernel with it.
THEOREM LostPeersAlwaysLeave == NodeSpec => LostPeersLeaveKernel
<1>1. [StayStep /\ LeaveStep /\ StrayStep]_nodeVars => [LeaveStep]_nodeVars
  OBVIOUS
<1> QED
  BY <1>1, NodeStepsAreKernelSteps, PTL DEF LostPeersLeaveKernel, LeaveStep

\* Only an update brings a device into the kernel that is not mirrored.
THEOREM StraysOnlyComeFromUpdates == NodeSpec => StraysOnlyFromUpdates
<1>1. [StayStep /\ LeaveStep /\ StrayStep]_nodeVars => [StrayStep]_nodeVars
  OBVIOUS
<1> QED
  BY <1>1, NodeStepsAreKernelSteps, PTL DEF StraysOnlyFromUpdates, StrayStep

\* Whatever calls fail, a peer in the kernel stays there while it is a peer.
THEOREM PeersAlwaysStayConfigured == NodeSpec => PeersStayConfigured
<1>1. [StayStep /\ LeaveStep /\ StrayStep]_nodeVars => [StayStep]_nodeVars
  OBVIOUS
<1> QED
  BY <1>1, NodeStepsAreKernelSteps, PTL DEF PeersStayConfigured, StayStep

-----------------------------------------------------------------------------
(* Types                                                                   *)

AnyEndpoint == Endpoints \cup LocalEndpoints \cup {NoEndpoint}

\* A call of the device leaves a record of the kernel's.
LEMMA MergedTyped ==
    ASSUME WgTypeOK, NEW i, NEW endpoint \in AnyEndpoint, NEW allow \in BOOLEAN
    PROVE  Merged(i, endpoint, allow) \in KernelPeer
<1>1. CASE i \in DOMAIN wgPeers
  <2>1. wgPeers[i] \in KernelPeer
    BY <1>1 DEF WgTypeOK
  <2> QED
    BY <1>1, <2>1 DEF Merged, KernelPeer, AnyEndpoint
<1>2. CASE i \notin DOMAIN wgPeers
  BY <1>2 DEF Merged, KernelPeer, AnyEndpoint
<1> QED
  BY <1>1, <1>2

LEMMA MirrorTyped ==
    ASSUME WgTypeOK, NEW lost, NEW added, DOMAIN added \subseteq DeviceIds \ {Self},
           \A i \in DOMAIN added : added[i] \in KernelPeer,
           wgPeers' = Mirror(lost, added)
    PROVE  /\ DOMAIN wgPeers' \subseteq DeviceIds \ {Self}
           /\ \A i \in DOMAIN wgPeers' : wgPeers'[i] \in KernelPeer
<1>1. /\ DOMAIN wgPeers' = (DOMAIN wgPeers \ lost) \cup DOMAIN added
      /\ \A i \in DOMAIN wgPeers' :
            wgPeers'[i] = IF i \in DOMAIN added THEN added[i] ELSE wgPeers[i]
  BY DEF Mirror
<1> QED
  BY <1>1 DEF WgTypeOK

LEMMA AddRoutesTyped ==
    ASSUME WgTypeOK, NEW ids \in SUBSET DeviceIds, NEW noRoute, AddRoutes(ids, noRoute)
    PROVE  routes' \subseteq DeviceIds /\ kernelRoutes' \subseteq routes'
BY DEF WgTypeOK, AddRoutes

\* wgUpdatePeers takes its endpoints from the peer list or from a HELLO.
LEMMA WgUpdatePeersTyped ==
    ASSUME WgTypeOK, peerState' \subseteq Device, NEW noRoute, NEW noConf,
           WgUpdatePeers(peerState', noRoute, noConf), UNCHANGED discovVars
    PROVE  WgTypeOK'
<1> DEFINE lost  == wgLastPeers \ (Ids(peerState') \cup noConf)
           new   == {d \in peerState' : d.id \notin wgLastPeers}
           add   == Configured(Ids(new), noRoute, noConf)
           At(i) == IF LocalPeer(i) THEN seenPeers[i].endpoint
                    ELSE (CHOOSE d \in new : d.id = i).endpoint
           added == [i \in add |-> Merged(i, At(i), TRUE)]
<1>1. /\ AddRoutes(Ids(new), noRoute)
      /\ Remember(noRoute, noConf)
      /\ wgPeers' = Mirror(lost, added)
      /\ wgLastPeers' = Ids(peerState')
  BY DEF WgUpdatePeers
<1>2. Ids(new) \subseteq DeviceIds /\ Ids(peerState') \subseteq DeviceIds
  BY DEF Ids, Device
<1>3. add \subseteq Ids(new) \ {Self}
  BY DEF Configured
<1>4. ASSUME NEW i \in add
      PROVE  At(i) \in AnyEndpoint
  <2>1. CASE LocalPeer(i)
    <3>1. i \in DOMAIN seenPeers /\ seenPeers[i] \in Seen
      BY <2>1 DEF LocalPeer, WgTypeOK
    <3> QED
      BY <2>1, <3>1 DEF Seen, AnyEndpoint
  <2>2. CASE ~LocalPeer(i)
    <3>1. \E d \in new : d.id = i
      BY <1>3 DEF Ids
    <3>2. (CHOOSE d \in new : d.id = i) \in new
      BY <3>1
    <3>3. \A d \in new : d.endpoint \in Endpoints
      BY DEF Device
    <3> QED
      BY <2>2, <3>2, <3>3 DEF AnyEndpoint
  <2> QED
    BY <2>1, <2>2
<1> HIDE DEF At
<1>5. DOMAIN added = add /\ \A i \in add : added[i] \in KernelPeer
  BY <1>4, MergedTyped
<1> HIDE DEF add, added, lost, new
<1>6. /\ DOMAIN wgPeers' \subseteq DeviceIds \ {Self}
      /\ \A i \in DOMAIN wgPeers' : wgPeers'[i] \in KernelPeer
  BY <1>1, <1>2, <1>3, <1>5, MirrorTyped
<1>7. routes' \subseteq DeviceIds /\ kernelRoutes' \subseteq routes'
  BY <1>1, <1>2, AddRoutesTyped
<1>8. faultless' \in BOOLEAN
  BY <1>1 DEF Remember
<1> QED
  BY <1>1, <1>2, <1>6, <1>7, <1>8 DEF WgTypeOK, discovVars

LEMMA NodeStepTyped ==
    ASSUME EngineInv, EngineInv', WgTypeOK, [NodeNext]_nodeVars
    PROVE  WgTypeOK'
<1>0. peerState \subseteq Device /\ peerState' \subseteq Device /\ Self \notin Ids(peerState)
  BY DEF EngineInv, EngineTypeOK, PeerListSound
<1>1. ASSUME UNCHANGED <<wgVars, discovVars>>
      PROVE  WgTypeOK'
  BY <1>1 DEF WgTypeOK, wgVars, discovVars
<1>2. CASE Mirrored
  BY <1>0, <1>2, WgUpdatePeersTyped DEF Mirrored
<1>3. ASSUME NEW dev \in Device, NodeUpdate(dev)
      PROVE  WgTypeOK'
  <2>1. PICK noRoute, noConf : WgOnUpdate(dev, noRoute, noConf)
    BY <1>3 DEF NodeUpdate
  <2> DEFINE add == Configured({dev.id}, noRoute, noConf)
             added == [i \in add |-> Merged(i, dev.endpoint, TRUE)]
  <2>2. /\ AddRoutes({dev.id}, noRoute)
        /\ Remember(noRoute, noConf)
        /\ wgPeers' = Mirror({}, added)
        /\ UNCHANGED <<wgLastPeers, discovVars>>
    BY <1>3, <2>1 DEF WgOnUpdate, NodeUpdate
  <2>3. dev.id \in DeviceIds /\ dev.endpoint \in AnyEndpoint /\ add \subseteq DeviceIds \ {Self}
    BY DEF Device, AnyEndpoint, Configured
  <2>4. DOMAIN added = add /\ \A i \in add : added[i] \in KernelPeer
    BY <2>3, MergedTyped
  <2> HIDE DEF add, added
  <2>5. /\ DOMAIN wgPeers' \subseteq DeviceIds \ {Self}
        /\ \A i \in DOMAIN wgPeers' : wgPeers'[i] \in KernelPeer
    BY <2>2, <2>3, <2>4, MirrorTyped
  <2>6. routes' \subseteq DeviceIds /\ kernelRoutes' \subseteq routes'
    BY <2>2, <2>3, AddRoutesTyped
  <2>7. faultless' \in BOOLEAN
    BY <2>2 DEF Remember
  <2> QED
    BY <2>2, <2>5, <2>6, <2>7 DEF WgTypeOK, discovVars
<1>4. ASSUME NEW noConf, OnHelloLocked(noConf)
      PROVE  WgTypeOK'
  <2> DEFINE add == Greeted \ noConf
             added == [i \in add |-> Merged(i, hello.endpoint, FALSE)]
  <2>1. /\ Remember({}, noConf)
        /\ wgPeers' = Mirror({}, added)
        /\ hello' = NoHello
        /\ UNCHANGED <<wgLastPeers, routes, kernelRoutes, seenPeers, now>>
    BY <1>4 DEF OnHelloLocked
  <2>2. add \subseteq DeviceIds \ {Self} /\ hello.endpoint \in AnyEndpoint
    BY <1>0 DEF Greeted, Ids, Device, WgTypeOK, AnyEndpoint
  <2>3. DOMAIN added = add /\ \A i \in add : added[i] \in KernelPeer
    BY <2>2, MergedTyped
  <2> HIDE DEF add, added
  <2>4. /\ DOMAIN wgPeers' \subseteq DeviceIds \ {Self}
        /\ \A i \in DOMAIN wgPeers' : wgPeers'[i] \in KernelPeer
    BY <2>1, <2>2, <2>3, MirrorTyped
  <2>5. faultless' \in BOOLEAN /\ hello' \in [id : DeviceIds, endpoint : LocalEndpoints \cup {NoEndpoint}]
    BY <2>1, SelfAssumption DEF Remember, NoHello
  <2> QED
    BY <2>1, <2>4, <2>5 DEF WgTypeOK
<1>5. ASSUME NEW id \in DeviceIds, NEW e \in LocalEndpoints, OnHello(id, e)
      PROVE  WgTypeOK'
  <2>1. /\ id # Self /\ hello' = [id |-> id, endpoint |-> e]
        /\ DOMAIN seenPeers' = DOMAIN seenPeers \cup {id}
        /\ \A i \in DOMAIN seenPeers' :
              seenPeers'[i] = IF i = id THEN [endpoint |-> e, lastSeen |-> now] ELSE seenPeers[i]
    BY <1>5 DEF OnHello, Heeded
  <2>2. [endpoint |-> e, lastSeen |-> now] \in Seen
    BY DEF Seen, WgTypeOK
  <2>3. DOMAIN seenPeers' \subseteq DeviceIds \ {Self}
        /\ \A i \in DOMAIN seenPeers' : seenPeers'[i] \in Seen
    BY <2>1, <2>2 DEF WgTypeOK
  <2> QED
    BY <1>5, <2>1, <2>3, SMTT(30) DEF OnHello, WgTypeOK, wgVars
<1>6. CASE Tick
  BY <1>6, ClockAssumption DEF Tick, WgTypeOK, wgVars
<1>7. CASE NodeRebuildFails \/ UNCHANGED nodeVars
  BY <1>1, <1>7 DEF NodeRebuildFails, nodeVars
<1>8. ASSUME NEW nw \in NetworkIds, NEW dev \in Device, NodeLeavePanic(nw, dev)
      PROVE  WgTypeOK'
  BY <1>1, <1>8 DEF NodeLeavePanic
<1> QED
  BY <1>2, <1>3, <1>4, <1>5, <1>6, <1>7, <1>8
  DEF NodeNext, NodeRebuild, NodeJoin, NodeLeave, Discovery

\* The mirror, the kernel and the local peers hold known devices only, and never
\* this one.
THEOREM WgTypeCorrect == NodeSpec => []WgTypeOK
<1>1. NodeInit => WgTypeOK
  BY SelfAssumption, ClockAssumption DEF NodeInit, WgTypeOK, NoHello
<1> QED
  BY <1>1, NodeStepTyped, NodeKeepsEngineInv, PTL DEF NodeSpec
=============================================================================
