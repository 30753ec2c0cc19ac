---------------------------- MODULE EngineProofs ----------------------------
(***************************************************************************)
(* The invariants of Engine hold whatever the REST API answers and in      *)
(* whatever order the gateway delivers its messages: EngineNext lets the   *)
(* environment do anything, and the proofs use no assumption about it.     *)
(***************************************************************************)
EXTENDS Engine, SequenceTheorems, FiniteSetTheorems, TLAPS

-----------------------------------------------------------------------------
(* Facts about the operators.                                              *)

\* Min, a CHOOSE, picks an element of every nonempty set of naturals.  The
\* order of the naturals is read off the inclusion order of the initial
\* segments, whose well-foundedness the library states without an operator
\* parameter.
LEMMA MinInSet ==
    ASSUME NEW S \in SUBSET Nat, S # {}
    PROVE  Min(S) \in S
<1> DEFINE T == {1..n : n \in S}
<1>1. T \subseteq FiniteSubsetsOf(Nat) /\ T # {}
  <2>1. ASSUME NEW n \in S  PROVE 1..n \in FiniteSubsetsOf(Nat)
    <3>1. IsFiniteSet(1..n)
      BY FS_Interval
    <3> QED
      BY <3>1 DEF FiniteSubsetsOf
  <2> QED
    BY <2>1
<1>2. PICK X \in T : \A Y \in T : <<Y, X>> \notin StrictSubsetOrdering(Nat)
  <2> HIDE DEF T
  <2> QED
    BY <1>1, WFMin, FS_StrictSubsetOrderingWellFounded
<1>3. PICK x \in S : X = 1..x
  OBVIOUS
<1>4. \A y \in S : x =< y
  <2> SUFFICES ASSUME NEW y \in S, y < x
               PROVE  FALSE
    OBVIOUS
  <2>1. x \in 1..x /\ x \notin 1..y /\ 1..y \subseteq 1..x
    OBVIOUS
  <2>2. <<1..y, X>> \in StrictSubsetOrdering(Nat)
    BY <2>1, <1>3 DEF StrictSubsetOrdering
  <2> QED
    BY <1>2, <2>2
<1> QED
  BY <1>4 DEF Min

\* The search that updatePeers makes ends at a record of the device it seeks.
LEMMA FirstListedFinds ==
    ASSUME NEW nws \in Seq(Network), NEW id \in ListedIds(nws)
    PROVE  FirstListed(id, nws) \in Device /\ FirstListed(id, nws).id = id
<1> DEFINE N == {n \in 1..Len(nws) : DeviceIsIn(id, nws[n].devices)}
           v == nws[Min(N)].devices
           D == {k \in 1..Len(v) : v[k].id = id}
<1>1. Len(nws) \in Nat /\ DOMAIN nws = 1..Len(nws)
      /\ \A n \in 1..Len(nws) : nws[n] \in Network
  BY LenProperties, ElementOfSeq
<1>2. N # {}
  BY <1>1 DEF ListedIds, Ids, ToSet, DeviceIsIn
<1>3. Min(N) \in N
  <2>1. N \in SUBSET Nat
    BY <1>1
  <2> HIDE DEF N
  <2> QED
    BY <2>1, <1>2, MinInSet
<1>4. v \in Seq(Device) /\ DeviceIsIn(id, v)
  BY <1>1, <1>3 DEF Network
<1>5. Len(v) \in Nat /\ DOMAIN v = 1..Len(v) /\ \A k \in 1..Len(v) : v[k] \in Device
  BY <1>4, LenProperties, ElementOfSeq
<1>6. D # {}
  BY <1>4, <1>5 DEF DeviceIsIn
<1>7. Min(D) \in D
  <2>1. D \in SUBSET Nat
    BY <1>5
  <2> HIDE DEF D
  <2> QED
    BY <2>1, <1>6, MinInSet
<1>8. FirstListed(id, nws) = v[Min(D)]
  BY <1>2, <1>6 DEF FirstListed, SelectInSeq
<1> QED
  BY <1>5, <1>7, <1>8

\* What every call of updatePeers establishes, from any old peer list that
\* has one record per device.
LEMMA UpdatePeersSound ==
    ASSUME NEW nws \in Seq(Network),
           NEW peers \in SUBSET Device,
           \A d, e \in peers : d.id = e.id => d = e
    PROVE  LET new == UpdatePeers(nws, peers)
           IN  /\ new \subseteq Device
               /\ \A d, e \in new : d.id = e.id => d = e
               /\ Ids(new) = ListedIds(nws) \ {Self}
               /\ \A d \in peers : d.id \in Ids(new) => d \in new
<1> DEFINE L     == ListedIds(nws)
           kept  == {d \in peers : d.id # Self /\ d.id \in L}
           fresh == L \ ({Self} \cup Ids(kept))
           F     == [id \in fresh |-> FirstListed(id, nws)]
           new   == kept \cup {F[id] : id \in fresh}
<1>1. UpdatePeers(nws, peers) = new
  BY DEF UpdatePeers
<1>2. \A id \in fresh : F[id] \in Device /\ F[id].id = id
  BY FirstListedFinds
<1> HIDE DEF F
<1>3. new \subseteq Device
  BY <1>2, ZenonT(30)
<1>4. \A d, e \in new : d.id = e.id => d = e
  BY <1>2 DEF Ids
<1>5. Ids(new) = L \ {Self}
  BY <1>2 DEF Ids
<1>6. \A d \in peers : d.id \in Ids(new) => d \in new
  BY <1>5
<1> QED
  BY <1>1, <1>3, <1>4, <1>5, <1>6

-----------------------------------------------------------------------------
(* Every handler leaves a sequence of networks in the cache.               *)

\* rebuildState caches the listed networks this device is in.
LEMMA RebuildTyped ==
    ASSUME NEW answer \in Listings,
           NEW s \in SetToSeqs({v \in answer : DeviceIsIn(Self, v.devices)})
    PROVE  s \in Seq(Network)
<1> DEFINE S == {v \in answer : DeviceIsIn(Self, v.devices)}
<1>1. IsFiniteSet(S) /\ S \subseteq Network
  <2>1. IsFiniteSet(answer) /\ answer \subseteq Network
    BY ApiAssumption DEF Listings
  <2> QED
    BY <2>1, FS_Subset
<1>2. Cardinality(S) \in Nat
  BY <1>1, FS_CardinalityType
<1>3. s \in [1..Cardinality(S) -> S]
  BY DEF SetToSeqs
<1> HIDE DEF S
<1>4. s \in [1..Cardinality(S) -> Network]
  BY <1>1, <1>3
<1> QED
  BY <1>2, <1>4, SeqDef

\* handleSelfLeave swaps two cached networks and drops the last one.
LEMMA SelfLeaveTyped ==
    ASSUME NEW nw, nwState \in Seq(Network), HandleSelfLeave(nw)
    PROVE  nwState' \in Seq(Network)
<1> DEFINE i == FetchNetwork(nw)
           t == Swapped(nwState, i, Len(nwState))
<1>1. Len(nwState) \in Nat /\ nwState \in [1..Len(nwState) -> Network]
  BY LenProperties
<1>2. CASE i = 0
  BY <1>2 DEF HandleSelfLeave
<1>3. CASE i # 0
  <2> DEFINE I == {n \in 1..Len(nwState) : nwState[n].id = nw}
  <2>1. I # {} /\ i = Min(I)
    BY <1>3 DEF FetchNetwork, SelectInSeq
  <2>2. I \in SUBSET Nat
    BY <1>1
  <2>3. i \in 1..Len(nwState)
    <3> HIDE DEF I
    <3>1. i \in I
      BY <2>1, <2>2, MinInSet
    <3> QED
      BY <3>1 DEF I
  <2>4. t \in [1..Len(nwState) -> Network]
    BY <1>1, <2>3 DEF Swapped
  <2>5. t \in Seq(Network) /\ Len(t) = Len(nwState)
    BY <1>1, <2>4, SeqDef
  <2>6. Front(t) \in Seq(Network)
    <3> HIDE DEF t
    <3>1. \A k \in 1..Len(t) - 1 : t[k] \in Network
      BY <2>4, <2>5, <1>1
    <3>2. 1 \in Int /\ Len(t) - 1 \in Int
      BY <2>5, <1>1
    <3> QED
      BY <3>1, <3>2, SubSeqProperties DEF Front
  <2> QED
    BY <1>3, <2>6 DEF HandleSelfLeave
<1> QED
  BY <1>2, <1>3

\* handleUpdate overwrites one record of a device list.
LEMMA WithUpdateTyped ==
    ASSUME NEW devs \in Seq(Device), NEW dev \in Device
    PROVE  WithUpdate(devs, dev) \in Seq(Device)
<1> DEFINE i == SelectInSeq(devs, LAMBDA d : d.id = dev.id)
           I == {n \in 1..Len(devs) : devs[n].id = dev.id}
<1>1. Len(devs) \in Nat
  BY LenProperties
<1>2. CASE i = 0
  BY <1>2 DEF WithUpdate
<1>3. CASE i # 0
  <2>1. I # {} /\ i = Min(I)
    BY <1>3 DEF SelectInSeq
  <2>2. I \in SUBSET Nat
    BY <1>1
  <2>3. i \in 1..Len(devs)
    <3> HIDE DEF I
    <3>1. i \in I
      BY <2>1, <2>2, MinInSet
    <3> QED
      BY <3>1 DEF I
  <2>4. WithUpdate(devs, dev) = [devs EXCEPT ![i] = dev]
    BY <1>3 DEF WithUpdate
  <2> HIDE DEF i
  <2> QED
    BY <2>3, <2>4, ExceptSeq
<1> QED
  BY <1>2, <1>3

-----------------------------------------------------------------------------
(* The invariant, and the theorems.                                        *)

\* PeersMatchCache needs PeerListSound to be inductive (a stale record of this
\* device would stay beside the peers), and both need the types.
EngineInv == EngineTypeOK /\ PeerListSound /\ PeersMatchCache

\* A handler that ends in updatePeers, whatever it did to the cache before.
LEMMA RefreshKeepsInv ==
    ASSUME EngineInv,
           nwState' \in Seq(Network),
           peerState' = UpdatePeers(nwState', peerState),
           ourDevice' \in Device, ourDevice'.id = Self,
           crashed' \in BOOLEAN
    PROVE  EngineInv'
<1>1. peerState \in SUBSET Device /\ \A d, e \in peerState : d.id = e.id => d = e
  BY DEF EngineInv, EngineTypeOK, PeerListSound
<1>2. /\ peerState' \subseteq Device
      /\ \A d, e \in peerState' : d.id = e.id => d = e
      /\ Ids(peerState') = ListedIds(nwState') \ {Self}
  BY <1>1, UpdatePeersSound
<1>3. EngineTypeOK'
  BY <1>2 DEF EngineTypeOK
<1>4. PeerListSound'
  BY <1>2 DEF PeerListSound
<1>5. PeersMatchCache'
  BY <1>2 DEF PeersMatchCache
<1> QED
  BY <1>2, <1>3, <1>4, <1>5 DEF EngineInv

\* One step of the engine, action by action.
LEMMA EngineStep ==
    ASSUME EngineInv, [EngineNext]_engineVars
    PROVE  EngineInv'
<1> USE DEF EngineInv
<1>0. nwState \in Seq(Network) /\ ourDevice \in Device /\ ourDevice.id = Self
      /\ crashed \in BOOLEAN
  BY DEF EngineTypeOK
<1>1. CASE UNCHANGED engineVars
  BY <1>1 DEF engineVars, EngineTypeOK, PeerListSound, PeersMatchCache
<1>2. CASE RebuildFails
  <2>1. <<>> \in Seq(Network)
    BY EmptySeq
  <2> QED
    BY <1>2, <2>1 DEF RebuildFails, EngineTypeOK, PeerListSound,
                      PeersMatchCache
<1>3. ASSUME NEW answer \in Listings, RebuildState(answer)
      PROVE  EngineInv'
  <2>1. nwState' \in Seq(Network)
    BY <1>3, RebuildTyped DEF RebuildState
  <2> QED
    BY <1>0, <1>3, <2>1, RefreshKeepsInv DEF RebuildState
<1>4. ASSUME NEW nw \in NetworkIds, NEW dev \in Device,
             HandleJoin(nw, dev, {v \in ApiNetworks : v.id = nw})
      PROVE  EngineInv'
  <2>1. nwState' \in Seq(Network)
    <3>1. CASE UNCHANGED nwState
      BY <1>0, <3>1
    <3>2. CASE \E v \in ApiNetworks : nwState' = Append(nwState, v)
      BY <1>0, <3>2, ApiAssumption, AppendProperties
    <3> QED
      BY <1>4, <3>1, <3>2 DEF HandleJoin, HandleSelfJoin
  <2> QED
    BY <1>0, <1>4, <2>1, RefreshKeepsInv DEF HandleJoin
<1>5. ASSUME NEW nw \in NetworkIds, NEW dev \in Device, HandleLeave(nw, dev)
      PROVE  EngineInv'
  <2>1. nwState' \in Seq(Network)
    BY <1>0, <1>5, SelfLeaveTyped DEF HandleLeave
  <2> QED
    BY <1>0, <1>5, <2>1, RefreshKeepsInv DEF HandleLeave
<1>6. ASSUME NEW nw \in NetworkIds, NEW dev \in Device, HandleLeavePanic(nw, dev)
      PROVE  EngineInv'
  BY <1>6 DEF HandleLeavePanic, EngineTypeOK, PeerListSound, PeersMatchCache
<1>7. ASSUME NEW dev \in Device, HandleUpdate(dev)
      PROVE  EngineInv'
  <2>1. nwState' \in Seq(Network)
    <3>1. Len(nwState) \in Nat /\ nwState \in [1..Len(nwState) -> Network]
          /\ DOMAIN nwState = 1..Len(nwState)
      BY <1>0, LenProperties
    <3>2. ASSUME NEW n \in 1..Len(nwState)
          PROVE  [nwState[n] EXCEPT !.devices = WithUpdate(@, dev)] \in Network
      <4>1. nwState[n] \in Network /\ nwState[n].devices \in Seq(Device)
        BY <3>1 DEF Network
      <4>2. WithUpdate(nwState[n].devices, dev) \in Seq(Device)
        BY <4>1, WithUpdateTyped
      <4> QED
        BY <4>1, <4>2 DEF Network
    <3>3. nwState' \in [1..Len(nwState) -> Network]
      BY <1>7, <3>1, <3>2 DEF HandleUpdate
    <3> QED
      BY <3>1, <3>3, SeqDef
  <2>2. ourDevice' \in Device /\ ourDevice'.id = Self
    BY <1>0, <1>7 DEF HandleUpdate
  <2> QED
    BY <1>0, <1>7, <2>1, <2>2, RefreshKeepsInv DEF HandleUpdate
<1> QED
  BY <1>1, <1>2, <1>3, <1>4, <1>5, <1>6, <1>7 DEF EngineNext

LEMMA EngineInitInv == EngineInit => EngineInv
<1> SUFFICES ASSUME EngineInit PROVE EngineInv
  OBVIOUS
<1>1. <<>> \in Seq(Network)
  BY EmptySeq
<1> QED
  BY <1>1 DEF EngineInit, EngineInv, EngineTypeOK, PeerListSound,
              PeersMatchCache, Ids

\* The inductive invariant.
THEOREM EngineInvariance == EngineSpec => []EngineInv
<1>1. EngineInv /\ [EngineNext]_engineVars => EngineInv'
  BY EngineStep
<1> QED
  BY EngineInitInv, <1>1, PTL DEF EngineSpec

\* The fields of the engine keep their types, ourDevice its ID.
THEOREM EngineTypeCorrect == EngineSpec => []EngineTypeOK
<1>1. EngineInv => EngineTypeOK
  BY DEF EngineInv
<1> QED
  BY EngineInvariance, <1>1, PTL

\* This device is never its own peer and no device is a peer twice, whatever
\* updatePeers is called on.
THEOREM PeerListIsSound == EngineSpec => []PeerListSound
<1>1. EngineInv => PeerListSound
  BY DEF EngineInv
<1> QED
  BY EngineInvariance, <1>1, PTL

\* While a network is cached the peers are the cached devices but this one.
THEOREM PeersAlwaysMatchCache == EngineSpec => []PeersMatchCache
<1>1. EngineInv => PeersMatchCache
  BY DEF EngineInv
<1> QED
  BY EngineInvariance, <1>1, PTL

=============================================================================
