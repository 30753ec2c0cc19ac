------------------------------- MODULE Engine -------------------------------
(***************************************************************************)
(* The Pikonet engine (piko/engine.go): a cache of the networks this       *)
(* device belongs to, and the peer list derived from it.                   *)
(*                                                                         *)
(* Every handler runs under the Engine mutex from its first statement to   *)
(* the last callback, so one handler is one action.  The answers of the    *)
(* REST API are parameters of the handlers: this module lets them be       *)
(* anything in ApiNetworks, module PikoNode ties them to a server.         *)
(*                                                                         *)
(* A device is its ID and the endpoint the rendezvous server reports for   *)
(* it.  Name, IP and public key never change for an ID (no API call        *)
(* changes them), so the ID stands for all three.                          *)
(***************************************************************************)
EXTENDS Naturals, SequencesExt

CONSTANTS
    DeviceIds,    \* IDs of all devices of the user
    Self,         \* the ID in the configuration: ourDevice.ID
    NetworkIds,   \* IDs of all networks
    Endpoints,    \* values of Device.Endpoint
    ApiNetworks   \* network records the REST API may answer with

Device == [id : DeviceIds, endpoint : Endpoints]

Network == [id : NetworkIds, devices : Seq(Device)]

ASSUME SelfAssumption == Self \in DeviceIds

ASSUME ApiAssumption == ApiNetworks \subseteq Network

VARIABLES
    nwState,      \* e.nwState, the cached networks, in order
    peerState,    \* e.peerState; its order is never observed here
    ourDevice,    \* e.ourDevice
    crashed       \* a handler panicked: the process is gone

engineVars == <<nwState, peerState, ourDevice, crashed>>

-----------------------------------------------------------------------------

Ids(devs) == {d.id : d \in devs}

DeviceIsIn(id, devs) == \E i \in DOMAIN devs : devs[i].id = id

\* Every device ID some network of nws lists.
ListedIds(nws) == UNION {Ids(ToSet(nws[n].devices)) : n \in DOMAIN nws}

\* The record of device id met first when nws is walked in order.
FirstListed(id, nws) ==
    LET v == nws[SelectInSeq(nws, LAMBDA w : DeviceIsIn(id, w.devices))].devices
    IN  v[SelectInSeq(v, LAMBDA d : d.id = id)]

\* Faulty variants of updatePeers, which the properties below tell apart.
BugPeersListSelf(nws, peers) ==
    LET kept == {d \in peers : d.id \in ListedIds(nws)}
    IN  kept \cup {FirstListed(id, nws) : id \in ListedIds(nws) \ Ids(kept)}

BugPeersNeverLost(nws, peers) ==
    peers \cup {FirstListed(id, nws) :
                   id \in ListedIds(nws) \ ({Self} \cup Ids(peers))}

\* updatePeers keeps the old record of a device that is still listed, and
\* takes the first listed record of a device it did not know.
UpdatePeers(nws, peers) ==
    LET kept  == {d \in peers : d.id # Self /\ d.id \in ListedIds(nws)}
        fresh == ListedIds(nws) \ ({Self} \cup Ids(kept))
    IN  kept \cup {FirstListed(id, nws) : id \in fresh}

\* Index of the first cached network with this ID, 0 for Go's nil.  The code
\* returns the address of a COPY of the slice element, whose Devices field
\* shares the backing array of the cached one: writes to an element within its
\* length reach the cache, changes of its length do not.
FetchNetwork(id) == SelectInSeq(nwState, LAMBDA v : v.id = id)

\* Exchange the elements at positions i and j.
Swapped(s, i, j) == [s EXCEPT ![i] = s[j], ![j] = s[i]]

-----------------------------------------------------------------------------

EngineInit ==
    /\ nwState = <<>>
    /\ peerState = {}
    /\ ourDevice \in {d \in Device : d.id = Self}
    /\ crashed = FALSE

\* rebuildState.  A failed request leaves the cache emptied and the peers as
\* they were.  The server gives the list in an order of its own.
RebuildFails ==
    /\ nwState' = <<>>
    /\ UNCHANGED <<peerState, ourDevice, crashed>>

\* A faulty rebuildState: the networks we are not in are cached too.
BugCachesAllNetworks(answer) ==
    /\ nwState' \in SetToSeqs(answer)
    /\ peerState' = UpdatePeers(nwState', peerState)
    /\ UNCHANGED <<ourDevice, crashed>>

RebuildState(answer) ==
    /\ nwState' \in SetToSeqs({v \in answer : DeviceIsIn(Self, v.devices)})
    /\ peerState' = UpdatePeers(nwState', peerState)
    /\ UNCHANGED <<ourDevice, crashed>>

\* handleSelfJoin: ask for the network, append it unless the request failed.
HandleSelfJoin(answers) ==
    \/ \E v \in answers : nwState' = Append(nwState, v)
    \/ UNCHANGED nwState

\* handleJoin returns early for a network that is not cached.
JoinIgnored(nw, dev) == dev.id # Self /\ FetchNetwork(nw) = 0

\* handleJoin.  For another device the append lands in the copy.
HandleJoin(nw, dev, answers) ==
    /\ ~JoinIgnored(nw, dev)
    /\ IF dev.id = Self THEN HandleSelfJoin(answers) ELSE UNCHANGED nwState
    /\ peerState' = UpdatePeers(nwState', peerState)
    /\ UNCHANGED <<ourDevice, crashed>>

\* A faulty handleSelfLeave: every network is forgotten.
BugSelfLeaveForgetsAll(nw) ==
    nwState' = IF FetchNetwork(nw) = 0 THEN nwState ELSE <<>>

\* handleSelfLeave: swap the first match with the last network, truncate.
HandleSelfLeave(nw) ==
    LET i == FetchNetwork(nw)
    IN  nwState' = IF i = 0 THEN nwState
                            ELSE Front(Swapped(nwState, i, Len(nwState)))

LeaveIgnored(nw, dev) == dev.id # Self /\ FetchNetwork(nw) = 0

\* The loop over cnw.Devices has no break.  When the device is found before
\* the last position it is swapped to the last one and the copy is truncated;
\* the range still visits the last position, finds the device again, and
\* indexes the truncated slice out of range.
LeavePanics(nw, dev) ==
    /\ dev.id # Self
    /\ FetchNetwork(nw) # 0
    /\ LET devs == nwState[FetchNetwork(nw)].devices
       IN  DeviceIsIn(dev.id, SubSeq(devs, 1, Len(devs) - 1))

HandleLeavePanic(nw, dev) ==
    /\ LeavePanics(nw, dev)
    /\ crashed' = TRUE
    /\ UNCHANGED <<nwState, peerState, ourDevice>>

\* handleLeave.  For another device only the copy gets shorter.
HandleLeave(nw, dev) ==
    /\ ~LeaveIgnored(nw, dev)
    /\ ~LeavePanics(nw, dev)
    /\ IF dev.id = Self THEN HandleSelfLeave(nw) ELSE UNCHANGED nwState
    /\ peerState' = UpdatePeers(nwState', peerState)
    /\ UNCHANGED <<ourDevice, crashed>>

\* A faulty update of a device list: the cached copy is not written.
BugUpdateMissesCache(devs, dev) == devs

\* One pass over a device list, which stops at the first match.
WithUpdate(devs, dev) ==
    LET i == SelectInSeq(devs, LAMBDA d : d.id = dev.id)
    IN  IF i = 0 THEN devs ELSE [devs EXCEPT ![i] = dev]

\* handleUpdate writes through the shared backing arrays.
HandleUpdate(dev) ==
    /\ ourDevice' = IF dev.id = Self THEN dev ELSE ourDevice
    /\ nwState' = [n \in DOMAIN nwState |->
                      [nwState[n] EXCEPT !.devices = WithUpdate(@, dev)]]
    /\ peerState' = UpdatePeers(nwState', peerState)
    /\ UNCHANGED crashed

-----------------------------------------------------------------------------

\* Answers to GET /list/networks: finitely many networks, distinct IDs.
Listings == {answer \in SUBSET ApiNetworks :
                /\ IsFiniteSet(answer)
                /\ \A v, w \in answer : v.id = w.id => v = w}

EngineNext ==
    /\ ~crashed
    /\ \/ RebuildFails
       \/ \E answer \in Listings : RebuildState(answer)
       \/ \E nw \in NetworkIds, dev \in Device :
             \/ HandleJoin(nw, dev, {v \in ApiNetworks : v.id = nw})
             \/ HandleLeave(nw, dev)
             \/ HandleLeavePanic(nw, dev)
       \/ \E dev \in Device : HandleUpdate(dev)

EngineSpec == EngineInit /\ [][EngineNext]_engineVars

-----------------------------------------------------------------------------

\* Types of the engine's fields.  The engine compares IDs with
\* e.ourDevice.ID; that ID never changes, so the handlers above use Self.
EngineTypeOK ==
    /\ nwState \in Seq(Network)
    /\ peerState \subseteq Device
    /\ ourDevice \in Device
    /\ ourDevice.id = Self
    /\ crashed \in BOOLEAN

\* The peer list never holds this device ("this should never be here",
\* updatePeers) nor two records for one device, however joins, leaves, updates
\* and rebuilds follow each other and even when two cached networks disagree
\* about a device.
PeerListSound ==
    /\ Self \notin Ids(peerState)
    /\ \A d, e \in peerState : d.id = e.id => d = e

\* Whenever a network is cached, the peers are exactly the other devices the
\* cache lists.  The one state in which the two may differ is the one a failed
\* rebuild leaves: an empty cache beside the old peers.
PeersMatchCache ==
    nwState # <<>> => Ids(peerState) = ListedIds(nwState) \ {Self}

\* What the comments claim ("rebuildState fully rebuilds the state objects",
\* "a full rebuild of the internal Pikonet state"): after a rebuild every peer
\* has a record the server just gave.  It does not hold: updatePeers keeps the
\* record of a device that is still listed, whatever endpoint it has by now.
RebuildIsFull ==
    [][\A answer \in Listings :
          RebuildState(answer) =>
             \A d \in peerState' : \E v \in answer : d \in ToSet(v.devices)]_engineVars
=============================================================================
