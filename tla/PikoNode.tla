------------------------------ MODULE PikoNode ------------------------------
(***************************************************************************)
(* One daemon and the rendezvous server it talks to.  The server is not    *)
(* part of the repository: it is modelled from the requests the daemon     *)
(* makes (api/api.go) and the messages it reads (api/gateway.go).          *)
(*                                                                         *)
(* The gateway reader queues messages in e.gw and the engine handles them  *)
(* one at a time, fetching over HTTP what the server has BY THEN: a        *)
(* snapshot newer than the messages still queued.  When the connection     *)
(* drops, what was not yet read is lost.                                   *)
(***************************************************************************)
EXTENDS WgSync

CONSTANTS
    ApiFaults,  \* may HTTP requests fail?
    Roaming,    \* BOUND on the devices that report new endpoints
    MaxQueue    \* BOUND on the messages on their way

ASSUME BoundsAssumption == Roaming \subseteq DeviceIds /\ MaxQueue \in Nat

ASSUME ApiFaultAssumption == ApiFaults \in BOOLEAN

\* The server has finitely many networks and devices.  ApiNetworks has all it
\* may answer: a network with some devices, in any order.
ASSUME ServerAssumption ==
    /\ IsFiniteSet(NetworkIds) /\ IsFiniteSet(DeviceIds)
    /\ \A f \in [DeviceIds -> Endpoints], n \in NetworkIds, D \in SUBSET DeviceIds :
          \A s \in SetToSeqs({[id |-> d, endpoint |-> f[d]] : d \in D}) :
              [id |-> n, devices |-> s] \in ApiNetworks

VARIABLES
    members,  \* server: the devices of each network
    info,     \* server: the endpoint of each device
    gw,       \* e.gw and what the websocket still holds, oldest first
    linked,   \* the websocket is up
    settled,  \* history: the last rebuild succeeded, and since then neither
              \* has the membership changed nor a request failed
    steady    \* history: the membership has not changed since the websocket
              \* came up

serverVars == <<members, info>>
linkVars == <<gw, linked>>
history == <<settled, steady>>
pikoVars == <<nodeVars, serverVars, linkVars, history>>

Rec(d) == [id |-> d, endpoint |-> info[d]]

Msg == [type : {"Connect", "Disconnect"}]
       \cup [type : {"NetworkJoin", "NetworkLeave"}, nw : NetworkIds, dev : Device]
       \cup [type : {"DeviceUpdate"}, dev : Device]

Shares(d) == \E n \in NetworkIds : {d, Self} \subseteq members[n]

\* The devices that should be peers: those that share a network with us.
CoMembers == {d \in DeviceIds \ {Self} : Shares(d)}

\* Answers to GET /network/info and to GET /list/networks; the server lists
\* the devices of a network in any order.
Answers(n) == {[id |-> n, devices |-> s] :
                  s \in SetToSeqs({Rec(d) : d \in members[n]})}

ServerListings == {{f[n] : n \in NetworkIds} :
                      f \in {g \in [NetworkIds -> UNION {Answers(n) : n \in NetworkIds}] :
                                \A n \in NetworkIds : g[n].id = n}}

-----------------------------------------------------------------------------
(* The server                                                              *)

Send(msg, wanted) ==
    /\ Len(gw) < MaxQueue
    /\ gw' = IF linked /\ wanted THEN Append(gw, msg) ELSE gw
    /\ UNCHANGED <<nodeVars, linked>>

\* A device joins a network: the members hear of it, the new one too.
ServerJoin(d, n) ==
    /\ d \notin members[n]
    /\ members' = [members EXCEPT ![n] = @ \cup {d}]
    /\ Send([type |-> "NetworkJoin", nw |-> n, dev |-> Rec(d)], Self \in members'[n])
    /\ settled' = FALSE
    /\ steady' = FALSE
    /\ UNCHANGED info

ServerLeave(d, n) ==
    /\ d \in members[n]
    /\ members' = [members EXCEPT ![n] = @ \ {d}]
    /\ Send([type |-> "NetworkLeave", nw |-> n, dev |-> Rec(d)], Self \in members[n])
    /\ settled' = FALSE
    /\ steady' = FALSE
    /\ UNCHANGED info

\* A device reports an endpoint: it and the devices it shares a network with
\* hear of it.
ServerUpdate(d, e) ==
    /\ info[d] # e
    /\ info' = [info EXCEPT ![d] = e]
    /\ Send([type |-> "DeviceUpdate", dev |-> [id |-> d, endpoint |-> e]],
            d = Self \/ Shares(d))
    /\ UNCHANGED <<members, history>>

-----------------------------------------------------------------------------
(* The connection, as the engine sees it (module Gateway has the inside)   *)

LinkUp ==
    /\ ~linked
    /\ linked' = TRUE
    /\ Len(gw) < MaxQueue
    /\ gw' = Append(gw, [type |-> "Connect"])
    /\ steady' = TRUE
    /\ UNCHANGED <<nodeVars, serverVars, settled>>

\* The messages after position k, all sent by the server since the last
\* Connect, are lost.
LinkDown(k) ==
    /\ linked
    /\ linked' = FALSE
    /\ \A i \in k+1..Len(gw) : gw[i].type \notin {"Connect", "Disconnect"}
    /\ k < MaxQueue
    /\ gw' = Append(SubSeq(gw, 1, k), [type |-> "Disconnect"])
    /\ UNCHANGED <<nodeVars, serverVars, history>>

-----------------------------------------------------------------------------
(* handleGwMsg                                                             *)

OnConnect ==
    \/ ApiFaults /\ NodeRebuildFails /\ settled' = FALSE
    \/ (\E answer \in ServerListings : NodeRebuild(answer)) /\ settled' = TRUE

OnNetworkJoin(msg) ==
    LET failed == msg.dev.id = Self /\ UNCHANGED nwState
    IN  \/ /\ JoinIgnored(msg.nw, msg.dev)
           /\ UNCHANGED <<nodeVars, settled>>
        \/ /\ NodeJoin(msg.nw, msg.dev, Answers(msg.nw))
           /\ failed => ApiFaults
           /\ settled' = (settled /\ ~failed)

OnNetworkLeave(msg) ==
    /\ \/ LeaveIgnored(msg.nw, msg.dev) /\ UNCHANGED nodeVars
       \/ NodeLeave(msg.nw, msg.dev)
       \/ NodeLeavePanic(msg.nw, msg.dev)
    /\ UNCHANGED settled

\* handleGwMsg does nothing on Disconnect.
OnDisconnect == UNCHANGED <<nodeVars, settled>>

HandleGwMsg ==
    /\ gw # <<>>
    /\ gw' = Tail(gw)
    /\ LET msg == Head(gw)
       IN  \/ msg.type = "Connect" /\ OnConnect
           \/ msg.type = "Disconnect" /\ OnDisconnect
           \/ msg.type = "NetworkJoin" /\ OnNetworkJoin(msg)
           \/ msg.type = "NetworkLeave" /\ OnNetworkLeave(msg)
           \/ msg.type = "DeviceUpdate" /\ NodeUpdate(msg.dev) /\ UNCHANGED settled
    /\ UNCHANGED <<serverVars, linked, steady>>

-----------------------------------------------------------------------------

\* Connect fetches our device before the gateway starts.  All devices start
\* with one endpoint; their updates bring the others.
PikoInit ==
    /\ NodeInit
    /\ members \in [NetworkIds -> SUBSET DeviceIds]
    /\ \E e \in Endpoints : info = [d \in DeviceIds |-> e]
    /\ ourDevice = Rec(Self)
    /\ gw = <<>>
    /\ linked = FALSE
    /\ settled = FALSE
    /\ steady = FALSE

PikoNext ==
    /\ ~crashed
    /\ \/ \E d \in DeviceIds, n \in NetworkIds : ServerJoin(d, n) \/ ServerLeave(d, n)
       \/ \E d \in Roaming, e \in Endpoints : ServerUpdate(d, e)
       \/ LinkUp
       \/ \E k \in 0..Len(gw) : LinkDown(k)
       \/ HandleGwMsg
       \/ Discovery /\ UNCHANGED <<serverVars, linkVars, history>>

PikoSpec == PikoInit /\ [][PikoNext]_pikoVars

-----------------------------------------------------------------------------

\* Types of the server's state and of the queue.
PikoTypeOK ==
    /\ members \in [NetworkIds -> SUBSET DeviceIds]
    /\ info \in [DeviceIds -> Endpoints]
    /\ gw \in Seq(Msg)
    /\ Len(gw) <= MaxQueue
    /\ linked \in BOOLEAN
    /\ settled \in BOOLEAN
    /\ steady \in BOOLEAN

\* Once everything queued is handled and nothing happened since the last
\* rebuild, peers and mirror are the devices that share a network with us: the
\* messages older than the snapshot that are handled after it, and those lost
\* with a connection, do no lasting harm to the peer list.
SettledPeersAreRight ==
    linked /\ gw = <<>> /\ settled /\ ~crashed =>
        Ids(peerState) = CoMembers /\ wgLastPeers = CoMembers

\* In the same states the cached networks are those we are in, though a join or
\* a leave of ours older than the snapshot was handled after it: they undo each
\* other, since no join without its leave is older than a snapshot without it.
SettledNetworksAreOurs ==
    linked /\ gw = <<>> /\ settled /\ ~crashed =>
        {v.id : v \in ToSet(nwState)} = {n \in NetworkIds : Self \in members[n]}

\* If, besides, nobody joined or left since the websocket came up, the cached
\* records are the server's: an update older than the snapshot that is applied
\* after it is followed by the newer one.  A device that leaves, moves and joins
\* again is excepted, for its join carries a record that handleJoin loses.
SettledCacheIsFresh ==
    linked /\ gw = <<>> /\ settled /\ steady /\ ~crashed =>
        \A n \in DOMAIN nwState : \A d \in ToSet(nwState[n].devices) : d = Rec(d.id)

-----------------------------------------------------------------------------
(* What the comments say and the code does not do                          *)

Handled(type) == gw # <<>> /\ gw' = Tail(gw) /\ Head(gw).type = type

\* "OnJoin registers a function to be called upon a device joining a network.
\* The function will be called after the peer list has been updated."
\* (piko/engine.go): once a join is handled the device is a peer.
JoinReachesPeers ==
    [][Handled("NetworkJoin") /\ ~JoinIgnored(Head(gw).nw, Head(gw).dev)
        => Head(gw).dev.id \in {Self} \cup Ids(peerState')]_pikoVars

\* "handleLeave handles a device leaving a network.": it does not panic.
NeverPanics == ~crashed
=============================================================================
