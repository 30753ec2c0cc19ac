------------------------------- MODULE DnsMap -------------------------------
(***************************************************************************)
(* The names the daemon answers for (cmd/pikonoded/dns.go): a map from the *)
(* domain form of a device's name to its IP, entered by callbacks of the   *)
(* engine.  The callbacks run inside the handlers: handler and callback    *)
(* are one action.  A device ID stands for its IP.                         *)
(*                                                                         *)
(* domainify lowers letters and replaces what is not a letter or a digit:  *)
(* two devices may come to share a key.                                    *)
(***************************************************************************)
EXTENDS Engine

CONSTANT Keys  \* domain forms of names

VARIABLES
    key,    \* domainify(name) of each device; names never change
    dnsMap  \* from keys to device IDs

dnsVars == <<engineVars, key, dnsMap>>

-----------------------------------------------------------------------------

Listed(peers, k) == {i \in Ids(peers) : key[i] = k}

\* The map gets the keys of the peers and ours, and leads each to one of At(k).
MapTo(peers, At(_)) ==
    dnsMap' \in {m \in [DOMAIN dnsMap \cup {key[i] : i \in Ids(peers) \cup {Self}} -> DeviceIds] :
                    \A k \in DOMAIN m : m[k] \in At(k)}

\* A faulty map: a key keeps its first device.
BugFirstComeStays(peers) ==
    MapTo(peers, LAMBDA k : IF k = key[Self] THEN {Self}
                            ELSE IF k \in DOMAIN dnsMap THEN {dnsMap[k]}
                            ELSE Listed(peers, k))

\* dnsUpdatePeers: of the peers that share a key the last of the list wins, this
\* device wins over all, and the other keys keep what they had.
DnsUpdatePeers(peers) ==
    MapTo(peers, LAMBDA k : IF k = key[Self] THEN {Self}
                            ELSE IF Listed(peers, k) # {} THEN Listed(peers, k)
                            ELSE {dnsMap[k]})

\* Whichever handler ran to its callbacks.
Named == DnsUpdatePeers(peerState') /\ UNCHANGED key

DnsRebuild(answer) == RebuildState(answer) /\ Named

DnsJoin(nw, dev, answers) == HandleJoin(nw, dev, answers) /\ Named

DnsLeave(nw, dev) == HandleLeave(nw, dev) /\ Named

DnsUpdate(dev) == HandleUpdate(dev) /\ Named

\* A handler that returns early, or panics, calls nothing.
NoCallback ==
    /\ RebuildFails \/ \E nw \in NetworkIds, dev \in Device : HandleLeavePanic(nw, dev)
    /\ UNCHANGED <<key, dnsMap>>

-----------------------------------------------------------------------------

DnsInit ==
    /\ EngineInit
    /\ key \in [DeviceIds -> Keys]
    /\ dnsMap = <<>>

DnsNext ==
    /\ ~crashed
    /\ \/ NoCallback
       \/ \E answer \in Listings : DnsRebuild(answer)
       \/ \E nw \in NetworkIds, dev \in Device :
             \/ DnsJoin(nw, dev, {v \in ApiNetworks : v.id = nw})
             \/ DnsLeave(nw, dev)
       \/ \E dev \in Device : DnsUpdate(dev)

DnsSpec == DnsInit /\ [][DnsNext]_dnsVars

-----------------------------------------------------------------------------

\* The key of a peer leads to that peer, unless this device or another peer has
\* the same key: no device that was a peer before keeps the name from it,
\* though the map never loses a key.  Our own key, once there is a map, leads to
\* this device ("Add ourselves"), whoever shares it.
PeersAreNamed ==
    /\ \A i \in Ids(peerState) :
          (\A j \in Ids(peerState) \cup {Self} : key[j] = key[i] => j = i)
              => key[i] \in DOMAIN dnsMap /\ dnsMap[key[i]] = i
    /\ dnsMap # <<>> => key[Self] \in DOMAIN dnsMap /\ dnsMap[key[Self]] = Self
=============================================================================
