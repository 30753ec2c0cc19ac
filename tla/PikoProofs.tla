----------------------------- MODULE PikoProofs -----------------------------
(***************************************************************************)
(* The daemon with the server it talks to (module PikoNode), for every     *)
(* number of devices and networks and every length of the queue.           *)
(*                                                                         *)
(* It is the daemon of module WgSync: what NodeProofs shows for any answer *)
(* of the API and any message holds when the server gives them.            *)
(*                                                                         *)
(* Once it has caught up with the server, its cache, peers and mirror are  *)
(* the server's, though messages older than a snapshot are handled after   *)
(* it and messages are lost.  An invariant of the queue says what may wait *)
(* in the last session; one of the cache says that whatever it lacks, or   *)
(* has too much, some message that waits makes good.                       *)
(***************************************************************************)
EXTENDS PikoNode, NodeProofs, FiniteSetTheorems

-----------------------------------------------------------------------------
(* Types of the server and the queue                                       *)

LEMMA PikoInitTyped == PikoInit => PikoTypeOK
<1> SUFFICES ASSUME PikoInit PROVE PikoTypeOK
  OBVIOUS
<1>1. <<>> \in Seq(Msg) /\ Len(<<>>) = 0 /\ 0 <= MaxQueue
  BY EmptySeq, BoundsAssumption
<1> QED
  BY <1>1 DEF PikoInit, PikoTypeOK

\* A send or a new connection adds a message that fits.
LEMMA AppendTyped ==
    ASSUME gw \in Seq(Msg), Len(gw) < MaxQueue, NEW msg \in Msg
    PROVE  Append(gw, msg) \in Seq(Msg) /\ Len(Append(gw, msg)) <= MaxQueue
<1>1. Len(gw) \in Nat /\ Append(gw, msg) \in Seq(Msg) /\ Len(Append(gw, msg)) = Len(gw) + 1
  BY LenProperties, AppendProperties
<1> QED
  BY <1>1, BoundsAssumption

LEMMA SendTyped ==
    ASSUME PikoTypeOK, NEW msg \in Msg, NEW wanted, Send(msg, wanted)
    PROVE  gw' \in Seq(Msg) /\ Len(gw') <= MaxQueue
BY AppendTyped DEF PikoTypeOK, Send

LEMMA ServerTyped ==
    ASSUME PikoTypeOK,
           \/ \E d \in DeviceIds, n \in NetworkIds : ServerJoin(d, n) \/ ServerLeave(d, n)
           \/ \E d \in Roaming, e \in Endpoints : ServerUpdate(d, e)
    PROVE  PikoTypeOK'
<1>0. members \in [NetworkIds -> SUBSET DeviceIds] /\ info \in [DeviceIds -> Endpoints]
      /\ \A d \in DeviceIds : Rec(d) \in Device
  BY DEF PikoTypeOK, Rec, Device
<1>1. ASSUME NEW d \in DeviceIds, NEW n \in NetworkIds, ServerJoin(d, n) \/ ServerLeave(d, n)
      PROVE  PikoTypeOK'
  <2>1. members' \in [NetworkIds -> SUBSET DeviceIds] /\ info' = info
    BY <1>0, <1>1 DEF ServerJoin, ServerLeave
  <2>2. ASSUME NEW type \in {"NetworkJoin", "NetworkLeave"}, NEW wanted,
               Send([type |-> type, nw |-> n, dev |-> Rec(d)], wanted)
        PROVE  gw' \in Seq(Msg) /\ Len(gw') <= MaxQueue
    <3>1. [type |-> type, nw |-> n, dev |-> Rec(d)] \in Msg
      BY <1>0 DEF Msg
    <3> QED
      BY <2>2, <3>1, SendTyped
  <2>3. gw' \in Seq(Msg) /\ Len(gw') <= MaxQueue
    <3>1. CASE ServerJoin(d, n)
      BY <2>2, <3>1 DEF ServerJoin
    <3>2. CASE ServerLeave(d, n)
      BY <2>2, <3>2 DEF ServerLeave
    <3> QED
      BY <1>1, <3>1, <3>2
  <2>4. linked' = linked /\ settled' = FALSE /\ steady' = FALSE
    BY <1>1 DEF ServerJoin, ServerLeave, Send
  <2> QED
    BY <1>0, <2>1, <2>3, <2>4 DEF PikoTypeOK
<1>2. ASSUME NEW d \in Roaming, NEW e \in Endpoints, ServerUpdate(d, e)
      PROVE  PikoTypeOK'
  <2>0. d \in DeviceIds
    BY BoundsAssumption
  <2>1. info' \in [DeviceIds -> Endpoints]
    BY <1>0, <1>2, <2>0 DEF ServerUpdate
  <2>2. [type |-> "DeviceUpdate", dev |-> [id |-> d, endpoint |-> e]] \in Msg
    BY <2>0 DEF Msg, Device
  <2>3. gw' \in Seq(Msg) /\ Len(gw') <= MaxQueue
    BY <1>2, <2>2, SendTyped DEF ServerUpdate
  <2>4. UNCHANGED <<members, linked, settled, steady>>
    BY <1>2 DEF ServerUpdate, Send, history
  <2> QED
    BY <2>1, <2>3, <2>4 DEF PikoTypeOK
<1> QED
  BY <1>1, <1>2

LEMMA LinkTyped ==
    ASSUME PikoTypeOK, LinkUp \/ \E k \in 0..Len(gw) : LinkDown(k)
    PROVE  PikoTypeOK'
<1>0. gw \in Seq(Msg) /\ Len(gw) \in Nat /\ DOMAIN gw = 1..Len(gw)
      /\ [type |-> "Connect"] \in Msg /\ [type |-> "Disconnect"] \in Msg
  BY LenProperties DEF PikoTypeOK, Msg
<1>1. CASE LinkUp
  <2>1. gw' \in Seq(Msg) /\ Len(gw') <= MaxQueue
    BY <1>0, <1>1, AppendTyped DEF LinkUp
  <2> QED
    BY <1>1, <2>1 DEF LinkUp, PikoTypeOK, serverVars
<1>2. ASSUME NEW k \in 0..Len(gw), LinkDown(k)
      PROVE  PikoTypeOK'
  <2>1. \A i \in 1..k : gw[i] \in Msg
    BY <1>0, ElementOfSeq
  <2>2. SubSeq(gw, 1, k) \in Seq(Msg) /\ Len(SubSeq(gw, 1, k)) = k
    <3>1. 1 \in Int /\ k \in Int
      BY <1>0
    <3>2. SubSeq(gw, 1, k) \in Seq(Msg) /\ Len(SubSeq(gw, 1, k)) = (IF 1 <= k THEN k - 1 + 1 ELSE 0)
      BY <2>1, <3>1, SubSeqProperties
    <3> QED
      BY <1>0, <3>2
  <2>3. gw' \in Seq(Msg) /\ Len(gw') = k + 1
    BY <1>0, <1>2, <2>2, AppendProperties DEF LinkDown
  <2>4. Len(gw') <= MaxQueue
    BY <1>0, <1>2, <2>3, BoundsAssumption DEF LinkDown
  <2> QED
    BY <1>2, <2>3, <2>4 DEF LinkDown, PikoTypeOK, serverVars, history
<1> QED
  BY <1>1, <1>2

LEMMA HandleTyped ==
    ASSUME PikoTypeOK, HandleGwMsg
    PROVE  PikoTypeOK'
<1>1. gw' \in Seq(Msg) /\ Len(gw') <= MaxQueue
  <2>1. gw \in Seq(Msg) /\ gw # <<>> /\ gw' = Tail(gw) /\ Len(gw) <= MaxQueue
    BY DEF HandleGwMsg, PikoTypeOK
  <2>2. Tail(gw) \in Seq(Msg) /\ Len(Tail(gw)) = Len(gw) - 1 /\ Len(gw) \in Nat
    BY <2>1, HeadTailProperties, LenProperties
  <2> QED
    BY <2>1, <2>2, BoundsAssumption
<1>2. settled' \in BOOLEAN
  BY DEF HandleGwMsg, OnConnect, OnDisconnect, OnNetworkJoin, OnNetworkLeave, PikoTypeOK
<1> QED
  BY <1>1, <1>2 DEF HandleGwMsg, PikoTypeOK, serverVars

\* The server's records, the queue and the history keep their types.
THEOREM PikoTypeCorrect == PikoSpec => []PikoTypeOK
<1>1. PikoTypeOK /\ [PikoNext]_pikoVars => PikoTypeOK'
  <2>1. ASSUME PikoTypeOK, UNCHANGED <<serverVars, linkVars, history>>
        PROVE  PikoTypeOK'
    BY <2>1 DEF PikoTypeOK, serverVars, linkVars, history
  <2> QED
    BY <2>1, ServerTyped, LinkTyped, HandleTyped DEF PikoNext, pikoVars
<1> QED
  BY <1>1, PikoInitTyped, PTL DEF PikoSpec

-----------------------------------------------------------------------------
(* The refinement                                                          *)

\* The server's answers are answers the API may give.
LEMMA AnswersAreApi ==
    ASSUME PikoTypeOK, NEW n \in NetworkIds
    PROVE  Answers(n) \subseteq {v \in ApiNetworks : v.id = n}
<1>1. info \in [DeviceIds -> Endpoints] /\ members[n] \in SUBSET DeviceIds
  BY DEF PikoTypeOK
<1>2. {Rec(d) : d \in members[n]} = {[id |-> d, endpoint |-> info[d]] : d \in members[n]}
  BY DEF Rec
<1>3. \A s \in SetToSeqs({Rec(d) : d \in members[n]}) : [id |-> n, devices |-> s] \in ApiNetworks
  BY <1>1, <1>2, ServerAssumption
<1> SUFFICES ASSUME NEW v \in Answers(n) PROVE v \in ApiNetworks /\ v.id = n
  OBVIOUS
<1>4. PICK s \in SetToSeqs({Rec(d) : d \in members[n]}) : v = [id |-> n, devices |-> s]
  BY DEF Answers
<1> QED
  BY <1>3, <1>4

LEMMA ListingsAreApi ==
    ASSUME PikoTypeOK
    PROVE  ServerListings \subseteq Listings
<1> SUFFICES ASSUME NEW answer \in ServerListings PROVE answer \in Listings
  OBVIOUS
<1> DEFINE all == UNION {Answers(n) : n \in NetworkIds}
<1>1. PICK f \in [NetworkIds -> all] :
          answer = {f[n] : n \in NetworkIds} /\ \A n \in NetworkIds : f[n].id = n
  BY DEF ServerListings
<1>2. all \subseteq ApiNetworks
  BY AnswersAreApi
<1> HIDE DEF all
<1>3. answer \subseteq ApiNetworks
  BY <1>1, <1>2
<1>4. \A v, w \in answer : v.id = w.id => v = w
  BY <1>1
<1>5. IsFiniteSet(answer)
  <2>1. f \in Surjection(NetworkIds, answer)
    BY <1>1 DEF Surjection
  <2> QED
    BY <2>1, ServerAssumption, FS_Surjection
<1> QED
  BY <1>3, <1>4, <1>5 DEF Listings

\* A message that the engine handles has a network and a device of ours.
LEMMA MessagesTyped ==
    ASSUME NEW msg \in Msg
    PROVE  /\ msg.type \in {"NetworkJoin", "NetworkLeave"} =>
                  msg.nw \in NetworkIds /\ msg.dev \in Device
           /\ msg.type = "DeviceUpdate" => msg.dev \in Device
BY DEF Msg

\* The handler of a join asks the server, whose answers the API may give.
LEMMA JoinIsNodeJoin ==
    ASSUME NEW nw, NEW dev, NEW S, NEW T, S \subseteq T, NodeJoin(nw, dev, S)
    PROVE  NodeJoin(nw, dev, T)
BY DEF NodeJoin, HandleJoin, HandleSelfJoin

LEMMA PikoStepIsNodeStep ==
    ASSUME PikoTypeOK, [PikoNext]_pikoVars
    PROVE  [NodeNext]_nodeVars
<1>1. CASE UNCHANGED pikoVars
  BY <1>1 DEF pikoVars
<1>2. CASE \/ \E d \in DeviceIds, n \in NetworkIds : ServerJoin(d, n) \/ ServerLeave(d, n)
           \/ \E d \in Roaming, e \in Endpoints : ServerUpdate(d, e)
           \/ LinkUp
           \/ \E k \in 0..Len(gw) : LinkDown(k)
  BY <1>2 DEF ServerJoin, ServerLeave, ServerUpdate, LinkUp, LinkDown, Send
<1>3. CASE HandleGwMsg /\ ~crashed
  <2> DEFINE msg == Head(gw)
  <2>1. msg \in Msg
    BY <1>3, HeadTailProperties DEF HandleGwMsg, PikoTypeOK
  <2> HIDE DEF msg
  <2>2. CASE msg.type = "Connect" /\ OnConnect
    BY <1>3, <2>2, ListingsAreApi DEF OnConnect, NodeNext
  <2>3. CASE msg.type = "Disconnect" /\ OnDisconnect
    BY <2>3 DEF OnDisconnect
  <2>4. CASE msg.type = "NetworkJoin" /\ OnNetworkJoin(msg)
    <3>1. msg.nw \in NetworkIds /\ msg.dev \in Device
      BY <2>1, <2>4, MessagesTyped
    <3>2. Answers(msg.nw) \subseteq {v \in ApiNetworks : v.id = msg.nw}
      BY <3>1, AnswersAreApi
    <3>3. UNCHANGED nodeVars \/ NodeJoin(msg.nw, msg.dev, Answers(msg.nw))
      BY <2>4 DEF OnNetworkJoin
    <3>4. UNCHANGED nodeVars \/ NodeJoin(msg.nw, msg.dev, {v \in ApiNetworks : v.id = msg.nw})
      BY <3>2, <3>3, JoinIsNodeJoin
    <3> QED
      BY <1>3, <3>1, <3>4 DEF NodeNext
  <2>5. CASE msg.type = "NetworkLeave" /\ OnNetworkLeave(msg)
    <3>1. msg.nw \in NetworkIds /\ msg.dev \in Device
      BY <2>1, <2>5, MessagesTyped
    <3> QED
      BY <1>3, <2>5, <3>1 DEF OnNetworkLeave, NodeNext
  <2>6. CASE msg.type = "DeviceUpdate" /\ NodeUpdate(msg.dev)
    <3>1. msg.dev \in Device
      BY <2>1, <2>6, MessagesTyped
    <3> QED
      BY <1>3, <2>6, <3>1 DEF NodeNext
  <2> QED
    BY <1>3, <2>2, <2>3, <2>4, <2>5, <2>6 DEF HandleGwMsg, msg
<1>4. CASE Discovery /\ ~crashed
  BY <1>4 DEF NodeNext
<1> QED
  BY <1>1, <1>2, <1>3, <1>4 DEF PikoNext

\* The daemon with its server implements the daemon that anything may happen to.
THEOREM PikoImplementsNode == PikoSpec => NodeSpec
<1>1. PikoInit => NodeInit
  BY DEF PikoInit
<1>2. PikoTypeOK /\ [PikoNext]_pikoVars => [NodeNext]_nodeVars
  BY PikoStepIsNodeStep
<1> QED
  BY <1>1, <1>2, PikoTypeCorrect, PTL DEF PikoSpec, NodeSpec

-----------------------------------------------------------------------------
(* What the queue holds                                                    *)

\* A join or a leave of this device waits at position i; an update of device d.
Ours(i, n) ==
    /\ gw[i].type \in {"NetworkJoin", "NetworkLeave"}
    /\ gw[i].nw = n /\ gw[i].dev.id = Self

UpdateAt(i, d) == gw[i].type = "DeviceUpdate" /\ gw[i].dev.id = d

\* Position i, and all after it, belong to the last session.
After(i) == \A j \in i..Len(gw) : gw[j].type \notin {"Connect", "Disconnect"}

\* Every session that ended is followed by another.
Reconnected ==
    \A i \in 1..Len(gw) : gw[i].type = "Disconnect" =>
        \E j \in i+1..Len(gw) : gw[j].type = "Connect"

\* The joins and leaves of this device take turns, and the last is right.
Alternating ==
    \A n \in NetworkIds : \A i \in 1..Len(gw) : After(i) /\ Ours(i, n) =>
        \/ /\ \A j \in i+1..Len(gw) : ~Ours(j, n)
           /\ gw[i].type = "NetworkJoin" <=> Self \in members[n]
        \/ \E j \in i+1..Len(gw) : /\ Ours(j, n) /\ gw[j].type # gw[i].type
                                   /\ \A k \in i+1..j-1 : ~Ours(k, n)

\* While nobody joins or leaves only updates are sent, and the last is right.
UpToDate ==
    \A i \in 1..Len(gw) : After(i) =>
        \E d \in DeviceIds :
            /\ UpdateAt(i, d) /\ (d = Self \/ Shares(d))
            /\ gw[i].dev = Rec(d) \/ \E j \in i+1..Len(gw) : UpdateAt(j, d)

QueueInv ==
    /\ linked => Reconnected /\ Alternating
    /\ linked /\ steady => UpToDate

\* The queue once its first message is taken, position by position.
LEMMA QueueTail ==
    ASSUME gw \in Seq(Msg), gw # <<>>, gw' = Tail(gw)
    PROVE  /\ Len(gw) \in Nat \ {0} /\ Len(gw') = Len(gw) - 1 /\ Head(gw) = gw[1]
           /\ \A i \in 1..Len(gw') :
                 /\ i + 1 \in 2..Len(gw) /\ gw'[i] = gw[i + 1]
                 /\ \A n : Ours(i, n)' <=> Ours(i + 1, n)
                 /\ \A d : UpdateAt(i, d)' <=> UpdateAt(i + 1, d)
                 /\ After(i)' => After(i + 1)
<1>1. /\ Len(gw) \in Nat \ {0} /\ Len(gw') = Len(gw) - 1 /\ Head(gw) = gw[1]
      /\ \A i \in 1..Len(gw') : gw'[i] = gw[i + 1]
  BY HeadTailProperties, EmptySeq, LenProperties
<1>2. ASSUME NEW i \in 1..Len(gw')
      PROVE  /\ i + 1 \in 2..Len(gw) /\ gw'[i] = gw[i + 1]
             /\ \A n : Ours(i, n)' <=> Ours(i + 1, n)
             /\ \A d : UpdateAt(i, d)' <=> UpdateAt(i + 1, d)
  BY <1>1, <1>2 DEF Ours, UpdateAt
<1>3. ASSUME NEW i \in 1..Len(gw'), After(i)'
      PROVE  After(i + 1)
  <2>1. \A j \in i+1..Len(gw) : j - 1 \in i..Len(gw') /\ j - 1 \in 1..Len(gw') /\ (j - 1) + 1 = j
    BY <1>1
  <2> QED
    BY <1>1, <1>3, <2>1 DEF After
<1> QED
  BY <1>1, <1>2, <1>3

\* The queue once a message was added.
LEMMA QueueAppend ==
    ASSUME gw \in Seq(Msg), NEW msg \in Msg, gw' = Append(gw, msg)
    PROVE  /\ Len(gw) \in Nat /\ Len(gw') = Len(gw) + 1 /\ gw'[Len(gw) + 1] = msg
           /\ \A i \in 1..Len(gw) :
                 /\ gw'[i] = gw[i]
                 /\ \A n : Ours(i, n)' <=> Ours(i, n)
                 /\ \A d : UpdateAt(i, d)' <=> UpdateAt(i, d)
                 /\ After(i)' => After(i)
<1>1. /\ Len(gw) \in Nat /\ Len(gw') = Len(gw) + 1 /\ gw'[Len(gw) + 1] = msg
      /\ \A i \in 1..Len(gw) : gw'[i] = gw[i]
  BY AppendProperties, LenProperties
<1>2. \A i \in 1..Len(gw) : /\ \A n : Ours(i, n)' <=> Ours(i, n)
                            /\ \A d : UpdateAt(i, d)' <=> UpdateAt(i, d)
  BY <1>1 DEF Ours, UpdateAt
<1>3. ASSUME NEW i \in 1..Len(gw), After(i)'
      PROVE  After(i)
  <2>1. \A j \in i..Len(gw) : j \in i..Len(gw') /\ j \in 1..Len(gw)
    BY <1>1
  <2> QED
    BY <1>1, <1>3, <2>1 DEF After
<1> QED
  BY <1>1, <1>2, <1>3

\* The engine takes a message.
LEMMA TakeKeepsQueue ==
    ASSUME PikoTypeOK, QueueInv, gw # <<>>, gw' = Tail(gw),
           UNCHANGED <<serverVars, linked, steady>>
    PROVE  QueueInv'
<1>1. /\ Len(gw) \in Nat \ {0} /\ Len(gw') = Len(gw) - 1
      /\ \A i \in 1..Len(gw') :
            /\ i + 1 \in 2..Len(gw) /\ gw'[i] = gw[i + 1]
            /\ \A n : Ours(i, n)' <=> Ours(i + 1, n)
            /\ \A d : UpdateAt(i, d)' <=> UpdateAt(i + 1, d)
            /\ After(i)' => After(i + 1)
  BY QueueTail DEF PikoTypeOK
<1>2. \A i \in 1..Len(gw') : \A j \in (i + 1)+1..Len(gw) :
          j - 1 \in i+1..Len(gw') /\ j - 1 \in 1..Len(gw') /\ (j - 1) + 1 = j
  BY <1>1
<1>3. members' = members /\ info' = info
  BY DEF serverVars
<1>4. ASSUME Reconnected PROVE Reconnected'
  <2> SUFFICES ASSUME NEW i \in 1..Len(gw'), gw'[i].type = "Disconnect"
               PROVE  \E j \in i+1..Len(gw') : gw'[j].type = "Connect"
    BY DEF Reconnected
  <2>1. PICK j \in (i + 1)+1..Len(gw) : gw[j].type = "Connect"
    BY <1>1, <1>4 DEF Reconnected
  <2> QED
    BY <1>1, <1>2, <2>1, ZenonT(30)
<1>5. ASSUME Alternating PROVE Alternating'
  <2> SUFFICES ASSUME NEW n \in NetworkIds, NEW i \in 1..Len(gw'), After(i)', Ours(i, n)'
               PROVE  \/ /\ \A j \in i+1..Len(gw') : ~Ours(j, n)'
                         /\ gw'[i].type = "NetworkJoin" <=> Self \in members'[n]
                      \/ \E j \in i+1..Len(gw') :
                            /\ Ours(j, n)' /\ gw'[j].type # gw'[i].type
                            /\ \A k \in i+1..j-1 : ~Ours(k, n)'
    BY DEF Alternating
  <2>1. i + 1 \in 1..Len(gw) /\ After(i + 1) /\ Ours(i + 1, n) /\ gw'[i] = gw[i + 1]
    BY <1>1
  <2>2. CASE /\ \A j \in (i + 1)+1..Len(gw) : ~Ours(j, n)
             /\ gw[i + 1].type = "NetworkJoin" <=> Self \in members[n]
    <3>1. \A j \in i+1..Len(gw') : j \in 1..Len(gw') /\ j + 1 \in (i + 1)+1..Len(gw)
      BY <1>1
    <3> QED
      BY <1>1, <1>3, <2>1, <2>2, <3>1
  <2>3. ASSUME NEW m \in (i + 1)+1..Len(gw), Ours(m, n), gw[m].type # gw[i + 1].type,
               \A k \in (i + 1)+1..m-1 : ~Ours(k, n)
        PROVE  \E j \in i+1..Len(gw') :
                  /\ Ours(j, n)' /\ gw'[j].type # gw'[i].type
                  /\ \A k \in i+1..j-1 : ~Ours(k, n)'
    <3> DEFINE j == m - 1
    <3>1. j \in i+1..Len(gw') /\ j \in 1..Len(gw') /\ j + 1 = m
      BY <1>2
    <3>2. Ours(j, n)' /\ gw'[j].type # gw'[i].type
      BY <1>1, <2>1, <2>3, <3>1
    <3>3. \A k \in i+1..j-1 : k \in 1..Len(gw') /\ k + 1 \in (i + 1)+1..m-1
      BY <1>1, <3>1
    <3>4. \A k \in i+1..j-1 : ~Ours(k, n)'
      BY <1>1, <2>3, <3>3
    <3> HIDE DEF j
    <3> QED
      BY <3>1, <3>2, <3>4
  <2> QED
    BY <1>5, <2>1, <2>2, <2>3 DEF Alternating
<1>6. ASSUME UpToDate PROVE UpToDate'
  <2> SUFFICES ASSUME NEW i \in 1..Len(gw'), After(i)'
               PROVE  \E d \in DeviceIds :
                          /\ UpdateAt(i, d)' /\ (d = Self \/ Shares(d)')
                          /\ gw'[i].dev = Rec(d)' \/ \E j \in i+1..Len(gw') : UpdateAt(j, d)'
    BY DEF UpToDate
  <2>1. i + 1 \in 1..Len(gw) /\ After(i + 1)
    BY <1>1
  <2>2. PICK d \in DeviceIds :
            /\ UpdateAt(i + 1, d) /\ (d = Self \/ Shares(d))
            /\ gw[i + 1].dev = Rec(d) \/ \E j \in (i + 1)+1..Len(gw) : UpdateAt(j, d)
    BY <1>6, <2>1 DEF UpToDate
  <2>3. UpdateAt(i, d)' /\ gw'[i].dev = gw[i + 1].dev
    BY <1>1, <2>2
  <2>4. (Shares(d)' <=> Shares(d)) /\ Rec(d)' = Rec(d)
    BY <1>3 DEF Shares, Rec
  <2>5. ASSUME NEW j \in (i + 1)+1..Len(gw), UpdateAt(j, d)
        PROVE  \E k \in i+1..Len(gw') : UpdateAt(k, d)'
    <3> DEFINE k == j - 1
    <3>1. k \in i+1..Len(gw') /\ k \in 1..Len(gw') /\ k + 1 = j
      BY <1>2
    <3>2. UpdateAt(k, d)'
      BY <1>1, <2>5, <3>1
    <3> HIDE DEF k
    <3> QED
      BY <3>1, <3>2
  <2> QED
    BY <2>2, <2>3, <2>4, <2>5
<1> QED
  BY <1>4, <1>5, <1>6 DEF QueueInv

\* The server sends a message over a connection that is up: a join or a leave of
\* this device changes the membership it was told before.
LEMMA SendKeepsAlternating ==
    ASSUME PikoTypeOK, Reconnected, Alternating,
           NEW msg \in Msg, msg.type \notin {"Connect", "Disconnect"},
           gw' = Append(gw, msg), NEW m, m = Len(gw) + 1,
           \A n \in NetworkIds :
               IF Ours(m, n)'
               THEN /\ msg.type = "NetworkJoin" <=> Self \in members'[n]
                    /\ Self \in members'[n] <=> Self \notin members[n]
               ELSE Self \in members'[n] <=> Self \in members[n]
    PROVE  Reconnected' /\ Alternating'
<1>1. /\ Len(gw) \in Nat /\ Len(gw') = m /\ gw'[m] = msg
      /\ \A i \in 1..Len(gw) :
            /\ gw'[i] = gw[i]
            /\ \A n : Ours(i, n)' <=> Ours(i, n)
            /\ After(i)' => After(i)
  BY QueueAppend DEF PikoTypeOK
<1>2. \A i \in 1..Len(gw') : i \in 1..Len(gw) \/ i = m
  BY <1>1
<1>3. \A i \in 1..Len(gw) : \A j \in i+1..Len(gw) : j \in 1..Len(gw) /\ j \in i+1..Len(gw')
  BY <1>1
<1>4. Reconnected'
  BY <1>1, <1>2, <1>3 DEF Reconnected
<1>5. Alternating'
  <2> SUFFICES ASSUME NEW n \in NetworkIds, NEW i \in 1..Len(gw'), After(i)', Ours(i, n)'
               PROVE  \/ /\ \A j \in i+1..Len(gw') : ~Ours(j, n)'
                         /\ gw'[i].type = "NetworkJoin" <=> Self \in members'[n]
                      \/ \E j \in i+1..Len(gw') :
                            /\ Ours(j, n)' /\ gw'[j].type # gw'[i].type
                            /\ \A k \in i+1..j-1 : ~Ours(k, n)'
    BY DEF Alternating
  <2>1. CASE i = m
    <3>1. \A j \in i+1..Len(gw') : FALSE
      BY <1>1, <2>1
    <3>2. Ours(m, n)'
      BY <2>1 DEF Ours
    <3>3. msg.type = "NetworkJoin" <=> Self \in members'[n]
      BY <3>2
    <3> QED
      BY <1>1, <2>1, <3>1, <3>3
  <2>2. ASSUME i \in 1..Len(gw), \A j \in i+1..Len(gw) : ~Ours(j, n),
               gw[i].type = "NetworkJoin" <=> Self \in members[n]
        PROVE  \/ /\ \A j \in i+1..Len(gw') : ~Ours(j, n)'
                  /\ gw'[i].type = "NetworkJoin" <=> Self \in members'[n]
               \/ \E j \in i+1..Len(gw') :
                     /\ Ours(j, n)' /\ gw'[j].type # gw'[i].type
                     /\ \A k \in i+1..j-1 : ~Ours(k, n)'
    <3>1. m \in i+1..Len(gw') /\ \A k \in i+1..m-1 : k \in 1..Len(gw) /\ k \in i+1..Len(gw)
      BY <1>1, <2>2
    <3>2. \A k \in i+1..m-1 : ~Ours(k, n)'
      BY <1>1, <2>2, <3>1
    <3>3. CASE Ours(m, n)'
      <4>0. /\ msg.type = "NetworkJoin" <=> Self \in members'[n]
            /\ Self \in members'[n] <=> Self \notin members[n]
        BY <3>3
      <4>1. gw'[m].type # gw'[i].type
        <5>1. gw'[m].type \in {"NetworkJoin", "NetworkLeave"}
              /\ gw'[i].type \in {"NetworkJoin", "NetworkLeave"}
          BY <3>3 DEF Ours
        <5> QED
          BY <1>1, <2>2, <4>0, <5>1
      <4> QED
        BY <3>1, <3>2, <3>3, <4>1
    <3>4. CASE ~Ours(m, n)'
      <4>1. \A j \in i+1..Len(gw') : j = m \/ j \in i+1..m-1
        BY <1>1
      <4>2. \A j \in i+1..Len(gw') : ~Ours(j, n)'
        BY <3>2, <3>4, <4>1
      <4> QED
        BY <1>1, <2>2, <3>4, <4>2
    <3> QED
      BY <3>3, <3>4
  <2>3. ASSUME i \in 1..Len(gw), NEW j \in i+1..Len(gw), Ours(j, n), gw[j].type # gw[i].type,
               \A k \in i+1..j-1 : ~Ours(k, n)
        PROVE  \E l \in i+1..Len(gw') :
                  /\ Ours(l, n)' /\ gw'[l].type # gw'[i].type
                  /\ \A k \in i+1..l-1 : ~Ours(k, n)'
    <3>1. j \in 1..Len(gw) /\ j \in i+1..Len(gw') /\ \A k \in i+1..j-1 : k \in 1..Len(gw)
      BY <1>1, <1>3, <2>3
    <3>2. \A k \in i+1..j-1 : ~Ours(k, n)'
      BY <1>1, <2>3, <3>1
    <3> QED
      BY <1>1, <2>3, <3>1, <3>2
  <2>4. CASE i \in 1..Len(gw)
    <3>1. After(i) /\ Ours(i, n)
      BY <1>1, <2>4
    <3> QED
      BY <2>2, <2>3, <2>4, <3>1 DEF Alternating
  <2> QED
    BY <1>2, <2>1, <2>4
<1> QED
  BY <1>4, <1>5

\* Nothing is sent: whoever joins or leaves, it is not this device.
LEMMA SilenceKeepsAlternating ==
    ASSUME Reconnected, Alternating, gw' = gw,
           \A n \in NetworkIds : Self \in members'[n] <=> Self \in members[n]
    PROVE  Reconnected' /\ Alternating'
BY DEF Reconnected, Alternating, After, Ours

\* A device joins or leaves.
LEMMA MembershipKeepsQueue ==
    ASSUME PikoTypeOK, QueueInv, NEW d \in DeviceIds, NEW n \in NetworkIds,
           ServerJoin(d, n) \/ ServerLeave(d, n)
    PROVE  QueueInv'
<1>1. linked' = linked /\ steady' = FALSE
  BY DEF ServerJoin, ServerLeave, Send
<1>2. ASSUME linked PROVE Reconnected' /\ Alternating'
  <2>0. Reconnected /\ Alternating /\ members \in [NetworkIds -> SUBSET DeviceIds]
    BY <1>2 DEF QueueInv, PikoTypeOK
  <2> DEFINE kind == IF ServerJoin(d, n) THEN "NetworkJoin" ELSE "NetworkLeave"
             msg  == [type |-> kind, nw |-> n, dev |-> Rec(d)]
  <2>1. /\ msg \in Msg /\ msg.type = kind /\ msg.nw = n /\ msg.dev.id = d
        /\ kind \in {"NetworkJoin", "NetworkLeave"}
    BY DEF Msg, Rec, Device, PikoTypeOK
  <2>2. /\ \A x \in NetworkIds : x # n \/ d # Self => (Self \in members'[x] <=> Self \in members[x])
        /\ d = Self => /\ Self \in members'[n] <=> Self \notin members[n]
                       /\ kind = "NetworkJoin" <=> Self \in members'[n]
        /\ gw' = Append(gw, msg) \/ (gw' = gw /\ d # Self)
    <3>1. CASE ServerJoin(d, n)
      <4>1. kind = "NetworkJoin" /\ d \notin members[n] /\ members' = [members EXCEPT ![n] = @ \cup {d}]
        BY <3>1 DEF ServerJoin
      <4>2. gw' = IF Self \in members'[n] THEN Append(gw, msg) ELSE gw
        BY <1>2, <3>1 DEF ServerJoin, Send
      <4> HIDE DEF msg, kind
      <4> QED
        BY <2>0, <4>1, <4>2
    <3>2. CASE ServerLeave(d, n) /\ ~ServerJoin(d, n)
      <4>1. kind = "NetworkLeave" /\ d \in members[n] /\ members' = [members EXCEPT ![n] = @ \ {d}]
        BY <3>2 DEF ServerLeave
      <4>2. gw' = IF Self \in members[n] THEN Append(gw, msg) ELSE gw
        BY <1>2, <3>2 DEF ServerLeave, Send
      <4> HIDE DEF msg, kind
      <4> QED
        BY <2>0, <4>1, <4>2
    <3> QED
      BY <3>1, <3>2
  <2> HIDE DEF msg, kind
  <2>3. CASE gw' = gw /\ d # Self
    BY <2>0, <2>2, <2>3, SilenceKeepsAlternating
  <2>4. CASE gw' = Append(gw, msg)
    <3>1. PICK m : m = Len(gw) + 1
      OBVIOUS
    <3>2. gw'[m] = msg
      BY <2>1, <2>4, <3>1, QueueAppend DEF PikoTypeOK
    <3>3. \A x \in NetworkIds : Ours(m, x)' <=> x = n /\ d = Self
      BY <2>1, <3>2 DEF Ours
    <3>4. \A x \in NetworkIds :
              IF Ours(m, x)'
              THEN /\ msg.type = "NetworkJoin" <=> Self \in members'[x]
                   /\ Self \in members'[x] <=> Self \notin members[x]
              ELSE Self \in members'[x] <=> Self \in members[x]
      BY <2>1, <2>2, <3>3
    <3>5. msg.type \notin {"Connect", "Disconnect"}
      BY <2>1
    <3> QED
      BY <2>0, <2>1, <2>4, <3>1, <3>4, <3>5, SendKeepsAlternating
  <2> QED
    BY <2>2, <2>3, <2>4
<1> QED
  BY <1>1, <1>2 DEF QueueInv

\* A device that moves is heard of, or is no matter to this one.
LEMMA UpdateKeepsQueue ==
    ASSUME PikoTypeOK, QueueInv, NEW d \in DeviceIds, NEW e \in Endpoints, ServerUpdate(d, e)
    PROVE  QueueInv'
<1> DEFINE msg == [type |-> "DeviceUpdate", dev |-> [id |-> d, endpoint |-> e]]
<1>1. /\ linked' = linked /\ steady' = steady /\ members' = members
      /\ info' = [info EXCEPT ![d] = e]
      /\ linked => gw' = IF d = Self \/ Shares(d) THEN Append(gw, msg) ELSE gw
  BY DEF ServerUpdate, Send, history
<1>2. msg \in Msg /\ msg.type = "DeviceUpdate" /\ msg.dev = [id |-> d, endpoint |-> e]
  BY DEF Msg, Device
<1> HIDE DEF msg
<1>3. \A x : Shares(x)' <=> Shares(x)
  BY <1>1 DEF Shares
<1>4. /\ Rec(d)' = [id |-> d, endpoint |-> e]
      /\ \A x \in DeviceIds \ {d} : Rec(x)' = Rec(x)
  BY <1>1 DEF Rec, PikoTypeOK
<1>5. PICK m : m = Len(gw) + 1
  OBVIOUS
<1>6. ASSUME linked, gw' = Append(gw, msg)
      PROVE  /\ Len(gw) \in Nat /\ Len(gw') = m /\ gw'[m] = msg
             /\ \A i \in 1..Len(gw) :
                   /\ gw'[i] = gw[i]
                   /\ \A x : UpdateAt(i, x)' <=> UpdateAt(i, x)
                   /\ After(i)' => After(i)
  BY <1>2, <1>5, <1>6, QueueAppend DEF PikoTypeOK
<1>7. ASSUME linked PROVE Reconnected' /\ Alternating'
  <2>1. Reconnected /\ Alternating
    BY <1>7 DEF QueueInv
  <2>2. CASE gw' = gw
    BY <1>1, <2>1, <2>2, SilenceKeepsAlternating
  <2>3. CASE gw' = Append(gw, msg)
    <3>1. \A n : ~Ours(m, n)'
      BY <1>2, <1>6, <1>7, <2>3 DEF Ours
    <3>2. msg.type \notin {"Connect", "Disconnect"}
      BY <1>2
    <3> QED
      BY <1>1, <1>2, <1>5, <2>1, <2>3, <3>1, <3>2, SendKeepsAlternating
  <2> QED
    BY <1>1, <1>7, <2>2, <2>3
<1>8. ASSUME linked, steady PROVE UpToDate'
  <2>0. UpToDate
    BY <1>8 DEF QueueInv
  <2> SUFFICES ASSUME NEW i \in 1..Len(gw'), After(i)'
               PROVE  \E x \in DeviceIds :
                          /\ UpdateAt(i, x)' /\ (x = Self \/ Shares(x)')
                          /\ gw'[i].dev = Rec(x)' \/ \E j \in i+1..Len(gw') : UpdateAt(j, x)'
    BY DEF UpToDate
  <2>1. CASE gw' = gw /\ ~(d = Self \/ Shares(d))
    <3>1. i \in 1..Len(gw) /\ After(i)
      BY <2>1 DEF After
    <3>2. PICK x \in DeviceIds :
              /\ UpdateAt(i, x) /\ (x = Self \/ Shares(x))
              /\ gw[i].dev = Rec(x) \/ \E j \in i+1..Len(gw) : UpdateAt(j, x)
      BY <2>0, <3>1 DEF UpToDate
    <3>3. x # d /\ \A j : UpdateAt(j, x)' <=> UpdateAt(j, x)
      BY <2>1, <3>2 DEF UpdateAt
    <3> QED
      BY <1>3, <1>4, <2>1, <3>2, <3>3
  <2>2. CASE gw' = Append(gw, msg) /\ (d = Self \/ Shares(d))
    <3>1. UpdateAt(m, d)'
      BY <1>2, <1>6, <1>8, <2>2 DEF UpdateAt
    <3>2. CASE i = m
      <4>1. gw'[i].dev = Rec(d)' /\ UpdateAt(i, d)'
        BY <1>2, <1>4, <1>6, <1>8, <2>2, <3>1, <3>2
      <4> QED
        BY <1>3, <2>2, <4>1
    <3>3. CASE i \in 1..Len(gw)
      <4>1. PICK x \in DeviceIds :
                /\ UpdateAt(i, x) /\ (x = Self \/ Shares(x))
                /\ gw[i].dev = Rec(x) \/ \E j \in i+1..Len(gw) : UpdateAt(j, x)
        BY <1>6, <1>8, <2>0, <2>2, <3>3 DEF UpToDate
      <4>2. UpdateAt(i, x)' /\ gw'[i].dev = gw[i].dev
        BY <1>6, <1>8, <2>2, <3>3, <4>1
      <4>3. m \in i+1..Len(gw') /\ \A j \in i+1..Len(gw) : j \in 1..Len(gw) /\ j \in i+1..Len(gw')
        BY <1>5, <1>6, <1>8, <2>2, <3>3
      <4>4. CASE x = d
        BY <1>3, <2>2, <3>1, <4>2, <4>3, <4>4
      <4>5. CASE x # d
        BY <1>3, <1>4, <1>6, <1>8, <2>2, <4>1, <4>2, <4>3, <4>5
      <4> QED
        BY <4>4, <4>5
    <3>4. i = m \/ i \in 1..Len(gw)
      BY <1>5, <1>6, <1>8, <2>2
    <3> QED
      BY <3>2, <3>3, <3>4
  <2> QED
    BY <1>1, <1>8, <2>1, <2>2
<1> QED
  BY <1>1, <1>7, <1>8 DEF QueueInv

\* A connection that comes up makes all that waits the past.
LEMMA LinkKeepsQueue ==
    ASSUME PikoTypeOK, QueueInv, LinkUp \/ \E k \in 0..Len(gw) : LinkDown(k)
    PROVE  QueueInv'
<1>1. CASE LinkUp
  <2> DEFINE msg == [type |-> "Connect"]
  <2>1. msg \in Msg /\ gw' = Append(gw, msg) /\ msg.type = "Connect"
    BY <1>1 DEF LinkUp, Msg
  <2> HIDE DEF msg
  <2>2. /\ Len(gw) \in Nat /\ Len(gw') = Len(gw) + 1 /\ gw'[Len(gw')].type = "Connect"
    BY <2>1, QueueAppend DEF PikoTypeOK
  <2>3. \A i \in 1..Len(gw') : ~After(i)'
    BY <2>2 DEF After
  <2>4. Alternating' /\ UpToDate'
    BY <2>3 DEF Alternating, UpToDate
  <2>5. Reconnected'
    <3> SUFFICES ASSUME NEW i \in 1..Len(gw'), gw'[i].type = "Disconnect"
                 PROVE  \E j \in i+1..Len(gw') : gw'[j].type = "Connect"
      BY DEF Reconnected
    <3>1. i # Len(gw')
      BY <2>2
    <3>2. Len(gw') \in i+1..Len(gw')
      BY <2>2, <3>1
    <3> QED
      BY <2>2, <3>2
  <2> QED
    BY <2>4, <2>5 DEF QueueInv
<1>2. CASE \E k \in 0..Len(gw) : LinkDown(k)
  BY <1>2 DEF LinkDown, QueueInv
<1> QED
  BY <1>1, <1>2

\* Every step, action by action.
LEMMA StepKeepsQueue ==
    ASSUME PikoTypeOK, QueueInv, [PikoNext]_pikoVars
    PROVE  QueueInv'
<1>1. ASSUME UNCHANGED <<serverVars, linkVars, history>>
      PROVE  QueueInv'
  BY <1>1 DEF serverVars, linkVars, history, QueueInv, Reconnected, Alternating, UpToDate,
              After, Ours, UpdateAt, Shares, Rec
<1>2. ASSUME NEW d \in Roaming, NEW e \in Endpoints, ServerUpdate(d, e)
      PROVE  QueueInv'
  BY <1>2, BoundsAssumption, UpdateKeepsQueue
<1>3. CASE HandleGwMsg
  BY <1>3, TakeKeepsQueue DEF HandleGwMsg
<1> QED
  BY <1>1, <1>2, <1>3, MembershipKeepsQueue, LinkKeepsQueue DEF PikoNext, pikoVars

-----------------------------------------------------------------------------
(* What the cache holds                                                    *)

\* The queue was taken up to the last connection, which is up.
Caught == linked /\ \A i \in 1..Len(gw) : gw[i].type # "Connect"

Cached(n) == \E k \in 1..Len(nwState) : nwState[k].id = n

\* A network as the server has it, but for the endpoints.
Complete(v) ==
    /\ \A k \in 1..Len(v.devices) : v.devices[k].id \in members[v.id]
    /\ \A d \in members[v.id] : \E k \in 1..Len(v.devices) : v.devices[k].id = d
    /\ \A k, l \in 1..Len(v.devices) : v.devices[k].id = v.devices[l].id => k = l

CacheComplete == \A k \in 1..Len(nwState) : Complete(nwState[k])

\* The network is cached once at most.
Once(n) == \A k, l \in 1..Len(nwState) : nwState[k].id = n /\ nwState[l].id = n => k = l

\* A leave of this device waits, and no join of it before.
LeaveDue(n) == \E i \in 1..Len(gw) : /\ Ours(i, n) /\ gw[i].type = "NetworkLeave"
                                    /\ \A j \in 1..i-1 : ~Ours(j, n)

\* A network of ours that is not cached is going to be joined; one that is not
\* ours is cached once at most, and is going to be left.
Owed(n) ==
    /\ Self \in members[n] => Cached(n) \/ \E i \in 1..Len(gw) : Ours(i, n)
    /\ Self \notin members[n] => Once(n) /\ (Cached(n) => LeaveDue(n))

CacheOwed == \A n \in NetworkIds : Owed(n)

\* A record that is old is going to be updated.
CacheFresh ==
    \A k \in 1..Len(nwState) : \A l \in 1..Len(nwState[k].devices) :
        LET d == nwState[k].devices[l]
        IN  d = Rec(d.id) \/ \E i \in 1..Len(gw) : UpdateAt(i, d.id)

AllFresh ==
    \A k \in 1..Len(nwState) : \A l \in 1..Len(nwState[k].devices) :
        nwState[k].devices[l] = Rec(nwState[k].devices[l].id)

\* Peers and mirror are the cached devices, be there any or none.
PeersCaught == Ids(peerState) = ListedIds(nwState) \ {Self} /\ wgLastPeers = Ids(peerState)

CacheInv ==
    /\ settled => PeersCaught
    /\ settled /\ Caught => CacheComplete /\ CacheOwed
    /\ settled /\ Caught /\ steady => CacheFresh

\* What SetToSeqs makes of a finite set has its elements, each at one position.
LEMMA SeqOfSet ==
    ASSUME NEW S, IsFiniteSet(S), NEW s \in SetToSeqs(S)
    PROVE  /\ s \in Seq(S) /\ Len(s) \in Nat
           /\ \A k \in 1..Len(s) : s[k] \in S
           /\ \A x \in S : \E k \in 1..Len(s) : s[k] = x
           /\ \A k, l \in 1..Len(s) : s[k] = s[l] => k = l
<1> DEFINE N == Cardinality(S)
<1>1. N \in Nat
  BY FS_CardinalityType
<1>2. s \in [1..N -> S] /\ \A k, l \in 1..N : k # l => s[k] # s[l]
  BY DEF SetToSeqs
<1> HIDE DEF N
<1>3. s \in Seq(S) /\ Len(s) = N
  BY <1>1, <1>2, SeqDef
<1>4. Cardinality(1..N) = N
  <2>1. 1 \in Int /\ N \in Int /\ ~(1 > N /\ N # 0)
    BY <1>1
  <2> QED
    BY <1>1, <2>1, FS_Interval
<1>5. s \in Surjection(1..N, S)
  <2>1. s \in Injection(1..N, S)
    BY <1>2 DEF Injection, IsInjective
  <2> QED
    BY <1>4, <2>1, FS_Injection DEF N
<1> QED
  BY <1>1, <1>2, <1>3, <1>5 DEF Surjection

\* The server's answer has each member of the network, once, as it is now.
LEMMA AnswerComplete ==
    ASSUME PikoTypeOK, NEW n \in NetworkIds, NEW v \in Answers(n)
    PROVE  /\ v \in Network /\ v.id = n /\ Complete(v)
           /\ \A k \in 1..Len(v.devices) : v.devices[k] = Rec(v.devices[k].id)
<1> DEFINE S == {Rec(d) : d \in members[n]}
<1>1. PICK s \in SetToSeqs(S) : v = [id |-> n, devices |-> s]
  BY DEF Answers
<1>2. members[n] \subseteq DeviceIds /\ \A d \in members[n] : Rec(d) \in Device /\ Rec(d).id = d
  BY DEF PikoTypeOK, Rec, Device
<1>3. IsFiniteSet(S)
  <2> DEFINE f == [d \in members[n] |-> Rec(d)]
  <2>1. f \in Surjection(members[n], S)
    BY DEF Surjection
  <2>2. IsFiniteSet(members[n])
    BY <1>2, ServerAssumption, FS_Subset
  <2> HIDE DEF f, S
  <2> QED
    BY <2>1, <2>2, FS_Surjection
<1>4. /\ s \in Seq(S) /\ Len(s) \in Nat
      /\ \A k \in 1..Len(s) : s[k] \in S
      /\ \A x \in S : \E k \in 1..Len(s) : s[k] = x
      /\ \A k, l \in 1..Len(s) : s[k] = s[l] => k = l
  <2> HIDE DEF S
  <2> QED
    BY <1>3, SeqOfSet
<1>5. \A k \in 1..Len(s) : s[k].id \in members[n] /\ s[k] = Rec(s[k].id)
  BY <1>2, <1>4
<1>6. s \in Seq(Device)
  BY <1>2, <1>4
<1>7. Complete(v)
  <2>0. \A d \in members[n] : Rec(d) \in S /\ Rec(d).id = d
    BY <1>2
  <2>1. \A d \in members[n] : \E k \in 1..Len(s) : s[k].id = d
    <3> HIDE DEF S
    <3> QED
      BY <1>4, <2>0
  <2>2. \A k, l \in 1..Len(s) : s[k].id = s[l].id => k = l
    BY <1>4, <1>5
  <2> HIDE DEF S
  <2> QED
    BY <1>1, <1>5, <2>1, <2>2 DEF Complete
<1> QED
  BY <1>1, <1>5, <1>6, <1>7 DEF Network

\* A rebuild caches the networks of this device, each once, as they are now.
LEMMA RebuildCaches ==
    ASSUME PikoTypeOK, NEW answer \in ServerListings, RebuildState(answer), UNCHANGED serverVars
    PROVE  /\ CacheComplete'
           /\ \A n \in NetworkIds : Cached(n)' <=> Self \in members[n]
           /\ AllFresh' /\ nwState' \in Seq(Network)
<1> DEFINE all == UNION {Answers(n) : n \in NetworkIds}
           S   == {v \in answer : DeviceIsIn(Self, v.devices)}
<1>1. PICK f \in [NetworkIds -> all] :
          answer = {f[n] : n \in NetworkIds} /\ \A n \in NetworkIds : f[n].id = n
  BY DEF ServerListings
<1>2. ASSUME NEW n \in NetworkIds
      PROVE  f[n] \in Answers(n)
  <2>1. PICK m \in NetworkIds : f[n] \in Answers(m)
    BY <1>1
  <2>2. f[n].id = m
    BY <2>1, AnswerComplete
  <2> QED
    BY <1>1, <2>1, <2>2
<1> HIDE DEF all
<1>3. \A v \in answer : \E n \in NetworkIds :
          /\ v = f[n] /\ v \in Network /\ v.id = n /\ Complete(v)
          /\ \A k \in 1..Len(v.devices) : v.devices[k] = Rec(v.devices[k].id)
  BY <1>1, <1>2, AnswerComplete
<1>4. IsFiniteSet(S)
  <2>1. f \in Surjection(NetworkIds, answer)
    BY <1>1 DEF Surjection
  <2>2. IsFiniteSet(answer)
    BY <2>1, ServerAssumption, FS_Surjection
  <2> QED
    BY <2>2, FS_Subset
<1>5. \A v \in answer : DeviceIsIn(Self, v.devices) <=> Self \in members[v.id]
  <2>1. \A v \in answer : v.devices \in Seq(Device) /\ DOMAIN v.devices = 1..Len(v.devices)
    BY <1>3, LenProperties DEF Network
  <2> QED
    BY <1>3, <2>1 DEF DeviceIsIn, Complete
<1>6. nwState' \in SetToSeqs(S)
  BY DEF RebuildState
<1>7. /\ nwState' \in Seq(S)
      /\ \A k \in 1..Len(nwState') : nwState'[k] \in S
      /\ \A x \in S : \E k \in 1..Len(nwState') : nwState'[k] = x
  <2> HIDE DEF S
  <2> QED
    BY <1>4, <1>6, SeqOfSet
<1>8. members' = members /\ info' = info
  BY DEF serverVars
<1>9. CacheComplete'
  BY <1>3, <1>7, <1>8 DEF CacheComplete, Complete
<1>10. ASSUME NEW n \in NetworkIds
       PROVE  Cached(n)' <=> Self \in members[n]
  <2>1. ASSUME Cached(n)' PROVE Self \in members[n]
    BY <1>5, <1>7, <2>1 DEF Cached
  <2>2. ASSUME Self \in members[n] PROVE Cached(n)'
    <3>1. f[n] \in answer /\ f[n].id = n
      BY <1>1
    <3>2. f[n] \in S
      BY <1>5, <2>2, <3>1
    <3> HIDE DEF S
    <3> QED
      BY <1>7, <3>1, <3>2 DEF Cached
  <2> QED
    BY <2>1, <2>2
<1>11. AllFresh'
  BY <1>3, <1>7, <1>8 DEF AllFresh, Rec
<1>12. nwState' \in Seq(Network)
  BY <1>3, <1>7
<1> QED
  BY <1>9, <1>10, <1>11, <1>12

\* handleSelfLeave drops one entry of the network it leaves, and no other.
LEMMA SelfLeaveEntries ==
    ASSUME NEW nw, nwState \in Seq(Network), HandleSelfLeave(nw)
    PROVE  \/ nwState' = nwState /\ ~Cached(nw)
           \/ \E i \in 1..Len(nwState) :
                 /\ nwState[i].id = nw
                 /\ Len(nwState') = Len(nwState) - 1
                 /\ \A k \in 1..Len(nwState) - 1 :
                       nwState'[k] = nwState[IF k = i THEN Len(nwState) ELSE k]
<1> DEFINE i == FetchNetwork(nw)
           t == Swapped(nwState, i, Len(nwState))
           I == {n \in 1..Len(nwState) : nwState[n].id = nw}
<1>1. Len(nwState) \in Nat /\ nwState \in [1..Len(nwState) -> Network]
  BY LenProperties
<1>2. CASE I = {}
  <2>1. i = 0
    BY <1>2 DEF FetchNetwork, SelectInSeq
  <2> QED
    BY <1>2, <2>1 DEF HandleSelfLeave, Cached
<1>3. CASE I # {}
  <2>1. i = Min(I)
    BY <1>3 DEF FetchNetwork, SelectInSeq
  <2>2. I \in SUBSET Nat
    BY <1>1
  <2>3. i \in 1..Len(nwState) /\ nwState[i].id = nw
    <3> HIDE DEF I
    <3>1. i \in I
      BY <1>3, <2>1, <2>2, MinInSet
    <3> QED
      BY <3>1 DEF I
  <2> HIDE DEF i
  <2>4. t \in [1..Len(nwState) -> Network]
    BY <1>1, <2>3 DEF Swapped
  <2>5. t \in Seq(Network) /\ Len(t) = Len(nwState)
    BY <1>1, <2>4, SeqDef
  <2>6. \A k \in 1..Len(nwState) - 1 : t[k] = nwState[IF k = i THEN Len(nwState) ELSE k]
    BY <1>1, <2>3 DEF Swapped
  <2>7. nwState' = Front(t)
    <3>1. i # 0
      BY <1>1, <2>3
    <3> QED
      BY <3>1 DEF HandleSelfLeave, i
  <2>8. /\ Len(nwState') = Len(nwState) - 1
        /\ \A k \in 1..Len(nwState) - 1 : nwState'[k] = t[k]
    <3> HIDE DEF t
    <3>1. \A k \in 1..Len(t) - 1 : t[k] \in Network
      BY <1>1, <2>4, <2>5
    <3>2. 1 \in Int /\ Len(t) - 1 \in Int
      BY <1>1, <2>5
    <3>3. /\ Len(SubSeq(t, 1, Len(t) - 1)) = (IF 1 <= Len(t) - 1 THEN (Len(t) - 1) - 1 + 1 ELSE 0)
          /\ \A k \in 1..(Len(t) - 1) - 1 + 1 : SubSeq(t, 1, Len(t) - 1)[k] = t[1 + k - 1]
      BY <3>1, <3>2, SubSeqProperties
    <3> QED
      BY <1>1, <2>3, <2>5, <2>7, <3>3 DEF Front
  <2> HIDE DEF t
  <2> QED
    BY <2>3, <2>6, <2>8
<1> QED
  BY <1>2, <1>3

\* One pass of handleUpdate over a list: what is found becomes the new record.
LEMMA WithUpdateEntries ==
    ASSUME NEW devs \in Seq(Device), NEW dev \in Device,
           \A k, l \in 1..Len(devs) : devs[k].id = devs[l].id => k = l
    PROVE  /\ Len(WithUpdate(devs, dev)) = Len(devs)
           /\ \A k \in 1..Len(devs) :
                 WithUpdate(devs, dev)[k] = IF devs[k].id = dev.id THEN dev ELSE devs[k]
<1> DEFINE i == SelectInSeq(devs, LAMBDA d : d.id = dev.id)
           I == {n \in 1..Len(devs) : devs[n].id = dev.id}
<1>1. Len(devs) \in Nat /\ DOMAIN devs = 1..Len(devs) /\ devs \in [1..Len(devs) -> Device]
  BY LenProperties
<1>2. CASE I = {}
  <2>1. i = 0
    BY <1>2 DEF SelectInSeq
  <2> QED
    BY <1>2, <2>1 DEF WithUpdate
<1>3. CASE I # {}
  <2>1. i = Min(I)
    BY <1>3 DEF SelectInSeq
  <2>2. I \in SUBSET Nat
    BY <1>1
  <2>3. i \in 1..Len(devs) /\ devs[i].id = dev.id
    <3> HIDE DEF I
    <3>1. i \in I
      BY <1>3, <2>1, <2>2, MinInSet
    <3> QED
      BY <3>1 DEF I
  <2>4. WithUpdate(devs, dev) = [devs EXCEPT ![i] = dev]
    BY <1>1, <2>3 DEF WithUpdate
  <2> HIDE DEF i, I
  <2>5. Len(WithUpdate(devs, dev)) = Len(devs)
    BY <2>3, <2>4, ExceptSeq
  <2> QED
    BY <1>1, <2>3, <2>4, <2>5
<1> QED
  BY <1>2, <1>3

\* The cache after an update, entry by entry.
LEMMA UpdateEntries ==
    ASSUME nwState \in Seq(Network), CacheComplete, NEW dev \in Device, HandleUpdate(dev)
    PROVE  /\ Len(nwState') = Len(nwState)
           /\ \A k \in 1..Len(nwState) :
                 LET old == nwState[k].devices
                     new == nwState'[k].devices
                 IN  /\ nwState'[k].id = nwState[k].id /\ Len(new) = Len(old)
                     /\ \A l \in 1..Len(old) :
                           new[l] = IF old[l].id = dev.id THEN dev ELSE old[l]
<1>1. /\ Len(nwState) \in Nat /\ DOMAIN nwState = 1..Len(nwState)
      /\ \A k \in 1..Len(nwState) : nwState[k] \in Network
  BY LenProperties, ElementOfSeq
<1>2. nwState' = [k \in 1..Len(nwState) |->
                     [nwState[k] EXCEPT !.devices = WithUpdate(nwState[k].devices, dev)]]
  BY <1>1 DEF HandleUpdate
<1>3. Len(nwState') = Len(nwState)
  BY <1>1, <1>2
<1>4. ASSUME NEW k \in 1..Len(nwState)
      PROVE  /\ nwState'[k].id = nwState[k].id
             /\ nwState'[k].devices = WithUpdate(nwState[k].devices, dev)
             /\ nwState[k].devices \in Seq(Device)
             /\ \A i, j \in 1..Len(nwState[k].devices) :
                   nwState[k].devices[i].id = nwState[k].devices[j].id => i = j
  BY <1>1, <1>2, <1>4 DEF Network, CacheComplete, Complete
<1>5. ASSUME NEW k \in 1..Len(nwState)
      PROVE  /\ Len(nwState'[k].devices) = Len(nwState[k].devices)
             /\ \A l \in 1..Len(nwState[k].devices) :
                   nwState'[k].devices[l] = IF nwState[k].devices[l].id = dev.id
                                            THEN dev ELSE nwState[k].devices[l]
  <2>1. PICK old : old = nwState[k].devices
    OBVIOUS
  <2>2. old \in Seq(Device) /\ \A i, j \in 1..Len(old) : old[i].id = old[j].id => i = j
    BY <1>4, <2>1
  <2>3. /\ Len(WithUpdate(old, dev)) = Len(old)
        /\ \A l \in 1..Len(old) :
              WithUpdate(old, dev)[l] = IF old[l].id = dev.id THEN dev ELSE old[l]
    BY <2>2, WithUpdateEntries
  <2> QED
    BY <1>4, <2>1, <2>3
<1> QED
  BY <1>3, <1>4, <1>5

\* Nothing that waits is older than the last connection.
LEMMA CaughtIsAfter ==
    ASSUME QueueInv, Caught
    PROVE  \A i \in 1..Len(gw) : gw[i].type \notin {"Connect", "Disconnect"} /\ After(i)
<1>1. Reconnected
  BY DEF QueueInv, Caught
<1>2. \A i \in 1..Len(gw) : \A j \in i+1..Len(gw) : j \in 1..Len(gw)
  OBVIOUS
<1>3. \A i \in 1..Len(gw) : gw[i].type \notin {"Connect", "Disconnect"}
  BY <1>1, <1>2 DEF Reconnected, Caught
<1> QED
  BY <1>3 DEF After

\* A message but Connect that leaves the queue caught up was in one that was.
LEMMA TakeCaught ==
    ASSUME PikoTypeOK, QueueInv, HandleGwMsg, Caught', Head(gw).type # "Connect"
    PROVE  Caught
<1>1. gw \in Seq(Msg) /\ gw # <<>> /\ gw' = Tail(gw) /\ linked' = linked
  BY DEF PikoTypeOK, HandleGwMsg
<1>2. /\ Len(gw) \in Nat \ {0} /\ Len(gw') = Len(gw) - 1 /\ Head(gw) = gw[1]
      /\ \A i \in 1..Len(gw') : gw'[i] = gw[i + 1]
  BY <1>1, QueueTail
<1>3. \A i \in 1..Len(gw) : i = 1 \/ (i - 1 \in 1..Len(gw') /\ i = (i - 1) + 1)
  BY <1>2
<1> QED
  BY <1>1, <1>2, <1>3 DEF Caught

\* With a message taken that is not this device's, what is owed is owed still.
LEMMA OwedStill ==
    ASSUME PikoTypeOK, gw # <<>>, gw' = Tail(gw), members' = members,
           NEW n \in NetworkIds, ~Ours(1, n), Owed(n),
           Cached(n)' <=> Cached(n), Once(n) => Once(n)'
    PROVE  Owed(n)'
<1>1. /\ Len(gw) \in Nat \ {0} /\ Len(gw') = Len(gw) - 1
      /\ \A i \in 1..Len(gw') : gw'[i] = gw[i + 1] /\ (Ours(i, n)' <=> Ours(i + 1, n))
  BY QueueTail DEF PikoTypeOK
<1>2. ASSUME NEW i \in 1..Len(gw), Ours(i, n)
      PROVE  i - 1 \in 1..Len(gw') /\ Ours(i - 1, n)' /\ gw'[i - 1] = gw[i]
  <2>1. i # 1
    BY <1>2
  <2> DEFINE j == i - 1
  <2>2. j \in 1..Len(gw') /\ j + 1 = i
    BY <1>1, <2>1
  <2> HIDE DEF j
  <2>3. Ours(j, n)' /\ gw'[j] = gw[i]
    BY <1>1, <1>2, <2>2
  <2> QED
    BY <2>2, <2>3 DEF j
<1>3. ASSUME LeaveDue(n) PROVE LeaveDue(n)'
  <2>1. PICK i \in 1..Len(gw) : /\ Ours(i, n) /\ gw[i].type = "NetworkLeave"
                                /\ \A j \in 1..i-1 : ~Ours(j, n)
    BY <1>3 DEF LeaveDue
  <2>2. i - 1 \in 1..Len(gw') /\ Ours(i - 1, n)' /\ gw'[i - 1].type = "NetworkLeave"
    BY <1>2, <2>1
  <2>3. \A j \in 1..(i - 1)-1 : j \in 1..Len(gw') /\ j + 1 \in 1..i-1
    BY <1>1, <2>1
  <2>4. \A j \in 1..(i - 1)-1 : ~Ours(j, n)'
    BY <1>1, <2>1, <2>3
  <2> QED
    BY <2>2, <2>4 DEF LeaveDue
<1> QED
  BY <1>2, <1>3 DEF Owed

\* Entries that keep their IDs stay complete, and what is owed is owed still.
LEMMA SameIdsKeepCache ==
    ASSUME PikoTypeOK, gw # <<>>, gw' = Tail(gw), members' = members,
           \A n : ~Ours(1, n),
           CacheComplete, CacheOwed, Len(nwState') = Len(nwState),
           \A k \in 1..Len(nwState) :
              /\ nwState'[k].id = nwState[k].id
              /\ Len(nwState'[k].devices) = Len(nwState[k].devices)
              /\ \A l \in 1..Len(nwState[k].devices) :
                    nwState'[k].devices[l].id = nwState[k].devices[l].id
    PROVE  CacheComplete' /\ CacheOwed'
<1>1. CacheComplete'
  <2> SUFFICES ASSUME NEW k \in 1..Len(nwState)
               PROVE  Complete(nwState[k])'
    BY DEF CacheComplete
  <2>1. Complete(nwState[k])
    BY DEF CacheComplete
  <2>2. PICK old, new : old = nwState[k] /\ new = nwState'[k]
    OBVIOUS
  <2>3. /\ new.id = old.id /\ Len(new.devices) = Len(old.devices)
        /\ \A l \in 1..Len(old.devices) : new.devices[l].id = old.devices[l].id
    BY <2>2
  <2>4. /\ \A l \in 1..Len(old.devices) : old.devices[l].id \in members[old.id]
        /\ \A d \in members[old.id] : \E l \in 1..Len(old.devices) : old.devices[l].id = d
        /\ \A l, m \in 1..Len(old.devices) : old.devices[l].id = old.devices[m].id => l = m
    BY <2>1, <2>2 DEF Complete
  <2>5. /\ \A l \in 1..Len(new.devices) : new.devices[l].id \in members'[new.id]
        /\ \A d \in members'[new.id] : \E l \in 1..Len(new.devices) : new.devices[l].id = d
        /\ \A l, m \in 1..Len(new.devices) : new.devices[l].id = new.devices[m].id => l = m
    BY <2>3, <2>4, ZenonT(30)
  <2> QED
    BY <2>2, <2>5 DEF Complete
<1>2. \A n : (Cached(n)' <=> Cached(n)) /\ (Once(n) => Once(n)')
  BY DEF Cached, Once
<1>3. CacheOwed'
  BY <1>2, OwedStill DEF CacheOwed
<1> QED
  BY <1>1, <1>3

-----------------------------------------------------------------------------
(* Peers and mirror after the last rebuild                                 *)

\* A handler that ends in updatePeers and its callbacks.
LEMMA MirroredCaught ==
    ASSUME EngineInv, EngineInv', peerState' = UpdatePeers(nwState', peerState), Mirrored
    PROVE  PeersCaught'
<1>1. /\ peerState \in SUBSET Device /\ \A d, e \in peerState : d.id = e.id => d = e
      /\ nwState' \in Seq(Network)
  BY DEF EngineInv, EngineTypeOK, PeerListSound
<1>2. Ids(peerState') = ListedIds(nwState') \ {Self}
  BY <1>1, UpdatePeersSound
<1>3. wgLastPeers' = Ids(peerState')
  BY DEF Mirrored, WgUpdatePeers
<1> QED
  BY <1>2, <1>3 DEF PeersCaught

\* An update, which calls updatePeers and not the callback of the peer list.
LEMMA UpdateCaught ==
    ASSUME EngineInv, EngineInv', PeersCaught, NEW dev \in Device, NodeUpdate(dev)
    PROVE  PeersCaught'
<1>1. HandleUpdate(dev) /\ wgLastPeers' = wgLastPeers
  BY DEF NodeUpdate, WgOnUpdate
<1>2. /\ peerState \in SUBSET Device /\ \A d, e \in peerState : d.id = e.id => d = e
      /\ nwState \in Seq(Network) /\ nwState' \in Seq(Network)
  BY DEF EngineInv, EngineTypeOK, PeerListSound
<1>3. ListedIds(nwState') = ListedIds(nwState)
  BY <1>1, <1>2, UpdateKeepsListed
<1>4. Ids(peerState') = ListedIds(nwState') \ {Self}
  BY <1>1, <1>2, UpdatePeersSound DEF HandleUpdate
<1> QED
  BY <1>1, <1>3, <1>4 DEF PeersCaught

\* Every message that leaves the daemon settled.
LEMMA HandleKeepsPeers ==
    ASSUME PikoTypeOK, EngineInv, EngineInv', settled => PeersCaught,
           HandleGwMsg, settled'
    PROVE  PeersCaught'
<1> DEFINE msg == Head(gw)
<1>1. msg \in Msg
  BY HeadTailProperties DEF HandleGwMsg, PikoTypeOK
<1> HIDE DEF msg
<1>2. ASSUME UNCHANGED nodeVars, settled PROVE PeersCaught'
  BY <1>2 DEF PeersCaught, nodeVars, engineVars, wgVars
<1>3. CASE msg.type = "Connect" /\ OnConnect
  BY <1>3, MirroredCaught DEF OnConnect, NodeRebuild, RebuildState
<1>4. CASE msg.type = "Disconnect" /\ OnDisconnect
  BY <1>2, <1>4 DEF OnDisconnect
<1>5. CASE msg.type = "NetworkJoin" /\ OnNetworkJoin(msg)
  BY <1>2, <1>5, MirroredCaught DEF OnNetworkJoin, NodeJoin, HandleJoin
<1>6. CASE msg.type = "NetworkLeave" /\ OnNetworkLeave(msg)
  <2>1. CASE NodeLeavePanic(msg.nw, msg.dev)
    BY <1>2, <1>6, <2>1
       DEF OnNetworkLeave, NodeLeavePanic, HandleLeavePanic, PeersCaught, wgVars
  <2> QED
    BY <1>2, <1>6, <2>1, MirroredCaught DEF OnNetworkLeave, NodeLeave, HandleLeave
<1>7. CASE msg.type = "DeviceUpdate" /\ NodeUpdate(msg.dev) /\ UNCHANGED settled
  BY <1>1, <1>7, MessagesTyped, UpdateCaught
<1> QED
  BY <1>3, <1>4, <1>5, <1>6, <1>7 DEF HandleGwMsg, msg

-----------------------------------------------------------------------------
(* The cache after each message                                            *)

\* Connect: the server's networks as they are now; what waits in the queue is
\* older, and its effects are in them.
LEMMA ConnectKeepsCache ==
    ASSUME PikoTypeOK, OnConnect, UNCHANGED serverVars, settled'
    PROVE  CacheComplete' /\ CacheOwed' /\ CacheFresh'
<1>1. PICK answer \in ServerListings : RebuildState(answer)
  BY DEF OnConnect, NodeRebuild
<1>2. /\ CacheComplete'
      /\ \A n \in NetworkIds : Cached(n)' <=> Self \in members[n]
      /\ AllFresh' /\ members' = members
  BY <1>1, RebuildCaches DEF serverVars
<1>3. \A n \in NetworkIds : ~Cached(n)' => Once(n)'
  BY DEF Cached, Once
<1>4. CacheOwed'
  BY <1>2, <1>3 DEF CacheOwed, Owed
<1>5. CacheFresh'
  BY <1>2 DEF AllFresh, CacheFresh
<1> QED
  BY <1>2, <1>4, <1>5

\* Complete entries are complete still while the membership is the same.
LEMMA EntriesComplete ==
    ASSUME members' = members,
           \A k \in 1..Len(nwState') : \E v : nwState'[k] = v /\ Complete(v)
    PROVE  CacheComplete'
<1> SUFFICES ASSUME NEW k \in 1..Len(nwState') PROVE Complete(nwState[k])'
  BY DEF CacheComplete
<1>1. PICK v : nwState'[k] = v /\ Complete(v)
  OBVIOUS
<1>2. /\ \A l \in 1..Len(v.devices) : v.devices[l].id \in members'[v.id]
      /\ \A d \in members'[v.id] : \E l \in 1..Len(v.devices) : v.devices[l].id = d
      /\ \A l, m \in 1..Len(v.devices) : v.devices[l].id = v.devices[m].id => l = m
  BY <1>1 DEF Complete
<1> QED
  BY <1>1, <1>2 DEF Complete

\* The messages of others, but updates, leave the cache alone.
LEMMA OthersKeepCache ==
    ASSUME PikoTypeOK, gw # <<>>, gw' = Tail(gw), UNCHANGED <<serverVars, nwState>>,
           CacheComplete, CacheOwed, \A n : ~Ours(1, n)
    PROVE  CacheComplete' /\ CacheOwed'
BY SameIdsKeepCache DEF serverVars

\* Our own join is followed by our leave, or we are in the network.
LEMMA OwnTurn ==
    ASSUME PikoTypeOK, QueueInv, Caught, gw # <<>>, gw' = Tail(gw),
           NEW n \in NetworkIds, Ours(1, n),
           ~(gw[1].type = "NetworkJoin" <=> Self \in members[n])
    PROVE  \E i \in 1..Len(gw') : /\ Ours(i, n)' /\ gw'[i].type # gw[1].type
                                  /\ \A j \in 1..i-1 : ~Ours(j, n)'
<1>1. /\ Len(gw) \in Nat \ {0} /\ Len(gw') = Len(gw) - 1
      /\ \A i \in 1..Len(gw') : gw'[i] = gw[i + 1] /\ (Ours(i, n)' <=> Ours(i + 1, n))
  BY QueueTail DEF PikoTypeOK
<1>2. 1 \in 1..Len(gw) /\ After(1) /\ Alternating
  BY <1>1, CaughtIsAfter DEF QueueInv, Caught
<1>3. PICK m \in 2..Len(gw) : /\ Ours(m, n) /\ gw[m].type # gw[1].type
                              /\ \A k \in 2..m-1 : ~Ours(k, n)
  <2>1. \/ /\ \A j \in 1+1..Len(gw) : ~Ours(j, n)
           /\ gw[1].type = "NetworkJoin" <=> Self \in members[n]
        \/ \E j \in 1+1..Len(gw) : /\ Ours(j, n) /\ gw[j].type # gw[1].type
                                   /\ \A k \in 1+1..j-1 : ~Ours(k, n)
    BY <1>2 DEF Alternating
  <2> QED
    BY <2>1
<1>4. PICK i : i = m - 1
  OBVIOUS
<1>5. i \in 1..Len(gw') /\ i + 1 = m /\ \A j \in 1..i-1 : j \in 1..Len(gw') /\ j + 1 \in 2..m-1
  BY <1>1, <1>4
<1> QED
  BY <1>1, <1>3, <1>5

\* Our own join caches the network, which was not cached unless it is ours.
LEMMA OwnJoinKeepsCache ==
    ASSUME PikoTypeOK, EngineInv, QueueInv, Caught, gw # <<>>, gw' = Tail(gw),
           UNCHANGED serverVars, CacheComplete, CacheOwed,
           NEW n \in NetworkIds, Ours(1, n), gw[1].type = "NetworkJoin",
           NEW v \in Answers(n), nwState' = Append(nwState, v)
    PROVE  CacheComplete' /\ CacheOwed'
<1>1. v \in Network /\ v.id = n /\ Complete(v)
  BY AnswerComplete
<1>2. /\ Len(nwState) \in Nat /\ Len(nwState') = Len(nwState) + 1
      /\ nwState'[Len(nwState) + 1] = v
      /\ \A k \in 1..Len(nwState) : nwState'[k] = nwState[k]
  BY <1>1, LenProperties, AppendProperties DEF EngineInv, EngineTypeOK
<1>3. \A k \in 1..Len(nwState') : k \in 1..Len(nwState) \/ k = Len(nwState) + 1
  BY <1>2
<1>4. members' = members
  BY DEF serverVars
<1>5. CacheComplete'
  BY <1>1, <1>2, <1>3, <1>4, EntriesComplete DEF CacheComplete
<1>6. ASSUME NEW m \in NetworkIds, m # n PROVE Owed(m)'
  <2>1. Cached(m)' <=> Cached(m)
    BY <1>1, <1>2, <1>3, <1>6 DEF Cached
  <2>2. Once(m) => Once(m)'
    BY <1>1, <1>2, <1>3, <1>6 DEF Once
  <2>3. ~Ours(1, m)
    BY <1>6 DEF Ours
  <2> QED
    BY <1>4, <2>1, <2>2, <2>3, OwedStill DEF CacheOwed
<1>7. Owed(n)'
  <2>1. Cached(n)'
    BY <1>1, <1>2 DEF Cached
  <2>2. ASSUME Self \notin members[n] PROVE Once(n)' /\ LeaveDue(n)'
    <3>1. PICK i \in 1..Len(gw') : /\ Ours(i, n)' /\ gw'[i].type # gw[1].type
                                   /\ \A j \in 1..i-1 : ~Ours(j, n)'
      BY <2>2, OwnTurn
    <3>2. LeaveDue(n)'
      BY <3>1 DEF LeaveDue, Ours
    <3>3. ~Cached(n)
      <4> SUFFICES ASSUME Cached(n) PROVE FALSE
        OBVIOUS
      <4>1. PICK k \in 1..Len(gw) : /\ Ours(k, n) /\ gw[k].type = "NetworkLeave"
                                    /\ \A j \in 1..k-1 : ~Ours(j, n)
        BY <2>2 DEF CacheOwed, Owed, LeaveDue
      <4>2. k = 1 \/ 1 \in 1..k-1
        OBVIOUS
      <4> QED
        BY <4>1, <4>2
    <3>4. Once(n)'
      BY <1>2, <1>3, <3>3 DEF Cached, Once
    <3> QED
      BY <3>2, <3>4
  <2> QED
    BY <1>4, <2>1, <2>2 DEF Owed
<1> QED
  BY <1>5, <1>6, <1>7 DEF CacheOwed

\* Our own leave drops an entry of the network, the only one unless it is ours.
LEMMA OwnLeaveKeepsCache ==
    ASSUME PikoTypeOK, EngineInv, QueueInv, Caught, gw # <<>>, gw' = Tail(gw),
           UNCHANGED serverVars, CacheComplete, CacheOwed,
           NEW n \in NetworkIds, Ours(1, n), gw[1].type = "NetworkLeave",
           HandleSelfLeave(n)
    PROVE  CacheComplete' /\ CacheOwed'
<1>1. members' = members /\ nwState \in Seq(Network) /\ Len(nwState) \in Nat
  BY LenProperties DEF serverVars, EngineInv, EngineTypeOK
<1>2. Self \in members[n] => \E i \in 1..Len(gw') : Ours(i, n)'
  BY OwnTurn
<1>3. \A m \in NetworkIds : m # n => ~Ours(1, m)
  BY DEF Ours
<1>4. CASE nwState' = nwState /\ ~Cached(n)
  <2>1. CacheComplete'
    BY <1>1, <1>4, EntriesComplete DEF CacheComplete
  <2>2. \A m : (Cached(m)' <=> Cached(m)) /\ (Once(m)' <=> Once(m))
    BY <1>4 DEF Cached, Once
  <2>3. Once(n)'
    BY <1>4, <2>2 DEF Cached, Once
  <2>4. Owed(n)'
    BY <1>1, <1>2, <1>4, <2>2, <2>3 DEF Owed
  <2>5. \A m \in NetworkIds : m # n => Owed(m)'
    BY <1>1, <1>3, <2>2, OwedStill DEF CacheOwed
  <2> QED
    BY <2>1, <2>4, <2>5 DEF CacheOwed
<1>5. ASSUME NEW i \in 1..Len(nwState), nwState[i].id = n, Len(nwState') = Len(nwState) - 1,
             \A k \in 1..Len(nwState) - 1 :
                nwState'[k] = nwState[IF k = i THEN Len(nwState) ELSE k]
      PROVE  CacheComplete' /\ CacheOwed'
  <2>1. \A k \in 1..Len(nwState') :
            \E l \in 1..Len(nwState) \ {i} :
                nwState'[k] = nwState[l] /\ (l = k \/ (k = i /\ l = Len(nwState)))
    <3> SUFFICES ASSUME NEW k \in 1..Len(nwState')
                 PROVE  \E l \in 1..Len(nwState) \ {i} :
                            /\ nwState'[k] = nwState[l]
                            /\ l = k \/ (k = i /\ l = Len(nwState))
      OBVIOUS
    <3>1. k \in 1..Len(nwState) - 1 /\ Len(nwState) \in 1..Len(nwState) /\ k \in 1..Len(nwState)
      BY <1>1, <1>5
    <3>2. CASE k = i
      <4>1. Len(nwState) # i /\ nwState'[k] = nwState[Len(nwState)]
        BY <1>1, <1>5, <3>1, <3>2
      <4> QED
        BY <3>1, <3>2, <4>1
    <3>3. CASE k # i
      BY <1>5, <3>1, <3>3
    <3> QED
      BY <3>2, <3>3
  <2>2. \A l \in 1..Len(nwState) \ {i} : \E k \in 1..Len(nwState') : nwState'[k] = nwState[l]
    <3> SUFFICES ASSUME NEW l \in 1..Len(nwState) \ {i}
                 PROVE  \E k \in 1..Len(nwState') : nwState'[k] = nwState[l]
      OBVIOUS
    <3>1. CASE l = Len(nwState)
      <4>1. i \in 1..Len(nwState')
        BY <1>1, <1>5, <3>1
      <4> QED
        BY <1>5, <3>1, <4>1
    <3>2. CASE l # Len(nwState)
      <4>1. l \in 1..Len(nwState')
        BY <1>1, <1>5, <3>2
      <4> QED
        BY <1>5, <4>1
    <3> QED
      BY <3>1, <3>2
  <2>3. CacheComplete'
    BY <1>1, <2>1, EntriesComplete DEF CacheComplete
  <2>4. \A m : Once(m) => Once(m)'
    <3> SUFFICES ASSUME NEW m, Once(m), NEW k \in 1..Len(nwState'), NEW l \in 1..Len(nwState'),
                        nwState'[k].id = m, nwState'[l].id = m
                 PROVE  k = l
      BY DEF Once
    <3>1. PICK a \in 1..Len(nwState) \ {i} :
              nwState'[k] = nwState[a] /\ (a = k \/ (k = i /\ a = Len(nwState)))
      BY <2>1
    <3>2. PICK b \in 1..Len(nwState) \ {i} :
              nwState'[l] = nwState[b] /\ (b = l \/ (l = i /\ b = Len(nwState)))
      BY <2>1
    <3>3. a = b
      BY <3>1, <3>2 DEF Once
    <3> QED
      BY <1>1, <1>5, <3>1, <3>2, <3>3
  <2>5. \A m \in NetworkIds : m # n => (Cached(m)' <=> Cached(m))
    BY <1>5, <2>1, <2>2, ZenonT(30) DEF Cached
  <2>6. \A m \in NetworkIds : m # n => Owed(m)'
    BY <1>1, <1>3, <2>4, <2>5, OwedStill DEF CacheOwed
  <2>7. ASSUME Self \notin members[n] PROVE Once(n)' /\ ~Cached(n)'
    <3>1. Once(n)
      BY <2>7 DEF CacheOwed, Owed
    <3>2. ~Cached(n)'
      BY <1>5, <2>1, <3>1 DEF Once, Cached
    <3> QED
      BY <2>4, <3>1, <3>2
  <2>8. Owed(n)'
    BY <1>1, <1>2, <2>7 DEF Owed
  <2> QED
    BY <2>3, <2>6, <2>8 DEF CacheOwed
<1> QED
  BY <1>1, <1>4, <1>5, SelfLeaveEntries

\* An update is of the newest record, or a newer one waits.
LEMMA UpdateKeepsCache ==
    ASSUME PikoTypeOK, EngineInv, QueueInv, Caught, gw # <<>>, gw' = Tail(gw),
           UNCHANGED serverVars, CacheComplete, CacheOwed,
           gw[1].type = "DeviceUpdate", gw[1].dev \in Device, HandleUpdate(gw[1].dev)
    PROVE  CacheComplete' /\ CacheOwed' /\ (steady /\ CacheFresh => CacheFresh')
<1>1. nwState \in Seq(Network) /\ members' = members /\ info' = info
  BY DEF EngineInv, EngineTypeOK, serverVars
<1>2. PICK dev \in Device : dev = gw[1].dev
  OBVIOUS
<1>3. /\ Len(nwState') = Len(nwState)
      /\ \A k \in 1..Len(nwState) :
            /\ nwState'[k].id = nwState[k].id
            /\ Len(nwState'[k].devices) = Len(nwState[k].devices)
            /\ \A l \in 1..Len(nwState[k].devices) :
                  nwState'[k].devices[l] = IF nwState[k].devices[l].id = dev.id
                                           THEN dev ELSE nwState[k].devices[l]
  BY <1>1, <1>2, UpdateEntries
<1>4. CacheComplete' /\ CacheOwed'
  <2>1. \A n : ~Ours(1, n)
    BY DEF Ours
  <2>2. \A k \in 1..Len(nwState) : \A l \in 1..Len(nwState[k].devices) :
            nwState'[k].devices[l].id = nwState[k].devices[l].id
    BY <1>3
  <2> QED
    BY <1>1, <1>3, <2>1, <2>2, SameIdsKeepCache
<1>5. ASSUME steady, CacheFresh PROVE CacheFresh'
  <2>1. /\ Len(gw) \in Nat \ {0} /\ Len(gw') = Len(gw) - 1
        /\ \A i \in 1..Len(gw') : \A d : UpdateAt(i, d)' <=> UpdateAt(i + 1, d)
    BY QueueTail DEF PikoTypeOK
  <2>2. ASSUME NEW i \in 1..Len(gw), i # 1, NEW d, UpdateAt(i, d)
        PROVE  \E j \in 1..Len(gw') : UpdateAt(j, d)'
    <3>1. PICK j : j = i - 1
      OBVIOUS
    <3>2. j \in 1..Len(gw') /\ j + 1 = i
      BY <2>1, <2>2, <3>1
    <3> QED
      BY <2>1, <2>2, <3>2
  <2>3. dev = Rec(dev.id) \/ \E i \in 1+1..Len(gw) : UpdateAt(i, dev.id)
    <3>1. 1 \in 1..Len(gw) /\ After(1) /\ UpToDate
      BY <1>5, <2>1, CaughtIsAfter DEF QueueInv, Caught
    <3>2. PICK d \in DeviceIds :
              UpdateAt(1, d) /\ (gw[1].dev = Rec(d) \/ \E i \in 1+1..Len(gw) : UpdateAt(i, d))
      BY <3>1 DEF UpToDate
    <3>3. d = dev.id
      BY <1>2, <3>2 DEF UpdateAt
    <3> QED
      BY <1>2, <3>2, <3>3
  <2>4. dev = Rec(dev.id) \/ \E j \in 1..Len(gw') : UpdateAt(j, dev.id)'
    <3>1. \A i \in 1+1..Len(gw) : i \in 1..Len(gw) /\ i # 1
      OBVIOUS
    <3> QED
      BY <2>2, <2>3, <3>1
  <2>5. ASSUME NEW k \in 1..Len(nwState), NEW l \in 1..Len(nwState[k].devices),
               NEW d, d = nwState'[k].devices[l]
        PROVE  d = Rec(d.id) \/ \E j \in 1..Len(gw') : UpdateAt(j, d.id)'
    <3>1. CASE nwState[k].devices[l].id = dev.id
      BY <1>3, <2>4, <2>5, <3>1
    <3>2. CASE nwState[k].devices[l].id # dev.id
      <4>1. d = nwState[k].devices[l] /\ d.id # dev.id
        BY <1>3, <2>5, <3>2
      <4>2. d = Rec(d.id) \/ \E i \in 1..Len(gw) : UpdateAt(i, d.id)
        BY <1>5, <4>1 DEF CacheFresh
      <4>3. ~UpdateAt(1, d.id)
        BY <1>2, <4>1 DEF UpdateAt
      <4> QED
        BY <2>2, <4>2, <4>3
    <3> QED
      BY <3>1, <3>2
  <2>6. \A d : Rec(d)' = Rec(d)
    BY <1>1 DEF Rec
  <2> QED
    BY <1>3, <2>5, <2>6 DEF CacheFresh
<1> QED
  BY <1>4, <1>5

\* A message that leaves the daemon caught up and settled.
LEMMA HandleKeepsCache ==
    ASSUME PikoTypeOK, EngineInv, QueueInv, CacheInv, HandleGwMsg, settled', Caught'
    PROVE  CacheComplete' /\ CacheOwed' /\ (steady' => CacheFresh')
<1>1. /\ gw # <<>> /\ gw' = Tail(gw) /\ UNCHANGED serverVars /\ steady' = steady
      /\ gw \in Seq(Msg) /\ Head(gw) = gw[1] /\ 1 \in 1..Len(gw) /\ Head(gw) \in Msg
  BY QueueTail, HeadTailProperties DEF HandleGwMsg, PikoTypeOK
<1>2. CASE Head(gw).type = "Connect"
  BY <1>1, <1>2, ConnectKeepsCache DEF HandleGwMsg
<1>3. CASE Head(gw).type # "Connect"
  <2>1. Caught /\ After(1)
    BY <1>1, <1>3, TakeCaught, CaughtIsAfter
  <2>2. settled
    BY <1>1, <1>3 DEF HandleGwMsg, OnDisconnect, OnNetworkJoin, OnNetworkLeave
  <2>3. CacheComplete /\ CacheOwed /\ (steady => CacheFresh)
    BY <2>1, <2>2 DEF CacheInv
  <2>4. steady => gw[1].type = "DeviceUpdate"
    BY <1>1, <2>1 DEF QueueInv, UpToDate, UpdateAt, Caught
  <2>5. gw[1].type # "Disconnect"
    BY <1>1, <2>1, CaughtIsAfter
  <2>6. CASE gw[1].type = "DeviceUpdate"
    <3>1. gw[1].dev \in Device /\ HandleUpdate(gw[1].dev)
      BY <1>1, <2>6, MessagesTyped DEF HandleGwMsg, NodeUpdate
    <3> QED
      BY <1>1, <2>1, <2>3, <2>6, <3>1, UpdateKeepsCache
  <2>7. CASE gw[1].type = "NetworkJoin"
    <3> DEFINE msg == gw[1]
    <3>1. /\ msg.nw \in NetworkIds /\ msg.dev \in Device /\ OnNetworkJoin(msg)
          /\ settled' = (settled /\ ~(msg.dev.id = Self /\ UNCHANGED nwState))
             \/ JoinIgnored(msg.nw, msg.dev)
      BY <1>1, <2>7, MessagesTyped DEF HandleGwMsg, OnNetworkJoin
    <3>2. CASE msg.dev.id # Self
      <4>1. nwState' = nwState
        BY <3>1, <3>2 DEF OnNetworkJoin, NodeJoin, HandleJoin, nodeVars, engineVars
      <4>2. \A n : ~Ours(1, n)
        BY <3>2 DEF Ours
      <4> QED
        BY <1>1, <2>3, <2>4, <2>7, <4>1, <4>2, OthersKeepCache
    <3>3. CASE msg.dev.id = Self
      <4>1. Ours(1, msg.nw) /\ ~JoinIgnored(msg.nw, msg.dev)
        BY <2>7, <3>3 DEF Ours, JoinIgnored
      <4>2. nwState' # nwState
        BY <3>1, <3>3, <4>1
      <4>3. \E v \in Answers(msg.nw) : nwState' = Append(nwState, v)
        BY <3>1, <3>3, <4>1, <4>2 DEF OnNetworkJoin, NodeJoin, HandleJoin, HandleSelfJoin
      <4> QED
        BY <1>1, <2>1, <2>3, <2>4, <2>7, <3>1, <4>1, <4>3, OwnJoinKeepsCache
    <3> QED
      BY <3>2, <3>3
  <2>8. CASE gw[1].type = "NetworkLeave"
    <3> DEFINE msg == gw[1]
    <3>1. msg.nw \in NetworkIds /\ msg.dev \in Device /\ OnNetworkLeave(msg)
      BY <1>1, <2>8, MessagesTyped DEF HandleGwMsg
    <3>2. CASE msg.dev.id # Self
      <4>1. nwState' = nwState
        BY <3>1, <3>2 DEF OnNetworkLeave, NodeLeave, HandleLeave, NodeLeavePanic,
                          HandleLeavePanic, nodeVars, engineVars
      <4>2. \A n : ~Ours(1, n)
        BY <3>2 DEF Ours
      <4> QED
        BY <1>1, <2>3, <2>4, <2>8, <4>1, <4>2, OthersKeepCache
    <3>3. CASE msg.dev.id = Self
      <4>1. Ours(1, msg.nw)
        BY <2>8, <3>3 DEF Ours
      <4>2. HandleSelfLeave(msg.nw)
        BY <3>1, <3>3 DEF OnNetworkLeave, LeaveIgnored, NodeLeave, HandleLeave,
                          NodeLeavePanic, HandleLeavePanic, LeavePanics
      <4> QED
        BY <1>1, <2>1, <2>3, <2>4, <2>8, <3>1, <4>1, <4>2, OwnLeaveKeepsCache
    <3> QED
      BY <3>2, <3>3
  <2> QED
    BY <1>1, <1>3, <2>5, <2>6, <2>7, <2>8 DEF HandleGwMsg
<1> QED
  BY <1>2, <1>3

-----------------------------------------------------------------------------
(* The cache while the server goes on                                      *)

\* A device that moves: the cached networks are ours, so we hear of it.
LEMMA MoveKeepsCache ==
    ASSUME PikoTypeOK, EngineInv, QueueInv, CacheInv,
           NEW d \in DeviceIds, NEW e \in Endpoints, ServerUpdate(d, e)
    PROVE  CacheInv'
<1> DEFINE msg == [type |-> "DeviceUpdate", dev |-> [id |-> d, endpoint |-> e]]
<1>1. /\ UNCHANGED <<nwState, peerState, wgLastPeers, linked, settled, steady, members>>
      /\ info' = [info EXCEPT ![d] = e]
      /\ gw' = IF linked /\ (d = Self \/ Shares(d)) THEN Append(gw, msg) ELSE gw
  BY DEF ServerUpdate, Send, history, nodeVars, engineVars, wgVars
<1>2. msg \in Msg /\ msg.type = "DeviceUpdate" /\ msg.dev = [id |-> d, endpoint |-> e]
  BY DEF Msg, Device
<1> HIDE DEF msg
<1>3. settled' => PeersCaught'
  BY <1>1 DEF CacheInv, PeersCaught
<1>4. /\ Len(gw) \in Nat /\ Len(gw') \in Nat /\ Len(gw) <= Len(gw')
      /\ \A i \in 1..Len(gw) : /\ i \in 1..Len(gw') /\ gw'[i] = gw[i]
                               /\ \A n : Ours(i, n)' <=> Ours(i, n)
                               /\ \A x : UpdateAt(i, x)' <=> UpdateAt(i, x)
  <2>1. CASE gw' = gw
    BY <2>1, LenProperties DEF PikoTypeOK, Ours, UpdateAt
  <2>2. CASE gw' = Append(gw, msg)
    BY <1>2, <2>2, QueueAppend DEF PikoTypeOK
  <2> QED
    BY <1>1, <2>1, <2>2
<1>5. Caught' => Caught
  BY <1>1, <1>4 DEF Caught
<1>6. ASSUME CacheComplete, CacheOwed PROVE CacheComplete' /\ CacheOwed'
  <2>1. CacheComplete'
    BY <1>1, <1>6, EntriesComplete DEF CacheComplete
  <2>2. ASSUME NEW n \in NetworkIds PROVE Owed(n)'
    <3>1. (Cached(n)' <=> Cached(n)) /\ (Once(n)' <=> Once(n))
      BY <1>1 DEF Cached, Once
    <3>2. (\E i \in 1..Len(gw) : Ours(i, n)) => \E i \in 1..Len(gw') : Ours(i, n)'
      BY <1>4
    <3>3. ASSUME LeaveDue(n) PROVE LeaveDue(n)'
      <4>1. PICK i \in 1..Len(gw) : /\ Ours(i, n) /\ gw[i].type = "NetworkLeave"
                                    /\ \A j \in 1..i-1 : ~Ours(j, n)
        BY <3>3 DEF LeaveDue
      <4>2. \A j \in 1..i-1 : j \in 1..Len(gw)
        BY <1>4, <4>1
      <4> QED
        BY <1>4, <4>1, <4>2 DEF LeaveDue
    <3> QED
      BY <1>1, <1>6, <3>1, <3>2, <3>3 DEF CacheOwed, Owed
  <2> QED
    BY <2>1, <2>2 DEF CacheOwed
<1>7. ASSUME Caught, steady, CacheComplete, CacheOwed, CacheFresh PROVE CacheFresh'
  <2> SUFFICES ASSUME NEW k \in 1..Len(nwState), NEW l \in 1..Len(nwState[k].devices),
                      NEW x, x = nwState[k].devices[l]
               PROVE  x = Rec(x.id)' \/ \E i \in 1..Len(gw') : UpdateAt(i, x.id)'
    BY <1>1 DEF CacheFresh
  <2>1. /\ nwState[k].id \in NetworkIds /\ x.id \in members[nwState[k].id]
        /\ x.id \in DeviceIds /\ Cached(nwState[k].id)
    <3>1. nwState[k] \in Network
      BY ElementOfSeq DEF EngineInv, EngineTypeOK
    <3>2. nwState[k].id \in NetworkIds /\ x.id \in members[nwState[k].id]
      BY <1>7, <3>1 DEF Network, CacheComplete, Complete
    <3> QED
      BY <3>2 DEF Cached, PikoTypeOK
  <2>2. CASE x.id # d
    <3>1. Rec(x.id)' = Rec(x.id)
      BY <1>1, <2>1, <2>2 DEF Rec, PikoTypeOK
    <3>2. x = Rec(x.id) \/ \E i \in 1..Len(gw) : UpdateAt(i, x.id)
      BY <1>7 DEF CacheFresh
    <3> QED
      BY <1>4, <3>1, <3>2
  <2>3. CASE x.id = d /\ (d = Self \/ Shares(d))
    <3>1. gw' = Append(gw, msg)
      BY <1>1, <1>7, <2>3 DEF Caught
    <3>2. PICK m : m = Len(gw) + 1
      OBVIOUS
    <3>3. m \in 1..Len(gw') /\ gw'[m] = msg
      BY <1>2, <3>1, <3>2, QueueAppend DEF PikoTypeOK
    <3>4. UpdateAt(m, d)'
      BY <1>2, <3>3 DEF UpdateAt
    <3> QED
      BY <2>3, <3>3, <3>4
  <2>4. CASE x.id = d /\ d # Self /\ ~Shares(d)
    <3>1. Self \notin members[nwState[k].id]
      BY <2>1, <2>4 DEF Shares
    <3>2. PICK i \in 1..Len(gw) : Ours(i, nwState[k].id)
      BY <1>7, <2>1, <3>1 DEF CacheOwed, Owed, LeaveDue
    <3>3. After(i) /\ UpToDate
      BY <1>7, CaughtIsAfter DEF QueueInv, Caught
    <3> QED
      BY <3>2, <3>3 DEF UpToDate, UpdateAt, Ours
  <2> QED
    BY <2>2, <2>3, <2>4
<1> QED
  BY <1>1, <1>3, <1>5, <1>6, <1>7 DEF CacheInv

\* A connection that comes up or breaks leaves something to catch up with.
LEMMA LinkKeepsCache ==
    ASSUME PikoTypeOK, CacheInv, LinkUp \/ \E k \in 0..Len(gw) : LinkDown(k)
    PROVE  CacheInv'
<1>1. UNCHANGED <<peerState, nwState, wgLastPeers, settled>>
  BY DEF LinkUp, LinkDown, history, nodeVars, engineVars, wgVars
<1>2. ~Caught'
  <2>1. CASE LinkUp
    <3> DEFINE msg == [type |-> "Connect"]
    <3>1. msg \in Msg /\ gw' = Append(gw, msg) /\ msg.type = "Connect"
      BY <2>1 DEF LinkUp, Msg
    <3> HIDE DEF msg
    <3>2. Len(gw) \in Nat /\ Len(gw') = Len(gw) + 1 /\ gw'[Len(gw')].type = "Connect"
      BY <3>1, QueueAppend DEF PikoTypeOK
    <3> QED
      BY <3>2 DEF Caught
  <2>2. CASE \E k \in 0..Len(gw) : LinkDown(k)
    BY <2>2 DEF LinkDown, Caught
  <2> QED
    BY <2>1, <2>2
<1> QED
  BY <1>1, <1>2 DEF CacheInv, PeersCaught

\* Every step, action by action.
LEMMA StepKeepsCache ==
    ASSUME PikoTypeOK, EngineInv, EngineInv', QueueInv, CacheInv, [PikoNext]_pikoVars
    PROVE  CacheInv'
<1>1. ASSUME UNCHANGED <<nwState, peerState, wgLastPeers, serverVars, linkVars, history>>
      PROVE  CacheInv'
  <2>1. /\ UNCHANGED <<nwState, peerState, wgLastPeers, members, info, gw, linked>>
        /\ UNCHANGED <<settled, steady>>
    BY <1>1 DEF serverVars, linkVars, history
  <2>2. (PeersCaught' <=> PeersCaught) /\ (Caught' <=> Caught)
    BY <2>1 DEF PeersCaught, Caught
  <2>3. CacheComplete => CacheComplete'
    BY <2>1, EntriesComplete DEF CacheComplete
  <2>4. CacheOwed => CacheOwed'
    BY <2>1 DEF CacheOwed, Owed, Once, LeaveDue, Cached, Ours
  <2>5. CacheFresh => CacheFresh'
    BY <2>1 DEF CacheFresh, UpdateAt, Rec
  <2> QED
    BY <2>1, <2>2, <2>3, <2>4, <2>5 DEF CacheInv
<1>2. CASE UNCHANGED pikoVars
  BY <1>1, <1>2 DEF pikoVars, nodeVars, engineVars, wgVars
<1>3. CASE Discovery /\ UNCHANGED <<serverVars, linkVars, history>>
  BY <1>1, <1>3 DEF Discovery, OnHello, OnHelloLocked, Tick, engineVars, wgVars
<1>4. CASE \E d \in DeviceIds, n \in NetworkIds : ServerJoin(d, n) \/ ServerLeave(d, n)
  BY <1>4 DEF ServerJoin, ServerLeave, CacheInv
<1>5. ASSUME NEW d \in Roaming, NEW e \in Endpoints, ServerUpdate(d, e)
      PROVE  CacheInv'
  BY <1>5, BoundsAssumption, MoveKeepsCache
<1>6. CASE HandleGwMsg
  BY <1>6, HandleKeepsPeers, HandleKeepsCache DEF CacheInv
<1> QED
  BY <1>2, <1>3, <1>4, <1>5, <1>6, LinkKeepsCache DEF PikoNext

-----------------------------------------------------------------------------
(* The theorems                                                            *)

\* The inductive invariant.
THEOREM CacheInvariance == PikoSpec => [](PikoTypeOK /\ EngineInv /\ QueueInv /\ CacheInv)
<1>1. PikoInit => QueueInv /\ CacheInv
  BY DEF PikoInit, QueueInv, CacheInv
<1>2. PikoTypeOK /\ QueueInv /\ [PikoNext]_pikoVars => QueueInv'
  BY StepKeepsQueue
<1>3. PikoTypeOK /\ EngineInv /\ EngineInv' /\ QueueInv /\ CacheInv /\ [PikoNext]_pikoVars
      => CacheInv'
  BY StepKeepsCache
<1> QED
  BY <1>1, <1>2, <1>3, PikoTypeCorrect, PikoImplementsNode, NodeKeepsEngineInv, PTL DEF PikoSpec

\* With nothing waiting, the cache is the server's.
LEMMA NothingOwed ==
    ASSUME PikoTypeOK, EngineInv, CacheInv, linked, settled, gw = <<>>
    PROVE  /\ PeersCaught /\ CacheComplete
           /\ \A n \in NetworkIds : Cached(n) <=> Self \in members[n]
           /\ steady => AllFresh
           /\ nwState \in Seq(Network) /\ DOMAIN nwState = 1..Len(nwState)
           /\ \A k \in 1..Len(nwState) :
                 /\ nwState[k] \in Network
                 /\ DOMAIN nwState[k].devices = 1..Len(nwState[k].devices)
<1>1. \A i : i \notin 1..Len(gw)
  BY EmptySeq
<1>2. Caught
  BY <1>1 DEF Caught
<1>3. PeersCaught /\ CacheComplete /\ CacheOwed /\ (steady => CacheFresh)
  BY <1>2 DEF CacheInv
<1>4. \A n \in NetworkIds : Cached(n) <=> Self \in members[n]
  BY <1>1, <1>3 DEF CacheOwed, Owed, LeaveDue
<1>5. CacheFresh => AllFresh
  BY <1>1 DEF CacheFresh, AllFresh
<1>6. /\ nwState \in Seq(Network) /\ DOMAIN nwState = 1..Len(nwState)
      /\ \A k \in 1..Len(nwState) : nwState[k] \in Network
  BY LenProperties, ElementOfSeq DEF EngineInv, EngineTypeOK
<1>7. ASSUME NEW v \in Network
      PROVE  DOMAIN v.devices = 1..Len(v.devices)
  BY LenProperties DEF Network
<1> QED
  BY <1>3, <1>4, <1>5, <1>6, <1>7

\* Once all is handled and nothing happened since the last rebuild, peers and
\* mirror are the devices that share a network with us.
THEOREM PeersSettleRight == PikoSpec => []SettledPeersAreRight
<1>1. PikoTypeOK /\ EngineInv /\ CacheInv => SettledPeersAreRight
  <2> SUFFICES ASSUME PikoTypeOK, EngineInv, CacheInv, linked, settled, gw = <<>>
               PROVE  Ids(peerState) = CoMembers /\ wgLastPeers = CoMembers
    BY DEF SettledPeersAreRight
  <2>1. /\ PeersCaught /\ CacheComplete
        /\ \A n \in NetworkIds : Cached(n) <=> Self \in members[n]
        /\ DOMAIN nwState = 1..Len(nwState)
        /\ \A k \in 1..Len(nwState) :
              /\ nwState[k] \in Network
              /\ DOMAIN nwState[k].devices = 1..Len(nwState[k].devices)
    BY NothingOwed
  <2>2. \A d : d \in ListedIds(nwState) <=>
               \E k \in 1..Len(nwState) : d \in members[nwState[k].id]
    <3>1. \A d : d \in ListedIds(nwState) <=>
                 \E k \in 1..Len(nwState) : \E l \in 1..Len(nwState[k].devices) :
                     nwState[k].devices[l].id = d
      <4>1. \A d, s : d \in Ids(ToSet(s)) <=> \E l \in DOMAIN s : s[l].id = d
        BY DEF Ids, ToSet
      <4>2. \A d : d \in ListedIds(nwState) <=>
                   \E k \in DOMAIN nwState : d \in Ids(ToSet(nwState[k].devices))
        BY DEF ListedIds
      <4>3. ASSUME NEW d, NEW k \in 1..Len(nwState)
            PROVE  d \in Ids(ToSet(nwState[k].devices)) <=>
                       \E l \in 1..Len(nwState[k].devices) : nwState[k].devices[l].id = d
        <5>1. PICK s : s = nwState[k].devices
          OBVIOUS
        <5>2. DOMAIN s = 1..Len(s)
          BY <2>1, <5>1
        <5> QED
          BY <4>1, <5>1, <5>2
      <4> QED
        BY <2>1, <4>2, <4>3
    <3>2. ASSUME NEW d, NEW k \in 1..Len(nwState)
          PROVE  (\E l \in 1..Len(nwState[k].devices) : nwState[k].devices[l].id = d)
                     <=> d \in members[nwState[k].id]
      <4>1. Complete(nwState[k])
        BY <2>1 DEF CacheComplete
      <4>2. PICK v : v = nwState[k]
        OBVIOUS
      <4>3. (\E l \in 1..Len(v.devices) : v.devices[l].id = d) <=> d \in members[v.id]
        BY <4>1, <4>2 DEF Complete
      <4> QED
        BY <4>2, <4>3
    <3> QED
      BY <3>1, <3>2
  <2>3. \A d : (\E k \in 1..Len(nwState) : d \in members[nwState[k].id]) <=> Shares(d)
    <3>1. ASSUME NEW d, NEW k \in 1..Len(nwState), d \in members[nwState[k].id]
          PROVE  Shares(d)
      <4>1. nwState[k].id \in NetworkIds /\ Cached(nwState[k].id)
        BY <2>1 DEF Network, Cached
      <4> QED
        BY <2>1, <3>1, <4>1 DEF Shares
    <3>2. ASSUME NEW d, Shares(d)
          PROVE  \E k \in 1..Len(nwState) : d \in members[nwState[k].id]
      BY <2>1, <3>2 DEF Shares, Cached
    <3> QED
      BY <3>1, <3>2
  <2>4. \A d : Shares(d) => d \in DeviceIds
    BY DEF Shares, PikoTypeOK
  <2> QED
    BY <2>1, <2>2, <2>3, <2>4 DEF CoMembers, PeersCaught
<1> QED
  BY <1>1, CacheInvariance, PTL

\* In the same states the cached networks are those we are in.
THEOREM NetworksSettleRight == PikoSpec => []SettledNetworksAreOurs
<1>1. PikoTypeOK /\ EngineInv /\ CacheInv => SettledNetworksAreOurs
  <2> SUFFICES ASSUME PikoTypeOK, EngineInv, CacheInv, linked, settled, gw = <<>>
               PROVE  {v.id : v \in ToSet(nwState)} = {n \in NetworkIds : Self \in members[n]}
    BY DEF SettledNetworksAreOurs
  <2>1. /\ \A n \in NetworkIds : Cached(n) <=> Self \in members[n]
        /\ DOMAIN nwState = 1..Len(nwState)
        /\ \A k \in 1..Len(nwState) : nwState[k].id \in NetworkIds
    BY NothingOwed DEF Network
  <2> QED
    BY <2>1 DEF Cached, ToSet
<1> QED
  BY <1>1, CacheInvariance, PTL

\* If nobody joined or left besides, the cached records are the server's.
THEOREM CacheSettlesFresh == PikoSpec => []SettledCacheIsFresh
<1>1. PikoTypeOK /\ EngineInv /\ CacheInv => SettledCacheIsFresh
  <2> SUFFICES ASSUME PikoTypeOK, EngineInv, CacheInv, linked, settled, steady, gw = <<>>,
                      NEW n \in DOMAIN nwState, NEW d \in ToSet(nwState[n].devices)
               PROVE  d = Rec(d.id)
    BY DEF SettledCacheIsFresh
  <2>1. /\ AllFresh /\ n \in 1..Len(nwState)
        /\ DOMAIN nwState[n].devices = 1..Len(nwState[n].devices)
    BY NothingOwed
  <2> QED
    BY <2>1 DEF AllFresh, ToSet
<1> QED
  BY <1>1, CacheInvariance, PTL
=============================================================================
