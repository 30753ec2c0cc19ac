--------------------------- MODULE DiscoveryProofs --------------------------
(***************************************************************************)
(* The two goroutines that share the ticker of local discovery (module     *)
(* Discovery) begin Hellos at a bounded rate, for every number of daemons, *)
(* every period, every delay of their steps and whatever datagrams are     *)
(* lost and sockets fail; and the reader of                                *)
(* HELLOs (module HelloWire) hears what was said, for every buffer, every  *)
(* key and whatever else is sent to the group.                             *)
(***************************************************************************)
EXTENDS Discovery, HelloWire, TLAPS, SequenceTheorems

-----------------------------------------------------------------------------
(* The invariant                                                           *)

\* A minute is over since the last Hello began once the period of the ticker is, and
\* since the one before it when a tick is left or taken.  A tick that comes while
\* another is taken is a minute after the last.
TickerSet ==
    \A n \in Nodes :
        /\ since[n] <= before[n]
        /\ since[n] + period[n] >= Minute
        /\ tick[n] \/ main[n] = "ticked" => before[n] >= Minute
        /\ tick[n] /\ main[n] = "ticked" => since[n] >= Minute
        /\ main[n] = "ready" => since[n] >= Minute

\* The bound on Hellos holds, and leaves room for one that has begun.
HelloCount ==
    \A n \in Nodes :
        /\ main[n] = "ready" => hellos[n] = 0
        /\ main[n] \in {"ticked", "reset"} => hellos[n] < MaxHellos[n]

DiscoveryInv == DiscoveryTypeOK /\ TickerSet /\ HelloCount

LEMMA MinutePositive == Minute \in Nat /\ Minute > 0
BY DiscoveryAssumption

LEMMA MaxHellosPositive ==
    ASSUME NEW n \in Nodes
    PROVE  MaxHellos[n] \in Nat /\ MaxHellos[n] > 0
BY DiscoveryAssumption

LEMMA DiscoveryInitInv == Init => DiscoveryInv
<1> SUFFICES ASSUME Init PROVE DiscoveryInv
  OBVIOUS
<1> USE DEF Init
<1>1. /\ period \in [Nodes -> 1..Minute]
      /\ since \in [Nodes -> 0..Minute] /\ before \in [Nodes -> 0..Minute]
  BY MinutePositive
<1>2. hellos \in [Nodes -> Nat] /\ \A n \in Nodes : hellos[n] <= MaxHellos[n]
  BY MaxHellosPositive
<1>3. DiscoveryTypeOK
  BY <1>1, <1>2 DEF DiscoveryTypeOK
<1>4. TickerSet /\ HelloCount
  BY MinutePositive DEF TickerSet, HelloCount
<1> QED
  BY <1>3, <1>4 DEF DiscoveryInv

-----------------------------------------------------------------------------
(* The steps                                                               *)

LEMMA SentTyped ==
    ASSUME NEW type \in {"Hello", "HelloReply"}, NEW n \in Nodes
    PROVE  Sent(type, n) \subseteq Datagram
BY DEF Sent, Datagram

\* Beginning a Hello, the first or one on a tick taken.
LEMMA BeginKeeps ==
    ASSUME DiscoveryInv, NEW n \in Nodes, Begin(n),
           main[n] \in {"ready", "ticked"}
    PROVE  DiscoveryInv'
<1>0. DiscoveryTypeOK /\ TickerSet /\ HelloCount
  BY DEF DiscoveryInv
<1>1. /\ period \in [Nodes -> 1..Minute]
      /\ since \in [Nodes -> 0..Minute] /\ before \in [Nodes -> 0..Minute]
      /\ main \in [Nodes -> {"ready", "loop", "ticked", "reset", "returned"}]
      /\ tick \in [Nodes -> BOOLEAN]
  BY <1>0 DEF DiscoveryTypeOK
<1>2. /\ period' \in [Nodes -> 1..Minute]
      /\ since' \in [Nodes -> 0..Minute] /\ before' \in [Nodes -> 0..Minute]
      /\ period'[n] = Minute /\ since'[n] = 0 /\ before'[n] = since[n]
      /\ \A m \in Nodes \ {n} :
            period'[m] = period[m] /\ since'[m] = since[m] /\ before'[m] = before[m]
  BY <1>1, MinutePositive DEF Begin, PutOff
<1>3. /\ main' \in [Nodes -> {"ready", "loop", "ticked", "reset", "returned"}]
      /\ main'[n] = "reset" /\ \A m \in Nodes \ {n} : main'[m] = main[m]
  BY <1>1 DEF Begin
<1>4. UNCHANGED <<listen, greeter, air, seen, tick, hellos, reliable>>
  BY DEF Begin
<1>5. DiscoveryTypeOK'
  BY <1>0, <1>2, <1>3, <1>4 DEF DiscoveryTypeOK
<1>6. TickerSet'
  <2>1. tick[n] => since[n] >= Minute
    BY <1>0, <1>1 DEF TickerSet
  <2> QED
    BY <1>0, <1>1, <1>2, <1>3, <1>4, <2>1, MinutePositive DEF TickerSet
<1>7. HelloCount'
  BY <1>0, <1>3, <1>4, MaxHellosPositive DEF HelloCount
<1> QED
  BY <1>5, <1>6, <1>7 DEF DiscoveryInv

LEMMA DiscoveryStepInv ==
    ASSUME DiscoveryInv, [Next]_vars
    PROVE  DiscoveryInv'
<1> USE DEF DiscoveryInv
<1>0. DiscoveryTypeOK /\ TickerSet /\ HelloCount
  OBVIOUS
<1>u. /\ period \in [Nodes -> 1..Minute]
      /\ since \in [Nodes -> 0..Minute] /\ before \in [Nodes -> 0..Minute]
  BY <1>0 DEF DiscoveryTypeOK
<1>h. hellos \in [Nodes -> Nat] /\ \A n \in Nodes : hellos[n] <= MaxHellos[n]
  BY <1>0 DEF DiscoveryTypeOK
<1>t. /\ main \in [Nodes -> {"ready", "loop", "ticked", "reset", "returned"}]
      /\ listen \in [Nodes -> {"start", "open", "greeted", "reset", "no socket", "broken", "ended"}]
      /\ tick \in [Nodes -> BOOLEAN]
  BY <1>0 DEF DiscoveryTypeOK
\* The steps that leave the ticker and the Hellos alone.
<1>1. ASSUME UNCHANGED <<clockVars, tick, hellos>>,
             \A n \in Nodes : main'[n] = main[n] \/ main'[n] = "returned",
             main' \in [Nodes -> {"ready", "loop", "ticked", "reset", "returned"}],
             listen' \in [Nodes -> {"start", "open", "greeted", "reset", "no socket", "broken", "ended"}],
             greeter' \in [Nodes -> SUBSET Nodes], \A n \in Nodes : n \notin greeter'[n],
             air' \subseteq Datagram,
             seen' \in [Nodes -> SUBSET Nodes], \A n \in Nodes : n \notin seen'[n],
             reliable' \in BOOLEAN
      PROVE  DiscoveryInv'
  <2>1. DiscoveryTypeOK'
    BY <1>0, <1>1 DEF clockVars, DiscoveryTypeOK
  <2>2. TickerSet' /\ HelloCount'
    BY <1>0, <1>1 DEF clockVars, TickerSet, HelloCount
  <2> QED
    BY <2>1, <2>2
<1>2. ASSUME NEW n \in Nodes, Open(n) \/ OpenFails(n) \/ SocketFails(n) \/ TakeError(n)
      PROVE  DiscoveryInv'
  <2>1. UNCHANGED <<clockVars, tick, hellos, greeter, air, seen>>
    BY <1>2 DEF Open, OpenFails, SocketFails, TakeError
  <2>2. /\ main' \in [Nodes -> {"ready", "loop", "ticked", "reset", "returned"}]
        /\ \A m \in Nodes : main'[m] = main[m] \/ main'[m] = "returned"
    BY <1>t, <1>2 DEF Open, OpenFails, SocketFails, TakeError
  <2>3. listen' \in [Nodes -> {"start", "open", "greeted", "reset", "no socket", "broken", "ended"}]
    BY <1>t, <1>2 DEF Open, OpenFails, SocketFails, TakeError
  <2>4. reliable' \in BOOLEAN
    BY <1>0, <1>2 DEF Open, OpenFails, SocketFails, TakeError, DiscoveryTypeOK
  <2>5. /\ greeter' \in [Nodes -> SUBSET Nodes] /\ \A m \in Nodes : m \notin greeter'[m]
        /\ air' \subseteq Datagram
        /\ seen' \in [Nodes -> SUBSET Nodes] /\ \A m \in Nodes : m \notin seen'[m]
    BY <1>0, <2>1 DEF DiscoveryTypeOK
  <2> QED
    BY <1>1, <2>1, <2>2, <2>3, <2>4, <2>5
<1>3. ASSUME NEW n \in Nodes, FirstHello(n) \/ AutoHello(n)
      PROVE  DiscoveryInv'
  BY <1>3, BeginKeeps DEF FirstHello, AutoHello
<1>4. ASSUME NEW n \in Nodes, TakeTick(n)
      PROVE  DiscoveryInv'
  <2>1. /\ UNCHANGED <<listen, greeter, air, seen, clockVars, hellos, reliable>>
        /\ tick' \in [Nodes -> BOOLEAN] /\ ~tick'[n]
        /\ main' \in [Nodes -> {"ready", "loop", "ticked", "reset", "returned"}]
        /\ main'[n] = "ticked" /\ tick[n] /\ hellos[n] < MaxHellos[n]
        /\ \A m \in Nodes \ {n} : main'[m] = main[m] /\ (tick'[m] <=> tick[m])
    BY <1>t, <1>4 DEF TakeTick
  <2>2. DiscoveryTypeOK'
    BY <1>0, <2>1 DEF DiscoveryTypeOK, clockVars
  <2>3. TickerSet' /\ HelloCount'
    BY <1>0, <2>1 DEF TickerSet, HelloCount, clockVars
  <2> QED
    BY <2>2, <2>3
<1>5. ASSUME NEW n \in Nodes, SendHello(n)
      PROVE  DiscoveryInv'
  <2>1. /\ UNCHANGED <<listen, greeter, seen, clockVars, tick, reliable>>
        /\ main' \in [Nodes -> {"ready", "loop", "ticked", "reset", "returned"}]
        /\ main[n] = "reset" /\ main'[n] = "loop"
        /\ \A m \in Nodes \ {n} : main'[m] = main[m]
    BY <1>t, <1>5 DEF SendHello
  <2>2. /\ hellos' \in [Nodes -> Nat] /\ hellos'[n] = hellos[n] + 1
        /\ \A m \in Nodes \ {n} : hellos'[m] = hellos[m]
    BY <1>h, <1>5 DEF SendHello
  <2>3. \A m \in Nodes : hellos'[m] <= MaxHellos[m]
    BY <1>0, <1>h, <2>1, <2>2, MaxHellosPositive DEF HelloCount
  <2>4. air' \subseteq Datagram
    BY <1>0, <1>5, SentTyped DEF SendHello, DiscoveryTypeOK
  <2>5. DiscoveryTypeOK'
    BY <1>0, <2>1, <2>2, <2>3, <2>4 DEF DiscoveryTypeOK, clockVars
  <2>6. TickerSet' /\ HelloCount'
    BY <1>0, <2>1, <2>2 DEF TickerSet, HelloCount, clockVars
  <2> QED
    BY <2>5, <2>6
<1>6. ASSUME NEW n \in Nodes, Clock(n)
      PROVE  DiscoveryInv'
  <2>1. /\ period'[n] = (IF period[n] = 1 THEN Minute ELSE period[n] - 1)
        /\ since'[n] = (IF since[n] < Minute THEN since[n] + 1 ELSE since[n])
        /\ before'[n] = (IF before[n] < Minute THEN before[n] + 1 ELSE before[n])
        /\ \A m \in Nodes \ {n} : /\ period'[m] = period[m] /\ since'[m] = since[m]
                                  /\ before'[m] = before[m]
    BY <1>u, <1>6 DEF Clock, Older
  <2>2. /\ tick' \in [Nodes -> BOOLEAN]
        /\ tick'[n] <=> tick[n] \/ period[n] = 1
        /\ \A m \in Nodes \ {n} : tick'[m] <=> tick[m]
    BY <1>t, <1>6, Zenon DEF Clock
  <2>3. /\ period'[n] \in 1..Minute /\ since'[n] \in 0..Minute
        /\ before'[n] \in 0..Minute
    BY <1>u, <2>1, MinutePositive
  <2>4. /\ period' \in [Nodes -> 1..Minute] /\ since' \in [Nodes -> 0..Minute]
        /\ before' \in [Nodes -> 0..Minute]
    BY <1>u, <1>6, <2>1, <2>3 DEF Clock
  <2>5. UNCHANGED <<main, listen, greeter, air, seen, hellos, reliable>>
    BY <1>6 DEF Clock
  <2>6. DiscoveryTypeOK'
    BY <1>0, <2>2, <2>4, <2>5 DEF DiscoveryTypeOK
  <2>7. /\ since'[n] <= before'[n] /\ since'[n] + period'[n] >= Minute
        /\ period[n] = 1 => since'[n] >= Minute
        /\ since[n] >= Minute => since'[n] >= Minute
        /\ before[n] >= Minute => before'[n] >= Minute
    BY <1>0, <1>u, <2>1, MinutePositive DEF TickerSet
  <2>8. /\ tick'[n] \/ main'[n] = "ticked" => before'[n] >= Minute
        /\ tick'[n] /\ main'[n] = "ticked" => since'[n] >= Minute
        /\ main'[n] = "ready" => since'[n] >= Minute
    <3>1. since'[n] >= Minute => before'[n] >= Minute
      BY <2>3, <2>7, MinutePositive
    <3> QED
      BY <1>0, <2>2, <2>5, <2>7, <3>1 DEF TickerSet
  <2>9. TickerSet'
    BY <1>0, <2>1, <2>2, <2>5, <2>7, <2>8 DEF TickerSet
  <2>10. HelloCount'
    BY <1>0, <2>5 DEF HelloCount
  <2> QED
    BY <2>6, <2>9, <2>10
<1>7. ASSUME NEW n \in Nodes, ResetForReply(n)
      PROVE  DiscoveryInv'
  <2>1. /\ period' \in [Nodes -> 1..Minute]
        /\ period'[n] = Minute /\ \A m \in Nodes \ {n} : period'[m] = period[m]
    BY <1>u, <1>7, MinutePositive DEF ResetForReply, PutOff
  <2>2. /\ UNCHANGED <<main, greeter, air, seen, since, before, tick, hellos, reliable>>
        /\ listen' \in [Nodes -> {"start", "open", "greeted", "reset", "no socket", "broken", "ended"}]
    BY <1>t, <1>7 DEF ResetForReply
  <2>3. DiscoveryTypeOK'
    BY <1>0, <2>1, <2>2 DEF DiscoveryTypeOK
  <2>4. since[n] + period'[n] >= Minute
    BY <1>u, <2>1, MinutePositive
  <2>5. \A m \in Nodes : since[m] + period'[m] >= Minute
    BY <1>0, <2>1, <2>4 DEF TickerSet
  <2>6. TickerSet'
    BY <1>0, <2>2, <2>5 DEF TickerSet
  <2>7. HelloCount'
    BY <1>0, <2>2 DEF HelloCount
  <2> QED
    BY <2>3, <2>6, <2>7
<1>8. ASSUME NEW n \in Nodes, SendReply(n)
      PROVE  DiscoveryInv'
  <2>1. /\ UNCHANGED <<main, clockVars, tick, hellos, reliable>>
        /\ listen' \in [Nodes -> {"start", "open", "greeted", "reset", "no socket", "broken", "ended"}]
        /\ greeter' = [greeter EXCEPT ![n] = {}]
        /\ seen' = [seen EXCEPT ![n] = @ \cup greeter[n]]
    BY <1>t, <1>8 DEF SendReply
  <2>2. /\ greeter' \in [Nodes -> SUBSET Nodes] /\ \A m \in Nodes : m \notin greeter'[m]
        /\ seen' \in [Nodes -> SUBSET Nodes] /\ \A m \in Nodes : m \notin seen'[m]
    BY <1>0, <2>1 DEF DiscoveryTypeOK
  <2>3. air' \subseteq Datagram
    BY <1>0, <1>8, SentTyped DEF SendReply, DiscoveryTypeOK
  <2> QED
    BY <1>0, <1>1, <1>t, <2>1, <2>2, <2>3 DEF DiscoveryTypeOK
<1>9. ASSUME NEW g \in air, Receive(g.to, g)
      PROVE  DiscoveryInv'
  <2> DEFINE n == g.to
  <2>1. g \in Datagram /\ n \in Nodes /\ g.from \in Nodes
    BY <1>0 DEF DiscoveryTypeOK, Datagram
  <2>2. UNCHANGED <<main, clockVars, tick, hellos, reliable>> /\ air' \subseteq Datagram
    BY <1>0, <1>9 DEF Receive, DiscoveryTypeOK
  <2>3. CASE Answered(n, g)
    <3>1. /\ listen' \in [Nodes -> {"start", "open", "greeted", "reset", "no socket", "broken", "ended"}]
          /\ greeter' = [greeter EXCEPT ![n] = {g.from}] /\ seen' = seen
      BY <1>t, <1>9, <2>3 DEF Receive
    <3>2. greeter' \in [Nodes -> SUBSET Nodes] /\ \A m \in Nodes : m \notin greeter'[m]
      BY <1>0, <2>1, <2>3, <3>1 DEF DiscoveryTypeOK, Answered
    <3> QED
      BY <1>0, <1>1, <1>t, <2>2, <3>1, <3>2 DEF DiscoveryTypeOK
  <2>4. CASE ~Answered(n, g)
    <3>1. /\ listen' = listen /\ greeter' = greeter
          /\ seen' = [seen EXCEPT ![n] = @ \cup Remembered(n, g)]
      BY <1>9, <2>4 DEF Receive
    <3>2. seen' \in [Nodes -> SUBSET Nodes] /\ \A m \in Nodes : m \notin seen'[m]
      BY <1>0, <2>1, <3>1 DEF Remembered, DiscoveryTypeOK
    <3> QED
      BY <1>0, <1>1, <1>t, <2>2, <3>1, <3>2 DEF DiscoveryTypeOK
  <2> QED
    BY <2>3, <2>4
<1>10. ASSUME NEW g \in air, Lose(g)
       PROVE  DiscoveryInv'
  BY <1>0, <1>1, <1>10 DEF Lose, DiscoveryTypeOK
<1>11. CASE UNCHANGED vars
  BY <1>0, <1>1, <1>11 DEF vars, DiscoveryTypeOK
<1> QED
  BY <1>2, <1>3, <1>4, <1>5, <1>6, <1>7, <1>8, <1>9, <1>10, <1>11
  DEF Next, MainStep, HandlerStep

\* The inductive invariant.
THEOREM DiscoveryInvariance == Spec => []DiscoveryInv
BY DiscoveryInitInv, DiscoveryStepInv, PTL DEF Spec

-----------------------------------------------------------------------------
(* The theorems                                                            *)

\* The fields keep their types, and no daemon becomes its own local peer.
THEOREM DiscoveryTypeCorrect == Spec => []DiscoveryTypeOK
<1>1. DiscoveryInv => DiscoveryTypeOK
  BY DEF DiscoveryInv
<1> QED
  BY DiscoveryInvariance, <1>1, PTL

\* Of three Hellos that listenBroadcast begins one after the other, the last comes a
\* minute after the first, whatever the handler does to the ticker in between and
\* however long a step of either goroutine is put off.
THEOREM HellosAreRated == Spec => HelloRate
<1>1. DiscoveryInv => [\A n \in Nodes : AutoHello(n) => before[n] >= Minute]_vars
  BY DEF DiscoveryInv, TickerSet, AutoHello
<1> QED
  BY DiscoveryInvariance, <1>1, PTL DEF HelloRate

-----------------------------------------------------------------------------
(* The octets of a HELLO                                                   *)

Octet == 0..255

\* What is heard depends on the buffer, whose front is the last datagram.
HelloInv ==
    /\ buf \in Seq(Octet) /\ Len(buf) = BufLen
    /\ last \in Seq(Octet)
    /\ \A i \in 1..BufLen : i <= Len(last) => buf[i] = last[i]
    /\ heard = IF Len(last) >= 5 /\ SubSeq(buf, 1, 4) = Piko THEN Parse(buf) ELSE Silence

LEMMA HelloLengths ==
    /\ KeyLen \in Nat /\ BufLen \in Nat
    /\ BufLen >= 7 + KeyLen /\ BufLen >= 7 /\ BufLen >= 1
<1>1. KeyLen \in Nat /\ BufLen \in Nat /\ BufLen >= 7 + KeyLen
  BY HelloAssumption
<1> QED
  BY <1>1

\* What stands where in two sequences put together.
LEMMA ConcatOctets ==
    ASSUME NEW s \in Seq(Octet), NEW t \in Seq(Octet)
    PROVE  /\ s \o t \in Seq(Octet) /\ Len(s) \in Nat /\ Len(t) \in Nat
           /\ Len(s \o t) = Len(s) + Len(t)
           /\ \A i \in 1..Len(s) : (s \o t)[i] = s[i]
           /\ \A i \in 1..Len(t) : (s \o t)[Len(s) + i] = t[i]
<1>1. Len(s) \in Nat /\ Len(t) \in Nat
  BY LenProperties
<1>2. /\ s \o t \in Seq(Octet)
      /\ Len(s \o t) = Len(s) + Len(t)
      /\ \A i \in 1..Len(s) + Len(t) :
            (s \o t)[i] = IF i <= Len(s) THEN s[i] ELSE t[i - Len(s)]
  BY ConcatProperties
<1> DEFINE all == s \o t
<1>3. \A i \in 1..Len(s) + Len(t) : all[i] = IF i <= Len(s) THEN s[i] ELSE t[i - Len(s)]
  BY <1>2
<1> HIDE DEF all
<1>4. \A i \in 1..Len(s) : all[i] = s[i]
  BY <1>1, <1>3
<1>5. \A i \in 1..Len(t) : all[Len(s) + i] = t[i]
  BY <1>1, <1>3
<1> QED
  BY <1>1, <1>2, <1>4, <1>5 DEF all

\* What stands where in the front of a sequence.
LEMMA FrontOctets ==
    ASSUME NEW s, NEW n \in Nat, \A i \in 1..n : s[i] \in Octet
    PROVE  /\ SubSeq(s, 1, n) \in Seq(Octet) /\ Len(SubSeq(s, 1, n)) = n
           /\ \A i \in 1..n : SubSeq(s, 1, n)[i] = s[i]
<1>1. 1 \in Int /\ n \in Int
  OBVIOUS
<1>2. /\ SubSeq(s, 1, n) \in Seq(Octet)
      /\ Len(SubSeq(s, 1, n)) = IF 1 <= n THEN n - 1 + 1 ELSE 0
      /\ \A i \in 1..n - 1 + 1 : SubSeq(s, 1, n)[i] = s[1 + i - 1]
  BY <1>1, SubSeqProperties
<1> DEFINE front == SubSeq(s, 1, n)
<1>3. Len(front) = n /\ \A i \in 1..n : front[i] = s[1 + i - 1]
  BY <1>2
<1> HIDE DEF front
<1>4. \A i \in 1..n : front[i] = s[i]
  BY <1>3
<1> QED
  BY <1>2, <1>3, <1>4 DEF front

\* A datagram lands at the front of the buffer, which keeps its length.
LEMMA ReadFromFront ==
    ASSUME buf \in Seq(Octet), Len(buf) = BufLen, NEW dg \in Seq(Octet), ReadFrom(dg)
    PROVE  /\ buf' \in Seq(Octet) /\ Len(buf') = BufLen
           /\ \A i \in 1..BufLen : i <= Len(dg) => buf'[i] = dg[i]
<1>0. BufLen \in Nat /\ BufLen >= 1 /\ Len(dg) \in Nat
  <2>1. Len(dg) \in Nat
    BY LenProperties
  <2> QED
    BY <2>1, HelloLengths
<1> DEFINE rest == SubSeq(buf, Len(dg) + 1, BufLen)
<1>1. rest \in Seq(Octet) /\ Len(rest) = IF Len(dg) + 1 <= BufLen THEN BufLen - Len(dg) ELSE 0
  <2>1. \A i \in Len(dg) + 1 .. BufLen : buf[i] \in Octet
    BY <1>0, ElementOfSeq
  <2>2. Len(dg) + 1 \in Int /\ BufLen \in Int
    BY <1>0
  <2>3. /\ SubSeq(buf, Len(dg) + 1, BufLen) \in Seq(Octet)
        /\ Len(SubSeq(buf, Len(dg) + 1, BufLen)) =
              IF Len(dg) + 1 <= BufLen THEN BufLen - (Len(dg) + 1) + 1 ELSE 0
    BY <2>1, <2>2, SubSeqProperties
  <2> QED
    BY <1>0, <2>3
<1> HIDE DEF rest
<1>2. PICK all \in Seq(Octet) : all = dg \o rest
  BY <1>1, ConcatOctets
<1>3. /\ Len(all) = Len(dg) + Len(rest) /\ Len(rest) \in Nat
      /\ \A i \in 1..Len(dg) : all[i] = dg[i]
  <2>1. dg \in Seq(Octet) /\ rest \in Seq(Octet) /\ Len(rest) \in Nat
    BY <1>1
  <2> QED
    BY <1>2, <2>1, ConcatOctets, SMTT(30)
<1>4. \A i \in 1..BufLen : all[i] \in Octet
  <2>1. Len(all) >= BufLen /\ Len(all) \in Nat
    BY <1>0, <1>1, <1>3
  <2> QED
    BY <1>0, <2>1, ElementOfSeq
<1>5. /\ SubSeq(all, 1, BufLen) \in Seq(Octet) /\ Len(SubSeq(all, 1, BufLen)) = BufLen
      /\ \A i \in 1..BufLen : SubSeq(all, 1, BufLen)[i] = all[i]
  BY <1>0, <1>4, FrontOctets
<1>6. buf' = SubSeq(all, 1, BufLen)
  BY <1>2 DEF ReadFrom, rest
<1> QED
  BY <1>0, <1>3, <1>5, <1>6

\* The octets of a message at their offsets.
LEMMA NewHelloOctets ==
    ASSUME NEW m \in Hellos
    PROVE  /\ NewHello(m) \in Seq(Octet) /\ Len(NewHello(m)) = 7 + KeyLen
           /\ NewHello(m)[1] = 80 /\ NewHello(m)[2] = 73
           /\ NewHello(m)[3] = 75 /\ NewHello(m)[4] = 79
           /\ NewHello(m)[5] = m.type
           /\ 256 * NewHello(m)[6] + NewHello(m)[7] = m.port
           /\ \A i \in 1..KeyLen : NewHello(m)[7 + i] = m.key[i]
<1>1. m.type \in Octet
  BY DEF Hellos, Types, Octet
<1>2. m.port \in Nat /\ m.port < 65536
  BY HelloAssumption DEF Hellos
<1>3. m.key \in Seq(Octet) /\ Len(m.key) = KeyLen /\ KeyLen \in Nat
  BY OctetAssumption, HelloLengths DEF Hellos, Octet
<1>4. PICK n \in Nat : n = m.port /\ n < 65536
  BY <1>2
<1>5. /\ n \div 256 \in Octet /\ n % 256 \in Octet
      /\ 256 * (n \div 256) + (n % 256) = n
  <2>1. n \div 256 \in Nat /\ n \div 256 < 256
    BY <1>4
  <2>2. n % 256 \in Nat /\ n % 256 < 256
    OBVIOUS
  <2>3. 256 * (n \div 256) + (n % 256) = n
    OBVIOUS
  <2> QED
    BY <2>1, <2>2, <2>3 DEF Octet
<1>6. PICK t \in Octet, h \in Octet, l \in Octet :
          t = m.type /\ h = n \div 256 /\ l = n % 256
  BY <1>1, <1>5
<1>7. PICK front \in Seq(Octet) : front = <<80, 73, 75, 79>> \o <<t>> \o <<h, l>>
  <2>1. <<80, 73, 75, 79>> \in Seq(Octet) /\ <<t>> \in Seq(Octet) /\ <<h, l>> \in Seq(Octet)
    BY DEF Octet
  <2> QED
    BY <2>1, ConcatProperties
<1>8. /\ Len(front) = 7
      /\ front[1] = 80 /\ front[2] = 73 /\ front[3] = 75 /\ front[4] = 79
      /\ front[5] = t /\ front[6] = h /\ front[7] = l
  BY <1>7
<1>9. PICK key \in Seq(Octet) : key = m.key /\ Len(key) = KeyLen
  BY <1>3
<1>10. PICK all \in Seq(Octet) : all = front \o key
  BY ConcatOctets
<1>11. /\ Len(all) = 7 + KeyLen
       /\ \A i \in 1..7 : all[i] = front[i]
       /\ \A i \in 1..KeyLen : all[7 + i] = key[i]
  <2>1. /\ Len(all) = Len(front) + Len(key)
        /\ \A i \in 1..Len(front) : all[i] = front[i]
        /\ \A i \in 1..Len(key) : all[Len(front) + i] = key[i]
    BY <1>10, ConcatOctets
  <2> QED
    BY <1>8, <1>9, <2>1, SMTT(30)
<1>12. /\ all[1] = 80 /\ all[2] = 73 /\ all[3] = 75 /\ all[4] = 79
       /\ all[5] = t /\ all[6] = h /\ all[7] = l
  BY <1>8, <1>11
<1>13. 256 * h + l = m.port
  BY <1>4, <1>5, <1>6
<1>14. NewHello(m) = all
  BY <1>4, <1>6, <1>7, <1>9, <1>10 DEF NewHello, Piko, PutUint16
<1> QED
  BY <1>6, <1>9, <1>11, <1>12, <1>13, <1>14

LEMMA HearKeeps ==
    ASSUME HelloInv, NEW dg \in Seq(Octet), Hear(dg)
    PROVE  HelloInv'
<1>1. /\ buf' \in Seq(Octet) /\ Len(buf') = BufLen
      /\ \A i \in 1..BufLen : i <= Len(dg) => buf'[i] = dg[i]
  BY ReadFromFront DEF HelloInv, Hear
<1>2. last' = dg /\ heard' = IF Accepted(dg) THEN Parse(buf') ELSE Silence
  BY DEF Hear
<1> QED
  BY <1>1, <1>2 DEF HelloInv, Accepted, Parse, KeyIn, Silence, Piko

\* A whole HELLO in the front of the buffer is what is heard.
LEMMA WholeHelloHeard ==
    ASSUME HelloInv, NEW m \in Hellos, last = NewHello(m)
    PROVE  heard = m
<1>0. KeyLen \in Nat /\ BufLen \in Nat /\ BufLen >= 7 + KeyLen
  BY HelloLengths
<1>1. Len(last) = 7 + KeyLen /\ \A i \in 1..7 + KeyLen : buf[i] = last[i]
  BY <1>0, NewHelloOctets DEF HelloInv
<1>2. \A i \in 1..7 + KeyLen : buf[i] \in Octet
  BY <1>0, ElementOfSeq DEF HelloInv
<1>3. SubSeq(buf, 1, 4) = Piko
  <2>1. /\ SubSeq(buf, 1, 4) \in Seq(Octet) /\ Len(SubSeq(buf, 1, 4)) = 4
        /\ \A i \in 1..4 : SubSeq(buf, 1, 4)[i] = buf[i]
    <3>1. \A i \in 1..4 : buf[i] \in Octet
      BY <1>0, <1>2
    <3> QED
      BY <3>1, FrontOctets
  <2>2. buf[1] = 80 /\ buf[2] = 73 /\ buf[3] = 75 /\ buf[4] = 79
    BY <1>0, <1>1, NewHelloOctets
  <2>3. Piko \in Seq(Octet) /\ Len(Piko) = 4 /\ \A i \in 1..4 : buf[i] = Piko[i]
    BY <2>2 DEF Piko, Octet
  <2> QED
    BY <2>1, <2>3, SeqEqual
<1>4. KeyIn(buf) = m.key
  <2>0. m.key \in Seq(Octet) /\ Len(m.key) = KeyLen
    BY OctetAssumption DEF Hellos, Octet
  <2>1. PICK n \in Nat : n = 7 + KeyLen
    BY <1>0
  <2> DEFINE key == SubSeq(buf, 8, n)
  <2>2. key \in Seq(Octet) /\ Len(key) = KeyLen /\ \A i \in 1..KeyLen : key[i] = buf[8 + i - 1]
    <3>1. \A i \in 8..n : buf[i] \in Octet
      BY <1>0, <1>2, <2>1
    <3>2. 8 \in Int /\ n \in Int
      OBVIOUS
    <3>3. /\ SubSeq(buf, 8, n) \in Seq(Octet)
          /\ Len(SubSeq(buf, 8, n)) = IF 8 <= n THEN n - 8 + 1 ELSE 0
          /\ \A i \in 1..n - 8 + 1 : SubSeq(buf, 8, n)[i] = buf[8 + i - 1]
      BY <3>1, <3>2, SubSeqProperties
    <3> HIDE DEF key
    <3>4. /\ key \in Seq(Octet) /\ Len(key) = IF 8 <= n THEN n - 8 + 1 ELSE 0
          /\ \A i \in 1..n - 8 + 1 : key[i] = buf[8 + i - 1]
      BY <3>3 DEF key
    <3> QED
      BY <1>0, <2>1, <3>4
  <2>3. KeyIn(buf) = key
    BY <2>1 DEF KeyIn
  <2> HIDE DEF key
  <2>4. \A i \in 1..KeyLen : key[i] = buf[7 + i]
    BY <1>0, <2>2
  <2>5. \A i \in 1..KeyLen : buf[7 + i] = last[7 + i]
    BY <1>0, <1>1
  <2>6. \A i \in 1..KeyLen : key[i] = m.key[i]
    BY <2>4, <2>5, NewHelloOctets
  <2> QED
    BY <2>0, <2>2, <2>3, <2>6, SeqEqual
<1>5. buf[5] = m.type /\ 256 * buf[6] + buf[7] = m.port
  <2>1. buf[5] = last[5] /\ buf[6] = last[6] /\ buf[7] = last[7]
    BY <1>0, <1>1
  <2> QED
    BY <2>1, NewHelloOctets
<1>6. heard = Parse(buf)
  BY <1>0, <1>1, <1>3 DEF HelloInv
<1>7. heard = [type |-> m.type, port |-> m.port, key |-> m.key]
  BY <1>4, <1>5, <1>6 DEF Parse, Hellos
<1> QED
  BY <1>7 DEF Hellos

\* What does not begin as a HELLO does is not heard.
LEMMA OthersNotHeard ==
    ASSUME HelloInv, heard # Silence
    PROVE  Len(last) >= 5 /\ SubSeq(last, 1, 4) = Piko
<1>0. Len(last) >= 5 /\ SubSeq(buf, 1, 4) = Piko
  BY DEF HelloInv
<1>1. BufLen \in Nat /\ BufLen >= 7 /\ Len(last) \in Nat
  <2>1. Len(last) \in Nat
    BY LenProperties DEF HelloInv
  <2> QED
    BY <2>1, HelloLengths
<1>2. \A i \in 1..4 : last[i] \in Octet /\ buf[i] = last[i]
  BY <1>0, <1>1, ElementOfSeq DEF HelloInv
<1>4. /\ SubSeq(last, 1, 4) \in Seq(Octet) /\ Len(SubSeq(last, 1, 4)) = 4
      /\ \A i \in 1..4 : SubSeq(last, 1, 4)[i] = last[i]
  BY <1>2, FrontOctets
<1>5. /\ SubSeq(buf, 1, 4) \in Seq(Octet) /\ Len(SubSeq(buf, 1, 4)) = 4
      /\ \A i \in 1..4 : SubSeq(buf, 1, 4)[i] = buf[i]
  BY <1>2, FrontOctets
<1>6. SubSeq(last, 1, 4) = SubSeq(buf, 1, 4)
  BY <1>2, <1>4, <1>5, SeqEqual
<1> QED
  BY <1>0, <1>6

LEMMA HelloInitInv == HelloInit => HelloInv
<1> SUFFICES ASSUME HelloInit PROVE HelloInv
  OBVIOUS
<1>1. BufLen \in Nat
  BY HelloAssumption
<1>2. buf \in [1..BufLen -> Octet]
  BY DEF HelloInit, Octet
<1>3. buf \in Seq(Octet) /\ Len(buf) = BufLen
  BY <1>1, <1>2
<1>4. last = <<>> /\ heard = Silence
  BY DEF HelloInit
<1> QED
  BY <1>3, <1>4, EmptySeq DEF HelloInv

\* Whatever was received before, and however long keys and the buffer are, a
\* HELLO is heard as it was said, and nothing that begins otherwise is heard.
THEOREM HellosAlwaysHeard == HelloSpec => []HellosHeardAsSaid
<1>1. HelloInv /\ [HelloNext]_helloVars => HelloInv'
  <2> SUFFICES ASSUME HelloInv, [HelloNext]_helloVars PROVE HelloInv'
    OBVIOUS
  <2>1. ASSUME NEW m \in Hellos, Hear(NewHello(m))
        PROVE  HelloInv'
    BY <2>1, NewHelloOctets, HearKeeps
  <2>2. ASSUME NEW dg \in Foreign, Hear(dg)
        PROVE  HelloInv'
    BY <2>2, HearKeeps, OctetAssumption DEF Octet
  <2>3. CASE UNCHANGED helloVars
    BY <2>3 DEF helloVars, HelloInv, Parse, KeyIn, Silence, Piko
  <2> QED
    BY <2>1, <2>2, <2>3 DEF HelloNext
<1>2. HelloInv => HellosHeardAsSaid
  BY WholeHelloHeard, OthersNotHeard DEF HellosHeardAsSaid
<1> QED
  BY <1>1, <1>2, HelloInitInv, PTL DEF HelloSpec
=============================================================================
