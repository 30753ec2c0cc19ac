---------------------------- MODULE GatewayProofs ---------------------------
(***************************************************************************)
(* What module Gateway promises, and what the goroutine that reports our   *)
(* endpoint (module Punch) adds, for every number of senders, capacity of  *)
(* the channel, cap on the delay and number of moves.                      *)
(***************************************************************************)
EXTENDS Punch, TLAPS, SequenceTheorems

-----------------------------------------------------------------------------
(* The invariant                                                           *)

InSession == {"read", "forward", "relock"}

\* wsLock belongs to Gateway except between two points of a session, and else to
\* the sender that writes.
LockKept ==
    /\ lock = "gateway" <=> pc \notin InSession
    /\ \A s \in Senders : lock = s <=> spc[s] = "write"

\* The connection is published before the lock is released.
Published ==
    /\ pc \in InSession => ws = conn
    /\ pc \in InSession \cup {"announce", "publish"} => conn # 0

\* Wherever Gateway is going to wait the timer runs or has left its tick, and a
\* tick that is not stale comes when the delay is over.
TimerSet ==
    pc \in {"report", "wait"} =>
        /\ timer > 0 \/ tick
        /\ timer > 0 => timer + waited >= d
        /\ tick /\ ~stale => waited >= d

\* The last message matches the place.
SentMatches ==
    /\ pc \in {"dial", "report", "announce", "wait"} => sent = "Disconnect"
    /\ pc \in InSession \cup {"publish", "close"} => sent # "Disconnect"

GatewayInv ==
    /\ GatewayTypeOK
    /\ LockKept
    /\ Published
    /\ TimerSet
    /\ SentMatches

-----------------------------------------------------------------------------

LEMMA GatewayInitInv == Init => GatewayInv
<1> SUFFICES ASSUME Init PROVE GatewayInv
  OBVIOUS
<1> USE DEF Init
<1>1. <<>> \in Seq({"Connect", "Disconnect", "Message"}) /\ Len(<<>>) = 0
  BY EmptySeq
<1>2. GatewayTypeOK
  <2>1. d \in 1..MaxDelay /\ timer \in 0..MaxDelay /\ waited \in 0..MaxDelay
        /\ conn \in 0..2 /\ ws \in 0..2 /\ Len(c) <= ChanCap
    BY <1>1, GatewayAssumption
  <2> QED
    BY <1>1, <2>1 DEF GatewayTypeOK
<1>3. LockKept
  BY GatewayAssumption DEF LockKept, InSession
<1>4. Published
  BY DEF Published, InSession
<1>5. TimerSet
  BY DEF TimerSet
<1>6. SentMatches
  BY DEF SentMatches, InSession
<1> QED
  BY <1>2, <1>3, <1>4, <1>5, <1>6 DEF GatewayInv

\* What a send on the channel leaves.
LEMMA PushTyped ==
    ASSUME GatewayTypeOK, NEW kind \in {"Connect", "Disconnect", "Message"}, Push(kind)
    PROVE  /\ c' \in Seq({"Connect", "Disconnect", "Message"})
           /\ Len(c') <= ChanCap
           /\ sent' = kind
<1> DEFINE Kinds == {"Connect", "Disconnect", "Message"}
<1>1. c \in Seq(Kinds) /\ Len(c) \in Nat
  BY LenProperties DEF GatewayTypeOK
<1>2. Append(c, kind) \in Seq(Kinds) /\ Len(Append(c, kind)) = Len(c) + 1
  BY <1>1, AppendProperties
<1> QED
  BY <1>1, <1>2, GatewayAssumption DEF Push

\* Setting the timer for the delay d.
LEMMA ResetSetsTimer ==
    ASSUME GatewayTypeOK, d' \in 1..MaxDelay, Reset(d')
    PROVE  /\ timer' \in 0..MaxDelay /\ tick' \in BOOLEAN /\ stale' \in BOOLEAN
           /\ waited' \in 0..MaxDelay
           /\ timer' > 0
           /\ timer' + waited' >= d'
           /\ tick' /\ ~stale' => waited' >= d'
<1>1. timer' = d' /\ waited' = 0
  BY DEF Reset
<1>2. tick' \in BOOLEAN /\ stale' \in BOOLEAN /\ ~(tick' /\ ~stale')
  BY Zenon DEF GatewayTypeOK, Reset
<1>3. timer' \in 0..MaxDelay /\ waited' \in 0..MaxDelay /\ timer' > 0 /\ timer' + waited' >= d'
  <2>1. d' \in 1..MaxDelay
    OBVIOUS
  <2>2. \A t \in 1..MaxDelay : t \in 0..MaxDelay /\ 0 \in 0..MaxDelay /\ t > 0 /\ t + 0 >= t
    BY GatewayAssumption
  <2> QED
    BY <1>1, <2>1, <2>2, Zenon
<1> QED
  BY <1>2, <1>3

LEMMA GatewayStepInv ==
    ASSUME GatewayInv, GatewayStep
    PROVE  GatewayInv'
<1> USE DEF GatewayInv, LockKept, Published, TimerSet, SentMatches, InSession, timerVars
<1>0. GatewayTypeOK /\ \A s \in Senders : s # "gateway" /\ s # "nobody"
  BY GatewayAssumption
<1>1. CASE DialOk
  <2>0. conn' \in 0..2 /\ d' \in 1..MaxDelay
    <3>1. conn \in 0..2
      BY <1>0 DEF GatewayTypeOK
    <3>2. conn = 0 \/ conn = 1 \/ conn = 2
      BY <3>1
    <3> QED
      BY <1>1, <3>2, GatewayAssumption DEF DialOk
  <2>1. GatewayTypeOK'
    BY <1>0, <1>1, <2>0 DEF DialOk, GatewayTypeOK
  <2> QED
    BY <1>0, <1>1, <2>1 DEF DialOk, GatewayTypeOK
<1>2. CASE DialFails
  <2>1. d' \in 1..MaxDelay
    BY <1>0, <1>2, GatewayAssumption DEF DialFails, Backoff, GatewayTypeOK
  <2>2. Reset(d')
    BY <1>2 DEF DialFails
  <2>3. GatewayTypeOK'
    BY <1>0, <1>2, <2>1, <2>2, ResetSetsTimer DEF DialFails, GatewayTypeOK
  <2> QED
    BY <1>0, <1>2, <2>1, <2>2, <2>3, ResetSetsTimer DEF DialFails
<1>3. CASE Report
  <2>1. GatewayTypeOK' /\ sent' = "Disconnect"
    BY <1>0, <1>3, PushTyped DEF Report, GatewayTypeOK
  <2> QED
    BY <1>0, <1>3, <2>1 DEF Report
<1>4. CASE Announce
  <2>1. GatewayTypeOK' /\ sent' = "Connect"
    BY <1>0, <1>4, PushTyped DEF Announce, GatewayTypeOK
  <2> QED
    BY <1>0, <1>4, <2>1 DEF Announce
<1>5. CASE Publish
  <2>1. GatewayTypeOK'
    BY <1>0, <1>5 DEF Publish, GatewayTypeOK
  <2> QED
    BY <1>0, <1>5, <2>1 DEF Publish
<1>6. CASE Read
  <2>1. GatewayTypeOK'
    BY <1>0, <1>6 DEF Read, GatewayTypeOK
  <2> QED
    BY <1>0, <1>6, <2>1 DEF Read
<1>7. CASE Forward
  <2>1. GatewayTypeOK' /\ sent' = "Message"
    BY <1>0, <1>7, PushTyped DEF Forward, GatewayTypeOK
  <2> QED
    BY <1>0, <1>7, <2>1 DEF Forward
<1>8. CASE ReadLoopEnds
  <2>1. GatewayTypeOK'
    BY <1>0, <1>8 DEF ReadLoopEnds, GatewayTypeOK
  <2> QED
    BY <1>0, <1>8, <2>1 DEF ReadLoopEnds
<1>9. CASE Relock
  <2>1. GatewayTypeOK'
    BY <1>0, <1>9 DEF Relock, GatewayTypeOK
  <2> QED
    BY <1>0, <1>9, <2>1 DEF Relock
<1>10. CASE CloseSession
  <2>1. d' \in 1..MaxDelay /\ Reset(d') /\ Push("Disconnect")
    BY <1>0, <1>10 DEF CloseSession, GatewayTypeOK, Reset
  <2>2. GatewayTypeOK' /\ sent' = "Disconnect"
    BY <1>0, <1>10, <2>1, PushTyped, ResetSetsTimer DEF CloseSession, GatewayTypeOK
  <2> QED
    BY <1>0, <1>10, <2>1, <2>2, ResetSetsTimer DEF CloseSession
<1>11. CASE Redial
  <2>1. GatewayTypeOK'
    BY <1>0, <1>11 DEF Redial, GatewayTypeOK
  <2> QED
    BY <1>0, <1>11, <2>1 DEF Redial
<1>12. CASE Exit
  <2>1. GatewayTypeOK'
    BY <1>0, <1>12, GatewayAssumption DEF Exit, GatewayTypeOK
  <2> QED
    BY <1>0, <1>12, <2>1 DEF Exit
<1> QED
  BY <1>1, <1>2, <1>3, <1>4, <1>5, <1>6, <1>7, <1>8, <1>9, <1>10, <1>11, <1>12
  DEF GatewayStep

LEMMA SenderStepInv ==
    ASSUME GatewayInv, NEW s \in Senders, SenderStep(s)
    PROVE  GatewayInv'
<1> USE DEF GatewayInv, LockKept, Published, TimerSet, SentMatches, InSession, timerVars
<1>0. GatewayTypeOK /\ \A q \in Senders : q # "gateway" /\ q # "nobody"
  BY GatewayAssumption
<1>1. GatewayTypeOK'
  BY <1>0 DEF SenderStep, SendCall, SendLock, SendWrite, GatewayTypeOK
<1>2. spc \in [Senders -> {"idle", "lock", "write"}]
  BY <1>0 DEF GatewayTypeOK
<1> QED
  BY <1>0, <1>1, <1>2 DEF SenderStep, SendCall, SendLock, SendWrite

LEMMA OtherStepInv ==
    ASSUME GatewayInv, Take \/ Break \/ Clock \/ Cancel \/ UNCHANGED vars
    PROVE  GatewayInv'
<1> USE DEF GatewayInv, LockKept, Published, TimerSet, SentMatches, InSession, timerVars
<1>0. GatewayTypeOK
  OBVIOUS
<1>1. CASE Take
  <2>1. GatewayTypeOK'
    <3>1. Tail(c) \in Seq({"Connect", "Disconnect", "Message"}) /\ Len(Tail(c)) = Len(c) - 1
          /\ Len(c) \in Nat
      BY <1>0, <1>1, HeadTailProperties, LenProperties DEF Take, GatewayTypeOK
    <3> QED
      BY <1>0, <1>1, <3>1, GatewayAssumption DEF Take, GatewayTypeOK
  <2> QED
    BY <1>1, <2>1 DEF Take
<1>2. CASE Break \/ Cancel
  <2>1. GatewayTypeOK'
    BY <1>0, <1>2 DEF Break, Cancel, GatewayTypeOK
  <2> QED
    BY <1>2, <2>1 DEF Break, Cancel
<1>3. CASE Clock
  <2>1. timer \in 0..MaxDelay /\ waited \in 0..MaxDelay /\ d \in 1..MaxDelay
        /\ tick \in BOOLEAN /\ stale \in BOOLEAN
    BY <1>0 DEF GatewayTypeOK
  <2>2. GatewayTypeOK'
    BY <1>0, <1>3, GatewayAssumption DEF Clock, GatewayTypeOK
  <2>3. TimerSet'
    <3> SUFFICES ASSUME pc \in {"report", "wait"} PROVE TimerSet'
      BY <1>3 DEF Clock
    <3>1. /\ timer' = IF timer = 0 THEN 0 ELSE timer - 1
          /\ waited' = IF waited < MaxDelay THEN waited + 1 ELSE waited
          /\ d' = d /\ stale' = stale
      BY <1>3 DEF Clock
    <3>2. timer > 0 => timer + waited >= d
      OBVIOUS
    <3>3. timer' > 0 => timer' + waited' >= d'
      BY <3>1, <3>2, <2>1, GatewayAssumption, SMT
    <3>4. (timer = 1 => waited' >= d') /\ (waited >= d => waited' >= d')
      BY <3>1, <3>2, <2>1, GatewayAssumption, SMT
    <3>5. CASE tick
      <4>1. tick'
        BY <1>3, <3>5 DEF Clock
      <4>2. ~stale => waited >= d
        BY <3>5
      <4> QED
        BY <3>1, <3>3, <3>4, <4>1, <4>2, Zenon DEF TimerSet
    <3>6. CASE ~tick
      <4>1. timer > 0
        BY <3>6
      <4>2. tick' <=> timer = 1
        BY <1>3, <3>6, Zenon DEF Clock
      <4>3. timer = 1 \/ timer' > 0
        BY <3>1, <4>1, <2>1, SMT
      <4> QED
        BY <3>3, <3>4, <4>2, <4>3, Zenon DEF TimerSet
    <3> QED
      BY <3>5, <3>6
  <2> QED
    BY <1>3, <2>2, <2>3 DEF Clock
<1>4. CASE UNCHANGED vars
  <2>1. GatewayTypeOK'
    BY <1>0, <1>4 DEF vars, GatewayTypeOK
  <2> QED
    BY <1>4, <2>1 DEF vars
<1> QED
  BY <1>1, <1>2, <1>3, <1>4

\* The inductive invariant.
THEOREM GatewayInvariance == Spec => []GatewayInv
<1>1. GatewayInv /\ [Next]_vars => GatewayInv'
  BY GatewayStepInv, SenderStepInv, OtherStepInv DEF Next
<1> QED
  BY GatewayInitInv, <1>1, PTL DEF Spec

-----------------------------------------------------------------------------
(* The theorems about the gateway                                          *)

\* The fields keep their types, the delay its bounds.
THEOREM GatewayTypeCorrect == Spec => []GatewayTypeOK
<1>1. GatewayInv => GatewayTypeOK
  BY DEF GatewayInv
<1> QED
  BY GatewayInvariance, <1>1, PTL

\* Whoever sends uses the connection of the present session.
THEOREM SendersAlwaysSeeLatest == Spec => []SendersSeeLatest
<1>1. GatewayInv => SendersSeeLatest
  <2> SUFFICES ASSUME GatewayInv, NEW s \in Senders, lock = s
               PROVE  ws = conn /\ ws # 0
    BY DEF SendersSeeLatest
  <2>1. pc \in InSession
    BY GatewayAssumption DEF GatewayInv, LockKept
  <2> QED
    BY <2>1 DEF GatewayInv, Published
<1> QED
  BY GatewayInvariance, <1>1, PTL

\* Gateway never waits for a tick that does not come.
THEOREM WaitsAlwaysEnd == Spec => []WaitEnds
<1>1. GatewayInv => WaitEnds
  BY DEF GatewayInv, TimerSet, WaitEnds
<1> QED
  BY GatewayInvariance, <1>1, PTL

\* The gateway implements the feed: its messages form sessions.
THEOREM FeedHasSessions == Spec => IsFeed
<1>1. Init => Feed!FeedInit
  BY DEF Init, Feed!FeedInit
<1>2. GatewayInv /\ [Next]_vars => [Feed!Open \/ Feed!Deliver \/ Feed!Close]_sent
  <2> SUFFICES ASSUME GatewayInv, [Next]_vars, sent' # sent
               PROVE  Feed!Open \/ Feed!Deliver \/ Feed!Close
    OBVIOUS
  <2> USE DEF Feed!Open, Feed!Deliver, Feed!Close, GatewayInv, SentMatches, InSession
  <2>0. sent \in {"Connect", "Disconnect", "Message"}
    BY DEF GatewayTypeOK
  <2>1. CASE GatewayStep
    <3>1. CASE Report \/ CloseSession
      BY <3>1 DEF Report, CloseSession, Push
    <3>2. CASE Announce
      BY <3>2 DEF Announce, Push
    <3>3. CASE Forward
      BY <3>3, <2>0 DEF Forward, Push
    <3> QED
      BY <2>1, <3>1, <3>2, <3>3 DEF GatewayStep, DialOk, DialFails, Publish, Read,
         ReadLoopEnds, Relock, Redial, Exit
  <2>2. ASSUME NEW s \in Senders, SenderStep(s)
        PROVE  FALSE
    BY <2>2 DEF SenderStep, SendCall, SendLock, SendWrite
  <2> QED
    BY <2>1, <2>2 DEF Next, Take, Break, Clock, Cancel, vars
<1> QED
  BY GatewayInvariance, <1>1, <1>2, PTL DEF Spec, IsFeed, Feed!FeedSpec

\* No dial before the delay is over, but on a stale tick.
THEOREM BackoffAlwaysRespected == Spec => BackoffRespected
<1>1. GatewayInv => [Redial /\ ~stale => waited >= d]_vars
  BY DEF GatewayInv, TimerSet, Redial
<1> QED
  BY GatewayInvariance, <1>1, PTL DEF BackoffRespected

-----------------------------------------------------------------------------
(* The reports                                                             *)

\* With the goroutine that reports our endpoint as its one sender, the gateway
\* is still the gateway: the theorems above hold of the two together.
THEOREM PunchUsesGateway == PunchSpec => Spec
<1>1. PunchInit => Init
  BY DEF PunchInit
<1>2. [PunchNext]_allVars => [Next]_vars
  <2> SUFFICES ASSUME [PunchNext]_allVars PROVE Next \/ UNCHANGED vars
    OBVIOUS
  <2>1. CASE PunchStep
    <3>1. punch \in Senders
      BY PunchAssumption
    <3>2. CASE ReadAnswer \/ LockForReport \/ WriteReport
      BY <3>1, <3>2 DEF ReadAnswer, LockForReport, WriteReport, Next, SenderStep
    <3> QED
      BY <2>1, <3>2 DEF PunchStep, BeginFetch, Retry, GiveUp, ReadEmpty, Stop
  <2>2. CASE WorldStep
    BY <2>2 DEF WorldStep, ServerAnswers, LoseRequest, Roam
  <2>3. CASE OfGateway \/ OfOthers
    BY <2>3 DEF OfGateway, OfOthers, Next
  <2> QED
    BY <2>1, <2>2, <2>3 DEF PunchNext, allVars
<1> QED
  BY <1>1, <1>2, PTL DEF PunchSpec, Spec

\* A call collects answers only while it fetches, and reports only after.
PunchInv ==
    /\ nat \in Nat
    /\ asked => stage = "fetching"
    /\ answers # {} => stage = "fetching"
    /\ stage = "fetching" => since \in Nat /\ since <= nat /\ answers \subseteq since..nat
    /\ spc \in [Senders -> {"idle", "lock", "write"}]
    /\ spc[punch] # "idle" => stage # "fetching" /\ since \in Nat /\ got \in since..nat

LEMMA PunchStepInv ==
    ASSUME PunchInv, [PunchNext]_allVars
    PROVE  PunchInv'
<1> USE PunchAssumption DEF PunchInv
<1>1. CASE OfGateway
  <2>1. UNCHANGED <<punchVars, spc>>
    BY <1>1 DEF OfGateway, GatewayStep, DialOk, DialFails, Report, Announce, Publish, Read,
       Forward, ReadLoopEnds, Relock, CloseSession, Redial, Exit
  <2> QED
    BY <2>1 DEF punchVars
<1>2. CASE OfOthers
  <2>1. UNCHANGED <<punchVars, spc>>
    BY <1>2 DEF OfOthers, Take, Break, Clock, Cancel
  <2> QED
    BY <2>1 DEF punchVars
<1>3. CASE BeginFetch \/ Retry \/ GiveUp \/ ReadEmpty \/ Stop
  BY <1>3 DEF BeginFetch, Retry, GiveUp, ReadEmpty, Stop, CloseSocket, vars
<1>4. CASE ReadAnswer
  BY <1>4 DEF ReadAnswer, CloseSocket, SendCall
<1>5. CASE LockForReport
  BY <1>5 DEF LockForReport, SendLock, punchVars
<1>6. CASE WriteReport
  BY <1>6 DEF WriteReport, SendWrite
<1>7. CASE WorldStep
  BY <1>7 DEF WorldStep, ServerAnswers, LoseRequest, Roam, vars
<1>8. CASE UNCHANGED allVars
  BY <1>8 DEF allVars, vars, punchVars
<1> QED
  BY <1>1, <1>2, <1>3, <1>4, <1>5, <1>6, <1>7, <1>8 DEF PunchNext, PunchStep

\* A report names an endpoint we had since its call began.
THEOREM ReportsAreFresh == PunchSpec => []ReportIsFresh
<1>1. PunchInit => PunchInv
  BY PunchAssumption DEF PunchInit, Init, PunchInv
<1>2. PunchInv => ReportIsFresh
  BY DEF PunchInv, ReportIsFresh
<1> QED
  BY <1>1, <1>2, PunchStepInv, PTL DEF PunchSpec
=============================================================================
