------------------------------- MODULE Gateway ------------------------------
(***************************************************************************)
(* The connection to the rendezvous server (api/gateway.go): the goroutine *)
(* that runs API.Gateway, the goroutines that call GatewaySend, the        *)
(* channel to the engine, and the timer of the backoff.                    *)
(*                                                                         *)
(* wsLock guards a.ws.  Gateway holds it from its start, and from the end  *)
(* of one connection to the beginning of the next: through dials, waits    *)
(* and sends on the channel.                                               *)
(*                                                                         *)
(* Timers are those of Go 1.20 (go.mod): Reset leaves a tick that already  *)
(* sits in t.C where it is, and a timer that fires while one sits there    *)
(* drops its own.                                                          *)
(***************************************************************************)
EXTENDS Naturals, Sequences

CONSTANTS
    Senders,     \* goroutines that call GatewaySend
    ChanCap,     \* capacity of the channel to the engine
    MaxDelay,    \* the cap on d, in clock units; d starts as one unit
    MayCancel    \* can the context be cancelled?

ASSUME GatewayAssumption ==
    /\ ChanCap \in Nat \ {0}
    /\ MaxDelay \in Nat \ {0}
    /\ MayCancel \in BOOLEAN
    /\ Senders \cap {"gateway", "nobody"} = {}

VARIABLES
    pc,      \* where Gateway is
    broken,  \* the connection of this session has failed
    d,       \* the backoff delay
    timer,   \* time left until t fires, 0 when it is not armed
    tick,    \* a tick sits in t.C
    stale,   \* history: that tick is older than the last Reset
    waited,  \* history: time since the last Reset, up to MaxDelay
    lock,    \* the holder of wsLock
    conn,    \* the latest connection: 0 for none, then 1, 2, 1, 2...
    ws,      \* a.ws
    c,       \* the channel
    sent,    \* history: the kind of the last message sent on c
    spc,     \* where each sender is
    done     \* the context is cancelled

vars == <<pc, broken, d, timer, tick, stale, waited, lock, conn, ws, c, sent, spc, done>>

timerVars == <<timer, tick, stale, waited>>

Reset(t) ==
    /\ timer' = t
    /\ stale' = tick
    /\ waited' = 0
    /\ UNCHANGED tick

\* A send on c blocks while it is full.
Push(kind) ==
    /\ Len(c) < ChanCap
    /\ c' = Append(c, kind)
    /\ sent' = kind

-----------------------------------------------------------------------------
(* API.Gateway                                                             *)

DialOk ==
    /\ pc = "dial"
    /\ ~done
    /\ pc' = "announce"
    /\ conn' = (conn % 2) + 1
    /\ broken' = FALSE
    /\ d' = 1
    /\ UNCHANGED <<timerVars, lock, ws, c, sent, spc, done>>

Backoff == IF 2 * d < MaxDelay THEN 2 * d ELSE MaxDelay

\* Faulty failed dials: the timer is not set; the delay doubles after its use.
BugNoReset ==
    /\ pc = "dial"
    /\ pc' = "report"
    /\ d' = Backoff
    /\ UNCHANGED <<broken, timerVars, lock, conn, ws, c, sent, spc, done>>

BugDoublesLate ==
    /\ pc = "dial"
    /\ pc' = "report"
    /\ d' = Backoff
    /\ Reset(d)
    /\ UNCHANGED <<broken, lock, conn, ws, c, sent, spc, done>>

\* The delay doubles before it is first used.
DialFails ==
    /\ pc = "dial"
    /\ pc' = "report"
    /\ d' = Backoff
    /\ Reset(d')
    /\ UNCHANGED <<broken, lock, conn, ws, c, sent, spc, done>>

\* c <- Disconnect with the delay; the timer already runs.
Report ==
    /\ pc = "report"
    /\ Push("Disconnect")
    /\ pc' = "wait"
    /\ UNCHANGED <<broken, d, timerVars, lock, conn, ws, spc, done>>

Announce ==
    /\ pc = "announce"
    /\ Push("Connect")
    /\ pc' = "publish"
    /\ UNCHANGED <<broken, d, timerVars, lock, conn, ws, spc, done>>

\* Faulty publications: a.ws is not set; the lock is kept while reading.
BugNotPublished ==
    /\ pc = "publish"
    /\ lock' = "nobody"
    /\ pc' = "read"
    /\ UNCHANGED <<broken, d, timerVars, conn, ws, c, sent, spc, done>>

BugKeepsLock ==
    /\ pc = "publish"
    /\ ws' = conn
    /\ pc' = "read"
    /\ UNCHANGED <<broken, d, timerVars, lock, conn, c, sent, spc, done>>

\* a.ws = conn, unlock; the ping of gwConnected does not take the lock, and
\* its error is ignored.
Publish ==
    /\ pc = "publish"
    /\ ws' = conn
    /\ lock' = "nobody"
    /\ pc' = "read"
    /\ UNCHANGED <<broken, d, timerVars, conn, c, sent, spc, done>>

\* gwReadLoop has read a message, then sends it unless it is cancelled.
Read ==
    /\ pc = "read"
    /\ ~broken
    /\ pc' = "forward"
    /\ UNCHANGED <<broken, d, timerVars, lock, conn, ws, c, sent, spc, done>>

Forward ==
    /\ pc = "forward"
    /\ Push("Message")
    /\ pc' = "read"
    /\ UNCHANGED <<broken, d, timerVars, lock, conn, ws, spc, done>>

ReadLoopEnds ==
    /\ \/ pc = "read" /\ (broken \/ done)
       \/ pc = "forward" /\ done
    /\ pc' = "relock"
    /\ UNCHANGED <<broken, d, timerVars, lock, conn, ws, c, sent, spc, done>>

Relock ==
    /\ pc = "relock"
    /\ lock = "nobody"
    /\ lock' = "gateway"
    /\ pc' = "close"
    /\ UNCHANGED <<broken, d, timerVars, conn, ws, c, sent, spc, done>>

\* A faulty end of a session: nobody is told.
BugSilentClose ==
    /\ pc = "close"
    /\ Reset(d)
    /\ pc' = "wait"
    /\ UNCHANGED <<broken, d, lock, conn, ws, c, sent, spc, done>>

\* c <- Disconnect, then t.Reset(d).
CloseSession ==
    /\ pc = "close"
    /\ Push("Disconnect")
    /\ Reset(d)
    /\ pc' = "wait"
    /\ UNCHANGED <<broken, d, lock, conn, ws, spc, done>>

Redial ==
    /\ pc = "wait"
    /\ tick
    /\ tick' = FALSE
    /\ stale' = FALSE
    /\ pc' = "dial"
    /\ UNCHANGED <<broken, d, timer, waited, lock, conn, ws, c, sent, spc, done>>

\* Return on a cancelled context: the deferred function stops the timer, or
\* takes the tick.  wsLock is not released.
Exit ==
    /\ pc = "wait"
    /\ done
    /\ timer > 0 \/ tick
    /\ timer' = 0
    /\ tick' = (tick /\ timer > 0)
    /\ pc' = "gone"
    /\ UNCHANGED <<broken, d, stale, waited, lock, conn, ws, c, sent, spc, done>>

-----------------------------------------------------------------------------
(* GatewaySend                                                             *)

\* No sender starts before Gateway has taken the lock the first time: the
\* daemon's first call comes two seconds after Connect at the earliest.
SendCall(s) ==
    /\ spc[s] = "idle"
    /\ spc' = [spc EXCEPT ![s] = "lock"]
    /\ UNCHANGED <<pc, broken, d, timerVars, lock, conn, ws, c, sent, done>>

SendLock(s) ==
    /\ spc[s] = "lock"
    /\ lock = "nobody"
    /\ lock' = s
    /\ spc' = [spc EXCEPT ![s] = "write"]
    /\ UNCHANGED <<pc, broken, d, timerVars, conn, ws, c, sent, done>>

\* The write succeeds or fails; the lock is released either way.
SendWrite(s) ==
    /\ spc[s] = "write"
    /\ lock' = "nobody"
    /\ spc' = [spc EXCEPT ![s] = "idle"]
    /\ UNCHANGED <<pc, broken, d, timerVars, conn, ws, c, sent, done>>

-----------------------------------------------------------------------------
(* The engine, the network, the clock, the caller                          *)

\* handleGateway takes the next message.
Take ==
    /\ c # <<>>
    /\ c' = Tail(c)
    /\ UNCHANGED <<pc, broken, d, timerVars, lock, conn, ws, sent, spc, done>>

Break ==
    /\ pc \in {"publish", "read", "forward"}
    /\ ~broken
    /\ broken' = TRUE
    /\ UNCHANGED <<pc, d, timerVars, lock, conn, ws, c, sent, spc, done>>

Clock ==
    /\ timer' = IF timer = 0 THEN 0 ELSE timer - 1
    /\ tick' = (tick \/ timer = 1)
    /\ waited' = IF waited < MaxDelay THEN waited + 1 ELSE waited
    /\ UNCHANGED <<pc, broken, d, stale, lock, conn, ws, c, sent, spc, done>>

Cancel ==
    /\ MayCancel
    /\ done' = TRUE
    /\ UNCHANGED <<pc, broken, d, timerVars, lock, conn, ws, c, sent, spc>>

-----------------------------------------------------------------------------

\* NewTimer(0) fires at once, but a dial may fail before that: it is due at
\* the next unit of the clock.
Init ==
    /\ pc = "dial"
    /\ broken = FALSE
    /\ d = 1
    /\ timer = 1
    /\ tick = FALSE
    /\ stale = FALSE
    /\ waited = 0
    /\ lock = "gateway"
    /\ conn = 0
    /\ ws = 0
    /\ c = <<>>
    /\ sent = "Disconnect"
    /\ spc = [s \in Senders |-> "idle"]
    /\ done = FALSE

GatewayStep ==
    \/ DialOk \/ DialFails \/ Report \/ Announce \/ Publish \/ Read \/ Forward
    \/ ReadLoopEnds \/ Relock \/ CloseSession \/ Redial \/ Exit

SenderStep(s) == SendCall(s) \/ SendLock(s) \/ SendWrite(s)

Next ==
    \/ GatewayStep
    \/ \E s \in Senders : SenderStep(s)
    \/ Take \/ Break \/ Clock \/ Cancel

\* Goroutines run; Go's mutex lets no waiter starve; the engine keeps taking
\* messages; time passes; and of infinitely many dials one succeeds.
Fairness ==
    /\ WF_vars(GatewayStep)
    /\ SF_vars(Relock)
    /\ SF_vars(DialOk)
    /\ \A s \in Senders : SF_vars(SendLock(s)) /\ WF_vars(SendWrite(s))
    /\ WF_vars(Take)
    /\ WF_vars(Clock)

Spec == Init /\ [][Next]_vars

FairSpec == Spec /\ Fairness

-----------------------------------------------------------------------------

\* Types, and who may hold the lock where.
GatewayTypeOK ==
    /\ pc \in {"dial", "report", "announce", "publish", "read", "forward",
               "relock", "close", "wait", "gone"}
    /\ d \in 1..MaxDelay /\ timer \in 0..MaxDelay /\ waited \in 0..MaxDelay
    /\ tick \in BOOLEAN /\ stale \in BOOLEAN /\ broken \in BOOLEAN /\ done \in BOOLEAN
    /\ lock \in Senders \cup {"gateway", "nobody"}
    /\ conn \in 0..2 /\ ws \in 0..2
    /\ c \in Seq({"Connect", "Disconnect", "Message"}) /\ Len(c) <= ChanCap
    /\ sent \in {"Connect", "Disconnect", "Message"}
    /\ spc \in [Senders -> {"idle", "lock", "write"}]

\* GatewaySend never writes to a connection of an earlier session, and never
\* to none: whoever holds the lock sees the latest connection.
SendersSeeLatest == \A s \in Senders : lock = s => ws = conn /\ ws # 0

\* Gateway never waits for a tick that will not come, so neither the wait nor
\* the deferred "<-t.C" hangs: stale ticks add wake-ups, they lose none.
WaitEnds == pc = "wait" => timer > 0 \/ tick

\* The messages on the channel form sessions.
Feed == INSTANCE GatewayFeed WITH last <- sent
IsFeed == Feed!FeedSpec

\* "Exponental backoff, max 10 mins": no dial before the delay is over, except
\* on a tick left over from before the timer was reset, which Reset does not
\* take out of the channel: the one NewTimer(0) puts there, and one that fires
\* while a dial goes on.
BackoffRespected == [][Redial /\ ~stale => waited >= d]_vars
=============================================================================
