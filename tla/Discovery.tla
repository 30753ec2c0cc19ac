------------------------------ MODULE Discovery -----------------------------
(***************************************************************************)
(* Local discovery among the daemons of one network segment:               *)
(* cmd/pikonoded/broadcast.go over net/discov.  A daemon multicasts Hello  *)
(* when it starts and once a minute, and answers a Hello with a multicast  *)
(* HelloReply.  Two goroutines per daemon share the ticker: the one of     *)
(* listenBroadcast, which sends the automatic Hellos, and the one of       *)
(* Discovery.Listen, whose handler sends the replies.  Both reset it, then *)
(* send, and each may run between any two steps of the other.              *)
(*                                                                         *)
(* What a daemon does with a HELLO beyond remembering it is in WgSync.     *)
(***************************************************************************)
EXTENDS Naturals, FiniteSets

CONSTANTS
    Nodes,       \* daemons; each stands for its public key too
    Minute,      \* period of discovHelloTicker, in clock units
    MayLose,     \* may datagrams be lost?
    MayFail,     \* may Listen fail to open its socket?
    MaxHellos    \* BOUND on the Hellos of each daemon

ASSUME DiscoveryAssumption ==
    /\ Minute \in Nat \ {0}
    /\ MaxHellos \in [Nodes -> Nat \ {0}]
    /\ MayLose \in BOOLEAN /\ MayFail \in BOOLEAN

VARIABLES
    main,    \* where listenBroadcast is
    listen,  \* where Discovery.Listen and its handler are
    greeter, \* whose Hello the handler answers, if it does
    air,     \* datagrams under way, one for each receiver
    seen,    \* keys of seenPeers
    period,  \* time left in the period of the ticker
    tick,    \* a tick sits in the ticker's channel
    since,   \* history: time since listenBroadcast last began a Hello, up to Minute
    before,  \* history: and since it began the one before that
    hellos,  \* Hellos sent
    reliable \* history: no datagram was lost and no socket has failed

clockVars == <<period, since, before>>
vars == <<main, listen, greeter, air, seen, clockVars, tick, hellos, reliable>>

Datagram == [type : {"Hello", "HelloReply"}, from : Nodes, to : Nodes]

\* The socket of Listen is open, whatever its handler does.
Reading(n) == listen[n] \in {"open", "greeted", "reset"}

\* Multicast reaches every open socket, the sender's too (loopback is on);
\* Send drops what it cannot write.
Sent(type, n) ==
    {g \in [type : {type}, from : {n}, to : Nodes] : Reading(n) /\ Reading(g.to)}

\* A faulty sendDiscovHello, which lets the ticker run.
BugNotPutOff(n) ==
    UNCHANGED period

\* The first half of sendDiscovHello: Reset starts a new period.  A tick that was
\* left in the channel stays there (Go 1.20), and one may have been taken.
PutOff(n) ==
    period' = [period EXCEPT ![n] = Minute]

\* listenBroadcast calls sendDiscovHello, which resets the ticker and is yet to send.
Begin(n) ==
    /\ main' = [main EXCEPT ![n] = "reset"]
    /\ PutOff(n)
    /\ since' = [since EXCEPT ![n] = 0]
    /\ before' = [before EXCEPT ![n] = since[n]]
    /\ UNCHANGED <<listen, greeter, air, seen, tick, hellos, reliable>>

-----------------------------------------------------------------------------
(* listenBroadcast                                                         *)

\* Past Ready, which stays closed when the socket fails later.
FirstHello(n) ==
    /\ main[n] = "ready"
    /\ listen[n] \notin {"start", "no socket"}
    /\ Begin(n)

\* The loop takes a tick from the channel.
TakeTick(n) ==
    /\ main[n] = "loop"
    /\ tick[n]
    /\ hellos[n] < MaxHellos[n]
    /\ tick' = [tick EXCEPT ![n] = FALSE]
    /\ main' = [main EXCEPT ![n] = "ticked"]
    /\ UNCHANGED <<listen, greeter, air, seen, clockVars, hellos, reliable>>

AutoHello(n) == main[n] = "ticked" /\ Begin(n)

SendHello(n) ==
    /\ main[n] = "reset"
    /\ main' = [main EXCEPT ![n] = "loop"]
    /\ air' = air \cup Sent("Hello", n)
    /\ hellos' = [hellos EXCEPT ![n] = @ + 1]
    /\ UNCHANGED <<listen, greeter, seen, clockVars, tick, reliable>>

\* A faulty loop, which goes on after the error.
BugLoopsOn(n) ==
    /\ main[n] = "loop"
    /\ listen[n] = "broken"
    /\ listen' = [listen EXCEPT ![n] = "ended"]
    /\ UNCHANGED <<main, greeter, air, seen, clockVars, tick, hellos, reliable>>

\* The loop takes the error of Listen and returns it.
TakeError(n) ==
    /\ main[n] = "loop"
    /\ listen[n] = "broken"
    /\ main' = [main EXCEPT ![n] = "returned"]
    /\ listen' = [listen EXCEPT ![n] = "ended"]
    /\ UNCHANGED <<greeter, air, seen, clockVars, tick, hellos, reliable>>

-----------------------------------------------------------------------------
(* Discovery.Listen and its handler, onDiscovMessage                       *)

\* Listen opens the socket and closes Ready, or returns an error, which
\* nobody takes while listenBroadcast waits for Ready.
Open(n) ==
    /\ listen[n] = "start"
    /\ listen' = [listen EXCEPT ![n] = "open"]
    /\ UNCHANGED <<main, greeter, air, seen, clockVars, tick, hellos, reliable>>

OpenFails(n) ==
    /\ MayFail
    /\ listen[n] = "start"
    /\ listen' = [listen EXCEPT ![n] = "no socket"]
    /\ reliable' = FALSE
    /\ UNCHANGED <<main, greeter, air, seen, clockVars, tick, hellos>>

\* ReadFrom fails later on: the socket is closed, and Ready stays closed.
SocketFails(n) ==
    /\ MayFail
    /\ listen[n] = "open"
    /\ listen' = [listen EXCEPT ![n] = "broken"]
    /\ reliable' = FALSE
    /\ UNCHANGED <<main, greeter, air, seen, clockVars, tick, hellos>>

\* Faulty handlers: replies are answered too; nothing is.
BugAnswersReplies(n, g) == g.from # n
BugAnswersNothing(n, g) == FALSE

\* What onDiscovMessage answers, and whom it remembers: our own datagrams it
\* ignores, and a reply is not answered.
Answered(n, g) == g.from # n /\ g.type = "Hello"

Remembered(n, g) == {g.from} \ {n}

\* Listen reads a datagram; the sender of a Hello is remembered once it is answered.
Receive(n, g) ==
    /\ g \in air /\ n = g.to
    /\ listen[n] = "open"
    /\ air' = air \ {g}
    /\ IF Answered(n, g)
       THEN /\ listen' = [listen EXCEPT ![n] = "greeted"]
            /\ greeter' = [greeter EXCEPT ![n] = {g.from}]
            /\ UNCHANGED seen
       ELSE /\ seen' = [seen EXCEPT ![n] = @ \cup Remembered(n, g)]
            /\ UNCHANGED <<listen, greeter>>
    /\ UNCHANGED <<main, clockVars, tick, hellos, reliable>>

\* sendDiscovHello(true) resets the ticker of listenBroadcast.
ResetForReply(n) ==
    /\ listen[n] = "greeted"
    /\ listen' = [listen EXCEPT ![n] = "reset"]
    /\ PutOff(n)
    /\ UNCHANGED <<main, greeter, air, seen, since, before, tick, hellos, reliable>>

\* It sends the reply, and the handler remembers the sender of the Hello.
SendReply(n) ==
    /\ listen[n] = "reset"
    /\ listen' = [listen EXCEPT ![n] = "open"]
    /\ air' = air \cup Sent("HelloReply", n)
    /\ seen' = [seen EXCEPT ![n] = @ \cup greeter[n]]
    /\ greeter' = [greeter EXCEPT ![n] = {}]
    /\ UNCHANGED <<main, clockVars, tick, hellos, reliable>>

\* A datagram is lost on its way, or at a socket that is closed.
Lose(g) ==
    /\ g \in air
    /\ MayLose \/ ~Reading(g.to)
    /\ air' = air \ {g}
    /\ reliable' = FALSE
    /\ UNCHANGED <<main, listen, greeter, seen, clockVars, tick, hellos>>

Older(age) == IF age < Minute THEN age + 1 ELSE age

\* The ticker of a daemon, which matters until its last Hello; a tick that finds
\* another in the channel is dropped.
Clock(n) ==
    /\ hellos[n] < MaxHellos[n]
    /\ period' = [period EXCEPT ![n] = IF @ = 1 THEN Minute ELSE @ - 1]
    /\ tick' = [tick EXCEPT ![n] = @ \/ period[n] = 1]
    /\ since' = [since EXCEPT ![n] = Older(@)]
    /\ before' = [before EXCEPT ![n] = Older(@)]
    /\ UNCHANGED <<main, listen, greeter, air, seen, hellos, reliable>>

-----------------------------------------------------------------------------

Init ==
    /\ main = [n \in Nodes |-> "ready"]
    /\ listen = [n \in Nodes |-> "start"]
    /\ greeter = [n \in Nodes |-> {}]
    /\ air = {}
    /\ seen = [n \in Nodes |-> {}]
    /\ period = [n \in Nodes |-> Minute]
    /\ tick = [n \in Nodes |-> FALSE]
    /\ since = [n \in Nodes |-> Minute]
    /\ before = [n \in Nodes |-> Minute]
    /\ hellos = [n \in Nodes |-> 0]
    /\ reliable = TRUE

MainStep(n) ==
    FirstHello(n) \/ TakeTick(n) \/ AutoHello(n) \/ SendHello(n) \/ TakeError(n)

HandlerStep(n) == ResetForReply(n) \/ SendReply(n)

Next ==
    \/ \E n \in Nodes :
          \/ MainStep(n) \/ HandlerStep(n) \/ Clock(n)
          \/ Open(n) \/ OpenFails(n) \/ SocketFails(n)
    \/ \E g \in air : Receive(g.to, g) \/ Lose(g)

\* Both goroutines of a daemon run; datagrams arrive or are lost.  No tick is
\* needed, nor that the loop prefers one to an error.
Fairness ==
    /\ \A n \in Nodes :
          /\ WF_vars(Open(n) \/ OpenFails(n))
          /\ WF_vars(FirstHello(n)) /\ WF_vars(AutoHello(n)) /\ WF_vars(SendHello(n))
          /\ WF_vars(TakeError(n))
          /\ WF_vars(HandlerStep(n))
    /\ \A g \in Datagram : WF_vars(Receive(g.to, g) \/ Lose(g))

Spec == Init /\ [][Next]_vars

FairSpec == Spec /\ Fairness

-----------------------------------------------------------------------------

\* Types; a daemon is not its own local peer.
DiscoveryTypeOK ==
    /\ main \in [Nodes -> {"ready", "loop", "ticked", "reset", "returned"}]
    /\ listen \in [Nodes -> {"start", "open", "greeted", "reset", "no socket", "broken", "ended"}]
    /\ greeter \in [Nodes -> SUBSET Nodes] /\ \A n \in Nodes : n \notin greeter[n]
    /\ air \subseteq Datagram
    /\ seen \in [Nodes -> SUBSET Nodes] /\ \A n \in Nodes : n \notin seen[n]
    /\ period \in [Nodes -> 1..Minute]
    /\ tick \in [Nodes -> BOOLEAN]
    /\ since \in [Nodes -> 0..Minute]
    /\ before \in [Nodes -> 0..Minute]
    /\ hellos \in [Nodes -> Nat] /\ \A n \in Nodes : hellos[n] <= MaxHellos[n]
    /\ reliable \in BOOLEAN

\* "this is to prevent flooding the network": however Hellos and replies
\* cross, finitely many Hellos cause finitely many datagrams.
FloodEnds == <>[](air = {})

\* While no datagram is lost, two daemons that run discover each other, both
\* ways and whichever started first, on the Hello each sends when it starts.
MutualDiscovery ==
    \A n, m \in Nodes :
        n # m /\ hellos[n] > 0 /\ hellos[m] > 0
            ~> (m \in seen[n] /\ n \in seen[m]) \/ ~reliable

\* However long either goroutine of a daemon is held up between two of its steps,
\* and whatever ticks they leave in the channel or hold, listenBroadcast begins at
\* most two Hellos within a minute: the Reset of each puts off the third.  Not "another
\* automatic Hello for at least another minute" (sendDiscovHello): one that was due
\* before a Reset, be its tick left in the channel or already taken, follows at once.
HelloRate ==
    [][\A n \in Nodes : AutoHello(n) => before[n] >= Minute]_vars

\* listenBroadcast returns the error of a socket that fails while it is read
\* ("case err := <-errCh: return err").  One that cannot be opened it does not
\* hear of: it waits for Ready, which is never closed.
ReadErrorReturned ==
    \A n \in Nodes : listen[n] = "broken" ~> main[n] = "returned"
=============================================================================
