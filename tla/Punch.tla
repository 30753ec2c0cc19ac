-------------------------------- MODULE Punch -------------------------------
(***************************************************************************)
(* The goroutine that reports this device's endpoint: it asks the punch    *)
(* server how it sees us (cmd/pikonoded/punch.go), and writes the answer   *)
(* to the gateway's connection (updateAddr and startPikopunch in           *)
(* cmd/pikonoded/daemon.go).  It is the one caller of GatewaySend.         *)
(*                                                                         *)
(* The device a report names is left out: it is the ID of a package        *)
(* variable no code assigns, so 0, which the encoding omits.  Nothing here *)
(* says what the rendezvous server makes of such a report.                 *)
(*                                                                         *)
(* The punch server sees the endpoint the NAT gives us, which may change.  *)
(* Requests and answers are datagrams.  Times are left open: a call may    *)
(* end by its timeout at any moment, and a retry may come at any moment.   *)
(*                                                                         *)
(* An empty answer makes the slice bound n-1 negative: the goroutine       *)
(* panics, and the daemon with it.                                         *)
(***************************************************************************)
EXTENDS Gateway

CONSTANTS
    punch,        \* this goroutine, as a sender
    EmptyAnswers, \* may the punch server send an empty datagram?
    MaxMoves      \* BOUND on the changes of our endpoint

ASSUME PunchAssumption ==
    /\ Senders = {punch}
    /\ EmptyAnswers \in BOOLEAN
    /\ MaxMoves \in Nat

VARIABLES
    stage,    \* "idle", "fetching" (in fetchEndpoint), "stopped" or "panicked"
    asked,    \* a request of this call is on its way
    answers,  \* what waits in the socket of this call
    nat,      \* our endpoint as the world sees it: 1, then 2...
    since,    \* history: nat when this call of updateAddr began, 0 for none
    got,      \* addr in updateAddr, 0 for none
    reported  \* the endpoint of the last report that reached a connection, 0 for none

punchVars == <<stage, asked, answers, nat, since, got, reported>>
allVars == <<vars, punchVars>>

-----------------------------------------------------------------------------
(* fetchEndpoint                                                           *)

\* Each call has a socket of its own, and sends one request at once.
BeginFetch ==
    /\ stage = "idle"
    /\ spc[punch] = "idle"
    /\ stage' = "fetching"
    /\ asked' = TRUE
    /\ since' = nat
    /\ UNCHANGED <<vars, answers, nat, got, reported>>

\* The goroutine that repeats the request.
Retry ==
    /\ stage = "fetching"
    /\ asked' = TRUE
    /\ UNCHANGED <<vars, stage, answers, nat, since, got, reported>>

\* A faulty end: the socket serves the next call, with what waits in it.
BugOneSocket == UNCHANGED <<asked, answers>>

\* The deferred Close: what still waits or is on its way reaches nobody.
CloseSocket == asked' = FALSE /\ answers' = {}

\* A faulty failure: the goroutine ends with the first call that fails.
BugStops ==
    /\ stage = "fetching"
    /\ stage' = "stopped"
    /\ CloseSocket
    /\ since' = 0
    /\ UNCHANGED <<vars, nat, got, reported>>

\* An error, or the timeout, whose goroutine closes the socket under the read,
\* be there an answer or not.  The caller logs the error and goes on.
GiveUp ==
    /\ stage = "fetching"
    /\ stage' = "idle"
    /\ CloseSocket
    /\ since' = 0
    /\ UNCHANGED <<vars, nat, got, reported>>

\* The read, and the call of GatewaySend with what it gave.
ReadAnswer ==
    /\ stage = "fetching"
    /\ \E e \in answers : got' = e
    /\ SendCall(punch)
    /\ stage' = "idle"
    /\ CloseSocket
    /\ UNCHANGED <<nat, since, reported>>

\* The answer is empty.
ReadEmpty ==
    /\ EmptyAnswers
    /\ stage = "fetching"
    /\ asked
    /\ stage' = "panicked"
    /\ CloseSocket
    /\ since' = 0
    /\ UNCHANGED <<vars, nat, got, reported>>

\* startPikopunch's goroutine returns on a cancelled context.
Stop ==
    /\ done
    /\ stage = "idle"
    /\ spc[punch] = "idle"
    /\ stage' = "stopped"
    /\ UNCHANGED <<vars, asked, answers, nat, since, got, reported>>

-----------------------------------------------------------------------------
(* GatewaySend, and what the world does                                    *)

LockForReport == SendLock(punch) /\ UNCHANGED punchVars

\* GatewaySend writes the report.  One written to a connection that has failed is
\* lost, whatever the write returns.
WriteReport ==
    /\ SendWrite(punch)
    /\ reported' = IF broken THEN reported ELSE got
    /\ got' = 0
    /\ since' = 0
    /\ UNCHANGED <<stage, asked, answers, nat>>

\* The punch server answers with the endpoint it sees.
ServerAnswers ==
    /\ asked
    /\ asked' = FALSE
    /\ answers' = answers \cup {nat}
    /\ UNCHANGED <<vars, stage, nat, since, got, reported>>

LoseRequest ==
    /\ asked
    /\ asked' = FALSE
    /\ UNCHANGED <<vars, stage, answers, nat, since, got, reported>>

Roam ==
    /\ nat <= MaxMoves
    /\ nat' = nat + 1
    /\ UNCHANGED <<vars, stage, asked, answers, since, got, reported>>

-----------------------------------------------------------------------------

PunchInit ==
    /\ Init
    /\ stage = "idle"
    /\ asked = FALSE
    /\ answers = {}
    /\ nat = 1
    /\ since = 0
    /\ got = 0
    /\ reported = 0

PunchStep ==
    \/ BeginFetch \/ Retry \/ GiveUp \/ ReadAnswer \/ ReadEmpty \/ Stop
    \/ LockForReport \/ WriteReport

WorldStep == ServerAnswers \/ LoseRequest \/ Roam

\* Nothing runs after a panic.
Up == stage # "panicked"

OfGateway == Up /\ GatewayStep /\ UNCHANGED punchVars
OfOthers == Up /\ (Take \/ Break \/ Clock \/ Cancel) /\ UNCHANGED punchVars

PunchNext == OfGateway \/ OfOthers \/ (Up /\ (PunchStep \/ WorldStep))

PunchSpec == PunchInit /\ [][PunchNext]_allVars

\* Beside what module Gateway assumes: calls end; of infinitely many requests one
\* is answered, and of infinitely many answers one is read before its call gives
\* up.
FairPunchSpec ==
    /\ PunchSpec
    /\ WF_allVars(OfGateway)
    /\ SF_allVars(Up /\ Relock /\ UNCHANGED punchVars)
    /\ SF_allVars(Up /\ DialOk /\ UNCHANGED punchVars)
    /\ WF_allVars(Up /\ Take /\ UNCHANGED punchVars)
    /\ WF_allVars(Up /\ Clock /\ UNCHANGED punchVars)
    /\ SF_allVars(Up /\ LockForReport)
    /\ WF_allVars(Up /\ WriteReport)
    /\ WF_allVars(Up /\ BeginFetch)
    /\ WF_allVars(Up /\ GiveUp)
    /\ SF_allVars(Up /\ ReadAnswer)
    /\ SF_allVars(Up /\ ServerAnswers)

-----------------------------------------------------------------------------

Over == done \/ stage = "panicked"

\* A report that is made or waits for the gateway names an endpoint we had since
\* its call began: no answer to an earlier call is taken for one to this.
ReportIsFresh == spc[punch] # "idle" => got \in since..nat

\* A GatewaySend that waits for the lock returns in the end, unless Gateway was
\* cancelled: a broken connection is replaced and the lock released.  It does not
\* heed its own context, so without a dial that succeeds it would wait for ever.
SendReturns == spc[punch] = "lock" ~> spc[punch] = "idle" \/ Over

\* Once the connection and our endpoint change no more, a report with our endpoint
\* is written and none with an older one after it: lost requests, calls that time
\* out, reports that were held up by a long backoff and then carry an old endpoint,
\* and reports that are lost with a connection are all made up for by the call that
\* follows.  Which device the report is for is not in it.
ReportsSettle == <>[]~broken => <>[](reported = nat) \/ <>Over
=============================================================================
