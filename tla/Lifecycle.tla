------------------------------ MODULE Lifecycle -----------------------------
(***************************************************************************)
(* The life of a daemon: main and startup (cmd/pikonoded/daemon.go),       *)
(* startWireguard (wg.go), the device and the interface it makes           *)
(* (net/wg/wgctrl.go, net/ifctl/if_linux.go) and the resolver it sets      *)
(* (net/dns/resolvconf).  Several daemons may run on one machine, one that *)
(* is started while another has not ended; they share the configuration    *)
(* file, the name of the interface and the record of the resolver, which   *)
(* goes by that name.                                                      *)
(*                                                                         *)
(* Every call may fail.  The process may be killed at any place: main      *)
(* handles SIGINT only, and the punch goroutine may panic (module Punch).  *)
(* What it had in the kernel stays, and LinkAdd fails for the next.        *)
(***************************************************************************)
EXTENDS ConfigStore

CONSTANTS
    Daemons,     \* those of Programs that are daemons; the others are tools
    MaxNames     \* BOUND on the times our name server stands in resolv.conf

ASSUME LifecycleAssumption ==
    /\ Daemons \subseteq Programs
    /\ Daemons \cap {"none", "orphan"} = {}
    /\ MaxNames \in Nat

VARIABLES
    link,      \* whose interface has the name: a daemon's, "orphan" when its
               \* maker is gone, or "none"
    wgDev,     \* each daemon's: "nil", "open", or "closed" but still set
    sigchan,   \* each daemon's holds a SIGINT
    pressed,   \* history: the user has interrupted it
    names,     \* how many times our name server stands in resolv.conf
    left,      \* history: since the user last cleaned up a daemon was killed,
               \* or a call failed whose failure leaves something behind
    clash      \* history: since our name server was last entered a daemon has
               \* taken it out whose own device was closed

machineVars == <<link, names>>
signalVars == <<sigchan, pressed>>
lifeVars == <<machineVars, signalVars, wgDev, left, clash>>
daemonVars == <<storeVars, lifeVars>>

\* A daemon that is at a place goes to the next; no file is touched.
Step(d, from, to) ==
    /\ at[d] = from
    /\ Goto(d, to)
    /\ UNCHANGED <<fileVars, cfg, issued, meant, torn>>

-----------------------------------------------------------------------------
(* The device                                                              *)

\* A faulty removal: by name, whoever has the name now.
BugByName(d) == link # "none"

\* LinkDel and the calls that set the state go by index: only the interface
\* that is this daemon's own is meant.
Ours(d) == link = d

\* A faulty end: main takes down the resolver though there is no device.
BugNoDevice(d) == Step(d, "device", "takedown") /\ UNCHANGED <<link, wgDev, left>>

\* New: the error of LinkAdd, of a name that is taken or another.
AddFails(d) == Step(d, "device", "failed") /\ UNCHANGED <<link, wgDev, left>>

\* New: LinkAdd fails while the name is taken, and may fail otherwise.  When the
\* new interface cannot be looked up it stays; when the client cannot be made it
\* is deleted, if that works.  On an error wgDev is nil.
NewDevice(d) ==
    /\ \/ AddFails(d)
       \/ /\ link = "none"
          /\ Step(d, "device", "failed")
          /\ link' = d
          /\ left' = TRUE
          /\ UNCHANGED wgDev
       \/ /\ link = "none"
          /\ Step(d, "device", "configure")
          /\ link' = d
          /\ wgDev' = [wgDev EXCEPT ![d] = "open"]
          /\ UNCHANGED left
    /\ UNCHANGED <<signalVars, names, clash>>

\* Close: if the client fails to close, Delete is not reached.  A second Close
\* may reach it, and then finds what the first has left.
Close(d) ==
    /\ wgDev' = [wgDev EXCEPT ![d] = "closed"]
    /\ \/ link' = (IF Ours(d) THEN "none" ELSE link) /\ UNCHANGED left
       \/ UNCHANGED link /\ left' = (left \/ link = d)

\* SetKey and SetListenPort; on an error the device is closed but wgDev stays.
\* Otherwise SetState(true) follows, whose error is ignored.
Configure(d) ==
    /\ \/ Step(d, "configure", "connect") /\ UNCHANGED <<link, wgDev, left>>
       \/ Step(d, "configure", "takedown") /\ Close(d)
    /\ UNCHANGED <<signalVars, names, clash>>

-----------------------------------------------------------------------------
(* The rest of startup                                                     *)

\* A faulty startup: what a failed request leaves is left.
BugRequest(d, from, to) ==
    /\ Step(d, from, to) \/ Step(d, from, "failed")
    /\ UNCHANGED lifeVars

\* Connect and startPikopunch wait for the server.  After an error main takes
\* down what there is.
Request(d, from, to) ==
    /\ Step(d, from, to) \/ Step(d, from, "takedown")
    /\ UNCHANGED lifeVars

\* The name server goes on top of those in resolv.conf, even when it is there.
BringupDns(d) ==
    /\ Step(d, "resolver", "running")
    /\ \/ names < MaxNames /\ names' = names + 1 /\ clash' = FALSE
       \/ UNCHANGED <<names, clash>>
    /\ UNCHANGED <<link, wgDev, signalVars, left>>

-----------------------------------------------------------------------------
(* main                                                                    *)

\* The signal is caught before startup; the channel holds one.
Start(d) == Begin(d) /\ UNCHANGED lifeVars

\* A faulty signal channel: unbuffered, so a signal is lost when nobody waits.
BugUnbuffered(d) ==
    /\ at[d] # "out"
    /\ sigchan' = [sigchan EXCEPT ![d] = at[d] = "running"]
    /\ pressed' = [pressed EXCEPT ![d] = TRUE]
    /\ UNCHANGED <<storeVars, machineVars, wgDev, left, clash>>

Interrupt(d) ==
    /\ at[d] # "out"
    /\ sigchan' = [sigchan EXCEPT ![d] = TRUE]
    /\ pressed' = [pressed EXCEPT ![d] = TRUE]
    /\ UNCHANGED <<storeVars, machineVars, wgDev, left, clash>>

TakeSignal(d) ==
    /\ sigchan[d]
    /\ Step(d, "running", "takedown")
    /\ sigchan' = [sigchan EXCEPT ![d] = FALSE]
    /\ UNCHANGED <<machineVars, pressed, wgDev, left, clash>>

\* UnsetDNS goes by the name of the interface, whoever has it.
TakedownDns(d) ==
    /\ Step(d, "takedown", "close")
    /\ \/ /\ names' = 0
          /\ clash' = (clash \/ wgDev[d] = "closed")
          /\ UNCHANGED left
       \/ left' = TRUE /\ UNCHANGED <<names, clash>>
    /\ UNCHANGED <<link, wgDev, signalVars>>

\* SetState(false) and Close; main does not look at their errors.
CloseDevice(d) ==
    /\ Step(d, "close", "failed")
    /\ Close(d)
    /\ UNCHANGED <<names, signalVars, clash>>

\* The process ends; an interface it still has is an orphan.
Ends(d) ==
    /\ Gone(d)
    /\ link' = IF link = d THEN "orphan" ELSE link
    /\ wgDev' = [wgDev EXCEPT ![d] = "nil"]
    /\ sigchan' = [sigchan EXCEPT ![d] = FALSE]
    /\ pressed' = [pressed EXCEPT ![d] = FALSE]
    /\ UNCHANGED <<names, clash>>

\* At "failed" main returns: wgDev is nil or has been closed.
Return(d) ==
    /\ at[d] = "failed"
    /\ Ends(d)
    /\ UNCHANGED left

Kill(d) ==
    /\ at[d] # "out"
    /\ Ends(d)
    /\ left' = TRUE

Startup(d) ==
    \/ ReadConfigFile(d, "device") /\ UNCHANGED lifeVars
    \/ NewDevice(d)
    \/ Configure(d)
    \/ Request(d, "connect", "details")
    \/ Request(d, "details", "resolver")
    \/ BringupDns(d)

Main(d) == TakeSignal(d) \/ TakedownDns(d) \/ CloseDevice(d) \/ Return(d)

-----------------------------------------------------------------------------
(* The user, and the whole                                                 *)

\* The user deletes an interface nobody has and the record of its resolver.
CleanUp ==
    /\ left
    /\ \A d \in Daemons : at[d] = "out"
    /\ link' = "none"
    /\ names' = 0
    /\ left' = FALSE
    /\ clash' = FALSE
    /\ UNCHANGED <<storeVars, wgDev, signalVars>>

LifeInit ==
    /\ StoreInit
    /\ link = "none"
    /\ wgDev = [d \in Daemons |-> "nil"]
    /\ sigchan = [d \in Daemons |-> FALSE]
    /\ pressed = [d \in Daemons |-> FALSE]
    /\ names = 0
    /\ left = FALSE
    /\ clash = FALSE

LifeNext ==
    \/ \E d \in Daemons : Start(d) \/ Startup(d) \/ Main(d) \/ Interrupt(d) \/ Kill(d)
    \/ (\E p \in Programs \ Daemons : Tool(p)) /\ UNCHANGED lifeVars
    \/ (Edit \/ RemoveFile) /\ UNCHANGED lifeVars
    \/ CleanUp

LifeSpec == LifeInit /\ [][LifeNext]_daemonVars

\* A daemon's goroutine runs, and each of its requests is answered or fails.
FairLifeSpec ==
    LifeSpec /\ \A d \in Daemons : WF_daemonVars(Startup(d)) /\ WF_daemonVars(Main(d))

-----------------------------------------------------------------------------

Places == {"out", "stat", "open", "create", "encode", "failed", "device", "configure",
           "connect", "details", "resolver", "running", "takedown", "close", "ask", "save", "write", "done"}

\* Types of the file, the programs and what they share.
LifeTypeOK ==
    /\ exists \in BOOLEAN /\ torn \in BOOLEAN /\ overlap \in BOOLEAN
    /\ data \in Seq(Config \X Nat)
    /\ cfg \in [Programs -> Config] /\ meant \in Config
    /\ at \in [Programs -> Places]
    /\ issued \in 0..MaxTokens
    /\ link \in Daemons \cup {"none", "orphan"}
    /\ wgDev \in [Daemons -> {"nil", "open", "closed"}]
    /\ sigchan \in [Daemons -> BOOLEAN] /\ pressed \in [Daemons -> BOOLEAN]
    /\ names \in 0..MaxNames /\ left \in BOOLEAN /\ clash \in BOOLEAN

\* The name of the interface is a lock that daemons hold while they have a
\* device: nobody deletes or replaces it under them, not even a daemon that
\* closes its own device a second time.
DeviceIsOurs == \A d \in Daemons : wgDev[d] = "open" => link = d

\* Wherever a startup fails and however a daemon is told to end, it leaves no
\* interface and no entry in the resolver behind: only a daemon that was killed
\* or a clean-up that failed does, and nobody starts again until the user
\* removes the interface.
NothingLeftBehind ==
    ~left => /\ link # "orphan"
             /\ names > 0 => \E d \in Daemons : at[d] \in {"running", "takedown"}

\* A daemon that is up keeps what it has entered in the resolver, whatever other
\* daemons start, fail and end beside it, except one that could not configure
\* its device: main takes down the resolver after the device was closed, and so
\* maybe another's.
ResolverKept ==
    [][\A d \in Daemons :
          at[d] = "running" /\ at'[d] = "running" /\ ~clash' => names' >= names]_daemonVars

\* A daemon that is interrupted ends, even when the signal comes during startup.
InterruptHeeded == \A d \in Daemons : pressed[d] ~> at[d] = "out"
=============================================================================
