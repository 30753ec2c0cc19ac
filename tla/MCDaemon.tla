------------------------------ MODULE MCDaemon ------------------------------
(***************************************************************************)
(* Small instances of Lifecycle: two daemons, one started while the other  *)
(* may still run, or a daemon and the command line tool.                   *)
(***************************************************************************)
EXTENDS Lifecycle

CONSTANTS
    d1, d2, ctl,
    Together    \* BOUND: the sets of programs that are used on one machine

VARIABLE present   \* the one of these that is used in this behavior

MCInit == LifeInit /\ present \in Together

MCNext ==
    /\ LifeNext
    /\ \A p \in Programs \ present : at'[p] = "out"
    /\ UNCHANGED present

MCSpec ==
    /\ MCInit
    /\ [][MCNext]_<<daemonVars, present>>
    /\ \A d \in Daemons : WF_daemonVars(Startup(d)) /\ WF_daemonVars(Main(d))
=============================================================================
