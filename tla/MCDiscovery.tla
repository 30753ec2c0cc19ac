---------------------------- MODULE MCDiscovery -----------------------------
(***************************************************************************)
(* Local discovery, in three scenes that share nothing; a behavior has one *)
(* of them.  On a calm segment nothing is lost, and a daemon lives long    *)
(* enough to answer another at any point of its own Hellos.  On a rough    *)
(* one sockets fail and datagrams are lost.  And there is one socket, that *)
(* hears HELLOs among foreign datagrams of every length.                   *)
(***************************************************************************)
EXTENDS Discovery, HelloWire, TLC

CONSTANTS p, q, MaxRough  \* BOUND on the Hellos of each daemon where some are lost

VARIABLE scene

ThreeAndOne == p :> 3 @@ q :> 1
TwoAndOne == p :> 2 @@ q :> 1

Most(n) == IF scene = "calm" THEN MaxHellos[n] ELSE MaxRough[n]

\* A daemon whose last Hello was, or is its first, takes no tick: its ticker does
\* not matter, and stops.
TickersStop ==
    \A n \in Nodes :
        Most(n) = 1 \/ hellos[n] >= Most(n) =>
            tick'[n] = tick[n] /\ period'[n] \in {period[n], Minute}

-----------------------------------------------------------------------------

\* Octets that differ in either half of a port.
MCPorts == {1, 256, 51820}
MCKeys == {<<97, 98>>, <<99, 100>>}

\* Every front of a reply, a HELLO with a tail, one of another type, and
\* something else.
MCForeign ==
    LET reply == NewHello([type |-> Types.reply, port |-> 772, key |-> <<101, 102>>])
    IN  {SubSeq(reply, 1, n) : n \in 0..Len(reply)}
        \cup {reply \o <<103, 104, 105>>, [reply EXCEPT ![5] = 7], <<77, 45, 83>>,
              <<77, 45, 83, 69, 65, 82, 67, 72>>}

-----------------------------------------------------------------------------

SegmentInit ==
    /\ scene \in {"calm", "rough", "socket"}
    /\ HelloInit
    /\ Init

SegmentNext ==
    /\ UNCHANGED scene
    /\ \/ /\ scene # "socket" /\ Next /\ TickersStop
          /\ scene = "calm" => reliable'
          /\ UNCHANGED helloVars
       \/ scene = "socket" /\ HelloNext /\ UNCHANGED vars

\* Both goroutines of a daemon run, where there are daemons.
SegmentSpec ==
    /\ SegmentInit
    /\ [][SegmentNext]_<<scene, vars, helloVars>>
    /\ scene # "socket" => Fairness
=============================================================================
