----------------------------- MODULE MCPikoNode -----------------------------
(***************************************************************************)
(* Small instances of PikoNode: one other device, which may be in every    *)
(* network.  ApiNetworks is what the server can answer; discovery is left  *)
(* to MCWgSync.                                                            *)
(***************************************************************************)
EXTENDS PikoNode

CONSTANTS self, a, n1, n2, e1, e2

MCApiNetworks ==
    UNION {{[id |-> n, devices |-> s] : s \in SetToSeqs({r[d] : d \in D})} :
              n \in NetworkIds, D \in SUBSET DeviceIds,
              r \in {f \in [DeviceIds -> Device] : \A d \in DeviceIds : f[d].id = d}}

\* The networks play the same part, and so do the endpoints: every behavior
\* starts with the same one.
NetworkSymmetry == Permutations(NetworkIds)

VARIABLE focus   \* the one network that is used in this behavior, or "all"

InFocus == focus = "all" \/ \A n \in NetworkIds \ {focus} : members[n] = {}

FocusInit ==
    /\ PikoInit
    /\ info[Self] = e1
    /\ focus \in NetworkIds \cup {"all"}
    /\ InFocus

\* BOUND: a behavior has several networks or updates, not both.
FocusNext ==
    /\ PikoNext
    /\ UNCHANGED focus
    /\ InFocus'
    /\ focus = "all" => UNCHANGED info

FocusSpec == FocusInit /\ [][FocusNext]_<<pikoVars, focus>>
=============================================================================
