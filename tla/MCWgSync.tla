------------------------------ MODULE MCWgSync ------------------------------
(***************************************************************************)
(* A small instance of WgSync: one network, two other devices, API answers *)
(* in which each of them comes and goes.                                   *)
(***************************************************************************)
EXTENDS WgSync

CONSTANTS self, a, b, n1, e1, l1, MaxCached

Dev(i, e) == [id |-> i, endpoint |-> e]

MCApiNetworks ==
    { [id |-> n1, devices |-> <<Dev(self, e1), Dev(a, e1)>>],
      [id |-> n1, devices |-> <<Dev(self, e1), Dev(b, e1), Dev(a, e1)>>] }

\* BOUND: every join of this device appends a network, even a known one.
CacheBound == Len(nwState) <= MaxCached
=============================================================================
