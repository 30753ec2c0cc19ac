------------------------------ MODULE MCEngine ------------------------------
(***************************************************************************)
(* A small instance of the engine and of the name map its callbacks keep:  *)
(* this device, two others, two networks, two endpoints, two keys, and API *)
(* answers that disagree with each other, as answers to requests made at   *)
(* different times do.                                                     *)
(***************************************************************************)
EXTENDS DnsMap, TLC

CONSTANTS self, a, b, n1, n2, e1, e2, k1, k2, MaxCached

Dev(i, e) == [id |-> i, endpoint |-> e]

MCApiNetworks ==
    { [id |-> n1, devices |-> <<Dev(self, e1), Dev(a, e1)>>],
      [id |-> n1, devices |-> <<Dev(a, e2), Dev(self, e1), Dev(b, e1)>>],
      [id |-> n2, devices |-> <<Dev(b, e2), Dev(self, e2)>>],
      [id |-> n2, devices |-> <<Dev(b, e1), Dev(a, e1)>>] }

\* BOUND: every join of this device appends a network, even a known one.
CacheBound == Len(nwState) <= MaxCached

KeySymmetry == Permutations(Keys)
=============================================================================
