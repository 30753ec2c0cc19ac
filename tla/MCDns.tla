-------------------------------- MODULE MCDns --------------------------------
(***************************************************************************)
(* The name service: the goroutines of its server, the map of names they   *)
(* look up, and the octets they parse and write, each with the bounds of a *)
(* module of its own.  The three share nothing that their properties tell  *)
(* apart: a behavior has one of them, and the others rest.                 *)
(***************************************************************************)
EXTENDS MCDnsServer, MCEngine, MCWire

VARIABLE part  \* which of them runs

\* All queries are over, and none of them was one that must be answered.
ServerRests ==
    /\ kind = [c \in Queries |-> "remote"]
    /\ fallback = TRUE
    /\ names = {}
    /\ pc = [c \in Queries |-> "done"]
    /\ id = [c \in Queries |-> "none"]
    /\ code = [c \in Queries |-> "Ok"]
    /\ buf = [c \in Queries |-> [role \in Roles |-> 0]]
    /\ pool = {}
    /\ made = 0
    /\ content = [i \in 1..MaxBufs |-> Blank]
    /\ upstream = [c \in Queries |-> Blank]
    /\ replies = {}
    /\ unsent = {}

MapRests == EngineInit /\ key = [i \in DeviceIds |-> k1] /\ dnsMap = <<>>

WireRests == stage = "dropped" /\ wire = <<>> /\ meant = NoMessage /\ sent = Empty

NamesInit ==
    /\ part \in {"server", "map", "wire"}
    /\ IF part = "server" THEN Init ELSE ServerRests
    /\ IF part = "map" THEN DnsInit ELSE MapRests
    /\ IF part = "wire" THEN WireInit ELSE WireRests

NamesNext ==
    /\ UNCHANGED part
    /\ \/ part = "server" /\ Next /\ UNCHANGED <<dnsVars, wireVars>>
       \/ part = "map" /\ DnsNext /\ UNCHANGED <<vars, wireVars>>
       \/ part = "wire" /\ WireNext /\ UNCHANGED <<vars, dnsVars>>

NamesSpec ==
    /\ NamesInit
    /\ [][NamesNext]_<<part, vars, dnsVars, wireVars>>
    /\ Fairness
=============================================================================
