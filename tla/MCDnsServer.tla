----------------------------- MODULE MCDnsServer -----------------------------
(* Two queries, and as many buffers as they may hold at once. *)
EXTENDS DnsServer

CONSTANTS p, q
=============================================================================
