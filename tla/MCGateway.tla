----------------------------- MODULE MCGateway ------------------------------
(* A small instance of Punch and Gateway: delays 1, 2, 3 and a short       *)
(* channel.                                                                *)
EXTENDS Punch
=============================================================================
