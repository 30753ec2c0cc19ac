----------------------------- MODULE GatewayFeed ----------------------------
(***************************************************************************)
(* What the gateway reader promises the engine: the messages it sends on   *)
(* the channel form sessions.  A session opens with Connect, which no      *)
(* message precedes, and ends with Disconnect; failed attempts to connect  *)
(* are further Disconnects.  The engine relies on it: it rebuilds its      *)
(* state on Connect and only then understands the messages that follow.    *)
(***************************************************************************)
VARIABLE last   \* the kind of the last message sent

FeedInit == last = "Disconnect"

Open == last = "Disconnect" /\ last' = "Connect"
Deliver == last \in {"Connect", "Message"} /\ last' = "Message"
Close == last' = "Disconnect"

FeedSpec == FeedInit /\ [][Open \/ Deliver \/ Close]_last
=============================================================================
