------------------------------ MODULE HelloWire ------------------------------
(***************************************************************************)
(* The octets of a HELLO (net/discov/msg.go) and the loop that reads them  *)
(* (Listen in net/discov/discov.go).                                       *)
(*                                                                         *)
(* One buffer serves all datagrams, and Parse takes fixed slices of it: up *)
(* to its capacity, so beyond the end of a short datagram they hold what   *)
(* earlier ones left.  Foreign software talks on the same group (SSDP).    *)
(***************************************************************************)
EXTENDS Integers, Sequences

CONSTANTS
    KeyLen,       \* octets of a key (44)
    BufLen,       \* octets of the buffer (512)
    Ports, Keys,  \* what HELLOs may say
    Foreign       \* datagrams that NewHello did not make

ASSUME HelloAssumption ==
    /\ KeyLen \in Nat /\ BufLen \in Nat /\ BufLen >= 7 + KeyLen
    /\ \A n \in Ports : n \in Nat /\ n < 65536

ASSUME OctetAssumption ==
    /\ \A k \in Keys : k \in Seq(0..255) /\ Len(k) = KeyLen
    /\ \A dg \in Foreign : dg \in Seq(0..255)

VARIABLES
    buf,    \* the buffer
    last,   \* history: the last datagram
    heard   \* the last call of Notify, or that there was none

helloVars == <<buf, last, heard>>

Piko == <<80, 73, 75, 79>>
Types == [hello |-> 1, reply |-> 2]

Silence == [type |-> 0, port |-> 0, key |-> <<>>]

Hellos == [type : {Types.hello, Types.reply}, port : Ports, key : Keys]

\* A faulty encoding: the low octet of the port first.
BugPutUint16(n) == <<n % 256, n \div 256>>

PutUint16(n) == <<n \div 256, n % 256>>

NewHello(m) == Piko \o <<m.type>> \o PutUint16(m.port) \o m.key

\* A faulty slice: one octet short.
BugKeyIn(b) == SubSeq(b, 8, 6 + KeyLen)

KeyIn(b) == SubSeq(b, 8, 7 + KeyLen)

\* Whatever the length of the datagram.  Other types have no payload.
Parse(b) ==
    IF b[5] \in {Types.hello, Types.reply}
    THEN [type |-> b[5], port |-> 256 * b[6] + b[7], key |-> KeyIn(b)]
    ELSE [type |-> b[5], port |-> 0, key |-> <<>>]

\* A faulty check: of the buffer, which may be longer than the datagram.
BugAccepted(dg) == SubSeq(buf', 1, 4) = Piko

\* The check of the length and of the first four octets.
Accepted(dg) == Len(dg) >= 5 /\ SubSeq(buf', 1, 4) = Piko

\* ReadFrom overwrites the front of the buffer, and cuts off what is too long.
ReadFrom(dg) ==
    buf' = SubSeq(dg \o SubSeq(buf, Len(dg) + 1, BufLen), 1, BufLen)

Hear(dg) ==
    /\ ReadFrom(dg)
    /\ last' = dg
    /\ heard' = IF Accepted(dg) THEN Parse(buf') ELSE Silence

HelloInit ==
    /\ buf = [i \in 1..BufLen |-> 0]
    /\ last = <<>>
    /\ heard = Silence

HelloNext ==
    \/ \E m \in Hellos : Hear(NewHello(m))
    \/ \E dg \in Foreign : Hear(dg)

HelloSpec == HelloInit /\ [][HelloNext]_helloVars

-----------------------------------------------------------------------------

\* A HELLO is heard as it was said, whatever datagrams came before it, and what
\* is too short to be one, or begins otherwise, is not heard, whatever of an
\* earlier HELLO still follows it in the buffer.  One of 5 to 50 octets is heard
\* with a key and a port that are in part those of an earlier one.
HellosHeardAsSaid ==
    /\ \A m \in Hellos : last = NewHello(m) => heard = m
    /\ heard # Silence => Len(last) >= 5 /\ SubSeq(last, 1, 4) = Piko
=============================================================================
