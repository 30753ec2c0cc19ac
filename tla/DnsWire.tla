------------------------------- MODULE DnsWire -------------------------------
(***************************************************************************)
(* What the DNS server does to the octets of a message: parseDNSMessage    *)
(* (net/dns/parser.go), serialize (net/dns/serializer.go), and the three   *)
(* ways a parsed message becomes a reply (net/dns/server.go).              *)
(*                                                                         *)
(* An octet is a number, a label a sequence of octets, a name a sequence   *)
(* of labels.  The ID and the flags, the first four octets, are parsed and *)
(* serialized field by field by masks of their own: they are left out of   *)
(* the record of a message, and zero on the wire.  Type, class and TTL are *)
(* copied: they are one field, "fixed".                                    *)
(***************************************************************************)
EXTENDS Integers, SequencesExt

CONSTANTS
    Arrivals,  \* what can arrive: octets, and how an encoder wrote them
    NoMessage, \* what octets no encoder wrote are meant for
    Fixed,     \* type, class and TTL of the server's own answers
    Addresses  \* addresses the daemon's peers can have: RData of an answer

VARIABLES
    stage,  \* "received", "sent" or "dropped"
    wire,   \* the octets received, then those sent
    meant,  \* history: the message the sender encoded
    sent    \* the message the server serialized

wireVars == <<stage, wire, meant, sent>>

-----------------------------------------------------------------------------
(* parser.go.  Offsets count from 0, as in Go.                             *)

Octet == 0..255

\* The buffers of server.go that messages are read into.
BufferLen == 64 * 1024

ASSUME WireAssumption ==
    \A a \in Arrivals : a.wire \in Seq(Octet) /\ Len(a.wire) <= BufferLen

\* An address of Go has at most 16 octets.
ASSUME AnswerAssumption ==
    /\ Fixed \in Seq(Octet) /\ Len(Fixed) = 8
    /\ \A ip \in Addresses : ip \in Seq(Octet) /\ Len(ip) <= 16

HeaderLen == 12

U16(n) == <<n \div 256, n % 256>>

U16At(msg, at) == 256 * msg[at + 1] + msg[at + 2]

Octets(msg, at, n) == SubSeq(msg, at + 1, at + n)

Result(labels, size, status) == [labels |-> labels, size |-> size, status |-> status]

\* Faulty pointers: taken for one octet; followed once more.
BugPointerLen == 1
BugFollowed(depth) == depth <= 5

\* A pointer has two octets; at depth 5 it is taken for a label.
PointerLen == 2
Followed(depth) == depth < 5

\* parseLabels at an offset and a depth; name is what it returns elsewhere.  A
\* name may end with the message; the high bits 01 and 10 are ignored, and behind
\* them a label may be empty.
NameAt(msg, at, depth, name) ==
    LET left   == Len(msg) - at
        first  == msg[at + 1]
        length == first % 64
        target == U16At(msg, at) % 16384
        jump   == name[<<target, depth + 1>>]
        rest   == name[<<at + length + 1, depth>>]
    IN  IF left = 0 THEN Result(<<>>, 0, "ok")
        ELSE IF first = 0 THEN Result(<<>>, 1, "ok")
        ELSE IF first >= 192 /\ Followed(depth)
             THEN IF left < 2 \/ target > Len(msg) THEN Result(<<>>, 0, "error")
                  ELSE Result(jump.labels, PointerLen, jump.status)
        ELSE IF first >= 192 /\ depth > 5 THEN Result(<<>>, 0, "panic")
        ELSE IF length + 1 > left THEN Result(<<>>, 0, "error")
        ELSE Result(<<Octets(msg, at + 1, length)>> \o rest.labels,
                    length + 1 + rest.size, rest.status)

ParseLabels(msg) ==
    LET name[p \in (0..Len(msg)) \X (0..6)] == NameAt(msg, p[1], p[2], name)
    IN  name

\* A section: what was parsed of it, where it ends, and how it went.
Section(items, next, status) == [items |-> items, next |-> next, status |-> status]

After(item, rest) == Section(<<item>> \o rest.items, rest.next, rest.status)

\* n questions from offset at, the first one and the rest of the section; fewer
\* when the message ends.
QuestionsAt(msg, at, n, section) ==
    LET name  == ParseLabels(msg)[<<at, 0>>]
        fixed == at + name.size
    IN  IF n = 0 \/ at = Len(msg) THEN Section(<<>>, at, "ok")
        ELSE IF name.status # "ok" THEN Section(<<>>, at, name.status)
        ELSE IF Len(msg) - fixed < 4 THEN Section(<<>>, at, "error")
        ELSE After([labels |-> name.labels, fixed |-> Octets(msg, fixed, 4)],
                   section[<<fixed + 4, n - 1>>])

ParseQuestions(msg, count) ==
    LET section[p \in (HeaderLen..Len(msg)) \X (0..count)] ==
            QuestionsAt(msg, p[1], p[2], section)
    IN  section

\* parseRecordSection.  10 + rdlen is a uint16: a sum that wraps makes the
\* bounds of the slice cross.
RecordsAt(msg, at, n, section) ==
    LET name  == ParseLabels(msg)[<<at, 0>>]
        fixed == at + name.size
        left  == Len(msg) - fixed
        rdlen == U16At(msg, fixed + 8)
    IN  IF n = 0 \/ at = Len(msg) THEN Section(<<>>, at, "ok")
        ELSE IF name.status # "ok" THEN Section(<<>>, at, name.status)
        ELSE IF left < 10 \/ rdlen > left - 10 THEN Section(<<>>, at, "error")
        ELSE IF 10 + rdlen >= 65536 THEN Section(<<>>, at, "panic")
        ELSE After([labels |-> name.labels, fixed |-> Octets(msg, fixed, 8),
                    rdata  |-> Octets(msg, fixed + 10, rdlen)],
                   section[<<fixed + 10 + rdlen, n - 1>>])

ParseRecords(msg, count) ==
    LET section[p \in (HeaderLen..Len(msg)) \X (0..count)] ==
            RecordsAt(msg, p[1], p[2], section)
    IN  section

\* The types dnsQuestion, dnsRecord and dnsMessage; the data of a record is what
\* fits a buffer behind its fixed fields and the header.
Label == {l \in Seq(Octet) : Len(l) <= 63}

Question == [labels : Seq(Label), fixed : {o \in Seq(Octet) : Len(o) = 4}]

Record == [labels : Seq(Label), fixed : {o \in Seq(Octet) : Len(o) = 8},
           rdata : {o \in Seq(Octet) : 10 + Len(o) < BufferLen}]

DnsMessage == [questions : Seq(Question), answers : Seq(Record),
               authority : Seq(Record), additional : Seq(Record)]

Sections(questions, answers, authority, additional) ==
    [questions |-> questions, answers |-> answers,
     authority |-> authority, additional |-> additional]

Empty == Sections(<<>>, <<>>, <<>>, <<>>)

\* The records after section s; none if it failed.
Following(msg, s, count) ==
    IF s.status = "ok" THEN ParseRecords(msg, count)[<<s.next, count>>]
                       ELSE Section(<<>>, s.next, s.status)

\* parseDNSMessage: the four sections follow each other; the first that fails ends
\* the parsing, and what was parsed before it is returned with the error.
ParseDNSMessage(msg) ==
    LET section[k \in 0..3] ==
            IF k = 0 THEN ParseQuestions(msg, U16At(msg, 4))[<<HeaderLen, U16At(msg, 4)>>]
            ELSE Following(msg, section[k - 1], U16At(msg, 4 + 2 * k))
    IN  IF Len(msg) <= HeaderLen THEN [status |-> "error", msg |-> Empty]
        ELSE [status |-> section[3].status,
              msg    |-> Sections(section[0].items, section[1].items,
                                  section[2].items, section[3].items)]

-----------------------------------------------------------------------------
(* serializer.go                                                           *)

\* A faulty serializer: no octet ends the name.
BugUnterminated(labels) ==
    FlattenSeq([i \in DOMAIN labels |-> <<Len(labels[i]) % 64>> \o labels[i]])

\* serializeLabels: every name is spelled out.
SerializeLabels(labels) ==
    FlattenSeq([i \in DOMAIN labels |-> <<Len(labels[i]) % 64>> \o labels[i]]) \o <<0>>

SerializeRecord(r) ==
    SerializeLabels(r.labels) \o r.fixed \o U16(Len(r.rdata) % 65536) \o r.rdata

SerializeRecords(s) == FlattenSeq([i \in DOMAIN s |-> SerializeRecord(s[i])])

\* The counts are those of the slices; the parsed counts are ignored.
Serialize(m) ==
    <<0, 0, 0, 0>>
    \o U16(Len(m.questions)) \o U16(Len(m.answers))
    \o U16(Len(m.authority)) \o U16(Len(m.additional))
    \o FlattenSeq([i \in DOMAIN m.questions |->
                      SerializeLabels(m.questions[i].labels) \o m.questions[i].fixed])
    \o SerializeRecords(m.answers)
    \o SerializeRecords(m.authority)
    \o SerializeRecords(m.additional)

-----------------------------------------------------------------------------
(* What other implementations write (RFC 1035, section 4.1.4): the labels  *)
(* of a name end with an octet of zero, or with a pointer to another name. *)
(* A witness tells how a message was written: names says of offsets what   *)
(* name begins there, where its octets end and how many pointers lead on   *)
(* from it; at holds the offsets of the items, and where the last one ends.*)

Name(labels, next, pointers) ==
    [labels |-> labels, next |-> next, pointers |-> pointers]

\* As many pointers as the parser follows from a name.
MaxPointers == 5

NameWritten(msg, names, o) ==
    LET first  == msg[o + 1]
        rest   == names[o + first + 1]
        target == U16At(msg, o) % 16384
    IN  \/ first = 0 /\ names[o] = Name(<<>>, o + 1, 0)
        \/ /\ first \in 1..63 /\ o + first + 1 \in DOMAIN names
           /\ names[o] = Name(<<Octets(msg, o + 1, first)>> \o rest.labels,
                              rest.next, rest.pointers)
        \/ /\ first \in 192..255 /\ o + 2 <= Len(msg) /\ target \in DOMAIN names
           /\ names[o] = Name(names[target].labels, o + 2, names[target].pointers + 1)

NamesWritten(msg, names) ==
    /\ DOMAIN names \subseteq 0..Len(msg) - 1
    /\ \A o \in DOMAIN names :
          /\ names[o].next \in 0..Len(msg) /\ names[o].pointers \in 0..MaxPointers
          /\ NameWritten(msg, names, o)

QuestionWritten(msg, names, q, at, next) ==
    /\ at \in DOMAIN names
    /\ next = names[at].next + 4
    /\ q = [labels |-> names[at].labels, fixed |-> Octets(msg, names[at].next, 4)]

RecordWritten(msg, names, r, at, next) ==
    /\ at \in DOMAIN names
    /\ LET fixed == names[at].next
           rdlen == U16At(msg, fixed + 8)
       IN  /\ fixed + 10 <= Len(msg)
           /\ next = fixed + 10 + rdlen
           /\ r = [labels |-> names[at].labels, fixed |-> Octets(msg, fixed, 8),
                   rdata  |-> Octets(msg, fixed + 10, rdlen)]

RecordsWritten(msg, names, s, at, before) ==
    \A i \in 1..Len(s) : RecordWritten(msg, names, s[i], at[before + i], at[before + i + 1])

MessageWritten(msg, m, names, at) ==
    LET qd == Len(m.questions)
        an == qd + Len(m.answers)
        ns == an + Len(m.authority)
        ar == ns + Len(m.additional)
    IN  /\ m \in DnsMessage /\ Len(msg) > HeaderLen
        /\ U16At(msg, 4) = qd /\ U16At(msg, 6) = Len(m.answers)
        /\ U16At(msg, 8) = Len(m.authority) /\ U16At(msg, 10) = Len(m.additional)
        /\ NamesWritten(msg, names)
        /\ at \in [1..ar + 1 -> HeaderLen..Len(msg)] /\ at[1] = HeaderLen
        /\ \A i \in 1..qd : QuestionWritten(msg, names, m.questions[i], at[i], at[i + 1])
        /\ RecordsWritten(msg, names, m.answers, at, qd)
        /\ RecordsWritten(msg, names, m.authority, at, an)
        /\ RecordsWritten(msg, names, m.additional, at, ns)

ASSUME EncodingAssumption ==
    \A a \in Arrivals :
        a.meant # NoMessage => MessageWritten(a.wire, a.meant, a.names, a.at)

-----------------------------------------------------------------------------
(* server.go                                                               *)

Send(m) ==
    /\ sent' = m
    /\ wire' = Serialize(sent')
    /\ stage' = "sent"
    /\ UNCHANGED meant

\* fallbackResolve, for the query it passes on and the answer it passes back.
Relay ==
    /\ stage = "received"
    /\ ParseDNSMessage(wire).status = "ok"
    /\ Send(ParseDNSMessage(wire).msg)

\* An answer that cannot be parsed is dropped.
Drop ==
    /\ stage = "received"
    /\ ParseDNSMessage(wire).status = "error"
    /\ stage' = "dropped"
    /\ UNCHANGED <<wire, meant, sent>>

\* handleQuery: an answer of ours to a single question.
Answer(ip) ==
    /\ stage = "received"
    /\ LET parsed == ParseDNSMessage(wire)
       IN  /\ parsed.status = "ok"
           /\ Len(parsed.msg.questions) = 1
           /\ Send([parsed.msg EXCEPT !.answers = Append(@,
                       [labels |-> parsed.msg.questions[1].labels,
                        fixed  |-> Fixed, rdata |-> ip])])

\* fail keeps the questions, parsed to the end or not.
SendFailure ==
    /\ stage = "received"
    /\ ParseDNSMessage(wire).status # "panic"
    /\ Send([Empty EXCEPT !.questions = ParseDNSMessage(wire).msg.questions])

WireInit ==
    /\ stage = "received"
    /\ sent = Empty
    /\ \E a \in Arrivals : wire = a.wire /\ meant = a.meant

WireNext == Relay \/ Drop \/ SendFailure \/ \E ip \in Addresses : Answer(ip)

WireSpec == WireInit /\ [][WireNext]_wireVars

-----------------------------------------------------------------------------

\* No octets make the parser panic: the recursion on pointers stops at depth 5,
\* so "too deep" is never reached, whatever loops the pointers form.
ParserNeverPanics ==
    stage = "received" => ParseDNSMessage(wire).status # "panic"

\* A message another implementation encoded, with any of the compressions the
\* format allows between its names, is parsed to what was meant.
CompressionUndone ==
    stage = "received" /\ meant # NoMessage =>
        ParseDNSMessage(wire) = [status |-> "ok", msg |-> meant]

\* A label of no octets ends the name for whoever reads it.
NamesSpelled(m) ==
    /\ \A i \in DOMAIN m.questions : <<>> \notin Range(m.questions[i].labels)
    /\ \A s \in {m.answers, m.authority, m.additional} :
          \A i \in DOMAIN s : <<>> \notin Range(s[i].labels)

\* What the server sends, it would parse back to what it meant to send: the
\* parser and the serializer agree on where each name and section ends.  Left
\* out are a reply that is only a header, which the parser refuses, and a name
\* with an empty label, which it accepts behind the bits 01 and 10 and which the
\* serializer then writes as the end of the name.
SentMessagesParse ==
    stage = "sent" /\ Len(wire) > HeaderLen /\ NamesSpelled(sent) =>
        ParseDNSMessage(wire) = [status |-> "ok", msg |-> sent]
=============================================================================
