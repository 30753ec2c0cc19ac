------------------------------- MODULE MCWire -------------------------------
(***************************************************************************)
(* What arrives at the parser: every string of a few octets behind a       *)
(* header, and what another implementation may write for a few messages,   *)
(* compressing names in every way RFC 1035 allows.                         *)
(***************************************************************************)
EXTENDS DnsWire, TLC

CONSTANTS MaxOctets  \* BOUND on the octets behind the header

MCFixed == <<0, 28, 0, 1, 0, 0, 2, 88>>

MCAddresses == {<<253, 1>>}

Header(qd, an, ns, ar) == <<0, 0, 0, 0, 0, qd, 0, an, 0, ns, 0, ar>>

-----------------------------------------------------------------------------

\* Lengths that fit and do not, the end of a name, an empty label, pointers to the
\* header, to the first question and beyond the message.
Alphabet == {0, 1, 12, 13, 64, 192}

RawArrivals ==
    {[wire |-> h \o o, meant |-> NoMessage] :
        h \in {Header(1, 0, 0, 0), Header(2, 0, 0, 0)},
        o \in UNION {[1..n -> Alphabet] : n \in 0..MaxOctets}}

-----------------------------------------------------------------------------

\* s.out is written so far, s.names the names in it.  A name is k labels spelled
\* out, then the end or a pointer to the rest.
WithName(s, name) ==
    LET Spelled(k)  == FlattenSeq([i \in 1..k |-> <<Len(name[i])>> \o name[i]])
        Rest(k)     == SubSeq(name, k + 1, Len(name))
        Start(k)    == Len(s.out) + Len(Spelled(k))
        \* k labels and what ends them, after which so many pointers lead on
        Ended(k, end, pointers) ==
            [s EXCEPT !.out   = @ \o Spelled(k) \o end,
                      !.names = @ @@ [o \in {Start(j) : j \in 0..k} |->
                          Name(Rest(CHOOSE j \in 0..k : o = Start(j)), Start(k) + Len(end), pointers)]]
    IN  {Ended(Len(name), <<0>>, 0)}
        \cup UNION {{Ended(k, U16(49152 + o), s.names[o].pointers + 1) :
                        o \in {x \in DOMAIN s.names : /\ s.names[x].labels = Rest(k)
                                                      /\ s.names[x].pointers < MaxPointers}} :
                    k \in 0..Len(name) - 1}

\* Octets that are no name, behind which the next item begins.
WithFixed(s, octets) ==
    [s EXCEPT !.out = @ \o octets, !.at = Append(@, Len(s.out) + Len(octets))]

\* A record whose data is a name.
WithRecord(s, owner, target) ==
    UNION {{LET data == SubSeq(t.out, Len(r.out) + 11, Len(t.out))
            IN  [WithFixed([t EXCEPT !.out = r.out], MCFixed \o U16(Len(data)) \o data)
                    EXCEPT !.records = Append(@, [labels |-> owner, fixed |-> MCFixed,
                                                  rdata |-> data])] :
               t \in WithName([r EXCEPT !.out = @ \o [i \in 1..10 |-> 0]], target)} :
           r \in WithName(s, owner)}

\* A question behind a header.
Asked(header, name) ==
    {WithFixed(t, <<0, 28, 0, 1>>) :
        t \in WithName([out |-> header, names |-> <<>>, at |-> <<HeaderLen>>, records |-> <<>>],
                       name)}

\* What was written, with the first n records as answers, up to the m-th as authority.
Arrived(s, name, n, m) ==
    [wire  |-> s.out, names |-> s.names, at |-> s.at,
     meant |-> Sections(<<[labels |-> name, fixed |-> <<0, 28, 0, 1>>]>>,
                        SubSeq(s.records, 1, n), SubSeq(s.records, n + 1, m),
                        SubSeq(s.records, m + 1, Len(s.records)))]

\* Two labels.
aa == <<97>>
bb == <<98, 98>>

\* A question, and two records: an alias of its name and one of the alias.
WrittenArrivals ==
    LET name  == <<bb, aa>>
        alias == <<bb, bb, aa>>
        two(h) == UNION {WithRecord(r, alias, <<aa>>) :
                           r \in UNION {WithRecord(s, name, alias) : s \in Asked(h, name)}}
    IN  UNION {{Arrived(x, name, nm[1], nm[2]) :
                   x \in two(Header(1, nm[1], nm[2] - nm[1], 2 - nm[2]))} :
               nm \in {<<2, 2>>, <<1, 2>>, <<1, 1>>}}

\* A question and five answers of the same name, each a pointer to the item before:
\* one pointer behind the other, as many as the parser follows.
ChainArrivals ==
    LET answer == [labels |-> <<aa>>, fixed |-> MCFixed, rdata |-> <<7>>]
        WithAnswer(s, i) ==
            LET here == s.at[i + 1]
            IN  WithFixed([s EXCEPT !.out     = @ \o U16(49152 + s.at[i]),
                                    !.names   = @ @@ here :> Name(<<aa>>, here + 2, i),
                                    !.records = Append(@, answer)],
                          MCFixed \o U16(1) \o answer.rdata)
    IN  {Arrived(FoldLeftDomain(WithAnswer, s, [i \in 1..MaxPointers |-> i]),
                 <<aa>>, MaxPointers, MaxPointers) :
            s \in Asked(Header(1, MaxPointers, 0, 0), <<aa>>)}

MCArrivals == RawArrivals \cup WrittenArrivals \cup ChainArrivals
=============================================================================
