------------------------------ MODULE DnsServer ------------------------------
(***************************************************************************)
(* The DNS server (net/dns/server.go) and the lookup the daemon gives it   *)
(* (cmd/pikonoded/dns.go).  One goroutine reads datagrams; each query is   *)
(* handled by a goroutine of its own, which may wait for another server.   *)
(*                                                                         *)
(* The goroutines share a pool of buffers.  The labels of a parsed query   *)
(* are not copied: they alias the buffer the query came in                 *)
(* (byteSliceAsString), so they are what that buffer holds when they are   *)
(* read, while the fixed fields (ID, counts, types) are copied.            *)
(***************************************************************************)
EXTENDS Naturals

CONSTANTS
    Queries,      \* datagrams sent to the server, each by a client of its own
    MaxBufs       \* BOUND on the buffers the pool makes

ASSUME DnsAssumption == MaxBufs \in Nat

\* What a query is: shorter than a header; of a broken body; with no or many
\* questions; for a name of the suffix and an address, or another type; or for
\* a name elsewhere, as is any address to a server without Resolve.
Kinds == {"short", "broken", "many", "local", "local other", "remote"}

\* Response codes; "Answer" stands for the one another server chose.
Codes == {"FormatErr", "NXDomain", "Ok", "Answer"}

Roles == {"in", "out", "err"}

VARIABLES
    kind,     \* what each query is
    fallback, \* is Server.Fallback set?  The daemon sets it.
    names,    \* the local queries whose name is in dnsMap
    pc,       \* where the goroutine of each query is
    id,       \* the query whose ID it parsed, "none" for a short one
    code,     \* the response code it will send
    buf,      \* the buffer it holds in each role, 0 for none
    pool,     \* buffers put back
    made,     \* buffers made so far
    content,  \* the message in each buffer: whose ID, whose labels
    upstream, \* the last datagram each goroutine exchanged with the other server
    replies,  \* datagrams sent to the clients
    unsent    \* queries whose reply could not be written

vars == <<kind, fallback, names, pc, id, code, buf, pool, made, content, upstream,
          replies, unsent>>

toClients == <<replies, unsent>>

given == <<kind, fallback>>

Message == [id : Queries \cup {"none"}, labels : Queries \cup {"none"}]

Blank == [id |-> "none", labels |-> "none"]

-----------------------------------------------------------------------------

\* bbufPool.Get: a buffer put back, or a new one; then written with msg.
Get(q, role, msg) ==
    \E b \in pool \cup ({made + 1} \cap 1..MaxBufs) :
        /\ pool' = pool \ {b}
        /\ made' = IF b \in pool THEN made ELSE made + 1
        /\ buf' = [buf EXCEPT ![q][role] = b]
        /\ content' = [content EXCEPT ![b] = msg]

Goto(q, label) == pc' = [pc EXCEPT ![q] = label]

\* What q's message serializes to now.
Serialized(q) ==
    [id     |-> id[q],
     labels |-> IF id[q] = "none" THEN "none" ELSE content[buf[q]["in"]].labels]

Held(q) == {buf[q][role] : role \in Roles} \ {0}

-----------------------------------------------------------------------------

\* A faulty listener: the query is handled before the next one is read.
BugOneAtATime(q) ==
    /\ pc[q] = "flight"
    /\ \A p \in Queries : pc[p] \in {"flight", "done"}
    /\ Get(q, "in", [id |-> q, labels |-> q])
    /\ Goto(q, "parse")
    /\ UNCHANGED <<given, names, id, code, upstream, toClients>>

\* Listen: copy the datagram into a buffer of its own, start a goroutine.
Receive(q) ==
    /\ pc[q] = "flight"
    /\ Get(q, "in", [id |-> q, labels |-> q])
    /\ Goto(q, "parse")
    /\ UNCHANGED <<given, names, id, code, upstream, toClients>>

\* A faulty goroutine: the buffer is put back once the query is parsed.
BugPutsEarly(q) ==
    /\ pc[q] = "parse"
    /\ id' = [id EXCEPT ![q] = content[buf[q]["in"]].id]
    /\ pool' = pool \cup {buf[q]["in"]}
    /\ Goto(q, IF kind[q] \in {"short", "broken"} THEN "fail" ELSE "handle")
    /\ code' = [code EXCEPT ![q] = "FormatErr"]
    /\ UNCHANGED <<given, names, buf, made, content, upstream, toClients>>

\* parseDNSMessage; an error is answered with what was parsed before it.
Parse(q) ==
    /\ pc[q] = "parse"
    /\ id' = [id EXCEPT ![q] = IF kind[q] = "short" THEN "none"
                                                   ELSE content[buf[q]["in"]].id]
    /\ Goto(q, IF kind[q] \in {"short", "broken"} THEN "fail" ELSE "handle")
    /\ code' = [code EXCEPT ![q] = "FormatErr"]
    /\ UNCHANGED <<given, names, buf, pool, made, content, upstream, toClients>>

\* handleQuery up to its first call that may wait.
HandleQuery(q) ==
    /\ pc[q] = "handle"
    /\ \/ kind[q] = "many" /\ Goto(q, "fail") /\ UNCHANGED code
       \/ kind[q] = "local other" /\ Goto(q, "fail") /\ code' = [code EXCEPT ![q] = "Ok"]
       \/ /\ kind[q] = "remote" /\ ~fallback
          /\ Goto(q, "fail") /\ code' = [code EXCEPT ![q] = "NXDomain"]
       \/ kind[q] = "remote" /\ fallback /\ Goto(q, "fallback") /\ UNCHANGED code
       \/ kind[q] = "local" /\ Goto(q, "resolve") /\ UNCHANGED code
    /\ UNCHANGED <<given, names, id, buf, pool, made, content, upstream, toClients>>

\* Resolve looks the last label up under dnsMut.  The buffer for the answer is
\* taken before, and kept while fail takes another.
Resolve(q) ==
    /\ pc[q] = "resolve"
    /\ IF q \in names
       THEN Get(q, "out", Serialized(q)) /\ Goto(q, "reply") /\ code' = [code EXCEPT ![q] = "Ok"]
       ELSE Get(q, "out", Blank) /\ Goto(q, "fail") /\ code' = [code EXCEPT ![q] = "NXDomain"]
    /\ UNCHANGED <<given, names, id, upstream, toClients>>

\* fail serializes the header and the questions.
Fail(q) ==
    /\ pc[q] = "fail"
    /\ Get(q, "err", Serialized(q))
    /\ Goto(q, "reply")
    /\ UNCHANGED <<given, names, id, code, upstream, toClients>>

\* fallbackResolve serializes the query, dials and writes; or cannot dial.
Ask(q) ==
    /\ pc[q] = "fallback"
    /\ Get(q, "out", Serialized(q))
    /\ \/ Goto(q, "read") /\ upstream' = [upstream EXCEPT ![q] = Serialized(q)]
       \/ Goto(q, "return") /\ UNCHANGED upstream
    /\ UNCHANGED <<given, names, id, code, toClients>>

\* The answer of the other server is put in the same buffer, whatever ID and
\* question it carries: only that it can be parsed is asked of it.
TakeAnswer(q) ==
    /\ pc[q] = "read"
    /\ \E m \in Message :
          /\ upstream' = [upstream EXCEPT ![q] = m]
          /\ content' = [content EXCEPT ![buf[q]["out"]] = m]
    /\ Goto(q, "reply")
    /\ code' = [code EXCEPT ![q] = "Answer"]
    /\ UNCHANGED <<given, names, id, buf, pool, made, toClients>>

\* The read fails, or the answer cannot be parsed.
NoAnswer(q) ==
    /\ pc[q] = "read"
    /\ Goto(q, "return")
    /\ UNCHANGED <<given, names, id, code, buf, pool, made, content, upstream, toClients>>

\* A faulty reply: the buffers are put back here and once more on return.
BugPutsTwice(q) ==
    /\ pc[q] = "reply"
    /\ pool' = pool \cup Held(q)
    /\ Goto(q, "return")
    /\ UNCHANGED <<given, names, id, code, buf, made, content, upstream, toClients>>

\* WriteTo the client what the buffer holds.
Reply(q) ==
    /\ pc[q] = "reply"
    /\ LET reply == IF buf[q]["err"] # 0 THEN buf[q]["err"] ELSE buf[q]["out"]
       IN  replies' = replies \cup
               {[to |-> q, id |-> content[reply].id, labels |-> content[reply].labels,
                 code |-> code[q]]}
    /\ Goto(q, "return")
    /\ UNCHANGED <<given, names, id, code, buf, pool, made, content, upstream, unsent>>

\* WriteTo fails; nobody looks at its error.
ReplyFails(q) ==
    /\ pc[q] = "reply"
    /\ unsent' = unsent \cup {q}
    /\ Goto(q, "return")
    /\ UNCHANGED <<given, names, id, code, buf, pool, made, content, upstream, replies>>

\* The deferred calls put the buffers back.
Return(q) ==
    /\ pc[q] = "return"
    /\ pool' = pool \cup Held(q)
    /\ buf' = [buf EXCEPT ![q] = [role \in Roles |-> 0]]
    /\ Goto(q, "done")
    /\ UNCHANGED <<given, names, id, code, made, content, upstream, toClients>>

\* dnsUpdatePeers enters a name; it never deletes one.
LearnName(q) ==
    /\ kind[q] = "local"
    /\ q \notin names
    /\ names' = names \cup {q}
    /\ UNCHANGED <<given, pc, id, code, buf, pool, made, content, upstream, toClients>>

-----------------------------------------------------------------------------

Init ==
    /\ kind \in [Queries -> Kinds]
    /\ fallback \in BOOLEAN
    /\ names = {}
    /\ pc = [q \in Queries |-> "flight"]
    /\ id = [q \in Queries |-> "none"]
    /\ code = [q \in Queries |-> "Ok"]
    /\ buf = [q \in Queries |-> [role \in Roles |-> 0]]
    /\ pool = {}
    /\ made = 0
    /\ content = [b \in 1..MaxBufs |-> Blank]
    /\ upstream = [q \in Queries |-> Blank]
    /\ replies = {}
    /\ unsent = {}

\* The steps of a goroutine that wait for nobody.
Handle(q) ==
    \/ Parse(q) \/ HandleQuery(q) \/ Resolve(q) \/ Fail(q) \/ Ask(q)
    \/ Reply(q) \/ ReplyFails(q) \/ Return(q)

Next ==
    \E q \in Queries :
        Receive(q) \/ Handle(q) \/ TakeAnswer(q) \/ NoAnswer(q) \/ LearnName(q)

Spec == Init /\ [][Next]_vars

\* The listener and the goroutines run; the other server need not answer.
Fairness == \A q \in Queries : WF_vars(Receive(q)) /\ WF_vars(Handle(q))

FairSpec == Spec /\ Fairness

-----------------------------------------------------------------------------

\* Types, and the ownership of the buffers: one is held by one goroutine in
\* one role, or in the pool.
DnsTypeOK ==
    /\ kind \in [Queries -> Kinds] /\ fallback \in BOOLEAN /\ names \subseteq Queries
    /\ id \in [Queries -> Queries \cup {"none"}] /\ code \in [Queries -> Codes]
    /\ buf \in [Queries -> [Roles -> 0..made]]
    /\ made \in 0..MaxBufs /\ pool \subseteq 1..made
    /\ content \in [1..MaxBufs -> Message] /\ upstream \in [Queries -> Message]
    /\ unsent \subseteq Queries
    /\ \A q \in Queries : Held(q) \cap pool = {}
    /\ \A q, p \in Queries : \A r, s \in Roles :
          buf[q][r] # 0 /\ buf[q][r] = buf[p][s] => <<q, r>> = <<p, s>>

\* What a query and its answer carry; one too short for a header carries nothing.
OwnId(q) == IF kind[q] = "short" THEN "none" ELSE q

OwnMessage(q) == [id |-> OwnId(q), labels |-> OwnId(q)]

\* However the goroutines interleave and the buffers are reused, what the other
\* server is asked is the client's query; what the client receives carries the ID
\* and the labels of its query, or is what the other server sent to the socket of
\* that query, be that an answer to it or not; and it receives one reply.
RepliesMatchQueries ==
    /\ \A q \in Queries : pc[q] = "read" => upstream[q] = OwnMessage(q)
    /\ \A r \in replies :
          [id |-> r.id, labels |-> r.labels] =
              IF r.code = "Answer" THEN upstream[r.to] ELSE OwnMessage(r.to)
    /\ \A r, s \in replies : r.to = s.to => r = s

\* What another server is not needed for: all but names elsewhere, unless there is
\* no other server, and names of the suffix that are not known.
Settled(q) ==
    /\ kind[q] # "remote" \/ ~fallback
    /\ kind[q] # "local" \/ q \in names

\* Such a query is answered, or the write of its answer fails, though others may wait
\* for a server that never answers: fallbackResolve sets no deadline.
OthersNotHeldUp ==
    \A q \in Queries : Settled(q) ~> q \in unsent \/ \E r \in replies : r.to = q

\* "Fallback is used when a Pikonet address returns no results" (Server.Fallback), and
\* "fallbackResolve attempts to resolve the DNS query using the fallback resolvers.
\* Otherwise, it returns NXDOMAIN": while there is another server, a query for an
\* address ends with an answer, unless its write failed, and with our NXDOMAIN only
\* once the other server was asked.  One whose dial or read fails, or whose answer
\* cannot be parsed, ends without a reply, and a name of the suffix that is not known
\* gets NXDOMAIN at once.
FallbackAsDocumented ==
    \A q \in Queries :
        fallback /\ pc[q] = "done" /\ kind[q] \in {"local", "remote"} /\ q \notin unsent =>
            \E r \in replies :
                r.to = q /\ (r.code = "NXDomain" => upstream[q] # Blank)
=============================================================================
