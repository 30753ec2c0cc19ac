------------------------------ MODULE DnsProofs -----------------------------
(***************************************************************************)
(* The DNS server (module DnsServer) mixes up no two queries, for every    *)
(* number of clients, whatever they ask and however its goroutines         *)
(* interleave and share the pool of buffers; the names it looks up (module *)
(* DnsMap) lead to the devices that have them, whatever their names share; *)
(* and its parser (module DnsWire) returns on every message a buffer can   *)
(* hold, panics on none, and reads what the serializer writes.             *)
(***************************************************************************)
EXTENDS DnsServer, DnsMap, DnsWire, SequenceTheorems, WellFoundedInduction, TLAPS

-----------------------------------------------------------------------------
(* The buffers                                                             *)

\* A buffer is held by one goroutine in one role, or sits in the pool.
BufsOK ==
    /\ buf \in [Queries -> [Roles -> 0..made]]
    /\ made \in 0..MaxBufs /\ pool \subseteq 1..made
    /\ content \in [1..MaxBufs -> Message]
    /\ \A q \in Queries, r \in Roles : buf[q][r] \notin pool
    /\ \A q, p \in Queries : \A r, s \in Roles :
          buf[q][r] # 0 /\ buf[q][r] = buf[p][s] => <<q, r>> = <<p, s>>

\* Get gives a buffer nobody holds, and touches no other.
LEMMA GetGives ==
    ASSUME BufsOK, NEW q \in Queries, NEW role \in Roles, NEW msg \in Message,
           buf[q][role] = 0, Get(q, role, msg)
    PROVE  /\ BufsOK'
           /\ buf'[q][role] # 0 /\ content'[buf'[q][role]] = msg
           /\ \A p \in Queries, r \in Roles : <<p, r>> # <<q, role>> => buf'[p][r] = buf[p][r]
           /\ \A p \in Queries, r \in Roles :
                 buf[p][r] # 0 => content'[buf[p][r]] = content[buf[p][r]]
<1>1. PICK b \in pool \cup ({made + 1} \cap 1..MaxBufs) :
          /\ pool' = pool \ {b}
          /\ made' = IF b \in pool THEN made ELSE made + 1
          /\ buf' = [buf EXCEPT ![q][role] = b]
          /\ content' = [content EXCEPT ![b] = msg]
  BY DEF Get
<1>2. made \in Nat /\ pool \subseteq 1..made /\ MaxBufs \in Nat
      /\ buf \in [Queries -> [Roles -> 0..made]]
  BY DnsAssumption DEF BufsOK
<1>3. /\ b \in 1..MaxBufs /\ b \in 1..made'
      /\ made' \in 0..MaxBufs /\ made <= made' /\ pool' \subseteq 1..made'
  BY <1>1, <1>2 DEF BufsOK
<1>4. \A p \in Queries, r \in Roles : buf[p][r] # b /\ buf[p][r] \in 0..made'
  BY <1>1, <1>2, <1>3 DEF BufsOK
<1>5. /\ buf' \in [Queries -> [Roles -> 0..made']]
      /\ buf'[q][role] = b
      /\ \A p \in Queries, r \in Roles : <<p, r>> # <<q, role>> => buf'[p][r] = buf[p][r]
  BY <1>1, <1>2, <1>3, <1>4
<1>6. /\ content' \in [1..MaxBufs -> Message] /\ content'[b] = msg
      /\ \A p \in Queries, r \in Roles :
            buf[p][r] # 0 => content'[buf[p][r]] = content[buf[p][r]]
  BY <1>1, <1>2, <1>3, <1>4 DEF BufsOK
<1>7. \A p \in Queries, r \in Roles : buf'[p][r] \notin pool'
  BY <1>1, <1>5 DEF BufsOK
<1>8. \A p1, p2 \in Queries : \A r, s \in Roles :
          buf'[p1][r] # 0 /\ buf'[p1][r] = buf'[p2][s] => <<p1, r>> = <<p2, s>>
  <2> SUFFICES ASSUME NEW p1 \in Queries, NEW p2 \in Queries, NEW r \in Roles, NEW s \in Roles,
                      buf'[p1][r] # 0, buf'[p1][r] = buf'[p2][s]
               PROVE  <<p1, r>> = <<p2, s>>
    OBVIOUS
  <2>1. CASE <<p1, r>> = <<q, role>>
    BY <1>4, <1>5, <2>1
  <2>2. CASE <<p2, s>> = <<q, role>>
    BY <1>4, <1>5, <2>2
  <2>3. CASE <<p1, r>> # <<q, role>> /\ <<p2, s>> # <<q, role>>
    BY <1>5, <2>3, SMTT(30) DEF BufsOK
  <2> QED
    BY <2>1, <2>2, <2>3
<1>9. BufsOK'
  BY <1>3, <1>5, <1>6, <1>7, <1>8 DEF BufsOK
<1> QED
  BY <1>3, <1>5, <1>6, <1>9

-----------------------------------------------------------------------------
(* The invariant                                                           *)

Labels == {"flight", "parse", "handle", "resolve", "fallback", "read", "fail", "reply",
           "return", "done"}

\* The buffer the query came in keeps it until the goroutine returns; the others
\* are taken where the code takes them.
Kept(q) ==
    /\ pc[q] = "flight" => \A r \in Roles : buf[q][r] = 0
    /\ pc[q] \notin {"flight", "done"} =>
          buf[q]["in"] # 0 /\ content[buf[q]["in"]] = [id |-> q, labels |-> q]
    /\ pc[q] \in {"parse", "handle", "resolve", "fallback"} => buf[q]["out"] = 0
    /\ pc[q] \notin {"reply", "return"} => buf[q]["err"] = 0
    /\ pc[q] \notin {"flight", "parse"} => id[q] = OwnId(q)
    /\ pc[q] \notin {"reply", "return", "done"} => code[q] # "Answer"

\* What belongs in the reply to q: what the other server sent, if it was asked.
Due(q) == IF code[q] = "Answer" THEN upstream[q] ELSE OwnMessage(q)

\* What the goroutine has asked is its own query, what it is going to send is due.
Ready(q) ==
    /\ pc[q] = "read" => buf[q]["out"] # 0 /\ upstream[q] = OwnMessage(q)
    /\ pc[q] = "reply" =>
          IF buf[q]["err"] # 0 THEN content[buf[q]["err"]] = Due(q)
          ELSE buf[q]["out"] # 0 /\ content[buf[q]["out"]] = Due(q)

\* A reply is its client's, and the last thing its goroutine does.
RepliesOwn ==
    /\ \A r \in replies : /\ r.to \in Queries /\ r.code = code[r.to]
                          /\ [id |-> r.id, labels |-> r.labels] = Due(r.to)
    /\ \A r \in replies : pc[r.to] \in {"return", "done"}
    /\ \A r, s \in replies : r.to = s.to => r = s

DnsInv ==
    /\ kind \in [Queries -> Kinds] /\ fallback \in BOOLEAN /\ names \subseteq Queries
    /\ id \in [Queries -> Queries \cup {"none"}]
    /\ pc \in [Queries -> Labels] /\ code \in [Queries -> Codes]
    /\ upstream \in [Queries -> Message] /\ unsent \subseteq Queries
    /\ BufsOK
    /\ \A q \in Queries : Kept(q) /\ Ready(q)
    /\ RepliesOwn

LEMMA DnsInitInv == Init => DnsInv
<1> SUFFICES ASSUME Init PROVE DnsInv
  OBVIOUS
<1> USE DEF Init
<1>1. Blank \in Message
  BY DEF Blank, Message
<1>2. buf \in [Queries -> [Roles -> 0..made]] /\ made \in 0..MaxBufs
      /\ \A q \in Queries, r \in Roles : buf[q][r] = 0
  BY DnsAssumption
<1>3. BufsOK
  BY <1>1, <1>2 DEF BufsOK
<1>a. \A q \in Queries : pc[q] = "flight" /\ code[q] = "Ok"
  OBVIOUS
<1>4. \A q \in Queries : Kept(q) /\ Ready(q)
  BY <1>2, <1>a DEF Kept, Ready, Roles
<1>5. RepliesOwn
  BY DEF RepliesOwn
<1>6. code \in [Queries -> Codes] /\ upstream \in [Queries -> Message]
  BY <1>1 DEF Codes
<1> QED
  BY <1>3, <1>4, <1>5, <1>6 DEF DnsInv, Labels

-----------------------------------------------------------------------------
(* The steps                                                               *)

\* What q's message serializes to is its own, from the parse to the return.
LEMMA SerializedOwn ==
    ASSUME DnsInv, NEW q \in Queries, pc[q] \notin {"flight", "parse", "return", "done"}
    PROVE  Serialized(q) = OwnMessage(q) /\ Serialized(q) \in Message
<1>0. Kept(q)
  BY DEF DnsInv
<1>1. id[q] = OwnId(q) /\ content[buf[q]["in"]] = [id |-> q, labels |-> q]
  BY <1>0 DEF Kept
<1>2. OwnId(q) \in Queries \cup {"none"} /\ (OwnId(q) = "none" \/ OwnId(q) = q)
  BY DEF OwnId
<1>3. Serialized(q) = OwnMessage(q)
  BY <1>1, <1>2 DEF Serialized, OwnMessage
<1> QED
  BY <1>2, <1>3 DEF OwnMessage, Message

\* What a step leaves of a goroutine it is not of.
Untouched(p) ==
    /\ pc'[p] = pc[p] /\ id'[p] = id[p]
    /\ code'[p] = code[p] /\ upstream'[p] = upstream[p]
    /\ \A r \in Roles : /\ buf'[p][r] = buf[p][r]
                        /\ buf[p][r] # 0 => content'[buf[p][r]] = content[buf[p][r]]

LEMMA UntouchedKept ==
    ASSUME DnsInv, UNCHANGED kind, NEW p \in Queries, Untouched(p)
    PROVE  Kept(p)' /\ Ready(p)'
<1>1. {"in", "out", "err"} = Roles /\ Kept(p) /\ Ready(p)
  BY DEF Roles, DnsInv
<1>2. OwnId(p)' = OwnId(p) /\ OwnMessage(p)' = OwnMessage(p)
  BY DEF OwnId, OwnMessage
<1>3. Kept(p)'
  BY <1>1, <1>2 DEF Kept, Untouched
<1>4. Ready(p)'
  BY <1>1, <1>2 DEF Ready, Due, Untouched
<1> QED
  BY <1>3, <1>4

\* A step of q that sends nothing.
LEMMA StepInv ==
    ASSUME DnsInv, NEW q \in Queries, NEW label \in Labels, Goto(q, label),
           UNCHANGED <<kind, fallback, names, toClients>>,
           id' \in [Queries -> Queries \cup {"none"}],
           code' \in [Queries -> Codes], upstream' \in [Queries -> Message],
           BufsOK',
           \A p \in Queries \ {q} :
              id'[p] = id[p] /\ code'[p] = code[p] /\ upstream'[p] = upstream[p],
           \A p \in Queries \ {q}, r \in Roles :
              /\ buf'[p][r] = buf[p][r]
              /\ buf[p][r] # 0 => content'[buf[p][r]] = content[buf[p][r]],
           pc[q] \in {"return", "done"} =>
              label \in {"return", "done"} /\ code'[q] = code[q] /\ upstream'[q] = upstream[q],
           pc'[q] = label => Kept(q)' /\ Ready(q)'
    PROVE  DnsInv'
<1>1. /\ pc' \in [Queries -> Labels] /\ pc'[q] = label
      /\ \A p \in Queries \ {q} : pc'[p] = pc[p]
  BY DEF Goto, DnsInv
<1>2. \A p \in Queries \ {q} : Untouched(p)
  BY <1>1 DEF Untouched
<1>3. \A p \in Queries : Kept(p)' /\ Ready(p)'
  BY <1>1, <1>2, UntouchedKept
<1>4. \A p \in Queries : OwnMessage(p)' = OwnMessage(p)
  BY DEF OwnId, OwnMessage
<1>5. \A p \in Queries : pc[p] \in {"return", "done"} =>
          /\ pc'[p] \in {"return", "done"}
          /\ code'[p] = code[p] /\ upstream'[p] = upstream[p] /\ Due(p)' = Due(p)
  BY <1>1, <1>4 DEF Due
<1>6. RepliesOwn'
  <2>1. replies' = replies /\ RepliesOwn
    BY DEF toClients, DnsInv
  <2>2. ASSUME NEW r \in replies
        PROVE  /\ r.to \in Queries /\ pc'[r.to] \in {"return", "done"}
               /\ r.code = code'[r.to]
               /\ [id |-> r.id, labels |-> r.labels] = Due(r.to)'
    <3>1. /\ r.to \in Queries /\ pc[r.to] \in {"return", "done"}
          /\ r.code = code[r.to]
          /\ [id |-> r.id, labels |-> r.labels] = Due(r.to)
      BY <2>1, <2>2 DEF RepliesOwn
    <3> QED
      BY <1>5, <3>1
  <2>3. \A r, s \in replies : r.to = s.to => r = s
    BY <2>1 DEF RepliesOwn
  <2>4. (\A r \in replies : /\ r.to \in Queries /\ r.code = code[r.to]
                            /\ [id |-> r.id, labels |-> r.labels] = Due(r.to))'
    BY <2>1, <2>2
  <2>5. (\A r \in replies : pc[r.to] \in {"return", "done"})'
    BY <2>1, <2>2
  <2> QED
    BY <2>1, <2>3, <2>4, <2>5 DEF RepliesOwn
<1> QED
  BY <1>1, <1>3, <1>6 DEF DnsInv, toClients

LEMMA DnsStepInv ==
    ASSUME DnsInv, NEW q \in Queries, Receive(q) \/ Handle(q) \/ TakeAnswer(q) \/ NoAnswer(q)
    PROVE  DnsInv'
<1> USE DEF given
<1>0. /\ BufsOK /\ Kept(q) /\ Ready(q) /\ Roles = {"in", "out", "err"}
      /\ id \in [Queries -> Queries \cup {"none"}]
      /\ code \in [Queries -> Codes] /\ upstream \in [Queries -> Message]
      /\ \A label \in Labels : Goto(q, label) => pc'[q] = label
  BY DEF DnsInv, Roles, Goto
<1>o. kind' = kind => OwnId(q)' = OwnId(q) /\ OwnMessage(q)' = OwnMessage(q)
  BY DEF OwnId, OwnMessage
<1>m. [id |-> q, labels |-> q] \in Message /\ Blank \in Message
      /\ OwnId(q) \in Queries \cup {"none"}
  BY DEF Message, Blank, OwnId
<1>c. ASSUME NEW c \in Codes, code' = [code EXCEPT ![q] = c]
      PROVE  /\ code' \in [Queries -> Codes] /\ code'[q] = c
             /\ \A p \in Queries \ {q} : code'[p] = code[p]
  BY <1>0, <1>c
<1>same. ASSUME UNCHANGED <<buf, pool, made, content>>
         PROVE  BufsOK'
  BY <1>0, <1>same DEF BufsOK
<1>1. CASE Receive(q)
  <2>1. pc[q] = "flight" /\ buf[q]["in"] = 0 /\ Get(q, "in", [id |-> q, labels |-> q])
    BY <1>0, <1>1 DEF Receive, Kept
  <2>2. /\ BufsOK'
        /\ buf'[q]["in"] # 0 /\ content'[buf'[q]["in"]] = [id |-> q, labels |-> q]
        /\ \A p \in Queries, r \in Roles : <<p, r>> # <<q, "in">> => buf'[p][r] = buf[p][r]
        /\ \A p \in Queries, r \in Roles :
              buf[p][r] # 0 => content'[buf[p][r]] = content[buf[p][r]]
    BY <1>0, <1>m, <2>1, GetGives
  <2>3. Goto(q, "parse") /\ UNCHANGED <<kind, fallback, names, toClients, id, code, upstream>>
        /\ "parse" \in Labels
    BY <1>1 DEF Receive, Labels
  <2>4. pc'[q] = "parse" => Kept(q)' /\ Ready(q)'
    BY <1>0, <2>1, <2>2, <2>3 DEF Kept, Ready
  <2> QED
    BY <1>0, <2>1, <2>2, <2>3, <2>4, StepInv
<1>2. CASE Parse(q)
  <2>1. PICK label \in {"fail", "handle"} : Goto(q, label)
    BY <1>2 DEF Parse
  <2>2. UNCHANGED <<kind, fallback, names, toClients, buf, pool, made, content, upstream>>
        /\ pc[q] = "parse" /\ code' = [code EXCEPT ![q] = "FormatErr"]
        /\ id' = [id EXCEPT ![q] = IF kind[q] = "short" THEN "none"
                                                       ELSE content[buf[q]["in"]].id]
    BY <1>2 DEF Parse
  <2>3. content[buf[q]["in"]] = [id |-> q, labels |-> q]
    BY <1>0, <2>2 DEF Kept
  <2>4. id' = [id EXCEPT ![q] = OwnId(q)]
    BY <2>2, <2>3 DEF OwnId
  <2>5. id'[q] = OwnId(q) /\ id' \in [Queries -> Queries \cup {"none"}]
        /\ \A p \in Queries \ {q} : id'[p] = id[p]
    BY <1>0, <1>m, <2>4
  <2>c. /\ code' \in [Queries -> Codes] /\ code'[q] = "FormatErr"
        /\ \A p \in Queries \ {q} : code'[p] = code[p]
    BY <1>c, <2>2 DEF Codes
  <2>6. pc'[q] = label => Kept(q)' /\ Ready(q)'
    BY <1>0, <1>o, <2>1, <2>2, <2>5, <2>c DEF Kept, Ready
  <2>7. label \in Labels
    BY <2>1 DEF Labels
  <2> QED
    BY <1>0, <1>same, <2>1, <2>2, <2>5, <2>c, <2>6, <2>7, StepInv
<1>3. ASSUME NEW label \in {"fail", "fallback", "resolve", "return"}, Goto(q, label),
             UNCHANGED <<kind, fallback, names, toClients, id, buf, pool, made, content, upstream>>,
             NEW c \in Codes \ {"Answer"}, code' = [code EXCEPT ![q] = c],
             \/ pc[q] = "handle" /\ label \in {"fail", "fallback", "resolve"}
             \/ pc[q] = "read" /\ label = "return"
      PROVE  DnsInv'
  <2>1. label \in Labels
    BY <1>3 DEF Labels
  <2>2. /\ code' \in [Queries -> Codes] /\ code'[q] # "Answer"
        /\ \A p \in Queries \ {q} : code'[p] = code[p]
    BY <1>c, <1>3
  <2>3. pc'[q] = label => Kept(q)' /\ Ready(q)'
    BY <1>0, <1>o, <1>3, <2>2 DEF Kept, Ready
  <2> QED
    BY <1>0, <1>same, <1>3, <2>1, <2>2, <2>3, StepInv
<1>h. ASSUME pc[q] \in {"handle", "read"}, UNCHANGED code
      PROVE  \E c \in Codes \ {"Answer"} : code' = [code EXCEPT ![q] = c]
  <2>1. code[q] \in Codes \ {"Answer"} /\ code = [code EXCEPT ![q] = code[q]]
    BY <1>0, <1>h DEF Kept
  <2> QED
    BY <1>h, <2>1
<1>4. CASE HandleQuery(q)
  <2>1. /\ pc[q] = "handle"
        /\ UNCHANGED <<kind, fallback, names, toClients, id, buf, pool, made, content, upstream>>
    BY <1>4 DEF HandleQuery
  <2>2. \/ Goto(q, "fail") /\ code' = [code EXCEPT ![q] = "Ok"]
        \/ Goto(q, "fail") /\ code' = [code EXCEPT ![q] = "NXDomain"]
        \/ (Goto(q, "fail") \/ Goto(q, "fallback") \/ Goto(q, "resolve")) /\ UNCHANGED code
    BY <1>4 DEF HandleQuery
  <2>3. \E c \in Codes \ {"Answer"} : code' = [code EXCEPT ![q] = c]
    BY <1>h, <2>1, <2>2 DEF Codes
  <2>4. PICK label \in {"fail", "fallback", "resolve"} : Goto(q, label)
    BY <2>2
  <2> QED
    BY <1>3, <2>1, <2>3, <2>4
<1>n. CASE NoAnswer(q)
  <2>1. /\ pc[q] = "read" /\ Goto(q, "return")
        /\ UNCHANGED <<kind, fallback, names, toClients, id, code, buf, pool, made, content, upstream>>
    BY <1>n DEF NoAnswer
  <2>2. \E c \in Codes \ {"Answer"} : code' = [code EXCEPT ![q] = c]
    BY <1>h, <2>1
  <2> QED
    BY <1>3, <2>1, <2>2
<1>t. CASE TakeAnswer(q)
  <2>1. pc[q] = "read" /\ buf[q]["out"] # 0 /\ buf[q]["err"] = 0 /\ buf[q]["in"] # 0
    BY <1>0, <1>t DEF TakeAnswer, Kept, Ready
  <2> DEFINE b == buf[q]["out"]
  <2>2. PICK m \in Message : /\ upstream' = [upstream EXCEPT ![q] = m]
                             /\ content' = [content EXCEPT ![b] = m]
    BY <1>t DEF TakeAnswer
  <2>3. /\ Goto(q, "reply") /\ "reply" \in Labels
        /\ code' = [code EXCEPT ![q] = "Answer"]
        /\ UNCHANGED <<kind, fallback, names, toClients, id, buf, pool, made>>
    BY <1>t DEF TakeAnswer, Labels
  <2>4. b \in 1..MaxBufs
    BY <1>0, <2>1, DnsAssumption DEF BufsOK
  <2>5. /\ content' \in [1..MaxBufs -> Message] /\ content'[b] = m
        /\ \A p \in Queries, r \in Roles :
              <<p, r>> # <<q, "out">> /\ buf[p][r] # 0 =>
                 content'[buf[p][r]] = content[buf[p][r]]
    <3>1. content \in [1..MaxBufs -> Message]
      BY <1>0 DEF BufsOK
    <3>2. \A p \in Queries, r \in Roles :
             <<p, r>> # <<q, "out">> /\ buf[p][r] # 0 => buf[p][r] # b
      BY <1>0, <2>1 DEF BufsOK
    <3>3. \A p \in Queries, r \in Roles : buf[p][r] # 0 => buf[p][r] \in 1..MaxBufs
      BY <1>0, DnsAssumption DEF BufsOK
    <3> HIDE DEF b
    <3> QED
      BY <2>2, <2>4, <3>1, <3>2, <3>3
  <2>6. BufsOK'
    BY <1>0, <2>3, <2>5 DEF BufsOK
  <2>7. /\ code' \in [Queries -> Codes] /\ code'[q] = "Answer"
        /\ upstream' \in [Queries -> Message] /\ upstream'[q] = m
        /\ \A p \in Queries \ {q} : code'[p] = code[p] /\ upstream'[p] = upstream[p]
    BY <1>0, <1>c, <2>2, <2>3 DEF Codes
  <2>8. pc'[q] = "reply" => Kept(q)' /\ Ready(q)'
    BY <1>0, <1>o, <2>1, <2>3, <2>5, <2>7 DEF Kept, Ready, Due
  <2> QED
    BY <1>0, <2>1, <2>3, <2>5, <2>6, <2>7, <2>8, StepInv
<1>5. ASSUME NEW role \in {"out", "err"}, NEW msg \in Message, Get(q, role, msg),
             NEW label \in {"reply", "fail", "read", "return"}, Goto(q, label),
             UNCHANGED <<kind, fallback, names, toClients, id>>,
             NEW c \in Codes \ {"Answer"}, code' = [code EXCEPT ![q] = c],
             upstream' \in [Queries -> Message],
             \A p \in Queries \ {q} : upstream'[p] = upstream[p],
             label = "read" => upstream'[q] = OwnMessage(q),
             buf[q][role] = 0,
             pc[q] \in {"resolve", "fail", "fallback"},
             role = "err" => label = "reply",
             role = "out" => buf[q]["err"] = 0,
             label = "reply" => msg = OwnMessage(q)
      PROVE  DnsInv'
  <2>1. /\ BufsOK'
        /\ buf'[q][role] # 0 /\ content'[buf'[q][role]] = msg
        /\ \A p \in Queries, r \in Roles : <<p, r>> # <<q, role>> => buf'[p][r] = buf[p][r]
        /\ \A p \in Queries, r \in Roles :
              buf[p][r] # 0 => content'[buf[p][r]] = content[buf[p][r]]
    BY <1>0, <1>5, GetGives
  <2>c. /\ code' \in [Queries -> Codes] /\ code'[q] # "Answer"
        /\ \A p \in Queries \ {q} : code'[p] = code[p]
    BY <1>c, <1>5
  <2>2. pc'[q] = label => Kept(q)' /\ Ready(q)'
    BY <1>0, <1>o, <1>5, <2>1, <2>c DEF Kept, Ready, Due
  <2>3. label \in Labels
    BY <1>5 DEF Labels
  <2> QED
    BY <1>0, <1>5, <2>1, <2>c, <2>2, <2>3, StepInv
<1>u. ASSUME UNCHANGED code, pc[q] \in {"fail", "fallback"}
      PROVE  \E c \in Codes \ {"Answer"} : code' = [code EXCEPT ![q] = c]
  <2>1. code[q] \in Codes \ {"Answer"} /\ code = [code EXCEPT ![q] = code[q]]
    BY <1>0, <1>u DEF Kept
  <2> QED
    BY <1>u, <2>1
<1>6. CASE Resolve(q)
  <2>1. pc[q] = "resolve" /\ buf[q]["out"] = 0 /\ buf[q]["err"] = 0
    BY <1>0, <1>6 DEF Resolve, Kept
  <2>2. Serialized(q) = OwnMessage(q) /\ Serialized(q) \in Message
    BY <2>1, SerializedOwn
  <2>3. UNCHANGED <<kind, fallback, names, toClients, id, upstream>>
    BY <1>6 DEF Resolve
  <2>4. CASE q \in names
    <3>1. /\ Get(q, "out", Serialized(q)) /\ Goto(q, "reply")
          /\ code' = [code EXCEPT ![q] = "Ok"] /\ "Ok" \in Codes \ {"Answer"}
      BY <1>6, <2>4 DEF Resolve, Codes
    <3> QED
      BY <1>0, <1>5, <2>1, <2>2, <2>3, <3>1
  <2>5. CASE q \notin names
    <3>1. /\ Get(q, "out", Blank) /\ Goto(q, "fail")
          /\ code' = [code EXCEPT ![q] = "NXDomain"] /\ "NXDomain" \in Codes \ {"Answer"}
      BY <1>6, <2>5 DEF Resolve, Codes
    <3> QED
      BY <1>0, <1>5, <1>m, <2>1, <2>3, <3>1
  <2> QED
    BY <2>4, <2>5
<1>7. CASE Fail(q)
  <2>1. pc[q] = "fail" /\ buf[q]["err"] = 0
    BY <1>0, <1>7 DEF Fail, Kept
  <2>2. Serialized(q) = OwnMessage(q) /\ Serialized(q) \in Message
    BY <2>1, SerializedOwn
  <2>3. /\ Get(q, "err", Serialized(q)) /\ Goto(q, "reply")
        /\ UNCHANGED <<kind, fallback, names, toClients, id, code, upstream>>
    BY <1>7 DEF Fail
  <2>4. PICK c \in Codes \ {"Answer"} : code' = [code EXCEPT ![q] = c]
    BY <1>u, <2>1, <2>3
  <2> QED
    BY <1>0, <1>5, <2>1, <2>2, <2>3, <2>4
<1>8. CASE Ask(q)
  <2>1. pc[q] = "fallback" /\ buf[q]["out"] = 0 /\ buf[q]["err"] = 0
    BY <1>0, <1>8 DEF Ask, Kept
  <2>2. Serialized(q) = OwnMessage(q) /\ Serialized(q) \in Message
    BY <2>1, SerializedOwn
  <2>3. /\ Get(q, "out", Serialized(q))
        /\ UNCHANGED <<kind, fallback, names, toClients, id, code>>
    BY <1>8 DEF Ask
  <2>4. PICK c \in Codes \ {"Answer"} : code' = [code EXCEPT ![q] = c]
    BY <1>u, <2>1, <2>3
  <2>5. CASE Goto(q, "read") /\ upstream' = [upstream EXCEPT ![q] = Serialized(q)]
    <3>1. /\ upstream' \in [Queries -> Message] /\ upstream'[q] = OwnMessage(q)
          /\ \A p \in Queries \ {q} : upstream'[p] = upstream[p]
      BY <1>0, <2>2, <2>5
    <3> QED
      BY <1>0, <1>5, <2>1, <2>2, <2>3, <2>4, <2>5, <3>1
  <2>6. CASE Goto(q, "return") /\ UNCHANGED upstream
    BY <1>0, <1>5, <2>1, <2>2, <2>3, <2>4, <2>6
  <2> QED
    BY <1>8, <2>5, <2>6 DEF Ask
\* The goroutine is about to return, its reply written or not.
<1>r. ASSUME pc[q] = "reply", Goto(q, "return"),
             UNCHANGED <<kind, fallback, names, id, code, buf, pool, made, content, upstream>>
      PROVE  /\ pc' \in [Queries -> Labels] /\ pc'[q] = "return"
             /\ \A p \in Queries \ {q} : pc'[p] = pc[p]
             /\ \A p \in Queries : Kept(p)' /\ Ready(p)' /\ Due(p)' = Due(p)
             /\ \A r \in replies : r.to # q
  <2>1. /\ pc' \in [Queries -> Labels] /\ pc'[q] = "return"
        /\ \A p \in Queries \ {q} : pc'[p] = pc[p]
    BY <1>r DEF Goto, DnsInv, Labels
  <2>2. \A p \in Queries \ {q} : Untouched(p)
    BY <1>r, <2>1 DEF Untouched
  <2>3. Kept(q)' /\ Ready(q)'
    BY <1>0, <1>o, <1>r, <2>1 DEF Kept, Ready
  <2>4. \A p \in Queries : Kept(p)' /\ Ready(p)'
    BY <1>r, <2>2, <2>3, UntouchedKept
  <2>5. \A p \in Queries : Due(p)' = Due(p)
    BY <1>r DEF Due, OwnMessage, OwnId
  <2>6. \A r \in replies : r.to # q
    BY <1>r DEF DnsInv, RepliesOwn
  <2> QED
    BY <2>1, <2>4, <2>5, <2>6
<1>9. CASE Reply(q)
  <2> DEFINE b == IF buf[q]["err"] # 0 THEN buf[q]["err"] ELSE buf[q]["out"]
             new == [to |-> q, id |-> content[b].id, labels |-> content[b].labels, code |-> code[q]]
  <2>1. /\ pc[q] = "reply" /\ replies' = replies \cup {new} /\ Goto(q, "return")
        /\ UNCHANGED <<kind, fallback, names, id, code, buf, pool, made, content, upstream, unsent>>
    BY <1>9 DEF Reply
  <2>2. content[b] = Due(q)
    BY <1>0, <2>1 DEF Ready
  <2>3. /\ new.to = q /\ new.code = code[q]
        /\ [id |-> new.id, labels |-> new.labels] = Due(q)
    <3>1. Due(q) \in Message
      BY <1>0, <1>m DEF Due, OwnMessage, Message
    <3> QED
      BY <2>2, <3>1 DEF Message
  <2> HIDE DEF new
  <2>4. /\ pc' \in [Queries -> Labels] /\ pc'[q] = "return"
        /\ \A p \in Queries \ {q} : pc'[p] = pc[p]
        /\ \A p \in Queries : Kept(p)' /\ Ready(p)' /\ Due(p)' = Due(p)
        /\ \A r \in replies : r.to # q
    BY <1>r, <2>1
  <2>5. RepliesOwn'
    <3>1. /\ replies' = replies \cup {new} /\ RepliesOwn
          /\ code' = code /\ q \in Queries
      BY <2>1 DEF DnsInv
    <3>2. (\A r \in replies : /\ r.to \in Queries /\ r.code = code[r.to]
                              /\ [id |-> r.id, labels |-> r.labels] = Due(r.to))'
      BY <2>3, <2>4, <3>1 DEF RepliesOwn
    <3>3. (\A r \in replies : pc[r.to] \in {"return", "done"})'
      BY <2>3, <2>4, <3>1 DEF RepliesOwn
    <3>4. (\A r, s \in replies : r.to = s.to => r = s)'
      BY <2>3, <2>4, <3>1 DEF RepliesOwn
    <3> QED
      BY <3>2, <3>3, <3>4 DEF RepliesOwn
  <2> QED
    BY <1>same, <2>1, <2>4, <2>5 DEF DnsInv
<1>f. CASE ReplyFails(q)
  <2>1. /\ pc[q] = "reply" /\ Goto(q, "return") /\ unsent' \subseteq Queries
        /\ UNCHANGED <<kind, fallback, names, id, code, buf, pool, made, content, upstream, replies>>
    BY <1>f DEF ReplyFails, DnsInv
  <2>2. /\ pc' \in [Queries -> Labels] /\ pc'[q] = "return"
        /\ \A p \in Queries \ {q} : pc'[p] = pc[p]
        /\ \A p \in Queries : Kept(p)' /\ Ready(p)' /\ Due(p)' = Due(p)
        /\ \A r \in replies : r.to # q
    BY <1>r, <2>1
  <2>3. RepliesOwn'
    BY <2>1, <2>2 DEF RepliesOwn, DnsInv
  <2> QED
    BY <1>same, <2>1, <2>2, <2>3 DEF DnsInv
<1>10. CASE Return(q)
  <2>1. /\ pc[q] = "return" /\ pool' = pool \cup Held(q) /\ Goto(q, "done")
        /\ buf' = [buf EXCEPT ![q] = [role \in Roles |-> 0]]
        /\ UNCHANGED <<kind, fallback, names, id, code, made, content, upstream, toClients>>
    BY <1>10 DEF Return
  <2>2. /\ \A r \in Roles : buf'[q][r] = 0
        /\ \A p \in Queries \ {q}, r \in Roles : buf'[p][r] = buf[p][r]
        /\ buf' \in [Queries -> [Roles -> 0..made']]
    BY <1>0, <2>1, DnsAssumption DEF BufsOK
  <2>3. Held(q) \subseteq 1..made
    BY <1>0, DnsAssumption DEF BufsOK, Held
  <2>4. \A p \in Queries, r \in Roles : buf'[p][r] \notin pool'
    <3> SUFFICES ASSUME NEW p \in Queries, NEW r \in Roles, buf'[p][r] \in pool'
                 PROVE  FALSE
      OBVIOUS
    <3>1. 0 \notin pool'
      BY <1>0, <2>1, <2>3, DnsAssumption DEF BufsOK
    <3>2. p # q /\ buf'[p][r] = buf[p][r] /\ buf[p][r] # 0
      BY <2>2, <3>1
    <3>3. buf[p][r] \notin pool
      BY <1>0 DEF BufsOK
    <3>4. PICK s \in Roles : buf[p][r] = buf[q][s]
      BY <2>1, <3>2, <3>3 DEF Held
    <3> QED
      BY <1>0, <3>2, <3>4 DEF BufsOK
  <2>5. BufsOK'
    <3>1. \A p1, p2 \in Queries : \A r, s \in Roles :
             buf'[p1][r] # 0 /\ buf'[p1][r] = buf'[p2][s] => <<p1, r>> = <<p2, s>>
      <4> SUFFICES ASSUME NEW p1 \in Queries, NEW p2 \in Queries,
                          NEW r \in Roles, NEW s \in Roles,
                          buf'[p1][r] # 0, buf'[p1][r] = buf'[p2][s]
                   PROVE  <<p1, r>> = <<p2, s>>
        OBVIOUS
      <4>1. p1 # q /\ p2 # q
        BY <2>2
      <4> QED
        BY <1>0, <2>2, <4>1 DEF BufsOK
    <3> QED
      BY <1>0, <2>1, <2>2, <2>3, <2>4, <3>1 DEF BufsOK
  <2>6. pc'[q] = "done" => Kept(q)' /\ Ready(q)'
    BY <1>0, <1>o, <2>1, <2>2 DEF Kept, Ready
  <2>7. "done" \in Labels
    BY DEF Labels
  <2> QED
    BY <1>0, <2>1, <2>2, <2>5, <2>6, <2>7, StepInv
<1> QED
  BY <1>1, <1>2, <1>4, <1>n, <1>t, <1>6, <1>7, <1>8, <1>9, <1>f, <1>10 DEF Handle

LEMMA DnsOtherInv ==
    ASSUME DnsInv, (\E q \in Queries : LearnName(q)) \/ UNCHANGED vars
    PROVE  DnsInv'
<1>1. UNCHANGED <<kind, fallback, pc, id, code, buf, pool, made, content, upstream,
                  replies, unsent>>
  BY DEF LearnName, given, toClients, vars
<1>2. names' \subseteq Queries
  BY DEF LearnName, vars, DnsInv
<1>3. \A p \in Queries : Untouched(p)
  BY <1>1 DEF Untouched
<1>4. \A p \in Queries : Kept(p)' /\ Ready(p)'
  BY <1>1, <1>3, UntouchedKept
<1>5. BufsOK'
  BY <1>1 DEF DnsInv, BufsOK
<1>6. RepliesOwn'
  BY <1>1 DEF DnsInv, RepliesOwn, Due, OwnMessage, OwnId
<1> QED
  BY <1>1, <1>2, <1>4, <1>5, <1>6 DEF DnsInv

\* The inductive invariant.
THEOREM DnsInvariance == Spec => []DnsInv
<1>1. DnsInv /\ [Next]_vars => DnsInv'
  BY DnsStepInv, DnsOtherInv DEF Next
<1> QED
  BY DnsInitInv, <1>1, PTL DEF Spec

-----------------------------------------------------------------------------
(* The theorems                                                            *)

\* No buffer is in use twice, or both in use and in the pool.
THEOREM BuffersOwnedOnce == Spec => []DnsTypeOK
<1>1. DnsInv => DnsTypeOK
  BY DEF DnsInv, BufsOK, DnsTypeOK, Held
<1> QED
  BY DnsInvariance, <1>1, PTL

\* What a client receives is the reply to its query, or what another server sent to
\* the socket of that query, which was asked nothing else; and it comes once.
THEOREM RepliesAlwaysMatch == Spec => []RepliesMatchQueries
<1>1. DnsInv => RepliesMatchQueries
  BY DEF DnsInv, Ready, RepliesOwn, Due, RepliesMatchQueries
<1> QED
  BY DnsInvariance, <1>1, PTL

-----------------------------------------------------------------------------
(* The name map                                                            *)

\* DnsMap is Engine with a callback: what is proved of Engine holds of it.
THEOREM DnsMapImplementsEngine == DnsSpec => EngineSpec
<1>1. DnsInit => EngineInit
  BY DEF DnsInit
<1>2. [DnsNext]_dnsVars => [EngineNext]_engineVars
  BY DEF DnsNext, NoCallback, DnsRebuild, DnsJoin, DnsLeave, DnsUpdate, EngineNext, dnsVars
<1> QED
  BY <1>1, <1>2, PTL DEF DnsSpec, EngineSpec

\* A handler that ran to its callbacks has named its peers.
LEMMA NamedPeers ==
    ASSUME Named PROVE PeersAreNamed'
<1> DEFINE owners(k) == IF k = key[Self] THEN {Self}
                        ELSE IF Listed(peerState', k) # {} THEN Listed(peerState', k)
                        ELSE {dnsMap[k]}
           keys == DOMAIN dnsMap \cup {key[i] : i \in Ids(peerState') \cup {Self}}
<1>1. key' = key /\ dnsMap' \in [keys -> DeviceIds] /\ \A k \in keys : dnsMap'[k] \in owners(k)
  BY DEF Named, DnsUpdatePeers, MapTo
<1>2. DOMAIN dnsMap' = keys /\ key[Self] \in keys /\ owners(key[Self]) = {Self}
  BY <1>1
<1>3. dnsMap'[key[Self]] = Self
  BY <1>1, <1>2
<1>4. ASSUME NEW i \in Ids(peerState'),
             \A j \in Ids(peerState') \cup {Self} : key[j] = key[i] => j = i
      PROVE  key[i] \in DOMAIN dnsMap' /\ dnsMap'[key[i]] = i
  <2>1. key[i] \in keys
    OBVIOUS
  <2>2. CASE key[i] = key[Self]
    <3>1. i = Self
      BY <1>4, <2>2
    <3> QED
      BY <1>2, <1>3, <2>1, <3>1
  <2>3. CASE key[i] # key[Self]
    <3>1. Listed(peerState', key[i]) = {i}
      BY <1>4 DEF Listed
    <3>2. owners(key[i]) = {i}
      BY <2>3, <3>1
    <3> QED
      BY <1>1, <1>2, <2>1, <3>2
  <2> QED
    BY <2>2, <2>3
<1> QED
  BY <1>1, <1>2, <1>3, <1>4 DEF PeersAreNamed

\* A peer whose name nobody shares is found by it, and so are we.
THEOREM PeersAlwaysNamed == DnsSpec => []PeersAreNamed
<1>1. DnsInit => PeersAreNamed
  BY DEF DnsInit, EngineInit, PeersAreNamed, Ids
<1>2. PeersAreNamed /\ [DnsNext]_dnsVars => PeersAreNamed'
  <2> SUFFICES ASSUME PeersAreNamed, [DnsNext]_dnsVars PROVE PeersAreNamed'
    OBVIOUS
  <2>1. ASSUME UNCHANGED <<peerState, key, dnsMap>> PROVE PeersAreNamed'
    BY <2>1 DEF PeersAreNamed
  <2>2. CASE NoCallback
    BY <2>1, <2>2 DEF NoCallback, RebuildFails, HandleLeavePanic
  <2>3. CASE UNCHANGED dnsVars
    BY <2>1, <2>3 DEF dnsVars, engineVars
  <2> QED
    BY <2>2, <2>3, NamedPeers DEF DnsNext, DnsRebuild, DnsJoin, DnsLeave, DnsUpdate
<1> QED
  BY <1>1, <1>2, PTL DEF DnsSpec

-----------------------------------------------------------------------------
(* Recursion.  The parser is a function defined from itself at other       *)
(* arguments; the lemmas here say when there is such a function and how to *)
(* prove something of it, with sets in the place of predicates.            *)

\* Some numbers have a least one.
LEMMA LeastOf ==
    ASSUME NEW T \in SUBSET Nat, T # {}
    PROVE  \E m \in T : \A n \in T : m <= n
<1> DEFINE R == {ss \in Nat \X Nat : ss[1] < ss[2]}
<1>1. IsWellFoundedOn(R, Nat)
  BY NatLessThanWellFounded, Zenon DEF OpToRel
<1>2. PICK m \in T : \A n \in T : <<n, m>> \notin R
  BY <1>1, WFMin, Zenon
<1>3. \A n \in T : ~(n < m)
  BY <1>2
<1> QED
  BY <1>3

\* What holds at the elements of S, and at an element if it does at those of a
\* lower rank, holds at all.
LEMMA RankInduction ==
    ASSUME NEW D, NEW rank \in [D -> Nat], NEW S,
           \A x \in D : (\A y \in D : rank[y] < rank[x] => y \in S) => x \in S
    PROVE  D \subseteq S
<1> SUFFICES ASSUME NEW z \in D, z \notin S PROVE FALSE
  OBVIOUS
<1> DEFINE T == {rank[x] : x \in D \ S}
<1>1. T \in SUBSET Nat /\ T # {}
  OBVIOUS
<1>2. PICK m \in T : \A n \in T : m <= n
  BY <1>1, LeastOf
<1>3. PICK x \in D \ S : rank[x] = m
  OBVIOUS
<1>4. \A y \in D : rank[y] < rank[x] => y \in S
  <2> SUFFICES ASSUME NEW y \in D, rank[y] < rank[x], y \notin S PROVE FALSE
    OBVIOUS
  <2>1. m <= rank[y]
    BY <1>2
  <2> QED
    BY <1>3, <2>1
<1> QED
  BY <1>4

\* Induction over the numbers.
LEMMA NatSetInduction ==
    ASSUME NEW S, 0 \in S, \A n \in Nat : n \in S => n + 1 \in S
    PROVE  \A n \in Nat : n \in S
<1> SUFFICES ASSUME NEW k \in Nat, k \notin S PROVE FALSE
  OBVIOUS
<1> DEFINE T == Nat \ S
<1>1. PICK m \in T : \A n \in T : m <= n
  BY LeastOf
<1>2. m # 0 /\ m - 1 \in Nat /\ (m - 1) + 1 = m
  OBVIOUS
<1>3. m - 1 \in S
  BY <1>1, <1>2
<1> QED
  BY <1>2, <1>3

\* A step, G, reads a function at arguments of a lower rank only.
ReadsLower(D, R, rank, G) ==
    \A x \in D : \A f, g \in [D -> R] :
        (\A y \in D : rank[y] < rank[x] => f[y] = g[y]) => G[<<x, f>>] = G[<<x, g>>]

\* A function that is, at each of its arguments, what the step makes of it.
HasFixedPoint(D, R, G) == \E h \in [D -> R] : \A x \in D : h[x] = G[<<x, h>>]

\* Such a step has one: a function right below rank n is made right below n + 1.
LEMMA FixedPoint ==
    ASSUME NEW D, NEW R, R # {}, NEW N \in Nat, NEW rank \in [D -> 0..N],
           NEW G \in [D \X [D -> R] -> R], ReadsLower(D, R, rank, G)
    PROVE  HasFixedPoint(D, R, G)
<1> DEFINE Solved(n, h) == \A x \in D : rank[x] < n => h[x] = G[<<x, h>>]
           S == {n \in Nat : \E h \in [D -> R] : Solved(n, h)}
<1>1. 0 \in S
  <2>1. PICK r \in R : TRUE
    OBVIOUS
  <2>2. [x \in D |-> r] \in [D -> R]
    OBVIOUS
  <2>3. \A x \in D : ~(rank[x] < 0)
    OBVIOUS
  <2> QED
    BY <2>2, <2>3
<1>2. ASSUME NEW n \in Nat, n \in S PROVE n + 1 \in S
  <2>1. PICK h \in [D -> R] : Solved(n, h)
    BY <1>2
  <2> DEFINE g == [x \in D |-> IF rank[x] < n THEN h[x] ELSE G[<<x, h>>]]
  <2>2. g \in [D -> R]
    OBVIOUS
  <2>3. ASSUME NEW x \in D, rank[x] < n + 1 PROVE g[x] = G[<<x, g>>]
    <3>1. \A y \in D : rank[y] < rank[x] => g[y] = h[y]
      BY <2>3
    <3>2. G[<<x, g>>] = G[<<x, h>>]
      <4> HIDE DEF g
      <4> QED
        BY <2>2, <3>1 DEF ReadsLower
    <3>3. g[x] = G[<<x, h>>]
      BY <2>1
    <3> QED
      BY <3>2, <3>3
  <2>4. Solved(n + 1, g)
    BY <2>3
  <2> HIDE DEF g, Solved
  <2> QED
    BY <2>2, <2>4
<1>3. N + 1 \in S
  <2> HIDE DEF S
  <2> QED
    BY <1>1, <1>2, NatSetInduction
<1>4. PICK h \in [D -> R] : Solved(N + 1, h)
  BY <1>3
<1>5. \A x \in D : rank[x] < N + 1
  OBVIOUS
<1> QED
  BY <1>4, <1>5 DEF HasFixedPoint

-----------------------------------------------------------------------------
(* Names                                                                   *)

\* What the octets of a message are, one by one, as pairs and as slices.
LEMMA OctetNumbers == \A o \in Octet : o \in Nat /\ o <= 255
  BY DEF Octet

LEMMA OctetPairs ==
    ASSUME NEW msg \in Seq(Octet), NEW at \in Nat, at + 2 <= Len(msg)
    PROVE  /\ msg[at + 1] \in Nat /\ msg[at + 2] \in Nat
           /\ U16At(msg, at) \in Nat /\ U16At(msg, at) % 16384 \in Nat
<1>1. at + 1 \in 1..Len(msg) /\ at + 2 \in 1..Len(msg)
  OBVIOUS
<1>2. msg[at + 1] \in Octet /\ msg[at + 2] \in Octet
  BY <1>1, ElementOfSeq
<1>3. msg[at + 1] \in Nat /\ msg[at + 2] \in Nat
  BY <1>2, OctetNumbers
<1>4. U16At(msg, at) \in Nat
  BY <1>3 DEF U16At
<1> HIDE DEF U16At
<1>5. \A n \in Nat : n % 16384 \in Nat
  OBVIOUS
<1> QED
  BY <1>3, <1>4, <1>5

LEMMA OctetsInMessage ==
    ASSUME NEW msg \in Seq(Octet), NEW at \in Nat, NEW n \in Nat, at + n <= Len(msg)
    PROVE  /\ Octets(msg, at, n) \in Seq(Octet) /\ Len(Octets(msg, at, n)) = n
           /\ \A i \in 1..n : Octets(msg, at, n)[i] = msg[at + i]
<1>1. \A i \in at + 1 .. at + n : msg[i] \in Octet
  BY ElementOfSeq
<1>2. at + 1 \in Int /\ at + n \in Int
  OBVIOUS
<1>3. /\ SubSeq(msg, at + 1, at + n) \in Seq(Octet)
      /\ Len(SubSeq(msg, at + 1, at + n)) =
            IF at + 1 <= at + n THEN at + n - (at + 1) + 1 ELSE 0
      /\ \A i \in 1 .. at + n - (at + 1) + 1 : SubSeq(msg, at + 1, at + n)[i] = msg[at + 1 + i - 1]
  BY <1>1, <1>2, SubSeqProperties
<1> QED
  BY <1>3 DEF Octets

LEMMA OctetsTyped ==
    \A msg \in Seq(Octet) : \A at, n \in Nat : at + n <= Len(msg) =>
        Octets(msg, at, n) \in Seq(Octet) /\ Len(Octets(msg, at, n)) = n
  BY OctetsInMessage

LEMMA EightOctets ==
    \A msg \in Seq(Octet) : \A at \in Nat : at + 8 <= Len(msg) =>
        Octets(msg, at, 8) \in Seq(Octet) /\ Len(Octets(msg, at, 8)) = 8
  BY OctetsTyped

\* What parseLabels may return.
Names == [labels : Seq(Label), size : Nat, status : {"ok", "error", "panic"}]

\* Where it may be called, and a number that each call of itself makes lower: a
\* pointer goes a level deeper, a label goes on behind itself.
Calls(msg) == (0..Len(msg)) \X (0..6)

Rank(msg) == [p \in Calls(msg) |-> (6 - p[2]) * (Len(msg) + 1) + (Len(msg) - p[1])]

\* The rank is a number: at most seven walks over the message.
LEMMA RankBound ==
    ASSUME NEW msg \in Seq(Octet)
    PROVE  /\ 7 * (Len(msg) + 1) \in Nat
           /\ Rank(msg) \in [Calls(msg) -> 0..7 * (Len(msg) + 1)]
<1>1. ASSUME NEW p \in Calls(msg)
      PROVE  (6 - p[2]) * (Len(msg) + 1) + (Len(msg) - p[1]) \in 0..7 * (Len(msg) + 1)
  <2>2. PICK at \in Nat, n \in Nat : at = p[1] /\ n = Len(msg) /\ at <= n
    BY DEF Calls
  <2>3. \A d \in 0..6 : (6 - d) * (n + 1) + (n - at) \in Int
                         /\ 0 <= (6 - d) * (n + 1) + (n - at)
                         /\ (6 - d) * (n + 1) + (n - at) <= 7 * (n + 1)
    <3> SUFFICES ASSUME NEW d \in 0..6
                 PROVE  (6 - d) * (n + 1) + (n - at) \in Int
                         /\ 0 <= (6 - d) * (n + 1) + (n - at)
                         /\ (6 - d) * (n + 1) + (n - at) <= 7 * (n + 1)
      OBVIOUS
    <3>1. d = 0 \/ d = 1 \/ d = 2 \/ d = 3 \/ d = 4 \/ d = 5 \/ d = 6
      OBVIOUS
    <3> QED
      BY <2>2, <3>1
  <2>4. PICK d \in 0..6 : d = p[2]
    BY DEF Calls
  <2>5. (6 - d) * (n + 1) + (n - at) \in 0..7 * (n + 1)
    <3>1. \A r, top \in Int : 0 <= r /\ r <= top => r \in 0..top
      OBVIOUS
    <3>2. 7 * (n + 1) \in Int
      OBVIOUS
    <3> QED
      BY <2>3, <3>1, <3>2, Zenon
  <2> QED
    BY <2>2, <2>4, <2>5, Zenon
<1> QED
  BY <1>1 DEF Rank

\* The calls NameAt may make, both of a lower rank.
LEMMA LowerCalls ==
    ASSUME NEW msg \in Seq(Octet), NEW at \in 0..Len(msg), NEW depth \in 0..6
    PROVE  /\ depth < 5 => \A target \in 0..Len(msg) :
                 /\ <<target, depth + 1>> \in Calls(msg)
                 /\ Rank(msg)[<<target, depth + 1>>] < Rank(msg)[<<at, depth>>]
           /\ \A n \in Nat : at + n + 1 <= Len(msg) =>
                 /\ <<at + n + 1, depth>> \in Calls(msg)
                 /\ Rank(msg)[<<at + n + 1, depth>>] < Rank(msg)[<<at, depth>>]
<1>0. Len(msg) \in Nat
  OBVIOUS
<1>1. ASSUME depth < 5, NEW target \in 0..Len(msg)
      PROVE  /\ <<target, depth + 1>> \in Calls(msg)
             /\ Rank(msg)[<<target, depth + 1>>] < Rank(msg)[<<at, depth>>]
  <2>1. <<target, depth + 1>> \in Calls(msg) /\ <<at, depth>> \in Calls(msg)
    BY <1>1 DEF Calls
  <2>2. depth = 0 \/ depth = 1 \/ depth = 2 \/ depth = 3 \/ depth = 4
    BY <1>1
  <2>3. (6 - (depth + 1)) * (Len(msg) + 1) + (Len(msg) - target)
            < (6 - depth) * (Len(msg) + 1) + (Len(msg) - at)
    BY <1>0, <2>2
  <2> QED
    BY <2>1, <2>3 DEF Rank
<1>2. ASSUME NEW n \in Nat, at + n + 1 <= Len(msg)
      PROVE  /\ <<at + n + 1, depth>> \in Calls(msg)
             /\ Rank(msg)[<<at + n + 1, depth>>] < Rank(msg)[<<at, depth>>]
  <2>1. <<at + n + 1, depth>> \in Calls(msg) /\ <<at, depth>> \in Calls(msg)
    BY <1>2 DEF Calls
  <2>2. depth = 0 \/ depth = 1 \/ depth = 2 \/ depth = 3 \/ depth = 4 \/ depth = 5 \/ depth = 6
    OBVIOUS
  <2>3. (6 - depth) * (Len(msg) + 1) + (Len(msg) - (at + n + 1))
            < (6 - depth) * (Len(msg) + 1) + (Len(msg) - at)
    BY <1>0, <2>2
  <2> QED
    BY <2>1, <2>3 DEF Rank
<1> QED
  BY <1>1, <1>2

\* What parseLabels does at an offset, whatever it returns elsewhere: it is
\* done, follows a pointer, or goes on behind a label of n octets.
Done(msg, at, depth, size, status) ==
    \A name : NameAt(msg, at, depth, name) = Result(<<>>, size, status)

Jumps(msg, at, depth, target) ==
    /\ depth < 5 /\ at + 2 <= Len(msg)
    /\ \A name : NameAt(msg, at, depth, name) =
            Result(name[<<target, depth + 1>>].labels, 2, name[<<target, depth + 1>>].status)

GoesOn(msg, at, depth, n) ==
    /\ n <= 63 /\ at + n + 1 <= Len(msg)
    /\ \A name : NameAt(msg, at, depth, name) =
            Result(<<Octets(msg, at + 1, n)>> \o name[<<at + n + 1, depth>>].labels,
                   n + 1 + name[<<at + n + 1, depth>>].size,
                   name[<<at + n + 1, depth>>].status)

\* There is nothing else it does; only deeper than 5 does it panic.
LEMMA NameCases ==
    ASSUME NEW msg \in Seq(Octet), NEW at \in 0..Len(msg), NEW depth \in 0..6
    PROVE  \/ at = Len(msg) /\ Done(msg, at, depth, 0, "ok")
           \/ at < Len(msg) /\ Done(msg, at, depth, 1, "ok")
           \/ Done(msg, at, depth, 0, "error")
           \/ depth > 5 /\ Done(msg, at, depth, 0, "panic")
           \/ \E target \in 0..Len(msg) : Jumps(msg, at, depth, target)
           \/ \E n \in Nat : GoesOn(msg, at, depth, n)
<1> DEFINE left   == Len(msg) - at
           first  == msg[at + 1]
           length == first % 64
           target == U16At(msg, at) % 16384
<1>1. /\ Len(msg) \in Nat /\ at \in Nat /\ left \in Nat
      /\ left # 0 => first \in Nat /\ length \in Nat /\ length <= 63
      /\ left >= 2 => target \in Nat
  <2>1. ASSUME left # 0 PROVE first \in Nat /\ length \in Nat /\ length <= 63
    <3>1. at + 1 \in 1..Len(msg)
      BY <2>1
    <3>2. first \in Nat
      BY <3>1, ElementOfSeq, OctetNumbers
    <3> HIDE DEF first
    <3> QED
      BY <3>2
  <2>2. ASSUME left >= 2 PROVE target \in Nat
    BY <2>2, OctetPairs
  <2> QED
    BY <2>1, <2>2
<1>2. \A name : NameAt(msg, at, depth, name) =
          IF left = 0 THEN Result(<<>>, 0, "ok")
          ELSE IF first = 0 THEN Result(<<>>, 1, "ok")
          ELSE IF first >= 192 /\ depth < 5
               THEN IF left < 2 \/ target > Len(msg) THEN Result(<<>>, 0, "error")
                    ELSE Result(name[<<target, depth + 1>>].labels, 2,
                                name[<<target, depth + 1>>].status)
          ELSE IF first >= 192 /\ depth > 5 THEN Result(<<>>, 0, "panic")
          ELSE IF length + 1 > left THEN Result(<<>>, 0, "error")
          ELSE Result(<<Octets(msg, at + 1, length)>> \o name[<<at + length + 1, depth>>].labels,
                      length + 1 + name[<<at + length + 1, depth>>].size,
                      name[<<at + length + 1, depth>>].status)
  BY DEF NameAt, Followed, PointerLen
<1>3. left = Len(msg) - at
  OBVIOUS
<1> HIDE DEF left, first, length, target
<1>4. CASE left = 0
  <2>1. Done(msg, at, depth, 0, "ok")
    BY <1>2, <1>4 DEF Done
  <2> QED
    BY <1>1, <1>3, <1>4, <2>1
<1>5. CASE left # 0 /\ first = 0
  <2>1. Done(msg, at, depth, 1, "ok")
    BY <1>2, <1>5 DEF Done
  <2> QED
    BY <1>1, <1>3, <1>5, <2>1
<1>6. CASE left # 0 /\ first # 0 /\ first >= 192 /\ depth < 5
  <2>1. CASE left < 2 \/ target > Len(msg)
    <3>1. Done(msg, at, depth, 0, "error")
      BY <1>2, <1>6, <2>1 DEF Done
    <3> QED
      BY <3>1
  <2>2. CASE ~(left < 2 \/ target > Len(msg))
    <3>1. target \in 0..Len(msg) /\ at + 2 <= Len(msg)
      BY <1>1, <1>3, <2>2
    <3>2. Jumps(msg, at, depth, target)
      BY <1>2, <1>6, <2>2, <3>1 DEF Jumps
    <3> QED
      BY <3>1, <3>2
  <2> QED
    BY <2>1, <2>2
<1>7. CASE left # 0 /\ first # 0 /\ ~(first >= 192 /\ depth < 5)
  <2>1. CASE first >= 192 /\ depth > 5
    <3>1. Done(msg, at, depth, 0, "panic")
      BY <1>2, <1>7, <2>1 DEF Done
    <3> QED
      BY <2>1, <3>1
  <2>2. CASE ~(first >= 192 /\ depth > 5) /\ length + 1 > left
    <3>1. Done(msg, at, depth, 0, "error")
      BY <1>2, <1>7, <2>2 DEF Done
    <3> QED
      BY <3>1
  <2>3. CASE ~(first >= 192 /\ depth > 5) /\ ~(length + 1 > left)
    <3>1. length \in Nat /\ length <= 63
      BY <1>1, <1>7
    <3>2. at + length + 1 <= Len(msg)
      BY <1>1, <1>3, <2>3, <3>1
    <3>3. GoesOn(msg, at, depth, length)
      BY <1>2, <1>7, <2>3, <3>1, <3>2 DEF GoesOn
    <3> QED
      BY <3>1, <3>3
  <2> QED
    BY <2>1, <2>2, <2>3
<1> QED
  BY <1>4, <1>5, <1>6, <1>7

\* Whatever a call reads is of a lower rank.
LEMMA NameReadsLower ==
    ASSUME NEW msg \in Seq(Octet), NEW p \in Calls(msg), NEW f, NEW g,
           \A q \in Calls(msg) : Rank(msg)[q] < Rank(msg)[p] => f[q] = g[q]
    PROVE  NameAt(msg, p[1], p[2], f) = NameAt(msg, p[1], p[2], g)
<1>1. PICK at \in 0..Len(msg), depth \in 0..6 : p = <<at, depth>>
  BY DEF Calls
<1>2. CASE \E size, status : Done(msg, at, depth, size, status)
  BY <1>1, <1>2 DEF Done
<1>3. CASE \E target \in 0..Len(msg) : Jumps(msg, at, depth, target)
  <2>1. PICK target \in 0..Len(msg) : Jumps(msg, at, depth, target)
    BY <1>3
  <2>2. f[<<target, depth + 1>>] = g[<<target, depth + 1>>]
    BY <1>1, <2>1, LowerCalls DEF Jumps
  <2> QED
    BY <1>1, <2>1, <2>2 DEF Jumps
<1>4. CASE \E n \in Nat : GoesOn(msg, at, depth, n)
  <2>1. PICK n \in Nat : GoesOn(msg, at, depth, n)
    BY <1>4
  <2>2. f[<<at + n + 1, depth>>] = g[<<at + n + 1, depth>>]
    BY <1>1, <2>1, LowerCalls DEF GoesOn
  <2> QED
    BY <1>1, <2>1, <2>2 DEF GoesOn
<1> QED
  BY <1>2, <1>3, <1>4, NameCases

\* What Result makes is of the right kind.
LEMMA ResultTyped ==
    ASSUME NEW labels \in Seq(Label), NEW size \in Nat, NEW status \in {"ok", "error", "panic"}
    PROVE  Result(labels, size, status) \in Names
  BY DEF Result, Names

\* A call returns something of the right kind if those it makes do.
LEMMA NameTyped ==
    ASSUME NEW msg \in Seq(Octet), NEW p \in Calls(msg), NEW f,
           \A q \in Calls(msg) : Rank(msg)[q] < Rank(msg)[p] => f[q] \in Names
    PROVE  NameAt(msg, p[1], p[2], f) \in Names
<1>1. PICK at \in 0..Len(msg), depth \in 0..6 : p = <<at, depth>>
  BY DEF Calls
<1>2. CASE \E size \in {0, 1}, status \in {"ok", "error", "panic"} :
              Done(msg, at, depth, size, status)
  <2>1. PICK size \in {0, 1}, status \in {"ok", "error", "panic"} :
            Done(msg, at, depth, size, status)
    BY <1>2
  <2>2. <<>> \in Seq(Label) /\ size \in Nat
    OBVIOUS
  <2>3. Result(<<>>, size, status) \in Names
    BY <2>2, ResultTyped
  <2> QED
    BY <1>1, <2>1, <2>3 DEF Done
<1>3. CASE \E target \in 0..Len(msg) : Jumps(msg, at, depth, target)
  <2>1. PICK target \in 0..Len(msg) : Jumps(msg, at, depth, target)
    BY <1>3
  <2>2. f[<<target, depth + 1>>] \in Names
    BY <1>1, <2>1, LowerCalls DEF Jumps
  <2> QED
    BY <1>1, <2>1, <2>2 DEF Jumps, Result, Names
<1>4. CASE \E n \in Nat : GoesOn(msg, at, depth, n)
  <2>1. PICK n \in Nat : GoesOn(msg, at, depth, n)
    BY <1>4
  <2>2. f[<<at + n + 1, depth>>] \in Names
    BY <1>1, <2>1, LowerCalls DEF GoesOn
  <2>3. Octets(msg, at + 1, n) \in Label
    <3>1. at + 1 \in Nat /\ (at + 1) + n <= Len(msg) /\ n <= 63
      BY <2>1 DEF GoesOn
    <3>2. Octets(msg, at + 1, n) \in Seq(Octet) /\ Len(Octets(msg, at + 1, n)) = n
      BY <3>1, OctetsInMessage
    <3> QED
      BY <3>1, <3>2 DEF Label
  <2>4. <<Octets(msg, at + 1, n)>> \o f[<<at + n + 1, depth>>].labels \in Seq(Label)
    BY <2>2, <2>3, ConcatProperties DEF Names
  <2>5. /\ n + 1 + f[<<at + n + 1, depth>>].size \in Nat
        /\ f[<<at + n + 1, depth>>].status \in {"ok", "error", "panic"}
    BY <2>2 DEF Names
  <2>6. Result(<<Octets(msg, at + 1, n)>> \o f[<<at + n + 1, depth>>].labels,
               n + 1 + f[<<at + n + 1, depth>>].size,
               f[<<at + n + 1, depth>>].status) \in Names
    BY <2>4, <2>5, ResultTyped
  <2> QED
    BY <1>1, <2>1, <2>6 DEF GoesOn
<1> QED
  BY <1>2, <1>3, <1>4, NameCases

\* So parseLabels returns, whatever loops the pointers form: what it returns is
\* what its calls of itself make of it.
LEMMA ParseLabelsReturns ==
    ASSUME NEW msg \in Seq(Octet)
    PROVE  /\ ParseLabels(msg) \in [Calls(msg) -> Names]
           /\ \A p \in Calls(msg) :
                 ParseLabels(msg)[p] = NameAt(msg, p[1], p[2], ParseLabels(msg))
<1> DEFINE Eq(f) == f = [p \in Calls(msg) |-> NameAt(msg, p[1], p[2], f)]
           N == 7 * (Len(msg) + 1)
           G == [x \in Calls(msg) \X [Calls(msg) -> Names] |-> NameAt(msg, x[1][1], x[1][2], x[2])]
<1>1. ParseLabels(msg) = CHOOSE f : Eq(f)
  BY DEF ParseLabels, Calls
<1>2. /\ N \in Nat /\ Rank(msg) \in [Calls(msg) -> 0..N]
      /\ Rank(msg) \in [Calls(msg) -> Nat]
  BY RankBound
<1>3. Names # {}
  <2>1. Result(<<>>, 0, "ok") \in Names
    BY DEF Result, Names
  <2> QED
    BY <2>1
<1>4. G \in [Calls(msg) \X [Calls(msg) -> Names] -> Names]
  BY NameTyped
<1>5. ReadsLower(Calls(msg), Names, Rank(msg), G)
  BY NameReadsLower DEF ReadsLower
<1>6. \A x \in Calls(msg), f \in [Calls(msg) -> Names] :
          G[<<x, f>>] = NameAt(msg, x[1], x[2], f)
  OBVIOUS
<1> HIDE DEF G, N
<1>7. HasFixedPoint(Calls(msg), Names, G)
  BY <1>2, <1>3, <1>4, <1>5, FixedPoint
<1>8. PICK h \in [Calls(msg) -> Names] : \A x \in Calls(msg) : h[x] = G[<<x, h>>]
  BY <1>7 DEF HasFixedPoint
<1>9. Eq(h)
  BY <1>6, <1>8
<1> HIDE DEF Eq
<1>10. Eq(ParseLabels(msg))
  BY <1>1, <1>9
<1> DEFINE P == ParseLabels(msg)
<1> HIDE DEF P
<1>11. /\ DOMAIN P = Calls(msg) /\ P = [p \in Calls(msg) |-> P[p]]
       /\ \A p \in Calls(msg) : P[p] = NameAt(msg, p[1], p[2], P)
  BY <1>10 DEF Eq, P
<1> DEFINE S == {p \in Calls(msg) : P[p] \in Names}
<1>12. \A x \in Calls(msg) :
           (\A y \in Calls(msg) : Rank(msg)[y] < Rank(msg)[x] => y \in S) => x \in S
  BY <1>11, NameTyped
<1> HIDE DEF S
<1>13. Calls(msg) \subseteq S
  BY <1>2, <1>12, RankInduction
<1>14. \A p \in Calls(msg) : P[p] \in Names
  BY <1>13 DEF S
<1> QED
  BY <1>11, <1>14 DEF P

\* The pointers are followed five deep, and a name ends within the message.
LEMMA NamesNeverPanic ==
    ASSUME NEW msg \in Seq(Octet), NEW at \in 0..Len(msg)
    PROVE  LET r == ParseLabels(msg)[<<at, 0>>]
           IN  /\ r \in Names /\ r.status \in {"ok", "error"}
               /\ r.status = "ok" => at + r.size <= Len(msg) /\ (at < Len(msg) => r.size >= 1)
<1> DEFINE P == ParseLabels(msg)
           Fine(p) == /\ P[p].status # "panic"
                      /\ P[p].status = "ok" =>
                            p[1] + P[p].size <= Len(msg) /\ (p[1] < Len(msg) => P[p].size >= 1)
           S == {p \in Calls(msg) : p[2] <= 5 => Fine(p)}
<1>1. P \in [Calls(msg) -> Names] /\ \A p \in Calls(msg) : P[p] = NameAt(msg, p[1], p[2], P)
  BY ParseLabelsReturns
<1>2. Rank(msg) \in [Calls(msg) -> Nat]
  BY RankBound
<1> HIDE DEF P
<1>3. ASSUME NEW p \in Calls(msg), \A q \in Calls(msg) : Rank(msg)[q] < Rank(msg)[p] => q \in S,
             p[2] <= 5
      PROVE  Fine(p)
  <2>1. PICK a \in 0..Len(msg), depth \in 0..6 : p = <<a, depth>>
    BY DEF Calls
  <2>2. P[p] = NameAt(msg, a, depth, P) /\ depth <= 5 /\ Len(msg) \in Nat
    BY <1>1, <1>3, <2>1
  <2>3. CASE a = Len(msg) /\ Done(msg, a, depth, 0, "ok")
    BY <2>1, <2>2, <2>3 DEF Done, Result
  <2>4. CASE a < Len(msg) /\ Done(msg, a, depth, 1, "ok")
    BY <2>1, <2>2, <2>4 DEF Done, Result
  <2>5. CASE Done(msg, a, depth, 0, "error")
    BY <2>1, <2>2, <2>5 DEF Done, Result
  <2>6. CASE \E target \in 0..Len(msg) : Jumps(msg, a, depth, target)
    <3>1. PICK target \in 0..Len(msg) : Jumps(msg, a, depth, target)
      BY <2>6
    <3>2. /\ P[p] = Result(P[<<target, depth + 1>>].labels, 2, P[<<target, depth + 1>>].status)
          /\ depth < 5 /\ a + 2 <= Len(msg)
      BY <2>2, <3>1 DEF Jumps
    <3>3. /\ <<target, depth + 1>> \in Calls(msg)
          /\ Rank(msg)[<<target, depth + 1>>] < Rank(msg)[<<a, depth>>]
      BY <3>2, LowerCalls
    <3>4. P[<<target, depth + 1>>].status # "panic"
      <4>1. <<target, depth + 1>> \in S
        BY <1>3, <2>1, <3>3
      <4>2. <<target, depth + 1>>[2] <= 5
        BY <3>2
      <4> QED
        BY <4>1, <4>2
    <3>5. P[p].status # "panic" /\ P[p].size = 2
      BY <3>2, <3>4 DEF Result
    <3> QED
      BY <2>1, <3>2, <3>5
  <2>7. CASE \E n \in Nat : GoesOn(msg, a, depth, n)
    <3>1. PICK n \in Nat : GoesOn(msg, a, depth, n)
      BY <2>7
    <3> DEFINE rest == P[<<a + n + 1, depth>>]
    <3>2. /\ P[p] = Result(<<Octets(msg, a + 1, n)>> \o rest.labels, n + 1 + rest.size, rest.status)
          /\ a + n + 1 <= Len(msg)
      BY <2>2, <3>1 DEF GoesOn
    <3>3. <<a + n + 1, depth>> \in S /\ <<a + n + 1, depth>> \in Calls(msg)
      BY <1>3, <2>1, <3>2, LowerCalls
    <3>4. /\ rest.status # "panic" /\ rest \in Names
          /\ rest.status = "ok" => a + n + 1 + rest.size <= Len(msg)
      BY <1>1, <2>2, <3>3
    <3>5. P[p].status = rest.status /\ P[p].size = n + 1 + rest.size /\ rest.size \in Nat
      BY <3>2, <3>4 DEF Result, Names
    <3> HIDE DEF rest
    <3>6. P[p].size >= 1 /\ a + P[p].size = a + n + 1 + rest.size
      BY <3>5
    <3> QED
      BY <2>1, <3>4, <3>5, <3>6
  <2> QED
    BY <2>2, <2>3, <2>4, <2>5, <2>6, <2>7, NameCases
<1>4. \A p \in Calls(msg) : (\A q \in Calls(msg) : Rank(msg)[q] < Rank(msg)[p] => q \in S) => p \in S
  BY <1>3
<1> HIDE DEF S
<1>5. Calls(msg) \subseteq S
  BY <1>2, <1>4, RankInduction
<1>6. <<at, 0>> \in Calls(msg)
  BY DEF Calls
<1>7. Fine(<<at, 0>>) /\ P[<<at, 0>>] \in Names
  BY <1>1, <1>5, <1>6 DEF S
<1>8. P[<<at, 0>>].status \in {"ok", "error"}
  BY <1>7 DEF Names
<1> QED
  BY <1>7, <1>8 DEF P

-----------------------------------------------------------------------------
(* Sections                                                                *)

\* What a section of some items from an offset may be: each takes an octet or
\* more.
Sectioned(msg, at, Item) ==
    {s \in [items : Seq(Item), next : at..Len(msg), status : {"ok", "error"}] :
        Len(s.items) <= s.next - at}

\* Any section.
Parsed(Item) == [items : Seq(Item), next : Nat, status : {"ok", "error", "panic"}]

\* Where a section may go on, with how many items left; each item leaves fewer.
Starts(msg, count) == (HeaderLen..Len(msg)) \X (0..count)

Remaining(msg, count) == [p \in Starts(msg, count) |-> p[2]]

\* A section with an item in front of it is one.
LEMMA AfterItem ==
    ASSUME NEW msg \in Seq(Octet), NEW Item, NEW at \in Nat, NEW next \in Nat, at < next,
           NEW item \in Item, NEW rest \in Sectioned(msg, next, Item)
    PROVE  After(item, rest) \in Sectioned(msg, at, Item)
<1>1. /\ rest.items \in Seq(Item) /\ rest.next \in next..Len(msg) /\ rest.status \in {"ok", "error"}
      /\ Len(rest.items) <= rest.next - next
  BY DEF Sectioned
<1>2. <<item>> \o rest.items \in Seq(Item) /\ Len(<<item>> \o rest.items) = 1 + Len(rest.items)
  BY <1>1, ConcatProperties
<1>3. Len(rest.items) \in Nat /\ rest.next \in at..Len(msg)
  BY <1>1
<1>4. Len(<<item>> \o rest.items) <= rest.next - at
  BY <1>1, <1>2, <1>3
<1> QED
  BY <1>1, <1>2, <1>3, <1>4 DEF After, Section, Sectioned

\* Parsing a section at an offset ends it, or goes on behind an item.
QuestionsEnd(msg, at, n, status) ==
    \A section : QuestionsAt(msg, at, n, section) = Section(<<>>, at, status)

QuestionsGoOn(msg, at, n, next, item) ==
    /\ n > 0
    /\ \A section : QuestionsAt(msg, at, n, section) = After(item, section[<<next, n - 1>>])

RecordsEnd(msg, at, n, status) ==
    \A section : RecordsAt(msg, at, n, section) = Section(<<>>, at, status)

RecordsGoOn(msg, at, n, next, item) ==
    /\ n > 0
    /\ \A section : RecordsAt(msg, at, n, section) = After(item, section[<<next, n - 1>>])

LEMMA QuestionCases ==
    ASSUME NEW msg \in Seq(Octet), NEW at \in HeaderLen..Len(msg), NEW n \in Nat
    PROVE  \/ \E status \in {"ok", "error"} : QuestionsEnd(msg, at, n, status)
           \/ \E next \in at+1..Len(msg), item \in Question : QuestionsGoOn(msg, at, n, next, item)
<1> DEFINE r     == ParseLabels(msg)[<<at, 0>>]
           fixed == at + r.size
<1>1. Len(msg) \in Nat /\ at \in Nat /\ at <= Len(msg) /\ at \in 0..Len(msg) /\ HeaderLen = 12
  BY DEF HeaderLen
<1>2. /\ r \in Names /\ r.status \in {"ok", "error"}
      /\ r.status = "ok" => fixed <= Len(msg) /\ (at < Len(msg) => r.size >= 1)
  BY <1>1, NamesNeverPanic
<1>3. \A section : QuestionsAt(msg, at, n, section) =
          IF n = 0 \/ at = Len(msg) THEN Section(<<>>, at, "ok")
          ELSE IF r.status # "ok" THEN Section(<<>>, at, r.status)
          ELSE IF Len(msg) - fixed < 4 THEN Section(<<>>, at, "error")
          ELSE After([labels |-> r.labels, fixed |-> Octets(msg, fixed, 4)],
                     section[<<fixed + 4, n - 1>>])
  BY DEF QuestionsAt
<1>4. r.size \in Nat /\ fixed = at + r.size /\ r.labels \in Seq(Label)
  BY <1>2 DEF Names
<1> HIDE DEF r, fixed
<1>5. CASE n = 0 \/ at = Len(msg)
  BY <1>3, <1>5 DEF QuestionsEnd
<1>6. CASE ~(n = 0 \/ at = Len(msg)) /\ r.status # "ok"
  BY <1>2, <1>3, <1>6 DEF QuestionsEnd
<1>7. CASE ~(n = 0 \/ at = Len(msg)) /\ r.status = "ok" /\ Len(msg) - fixed < 4
  BY <1>3, <1>7 DEF QuestionsEnd
<1>8. CASE ~(n = 0 \/ at = Len(msg)) /\ r.status = "ok" /\ ~(Len(msg) - fixed < 4)
  <2>1. fixed \in Nat /\ fixed + 4 <= Len(msg) /\ fixed + 4 \in at+1..Len(msg)
    BY <1>1, <1>4, <1>8
  <2>2. Octets(msg, fixed, 4) \in Seq(Octet) /\ Len(Octets(msg, fixed, 4)) = 4
    BY <2>1, OctetsTyped
  <2> DEFINE item == [labels |-> r.labels, fixed |-> Octets(msg, fixed, 4)]
  <2>3. item \in Question
    BY <1>4, <2>2 DEF Question
  <2>4. QuestionsGoOn(msg, at, n, fixed + 4, item)
    BY <1>3, <1>8 DEF QuestionsGoOn
  <2> HIDE DEF item
  <2> QED
    BY <2>1, <2>3, <2>4
<1> QED
  BY <1>5, <1>6, <1>7, <1>8

\* The length of a record's data wraps in no message that fits in a buffer.
LEMMA RecordCases ==
    ASSUME NEW msg \in Seq(Octet), NEW at \in HeaderLen..Len(msg), NEW n \in Nat
    PROVE  \/ \E status \in {"ok", "error"} : RecordsEnd(msg, at, n, status)
           \/ Len(msg) > BufferLen /\ RecordsEnd(msg, at, n, "panic")
           \/ \E next \in at+1..Len(msg), item \in Record : RecordsGoOn(msg, at, n, next, item)
<1> DEFINE r     == ParseLabels(msg)[<<at, 0>>]
           fixed == at + r.size
           left  == Len(msg) - fixed
           rdlen == U16At(msg, fixed + 8)
<1>1. Len(msg) \in Nat /\ at \in Nat /\ at <= Len(msg) /\ at \in 0..Len(msg) /\ at >= 12 /\ HeaderLen = 12
  BY DEF HeaderLen
<1>2. /\ r \in Names /\ r.status \in {"ok", "error"}
      /\ r.status = "ok" => fixed <= Len(msg) /\ (at < Len(msg) => r.size >= 1)
  BY <1>1, NamesNeverPanic
<1>3. \A section : RecordsAt(msg, at, n, section) =
          IF n = 0 \/ at = Len(msg) THEN Section(<<>>, at, "ok")
          ELSE IF r.status # "ok" THEN Section(<<>>, at, r.status)
          ELSE IF left < 10 \/ rdlen > left - 10 THEN Section(<<>>, at, "error")
          ELSE IF 10 + rdlen >= 65536 THEN Section(<<>>, at, "panic")
          ELSE After([labels |-> r.labels, fixed |-> Octets(msg, fixed, 8),
                      rdata  |-> Octets(msg, fixed + 10, rdlen)],
                     section[<<fixed + 10 + rdlen, n - 1>>])
  BY DEF RecordsAt
<1>4. r.size \in Nat /\ fixed = at + r.size /\ r.labels \in Seq(Label) /\ left = Len(msg) - fixed
  BY <1>2 DEF Names
<1> HIDE DEF r
<1>5. fixed \in Nat
  BY <1>1, <1>4
<1>6. left >= 10 => rdlen \in Nat
  <2> HIDE DEF fixed
  <2>1. ASSUME left >= 10 PROVE fixed + 8 \in Nat /\ (fixed + 8) + 2 <= Len(msg)
    BY <1>1, <1>5, <2>1
  <2> QED
    BY <2>1, OctetPairs
<1> HIDE DEF fixed, left, rdlen
<1>7. CASE n = 0 \/ at = Len(msg)
  BY <1>3, <1>7 DEF RecordsEnd
<1>8. CASE ~(n = 0 \/ at = Len(msg)) /\ r.status # "ok"
  BY <1>2, <1>3, <1>8 DEF RecordsEnd
<1>9. CASE ~(n = 0 \/ at = Len(msg)) /\ r.status = "ok" /\ (left < 10 \/ rdlen > left - 10)
  BY <1>3, <1>9 DEF RecordsEnd
<1>10. CASE ~(n = 0 \/ at = Len(msg)) /\ r.status = "ok" /\ ~(left < 10 \/ rdlen > left - 10)
  <2>1. rdlen \in Nat /\ left \in Nat /\ left >= 10 /\ 10 + rdlen <= left
    <3>1. left \in Int /\ left >= 10
      BY <1>1, <1>4, <1>5, <1>10
    <3>2. rdlen \in Nat /\ rdlen <= left - 10
      BY <1>6, <1>10, <3>1
    <3> QED
      BY <3>1, <3>2
  <2>2. CASE 10 + rdlen >= 65536
    <3>1. RecordsEnd(msg, at, n, "panic")
      BY <1>3, <1>10, <2>2 DEF RecordsEnd
    <3>2. Len(msg) > BufferLen
      BY <1>1, <1>4, <1>5, <2>1, <2>2 DEF BufferLen
    <3> QED
      BY <3>1, <3>2
  <2> SUFFICES ASSUME ~(10 + rdlen >= 65536)
               PROVE  \E next \in at+1..Len(msg), item \in Record :
                         RecordsGoOn(msg, at, n, next, item)
    BY <2>2
  <2>3. ~(10 + rdlen >= 65536) /\ 10 + rdlen < BufferLen
    BY <2>1 DEF BufferLen
  <2>4. fixed + left = Len(msg)
    <3>1. left = Len(msg) - fixed
      BY <1>4
    <3> QED
      BY <1>1, <1>5, <3>1
  <2>5. /\ fixed + 8 <= Len(msg) /\ fixed + 10 \in Nat /\ (fixed + 10) + rdlen <= Len(msg)
        /\ fixed + 10 + rdlen \in at+1..Len(msg)
    <3>1. at <= fixed
      BY <1>1, <1>4
    <3> QED
      BY <1>1, <1>5, <2>1, <2>4, <3>1
  <2>6. /\ Octets(msg, fixed, 8) \in Seq(Octet) /\ Len(Octets(msg, fixed, 8)) = 8
        /\ Octets(msg, fixed + 10, rdlen) \in Seq(Octet)
        /\ Len(Octets(msg, fixed + 10, rdlen)) = rdlen
    <3>1. Octets(msg, fixed, 8) \in Seq(Octet) /\ Len(Octets(msg, fixed, 8)) = 8
      BY <1>5, <2>5, EightOctets
    <3>2. /\ Octets(msg, fixed + 10, rdlen) \in Seq(Octet)
          /\ Len(Octets(msg, fixed + 10, rdlen)) = rdlen
      BY <2>1, <2>5, OctetsTyped
    <3> QED
      BY <3>1, <3>2
  <2> DEFINE item == [labels |-> r.labels, fixed |-> Octets(msg, fixed, 8),
                      rdata  |-> Octets(msg, fixed + 10, rdlen)]
  <2>7. item \in Record
    BY <1>4, <2>3, <2>6 DEF Record
  <2>8. RecordsGoOn(msg, at, n, fixed + 10 + rdlen, item)
    BY <1>3, <1>10, <2>3 DEF RecordsGoOn
  <2> HIDE DEF item
  <2> QED
    BY <2>5, <2>7, <2>8
<1> QED
  BY <1>7, <1>8, <1>9, <1>10

\* A section that a start begins, item by item.
Itemized(msg, Item, P, p) ==
    \/ \E status \in {"ok", "error"} : P[p] = Section(<<>>, p[1], status)
    \/ /\ p[2] > 0
       /\ \E next \in p[1]+1..Len(msg), item \in Item : P[p] = After(item, P[<<next, p[2] - 1>>])

\* The sections behind an item have fewer items left, and at most count.
LEMMA LowerStart ==
    ASSUME NEW msg \in Seq(Octet), NEW count \in Nat, NEW p \in Starts(msg, count),
           NEW next \in p[1]+1..Len(msg), p[2] > 0
    PROVE  /\ <<next, p[2] - 1>> \in Starts(msg, count)
           /\ Remaining(msg, count)[<<next, p[2] - 1>>] < Remaining(msg, count)[p]
<1>1. PICK at \in HeaderLen..Len(msg), n \in 0..count : p = <<at, n>>
  BY DEF Starts
<1>2. HeaderLen \in Nat /\ Len(msg) \in Nat
  BY DEF HeaderLen
<1>3. next \in HeaderLen..Len(msg) /\ n - 1 \in 0..count /\ n - 1 < n
  BY <1>1, <1>2
<1> QED
  BY <1>1, <1>3 DEF Starts, Remaining

LEMMA RemainingBound ==
    ASSUME NEW msg, NEW count \in Nat
    PROVE  /\ Remaining(msg, count) \in [Starts(msg, count) -> 0..count]
           /\ Remaining(msg, count) \in [Starts(msg, count) -> Nat]
  BY DEF Remaining, Starts

\* A section of no items is one, wherever it ends.
LEMMA EmptySection ==
    ASSUME NEW msg, NEW Item, NEW at \in Nat, Len(msg) \in Nat, at <= Len(msg),
           NEW status \in {"ok", "error"}
    PROVE  Section(<<>>, at, status) \in Sectioned(msg, at, Item)
<1>1. <<>> \in Seq(Item) /\ Len(<<>>) = 0 /\ at \in at..Len(msg)
  OBVIOUS
<1>2. 0 <= at - at
  OBVIOUS
<1> QED
  BY <1>1, <1>2 DEF Section, Sectioned

\* Item by item, every section is made of items and ends within the message.
LEMMA SectionTyped ==
    ASSUME NEW msg \in Seq(Octet), NEW Item, NEW count \in Nat, NEW P,
           \A p \in Starts(msg, count) : Itemized(msg, Item, P, p)
    PROVE  \A p \in Starts(msg, count) : P[p] \in Sectioned(msg, p[1], Item)
<1> DEFINE S == {p \in Starts(msg, count) : P[p] \in Sectioned(msg, p[1], Item)}
<1>1. Remaining(msg, count) \in [Starts(msg, count) -> Nat]
  BY RemainingBound
<1>2. ASSUME NEW p \in Starts(msg, count),
             \A q \in Starts(msg, count) :
                 Remaining(msg, count)[q] < Remaining(msg, count)[p] => q \in S
      PROVE  p \in S
  <2>1. p[1] \in Nat /\ p[1] <= Len(msg) /\ Len(msg) \in Nat
    BY DEF Starts, HeaderLen
  <2>2. CASE \E status \in {"ok", "error"} : P[p] = Section(<<>>, p[1], status)
    <3>1. PICK status \in {"ok", "error"} : P[p] = Section(<<>>, p[1], status)
      BY <2>2
    <3>2. Section(<<>>, p[1], status) \in Sectioned(msg, p[1], Item)
      BY <2>1, EmptySection
    <3> QED
      BY <3>1, <3>2
  <2>3. CASE /\ p[2] > 0
             /\ \E next \in p[1]+1..Len(msg), item \in Item :
                   P[p] = After(item, P[<<next, p[2] - 1>>])
    <3>1. PICK next \in p[1]+1..Len(msg), item \in Item : P[p] = After(item, P[<<next, p[2] - 1>>])
      BY <2>3
    <3>2. <<next, p[2] - 1>> \in S
      BY <1>2, <2>3, LowerStart
    <3>3. P[<<next, p[2] - 1>>] \in Sectioned(msg, next, Item)
      BY <3>2
    <3>4. next \in Nat /\ p[1] < next
      BY <2>1
    <3>5. After(item, P[<<next, p[2] - 1>>]) \in Sectioned(msg, p[1], Item)
      BY <2>1, <3>3, <3>4, AfterItem
    <3> QED
      BY <3>1, <3>5
  <2> QED
    BY <2>2, <2>3 DEF Itemized
<1> HIDE DEF S
<1>3. Starts(msg, count) \subseteq S
  BY <1>1, <1>2, RankInduction
<1> QED
  BY <1>3 DEF S

\* The ways to make a section make one.
LEMMA ParsedItems ==
    ASSUME NEW Item
    PROVE  /\ \A at \in Nat, status \in {"ok", "error", "panic"} :
                 Section(<<>>, at, status) \in Parsed(Item)
           /\ \A item \in Item, rest \in Parsed(Item) : After(item, rest) \in Parsed(Item)
           /\ Parsed(Item) # {}
<1>1. \A at \in Nat, status \in {"ok", "error", "panic"} : Section(<<>>, at, status) \in Parsed(Item)
  <2>1. <<>> \in Seq(Item)
    OBVIOUS
  <2> QED
    BY <2>1 DEF Section, Parsed
<1>2. ASSUME NEW item \in Item, NEW rest \in Parsed(Item) PROVE After(item, rest) \in Parsed(Item)
  <2>1. <<item>> \o rest.items \in Seq(Item)
    BY ConcatProperties DEF Parsed
  <2> QED
    BY <2>1 DEF After, Section, Parsed
<1> QED
  BY <1>1, <1>2

\* A section is what parsing at its start makes of the sections behind, and no
\* part of it panics.
LEMMA ParseQuestionsReturns ==
    ASSUME NEW msg \in Seq(Octet), NEW count \in Nat
    PROVE  \A p \in Starts(msg, count) :
              /\ ParseQuestions(msg, count)[p] =
                    QuestionsAt(msg, p[1], p[2], ParseQuestions(msg, count))
              /\ ParseQuestions(msg, count)[p] \in Sectioned(msg, p[1], Question)
<1> DEFINE D == Starts(msg, count)
           Eq(f) == f = [p \in D |-> QuestionsAt(msg, p[1], p[2], f)]
           R == Parsed(Question)
           rank == Remaining(msg, count)
           G == [x \in D \X [D -> R] |-> QuestionsAt(msg, x[1][1], x[1][2], x[2])]
           P == ParseQuestions(msg, count)
<1>1. P = CHOOSE f : Eq(f)
  BY DEF ParseQuestions, Starts
<1>2. ASSUME NEW p \in D
      PROVE  \/ \E status \in {"ok", "error"} : QuestionsEnd(msg, p[1], p[2], status)
             \/ \E next \in p[1]+1..Len(msg), item \in Question : QuestionsGoOn(msg, p[1], p[2], next, item)
  <2>1. p[1] \in HeaderLen..Len(msg) /\ p[2] \in Nat
    BY DEF Starts
  <2> QED
    BY <2>1, QuestionCases
<1>3. rank \in [D -> 0..count] /\ R # {}
  BY RemainingBound, ParsedItems
<1>4. ASSUME NEW p \in D, NEW f \in [D -> R] PROVE QuestionsAt(msg, p[1], p[2], f) \in R
  <2>1. CASE \E status \in {"ok", "error"} : QuestionsEnd(msg, p[1], p[2], status)
    <3>1. p[1] \in Nat
      BY DEF Starts, HeaderLen
    <3> QED
      BY <2>1, <3>1, ParsedItems DEF QuestionsEnd
  <2>2. CASE \E next \in p[1]+1..Len(msg), item \in Question : QuestionsGoOn(msg, p[1], p[2], next, item)
    <3>1. PICK next \in p[1]+1..Len(msg), item \in Question : QuestionsGoOn(msg, p[1], p[2], next, item)
      BY <2>2
    <3>2. <<next, p[2] - 1>> \in D
      BY <3>1, LowerStart DEF QuestionsGoOn
    <3>3. f[<<next, p[2] - 1>>] \in R
      BY <3>2
    <3> QED
      BY <3>1, <3>3, ParsedItems DEF QuestionsGoOn
  <2> QED
    BY <1>2, <2>1, <2>2
<1>5. ASSUME NEW p \in D, NEW f, NEW g, \A q \in D : rank[q] < rank[p] => f[q] = g[q]
      PROVE  QuestionsAt(msg, p[1], p[2], f) = QuestionsAt(msg, p[1], p[2], g)
  <2>1. CASE \E status \in {"ok", "error"} : QuestionsEnd(msg, p[1], p[2], status)
    BY <2>1 DEF QuestionsEnd
  <2>2. CASE \E next \in p[1]+1..Len(msg), item \in Question : QuestionsGoOn(msg, p[1], p[2], next, item)
    <3>1. PICK next \in p[1]+1..Len(msg), item \in Question : QuestionsGoOn(msg, p[1], p[2], next, item)
      BY <2>2
    <3>2. <<next, p[2] - 1>> \in D /\ rank[<<next, p[2] - 1>>] < rank[p]
      BY <3>1, LowerStart DEF QuestionsGoOn
    <3>3. f[<<next, p[2] - 1>>] = g[<<next, p[2] - 1>>]
      BY <1>5, <3>2
    <3> QED
      BY <3>1, <3>3 DEF QuestionsGoOn
  <2> QED
    BY <1>2, <2>1, <2>2
<1>6. \A x \in D, f \in [D -> R] : G[<<x, f>>] = QuestionsAt(msg, x[1], x[2], f)
  OBVIOUS
<1>7. G \in [D \X [D -> R] -> R]
  BY <1>4
<1> HIDE DEF D, R, rank, G
<1>8. ReadsLower(D, R, rank, G)
  <2> SUFFICES ASSUME NEW x \in D, NEW f \in [D -> R], NEW g \in [D -> R],
                      \A y \in D : rank[y] < rank[x] => f[y] = g[y]
               PROVE  G[<<x, f>>] = G[<<x, g>>]
    BY Zenon DEF ReadsLower
  <2> QED
    BY <1>5, <1>6
<1>9. HasFixedPoint(D, R, G)
  BY <1>3, <1>7, <1>8, FixedPoint
<1>10. PICK h \in [D -> R] : \A x \in D : h[x] = G[<<x, h>>]
  BY <1>9 DEF HasFixedPoint
<1>11. Eq(h)
  BY <1>6, <1>10
<1> HIDE DEF Eq, P
<1>12. Eq(P)
  BY <1>1, <1>11
<1>13. \A p \in D : P[p] = QuestionsAt(msg, p[1], p[2], P)
  BY <1>12 DEF Eq
<1>14. \A p \in D : Itemized(msg, Question, P, p)
  BY <1>2, <1>13 DEF Itemized, QuestionsEnd, QuestionsGoOn
<1>15. \A p \in D : P[p] \in Sectioned(msg, p[1], Question)
  BY <1>14, SectionTyped DEF D
<1> QED
  BY <1>13, <1>15 DEF D, P

\* A section of records is parsed item by item.  In a message of 65536 octets no
\* sum of a record wraps; in a longer one it may.
LEMMA ParseRecordsReturns ==
    ASSUME NEW msg \in Seq(Octet), NEW count \in Nat
    PROVE  \A p \in Starts(msg, count) :
              /\ ParseRecords(msg, count)[p] =
                    RecordsAt(msg, p[1], p[2], ParseRecords(msg, count))
              /\ Len(msg) <= BufferLen =>
                    ParseRecords(msg, count)[p] \in Sectioned(msg, p[1], Record)
<1> DEFINE D == Starts(msg, count)
           Eq(f) == f = [p \in D |-> RecordsAt(msg, p[1], p[2], f)]
           R == Parsed(Record)
           rank == Remaining(msg, count)
           G == [x \in D \X [D -> R] |-> RecordsAt(msg, x[1][1], x[1][2], x[2])]
           P == ParseRecords(msg, count)
<1>1. P = CHOOSE f : Eq(f)
  BY DEF ParseRecords, Starts
<1>2. ASSUME NEW p \in D
      PROVE  \/ \E status \in {"ok", "error"} : RecordsEnd(msg, p[1], p[2], status)
             \/ Len(msg) > BufferLen /\ RecordsEnd(msg, p[1], p[2], "panic")
             \/ \E next \in p[1]+1..Len(msg), item \in Record : RecordsGoOn(msg, p[1], p[2], next, item)
  <2>1. p[1] \in HeaderLen..Len(msg) /\ p[2] \in Nat
    BY DEF Starts
  <2> QED
    BY <2>1, RecordCases
<1>3. rank \in [D -> 0..count] /\ R # {}
  BY RemainingBound, ParsedItems
<1>4. ASSUME NEW p \in D, NEW f \in [D -> R] PROVE RecordsAt(msg, p[1], p[2], f) \in R
  <2>1. CASE \E status \in {"ok", "error", "panic"} : RecordsEnd(msg, p[1], p[2], status)
    <3>1. p[1] \in Nat
      BY DEF Starts, HeaderLen
    <3> QED
      BY <2>1, <3>1, ParsedItems DEF RecordsEnd
  <2>2. CASE \E next \in p[1]+1..Len(msg), item \in Record : RecordsGoOn(msg, p[1], p[2], next, item)
    <3>1. PICK next \in p[1]+1..Len(msg), item \in Record : RecordsGoOn(msg, p[1], p[2], next, item)
      BY <2>2
    <3>2. <<next, p[2] - 1>> \in D
      BY <3>1, LowerStart DEF RecordsGoOn
    <3>3. f[<<next, p[2] - 1>>] \in R
      BY <3>2
    <3> QED
      BY <3>1, <3>3, ParsedItems DEF RecordsGoOn
  <2> QED
    BY <1>2, <2>1, <2>2
<1>5. ASSUME NEW p \in D, NEW f, NEW g, \A q \in D : rank[q] < rank[p] => f[q] = g[q]
      PROVE  RecordsAt(msg, p[1], p[2], f) = RecordsAt(msg, p[1], p[2], g)
  <2>1. CASE \E status \in {"ok", "error", "panic"} : RecordsEnd(msg, p[1], p[2], status)
    BY <2>1 DEF RecordsEnd
  <2>2. CASE \E next \in p[1]+1..Len(msg), item \in Record : RecordsGoOn(msg, p[1], p[2], next, item)
    <3>1. PICK next \in p[1]+1..Len(msg), item \in Record : RecordsGoOn(msg, p[1], p[2], next, item)
      BY <2>2
    <3>2. <<next, p[2] - 1>> \in D /\ rank[<<next, p[2] - 1>>] < rank[p]
      BY <3>1, LowerStart DEF RecordsGoOn
    <3>3. f[<<next, p[2] - 1>>] = g[<<next, p[2] - 1>>]
      BY <1>5, <3>2
    <3> QED
      BY <3>1, <3>3 DEF RecordsGoOn
  <2> QED
    BY <1>2, <2>1, <2>2
<1>6. \A x \in D, f \in [D -> R] : G[<<x, f>>] = RecordsAt(msg, x[1], x[2], f)
  OBVIOUS
<1>7. G \in [D \X [D -> R] -> R]
  BY <1>4
<1> HIDE DEF D, R, rank, G
<1>8. ReadsLower(D, R, rank, G)
  <2> SUFFICES ASSUME NEW x \in D, NEW f \in [D -> R], NEW g \in [D -> R],
                      \A y \in D : rank[y] < rank[x] => f[y] = g[y]
               PROVE  G[<<x, f>>] = G[<<x, g>>]
    BY Zenon DEF ReadsLower
  <2> QED
    BY <1>5, <1>6
<1>9. HasFixedPoint(D, R, G)
  BY <1>3, <1>7, <1>8, FixedPoint
<1>10. PICK h \in [D -> R] : \A x \in D : h[x] = G[<<x, h>>]
  BY <1>9 DEF HasFixedPoint
<1>11. Eq(h)
  BY <1>6, <1>10
<1> HIDE DEF Eq, P
<1>12. Eq(P)
  BY <1>1, <1>11
<1>13. \A p \in D : P[p] = RecordsAt(msg, p[1], p[2], P)
  BY <1>12 DEF Eq
<1>14. ASSUME Len(msg) <= BufferLen PROVE \A p \in D : Itemized(msg, Record, P, p)
  <2>1. BufferLen \in Nat /\ Len(msg) \in Nat
    BY DEF BufferLen
  <2>2. ~(Len(msg) > BufferLen)
    BY <1>14, <2>1
  <2> QED
    BY <1>2, <1>13, <2>2 DEF Itemized, RecordsEnd, RecordsGoOn
<1>15. ASSUME Len(msg) <= BufferLen PROVE \A p \in D : P[p] \in Sectioned(msg, p[1], Record)
  BY <1>14, <1>15, SectionTyped DEF D
<1> QED
  BY <1>13, <1>15 DEF D, P

-----------------------------------------------------------------------------
(* Messages                                                                *)

\* As many items as fit in a buffer behind the header, and messages of them.
Few(Item) == {s \in Seq(Item) : Len(s) <= BufferLen - HeaderLen}

Messages == [questions : Few(Question), answers : Few(Record),
             authority : Few(Record), additional : Few(Record)]

\* A section has no more items than that and ends where another may start.
LEMMA FewItems ==
    ASSUME NEW msg \in Seq(Octet), Len(msg) <= BufferLen, NEW Item, NEW at \in HeaderLen..Len(msg),
           NEW s \in Sectioned(msg, at, Item)
    PROVE  /\ s.items \in Few(Item) /\ s.next \in HeaderLen..Len(msg)
           /\ s.status \in {"ok", "error"}
<1>1. /\ s.items \in Seq(Item) /\ s.next \in at..Len(msg) /\ s.status \in {"ok", "error"}
      /\ Len(s.items) <= s.next - at
  BY DEF Sectioned
<1>2. HeaderLen \in Nat /\ BufferLen \in Nat /\ Len(msg) \in Nat /\ Len(s.items) \in Nat
  BY <1>1 DEF HeaderLen, BufferLen
<1>3. Len(s.items) <= BufferLen - HeaderLen /\ s.next \in HeaderLen..Len(msg)
  BY <1>1, <1>2
<1> QED
  BY <1>1, <1>3 DEF Few

\* So does the one that follows it.
LEMMA FollowingTyped ==
    ASSUME NEW msg \in Seq(Octet), Len(msg) <= BufferLen, NEW count \in Nat,
           NEW s, s.next \in HeaderLen..Len(msg), s.status \in {"ok", "error"}
    PROVE  LET t == Following(msg, s, count)
           IN  /\ t.items \in Few(Record) /\ t.next \in HeaderLen..Len(msg)
               /\ t.status \in {"ok", "error"}
<1> DEFINE t == Following(msg, s, count)
<1>1. CASE s.status = "ok"
  <2>1. <<s.next, count>> \in Starts(msg, count)
    BY DEF Starts
  <2>2. ParseRecords(msg, count)[<<s.next, count>>] \in Sectioned(msg, s.next, Record)
    BY <2>1, ParseRecordsReturns
  <2>3. t \in Sectioned(msg, s.next, Record)
    BY <1>1, <2>2 DEF Following
  <2> HIDE DEF t
  <2>4. t.items \in Few(Record) /\ t.next \in HeaderLen..Len(msg) /\ t.status \in {"ok", "error"}
    BY <2>3, FewItems
  <2> QED
    BY <2>4 DEF t
<1>2. CASE s.status # "ok"
  <2>1. <<>> \in Few(Record)
    BY DEF Few, BufferLen, HeaderLen
  <2> QED
    BY <1>2, <2>1 DEF Following, Section
<1> QED
  BY <1>1, <1>2

\* The four sections of a message, one after the other.
LEMMA SectionsFollow ==
    ASSUME NEW msg, ~(Len(msg) <= HeaderLen),
           NEW qd, qd = ParseQuestions(msg, U16At(msg, 4))[<<HeaderLen, U16At(msg, 4)>>],
           NEW an, an = Following(msg, qd, U16At(msg, 6)),
           NEW ns, ns = Following(msg, an, U16At(msg, 8)),
           NEW ar, ar = Following(msg, ns, U16At(msg, 10))
    PROVE  ParseDNSMessage(msg) =
              [status |-> ar.status, msg |-> Sections(qd.items, an.items, ns.items, ar.items)]
<1> DEFINE first == ParseQuestions(msg, U16At(msg, 4))[<<HeaderLen, U16At(msg, 4)>>]
           next(s, k) == Following(msg, s, U16At(msg, 4 + 2 * k))
           Eq(f) == f = [k \in 0..3 |-> IF k = 0 THEN first ELSE next(f[k - 1], k)]
           g == [k \in 0..3 |-> IF k = 0 THEN qd ELSE IF k = 1 THEN an
                                ELSE IF k = 2 THEN ns ELSE ar]
           section == CHOOSE f : Eq(f)
<1>1. ParseDNSMessage(msg) =
          [status |-> section[3].status,
           msg    |-> Sections(section[0].items, section[1].items,
                               section[2].items, section[3].items)]
  BY Zenon DEF ParseDNSMessage
<1>2. first = qd /\ next(qd, 1) = an /\ next(an, 2) = ns /\ next(ns, 3) = ar
  <2>1. 4 + 2 * 1 = 6 /\ 4 + 2 * 2 = 8 /\ 4 + 2 * 3 = 10
    OBVIOUS
  <2> QED
    BY <2>1, Zenon
<1> HIDE DEF first, next
<1>3. g[0] = qd /\ g[1] = an /\ g[2] = ns /\ g[3] = ar
  OBVIOUS
<1>4. Eq(g)
  <2>1. \A k \in 0..3 : k = 0 \/ k = 1 \/ k = 2 \/ k = 3
    OBVIOUS
  <2>2. \A k \in 0..3 : g[k] = IF k = 0 THEN first ELSE next(g[k - 1], k)
    BY <1>2, <1>3, <2>1
  <2>3. g = [k \in 0..3 |-> g[k]]
    OBVIOUS
  <2> HIDE DEF g
  <2> QED
    BY <2>2, <2>3
<1>5. Eq(section)
  <2> HIDE DEF g, Eq
  <2> QED
    BY <1>4, Zenon
<1> HIDE DEF section, g
<1>6. section[0] = qd
  BY <1>2, <1>5
<1>7. section[1] = an
  BY <1>2, <1>5, <1>6
<1>8. section[2] = ns
  BY <1>2, <1>5, <1>7
<1>9. section[3] = ar
  BY <1>2, <1>5, <1>8
<1> QED
  BY <1>1, <1>6, <1>7, <1>8, <1>9

\* Four sections that go well make a message.
LEMMA SectionsOk ==
    ASSUME NEW msg, ~(Len(msg) <= HeaderLen), NEW q, NEW an, NEW ns, NEW ar,
           NEW at2, NEW at3, NEW at4, NEW last,
           ParseQuestions(msg, U16At(msg, 4))[<<HeaderLen, U16At(msg, 4)>>] = Section(q, at2, "ok"),
           U16At(msg, 6) = Len(an), U16At(msg, 8) = Len(ns), U16At(msg, 10) = Len(ar),
           ParseRecords(msg, Len(an))[<<at2, Len(an)>>] = Section(an, at3, "ok"),
           ParseRecords(msg, Len(ns))[<<at3, Len(ns)>>] = Section(ns, at4, "ok"),
           ParseRecords(msg, Len(ar))[<<at4, Len(ar)>>] = Section(ar, last, "ok")
    PROVE  ParseDNSMessage(msg) = [status |-> "ok", msg |-> Sections(q, an, ns, ar)]
<1> DEFINE pq  == ParseQuestions(msg, U16At(msg, 4))[<<HeaderLen, U16At(msg, 4)>>]
           pan == Following(msg, pq, U16At(msg, 6))
           pns == Following(msg, pan, U16At(msg, 8))
           par == Following(msg, pns, U16At(msg, 10))
<1>1. ParseDNSMessage(msg) =
          [status |-> par.status, msg |-> Sections(pq.items, pan.items, pns.items, par.items)]
  BY SectionsFollow
<1>2. \A s, count : s.status = "ok" =>
          Following(msg, s, count) = ParseRecords(msg, count)[<<s.next, count>>]
  BY DEF Following
<1>3. \A items, next : LET s == Section(items, next, "ok")
                       IN  s.items = items /\ s.next = next /\ s.status = "ok"
  BY DEF Section
<1>4. pq = Section(q, at2, "ok")
  OBVIOUS
<1> HIDE DEF pq
<1>5. pan = Section(an, at3, "ok")
  BY <1>2, <1>3, <1>4
<1> HIDE DEF pan
<1>6. pns = Section(ns, at4, "ok")
  BY <1>2, <1>3, <1>5
<1> HIDE DEF pns
<1>7. par = Section(ar, last, "ok")
  BY <1>2, <1>3, <1>6
<1> HIDE DEF par
<1> QED
  BY <1>1, <1>3, <1>4, <1>5, <1>6, <1>7

\* What parseDNSMessage returns of any octets of a buffer.
LEMMA MessageParsed ==
    ASSUME NEW msg \in Seq(Octet), Len(msg) <= BufferLen
    PROVE  ParseDNSMessage(msg) \in [status : {"ok", "error"}, msg : Messages]
<1>1. CASE Len(msg) <= HeaderLen
  <2>1. \A Item : <<>> \in Few(Item)
    BY DEF Few, BufferLen, HeaderLen
  <2>2. Empty \in Messages
    BY <2>1 DEF Empty, Sections, Messages
  <2> QED
    BY <1>1, <2>2 DEF ParseDNSMessage
<1>2. CASE Len(msg) > HeaderLen
  <2>1. Len(msg) \in Nat /\ HeaderLen = 12
    BY DEF HeaderLen
  <2>2. U16At(msg, 4) \in Nat /\ U16At(msg, 6) \in Nat /\ U16At(msg, 8) \in Nat /\ U16At(msg, 10) \in Nat
    BY <1>2, <2>1, OctetPairs
  <2> DEFINE qd == ParseQuestions(msg, U16At(msg, 4))[<<HeaderLen, U16At(msg, 4)>>]
             an == Following(msg, qd, U16At(msg, 6))
             ns == Following(msg, an, U16At(msg, 8))
             ar == Following(msg, ns, U16At(msg, 10))
  <2>3. HeaderLen \in HeaderLen..Len(msg)
    BY <1>2, <2>1
  <2>4. /\ qd.items \in Few(Question) /\ qd.next \in HeaderLen..Len(msg)
        /\ qd.status \in {"ok", "error"}
    <3>1. <<HeaderLen, U16At(msg, 4)>> \in Starts(msg, U16At(msg, 4))
      BY <2>2, <2>3 DEF Starts
    <3>2. qd \in Sectioned(msg, HeaderLen, Question)
      BY <2>2, <3>1, ParseQuestionsReturns
    <3> HIDE DEF qd
    <3> QED
      BY <2>3, <3>2, FewItems
  <2> HIDE DEF qd
  <2>5. /\ an.items \in Few(Record) /\ an.next \in HeaderLen..Len(msg)
        /\ an.status \in {"ok", "error"}
    BY <2>2, <2>4, FollowingTyped
  <2> HIDE DEF an
  <2>6. /\ ns.items \in Few(Record) /\ ns.next \in HeaderLen..Len(msg)
        /\ ns.status \in {"ok", "error"}
    BY <2>2, <2>5, FollowingTyped
  <2> HIDE DEF ns
  <2>7. ar.items \in Few(Record) /\ ar.status \in {"ok", "error"}
    BY <2>2, <2>6, FollowingTyped
  <2> HIDE DEF ar
  <2>8. ParseDNSMessage(msg) =
            [status |-> ar.status, msg |-> Sections(qd.items, an.items, ns.items, ar.items)]
    <3>1. ~(Len(msg) <= HeaderLen)
      BY <1>2, <2>1
    <3>2. /\ qd = ParseQuestions(msg, U16At(msg, 4))[<<HeaderLen, U16At(msg, 4)>>]
          /\ an = Following(msg, qd, U16At(msg, 6)) /\ ns = Following(msg, an, U16At(msg, 8))
          /\ ar = Following(msg, ns, U16At(msg, 10))
      BY Zenon DEF qd, an, ns, ar
    <3> QED
      BY <3>1, <3>2, SectionsFollow
  <2>9. Sections(qd.items, an.items, ns.items, ar.items) \in Messages
    BY <2>4, <2>5, <2>6, <2>7 DEF Sections, Messages
  <2> QED
    BY <2>7, <2>8, <2>9
<1> QED
  <2>1. Len(msg) \in Nat /\ HeaderLen \in Nat
    BY DEF HeaderLen
  <2> QED
    BY <1>1, <1>2, <2>1

\* What is parsed came from a buffer.
WireInv == stage = "received" => wire \in Seq(Octet) /\ Len(wire) <= BufferLen

\* No octets make the parser panic, however many fill a buffer and whatever loops
\* the pointers among them form, and it returns on all of them.
THEOREM ParserReturnsAlways == WireSpec => []ParserNeverPanics
<1>1. WireInit => WireInv
  BY WireAssumption DEF WireInit, WireInv
<1>2. WireInv /\ [WireNext]_wireVars => WireInv'
  BY DEF WireInv, WireNext, Relay, Drop, SendFailure, Answer, Send, wireVars
<1>3. WireInv => ParserNeverPanics
  BY MessageParsed DEF WireInv, ParserNeverPanics
<1> QED
  BY <1>1, <1>2, <1>3, PTL DEF WireSpec

-----------------------------------------------------------------------------
(* Octets within octets                                                    *)

\* The octets o are in msg behind the first at of them.
Holds(msg, at, o) == at + Len(o) <= Len(msg) /\ \A j \in 1..Len(o) : msg[at + j] = o[j]

\* So are the two parts of what is there.
LEMMA HoldsParts ==
    ASSUME NEW msg \in Seq(Octet), NEW a \in Seq(Octet), NEW b \in Seq(Octet), NEW at \in Nat,
           Holds(msg, at, a \o b)
    PROVE  Holds(msg, at, a) /\ Holds(msg, at + Len(a), b)
<1>1. /\ Len(a \o b) = Len(a) + Len(b)
      /\ \A i \in 1..Len(a) + Len(b) : (a \o b)[i] = IF i <= Len(a) THEN a[i] ELSE b[i - Len(a)]
  BY ConcatProperties
<1>2. Len(a) \in Nat /\ Len(b) \in Nat /\ Len(msg) \in Nat
  OBVIOUS
<1>3. at + (Len(a) + Len(b)) <= Len(msg) /\ \A j \in 1..Len(a) + Len(b) : msg[at + j] = (a \o b)[j]
  BY <1>1 DEF Holds
<1>4. Holds(msg, at, a)
  <2>1. ASSUME NEW j \in 1..Len(a) PROVE msg[at + j] = a[j]
    <3>1. j \in 1..Len(a) + Len(b) /\ j <= Len(a)
      BY <1>2
    <3> QED
      BY <1>1, <1>3, <3>1
  <2> QED
    BY <1>2, <1>3, <2>1 DEF Holds
<1>5. Holds(msg, at + Len(a), b)
  <2>1. ASSUME NEW j \in 1..Len(b) PROVE msg[(at + Len(a)) + j] = b[j]
    <3>1. /\ Len(a) + j \in 1..Len(a) + Len(b) /\ ~(Len(a) + j <= Len(a))
          /\ (Len(a) + j) - Len(a) = j /\ at + (Len(a) + j) = (at + Len(a)) + j
      BY <1>2
    <3>2. msg[at + (Len(a) + j)] = (a \o b)[Len(a) + j]
      BY <1>3, <3>1
    <3>3. (a \o b)[Len(a) + j] = b[(Len(a) + j) - Len(a)]
      BY <1>1, <3>1
    <3> QED
      BY <3>1, <3>2, <3>3
  <2>2. (at + Len(a)) + Len(b) <= Len(msg)
    BY <1>2, <1>3
  <2> QED
    BY <2>1, <2>2 DEF Holds
<1> QED
  BY <1>4, <1>5

\* What is within what is there is there.
LEMMA HoldsWithin ==
    ASSUME NEW msg \in Seq(Octet), NEW f \in Seq(Octet), NEW o \in Seq(Octet),
           NEW at \in Nat, NEW d \in Nat, Holds(msg, at, f), Holds(f, d, o)
    PROVE  Holds(msg, at + d, o)
<1>1. Len(f) \in Nat /\ Len(o) \in Nat /\ Len(msg) \in Nat
  OBVIOUS
<1>2. /\ at + Len(f) <= Len(msg) /\ \A j \in 1..Len(f) : msg[at + j] = f[j]
      /\ d + Len(o) <= Len(f) /\ \A j \in 1..Len(o) : f[d + j] = o[j]
  BY DEF Holds
<1>3. ASSUME NEW j \in 1..Len(o) PROVE msg[(at + d) + j] = o[j]
  <2>1. d + j \in 1..Len(f) /\ at + (d + j) = (at + d) + j
    BY <1>1, <1>2
  <2>2. msg[at + (d + j)] = f[d + j]
    BY <1>2, <2>1
  <2> QED
    BY <1>2, <2>1, <2>2
<1>4. (at + d) + Len(o) <= Len(msg)
  BY <1>1, <1>2
<1> QED
  BY <1>3, <1>4 DEF Holds

\* It stays there when octets are written behind, which are there then.
LEMMA HoldsConcat ==
    ASSUME NEW a \in Seq(Octet), NEW b \in Seq(Octet)
    PROVE  /\ a \o b \in Seq(Octet) /\ Len(a \o b) = Len(a) + Len(b)
           /\ Holds(a \o b, Len(a), b)
           /\ \A d \in Nat : \A o \in Seq(Octet) : Holds(a, d, o) => Holds(a \o b, d, o)
<1>1. /\ a \o b \in Seq(Octet) /\ Len(a \o b) = Len(a) + Len(b)
      /\ Len(a) \in Nat /\ Len(b) \in Nat
  BY ConcatProperties
<1>2. Holds(a \o b, 0, a \o b)
  BY <1>1 DEF Holds
<1>3. Holds(a \o b, 0, a) /\ Holds(a \o b, 0 + Len(a), b)
  BY <1>1, <1>2, HoldsParts
<1>4. \A d \in Nat : 0 + d = d
  OBVIOUS
<1>5. ASSUME NEW d \in Nat, NEW o \in Seq(Octet), Holds(a, d, o) PROVE Holds(a \o b, d, o)
  <2>1. Holds(a \o b, 0 + d, o)
    BY <1>1, <1>3, <1>5, HoldsWithin
  <2> QED
    BY <1>4, <2>1
<1> QED
  BY <1>1, <1>3, <1>4, <1>5

\* A slice of them is what is there.
LEMMA OctetsHeld ==
    ASSUME NEW msg \in Seq(Octet), NEW o \in Seq(Octet), NEW at \in Nat, Holds(msg, at, o)
    PROVE  Octets(msg, at, Len(o)) = o
<1>1. Len(o) \in Nat /\ at + Len(o) <= Len(msg) /\ \A j \in 1..Len(o) : msg[at + j] = o[j]
  BY DEF Holds
<1>2. /\ Octets(msg, at, Len(o)) \in Seq(Octet) /\ Len(Octets(msg, at, Len(o))) = Len(o)
      /\ \A i \in 1..Len(o) : Octets(msg, at, Len(o))[i] = msg[at + i]
  BY <1>1, OctetsInMessage
<1> QED
  BY <1>1, <1>2, SeqEqual

\* Where each of some parts ends in what they are flattened to.
Flattened(parts, f, ends) ==
    /\ f \in Seq(Octet)
    /\ ends \in [0..Len(parts) -> Nat] /\ ends[0] = 0 /\ ends[Len(parts)] = Len(f)
    /\ \A i \in 1..Len(parts) :
          ends[i] = ends[i - 1] + Len(parts[i]) /\ Holds(f, ends[i - 1], parts[i])

\* FlattenSeq puts one part behind the other.
LEMMA FlattenSteps ==
    ASSUME NEW s \in Seq(Seq(Octet)), Len(s) # 0
    PROVE  \E P \in [1..Len(s) -> Seq(Octet)] :
              /\ FlattenSeq(s) = P[Len(s)]
              /\ \A i \in 1..Len(s) : P[i] = IF i = 1 THEN s[1] ELSE P[i - 1] \o s[i]
<1> DEFINE n == Len(s)
           D == 1..n
           R == Seq(Octet)
           Step(i, f) == IF i = 1 THEN s[i] ELSE f[i - 1] \o s[i]
           Eq(f) == f = [i \in D |-> Step(i, f)]
           rank == [i \in D |-> i]
           G == [x \in D \X [D -> R] |-> Step(x[1], x[2])]
           P == CHOOSE f : Eq(f)
<1>1. FlattenSeq(s) = P[n]
  BY DEF FlattenSeq
<1>2. n \in Nat /\ n >= 1 /\ R # {} /\ \A i \in D : s[i] \in R
  <2>1. n \in Nat /\ <<>> \in R
    OBVIOUS
  <2> QED
    BY <2>1, ElementOfSeq
<1>3. rank \in [D -> 0..n] /\ rank \in [D -> Nat] /\ \A i \in D : rank[i] = i
  BY <1>2
<1>4. \A i \in D : i = 1 \/ (i - 1 \in D /\ i - 1 < i)
  BY <1>2
<1>5. ASSUME NEW i \in D, NEW f, \A k \in D : k < i => f[k] \in R PROVE Step(i, f) \in R
  <2>1. CASE i = 1
    BY <1>2, <2>1
  <2>2. CASE i # 1
    BY <1>2, <1>4, <1>5, <2>2, ConcatProperties
  <2> QED
    BY <2>1, <2>2
<1>6. ASSUME NEW i \in D, NEW f, NEW g, \A k \in D : k < i => f[k] = g[k] PROVE Step(i, f) = Step(i, g)
  BY <1>4, <1>6
<1> HIDE DEF Step, n, R
<1>7. \A x \in D, f \in [D -> R] : G[<<x, f>>] = Step(x, f)
  OBVIOUS
<1>8. G \in [D \X [D -> R] -> R]
  BY <1>5
<1> HIDE DEF G, rank, D
<1>9. ReadsLower(D, R, rank, G)
  <2> SUFFICES ASSUME NEW x \in D, NEW f \in [D -> R], NEW g \in [D -> R],
                      \A y \in D : rank[y] < rank[x] => f[y] = g[y]
               PROVE  G[<<x, f>>] = G[<<x, g>>]
    BY Zenon DEF ReadsLower
  <2>1. \A k \in D : k < x => f[k] = g[k]
    BY <1>3
  <2>2. Step(x, f) = Step(x, g)
    BY <1>6, <2>1
  <2> QED
    BY <1>7, <2>2
<1>10. HasFixedPoint(D, R, G)
  BY <1>2, <1>3, <1>8, <1>9, FixedPoint
<1>11. PICK h \in [D -> R] : \A x \in D : h[x] = G[<<x, h>>]
  BY <1>10 DEF HasFixedPoint
<1>12. Eq(h)
  BY <1>7, <1>11
<1> HIDE DEF Eq
<1>13. Eq(P)
  BY <1>12
<1> HIDE DEF P
<1>14. P = [i \in D |-> P[i]] /\ \A i \in D : P[i] = Step(i, P)
  BY <1>13 DEF Eq
<1> DEFINE S == {i \in D : P[i] \in R}
<1>15. \A x \in D : (\A y \in D : rank[y] < rank[x] => y \in S) => x \in S
  <2> SUFFICES ASSUME NEW x \in D, \A y \in D : rank[y] < rank[x] => y \in S PROVE P[x] \in R
    OBVIOUS
  <2>1. \A k \in D : k < x => P[k] \in R
    BY <1>3
  <2>2. Step(x, P) \in R
    BY <1>5, <2>1
  <2> QED
    BY <1>14, <2>2
<1> HIDE DEF S
<1>16. D \subseteq S
  BY <1>3, <1>15, RankInduction
<1>17. P \in [D -> R]
  BY <1>14, <1>16 DEF S
<1> QED
  BY <1>1, <1>14, <1>17 DEF Step, D, R, n

\* So each part is behind where the one before it ends.
LEMMA FlattenEnds ==
    ASSUME NEW s \in Seq(Seq(Octet))
    PROVE  \E ends : Flattened(s, FlattenSeq(s), ends)
<1>1. CASE Len(s) = 0
  <2>1. s = <<>> /\ FlattenSeq(s) = <<>>
    BY <1>1 DEF FlattenSeq
  <2> DEFINE ends == [i \in 0..Len(s) |-> 0]
  <2>2. ends \in [0..Len(s) -> Nat] /\ ends[0] = 0 /\ ends[Len(s)] = 0
    BY <1>1
  <2>3. <<>> \in Seq(Octet) /\ Len(<<>>) = 0
    OBVIOUS
  <2> HIDE DEF ends
  <2>4. Flattened(s, FlattenSeq(s), ends)
    BY <1>1, <2>1, <2>2, <2>3 DEF Flattened
  <2> QED
    BY <2>4
<1>2. CASE Len(s) # 0
  <2> DEFINE n == Len(s)
  <2>1. PICK P \in [1..n -> Seq(Octet)] :
            /\ FlattenSeq(s) = P[n]
            /\ \A i \in 1..n : P[i] = IF i = 1 THEN s[1] ELSE P[i - 1] \o s[i]
    BY <1>2, FlattenSteps
  <2> DEFINE ends == [i \in 0..n |-> IF i = 0 THEN 0 ELSE Len(P[i])]
  <2>2. n \in Nat /\ n >= 1 /\ (\A i \in 1..n : s[i] \in Seq(Octet) /\ Len(s[i]) \in Nat)
    BY <1>2, ElementOfSeq
  <2>3. \A i \in 1..n : P[i] \in Seq(Octet) /\ Len(P[i]) \in Nat
    BY <2>1, LenProperties
  <2> HIDE DEF n
  <2>4. ASSUME NEW i \in 1..n
        PROVE  /\ ends[i] = ends[i - 1] + Len(s[i]) /\ ends[i - 1] \in Nat
               /\ Holds(P[i], ends[i - 1], s[i])
    <3>1. CASE i = 1
      <4>0. 1 \in 1..n /\ 1 \in 0..n /\ 0 \in 0..n /\ 1 - 1 = 0
        BY <2>2
      <4>1. P[1] = s[1] /\ ends[1] = Len(P[1]) /\ ends[0] = 0
        <5>1. P[1] = s[1]
          BY <2>1, <4>0
        <5>2. ends[1] = Len(P[1]) /\ ends[0] = 0
          BY <4>0
        <5> QED
          BY <5>1, <5>2
      <4>2. s[1] \in Seq(Octet) /\ Len(s[1]) \in Nat /\ Holds(s[1], 0, s[1])
        BY <2>2 DEF Holds
      <4> HIDE DEF ends
      <4>3. ends[1] = ends[1 - 1] + Len(s[1]) /\ ends[1 - 1] \in Nat /\ Holds(P[1], ends[1 - 1], s[1])
        BY <4>0, <4>1, <4>2
      <4> QED
        BY <3>1, <4>3
    <3>2. CASE i # 1
      <4>0. i - 1 \in 1..n /\ i \in 0..n /\ i - 1 \in 0..n /\ i # 0 /\ i - 1 # 0
        BY <2>2, <3>2
      <4>1. P[i] = P[i - 1] \o s[i]
        BY <2>1, <3>2
      <4>2. ends[i] = Len(P[i]) /\ ends[i - 1] = Len(P[i - 1])
        BY <4>0
      <4> HIDE DEF ends
      <4> QED
        BY <2>2, <2>3, <4>0, <4>1, <4>2, HoldsConcat
    <3> QED
      BY <3>1, <3>2
  <2>5. ASSUME NEW i \in 1..n PROVE Holds(P[n], ends[i - 1], s[i])
    <3> HIDE DEF ends
    <3> DEFINE S == {k \in Nat : i + k <= n => Holds(P[i + k], ends[i - 1], s[i])}
    <3>1. 0 \in S
      <4>1. i + 0 = i
        BY <2>2
      <4> QED
        BY <2>4, <4>1
    <3>2. ASSUME NEW k \in Nat, k \in S PROVE k + 1 \in S
      <4>1. SUFFICES ASSUME i + (k + 1) <= n PROVE Holds(P[i + (k + 1)], ends[i - 1], s[i])
        OBVIOUS
      <4>2. /\ i + k \in 1..n /\ i + (k + 1) \in 1..n /\ i + (k + 1) # 1
            /\ (i + (k + 1)) - 1 = i + k
        BY <2>2, <4>1
      <4>3. P[i + (k + 1)] = P[i + k] \o s[i + (k + 1)]
        BY <2>1, <4>2
      <4>4. Holds(P[i + k], ends[i - 1], s[i])
        BY <2>2, <3>2, <4>2
      <4>5. /\ P[i + k] \in Seq(Octet) /\ s[i + (k + 1)] \in Seq(Octet)
            /\ s[i] \in Seq(Octet) /\ ends[i - 1] \in Nat
        BY <2>2, <2>3, <2>4, <4>2
      <4> QED
        BY <4>3, <4>4, <4>5, HoldsConcat
    <3> HIDE DEF S
    <3>3. \A k \in Nat : k \in S
      BY <3>1, <3>2, NatSetInduction
    <3>4. n - i \in Nat /\ i + (n - i) = n /\ n <= n
      BY <2>2
    <3>5. n - i \in S
      BY <3>3, <3>4
    <3>6. i + (n - i) <= n => Holds(P[i + (n - i)], ends[i - 1], s[i])
      BY <3>5 DEF S
    <3> QED
      BY <3>4, <3>6
  <2>6. /\ ends \in [0..n -> Nat] /\ ends[0] = 0 /\ ends[n] = Len(FlattenSeq(s))
        /\ FlattenSeq(s) \in Seq(Octet)
    BY <2>1, <2>2, <2>3
  <2> HIDE DEF ends
  <2>7. Flattened(s, FlattenSeq(s), ends)
    BY <2>1, <2>4, <2>5, <2>6 DEF Flattened, n
  <2> QED
    BY <2>7
<1> QED
  BY <1>1, <1>2

-----------------------------------------------------------------------------
(* Names written and read                                                  *)

\* A name that can be spelled out: no label of it is the end of one.
Spelled == {labels \in Seq(Label) : \A i \in 1..Len(labels) : Len(labels[i]) >= 1}

\* What a label is on the wire.
LabelParts(labels) == [i \in DOMAIN labels |-> <<Len(labels[i]) % 64>> \o labels[i]]

\* A label's length has the bits of no pointer, whatever the label.
LEMMA LabelWritten ==
    ASSUME NEW l \in Label
    PROVE  /\ Len(l) \in Nat /\ Len(l) <= 63 /\ Len(l) % 64 = Len(l) /\ l \in Seq(Octet)
           /\ <<Len(l) % 64>> \in Seq(Octet)
           /\ <<Len(l) % 64>> \o l \in Seq(Octet) /\ Len(<<Len(l) % 64>> \o l) = Len(l) + 1
<1>1. l \in Seq(Octet) /\ Len(l) \in Nat /\ Len(l) <= 63
  BY DEF Label
<1>2. \A n \in Nat : n <= 63 => n % 64 = n /\ n \in Octet
  BY DEF Octet
<1>3. Len(l) % 64 = Len(l) /\ Len(l) \in Octet
  BY <1>1, <1>2
<1> DEFINE o == Len(l) % 64
<1>4. o \in Octet
  BY <1>3
<1> HIDE DEF o
<1>5. <<o>> \in Seq(Octet) /\ Len(<<o>>) = 1
  BY <1>4
<1>6. <<o>> \o l \in Seq(Octet) /\ Len(<<o>> \o l) = 1 + Len(l)
  BY <1>1, <1>5, ConcatProperties
<1> QED
  BY <1>1, <1>3, <1>5, <1>6 DEF o

\* A name is its labels and an octet that ends it.
LEMMA LabelPartsTyped ==
    ASSUME NEW labels \in Seq(Label)
    PROVE  /\ LabelParts(labels) \in Seq(Seq(Octet)) /\ Len(LabelParts(labels)) = Len(labels)
           /\ \A i \in 1..Len(labels) :
                 LabelParts(labels)[i] = <<Len(labels[i]) % 64>> \o labels[i]
<1> DEFINE p(i) == <<Len(labels[i]) % 64>> \o labels[i]
<1>1. Len(labels) \in Nat /\ DOMAIN labels = 1..Len(labels)
  BY LenProperties
<1>2. \A i \in 1..Len(labels) : p(i) \in Seq(Octet)
  BY ElementOfSeq, LabelWritten
<1>3. LabelParts(labels) = [i \in 1..Len(labels) |-> p(i)]
  BY <1>1 DEF LabelParts
<1> HIDE DEF p
<1>4. [i \in 1..Len(labels) |-> p(i)] \in Seq(Seq(Octet))
  BY <1>1, <1>2
<1>5. Len([i \in 1..Len(labels) |-> p(i)]) = Len(labels)
  BY <1>1
<1> QED
  BY <1>3, <1>4, <1>5 DEF p

LEMMA NameSerialized ==
    ASSUME NEW labels \in Seq(Label)
    PROVE  /\ SerializeLabels(labels) = FlattenSeq(LabelParts(labels)) \o <<0>>
           /\ SerializeLabels(labels) \in Seq(Octet)
           /\ FlattenSeq(LabelParts(labels)) \in Seq(Octet)
           /\ Len(SerializeLabels(labels)) = Len(FlattenSeq(LabelParts(labels))) + 1
<1>1. SerializeLabels(labels) = FlattenSeq(LabelParts(labels)) \o <<0>>
  BY DEF SerializeLabels, LabelParts
<1>2. PICK ends : Flattened(LabelParts(labels), FlattenSeq(LabelParts(labels)), ends)
  BY LabelPartsTyped, FlattenEnds
<1>3. FlattenSeq(LabelParts(labels)) \in Seq(Octet)
  BY <1>2 DEF Flattened
<1>4. <<0>> \in Seq(Octet) /\ Len(<<0>>) = 1
  <2>1. 0 \in Octet
    BY DEF Octet
  <2> QED
    BY <2>1
<1> QED
  BY <1>1, <1>3, <1>4, ConcatProperties

\* Where a label is, parseLabels reads it and goes on behind it; where the end of
\* a name is, it is done.
LEMMA LabelRead ==
    ASSUME NEW msg \in Seq(Octet), NEW at \in Nat, NEW l \in Label, Len(l) >= 1,
           Holds(msg, at, <<Len(l) % 64>> \o l), NEW name
    PROVE  /\ at \in 0..Len(msg) /\ at + Len(l) + 1 \in 0..Len(msg)
           /\ NameAt(msg, at, 0, name) =
                 Result(<<l>> \o name[<<at + Len(l) + 1, 0>>].labels,
                        Len(l) + 1 + name[<<at + Len(l) + 1, 0>>].size,
                        name[<<at + Len(l) + 1, 0>>].status)
<1> DEFINE n == Len(l)
<1>1. /\ n \in Nat /\ n >= 1 /\ n <= 63 /\ n % 64 = n /\ l \in Seq(Octet)
      /\ <<n % 64>> \in Seq(Octet) /\ Len(<<n % 64>>) = 1
  BY LabelWritten
<1>2. Holds(msg, at, <<n % 64>>) /\ Holds(msg, at + 1, l)
  BY <1>1, HoldsParts
<1>3. msg[at + 1] = n /\ (at + 1) + n <= Len(msg) /\ at + 1 <= Len(msg)
  <2>1. 1 \in 1..Len(<<n % 64>>) /\ <<n % 64>>[1] = n
    BY <1>1
  <2>2. msg[at + 1] = <<n % 64>>[1]
    BY <1>2, <2>1 DEF Holds
  <2> QED
    BY <1>1, <1>2, <2>1, <2>2 DEF Holds
<1>4. Octets(msg, at + 1, n) = l
  BY <1>1, <1>2, OctetsHeld
<1>5. Len(msg) \in Nat
  OBVIOUS
<1> HIDE DEF n
<1>6. /\ ~(Len(msg) - at = 0) /\ ~(msg[at + 1] = 0) /\ ~(msg[at + 1] >= 192)
      /\ msg[at + 1] % 64 = n /\ ~(n + 1 > Len(msg) - at)
  BY <1>1, <1>3, <1>5
<1>7. NameAt(msg, at, 0, name) =
          Result(<<Octets(msg, at + 1, n)>> \o name[<<at + n + 1, 0>>].labels,
                 n + 1 + name[<<at + n + 1, 0>>].size,
                 name[<<at + n + 1, 0>>].status)
  <2> DEFINE left   == Len(msg) - at
             first  == msg[at + 1]
             length == first % 64
             target == U16At(msg, at) % 16384
             jump   == name[<<target, 0 + 1>>]
             rest   == name[<<at + length + 1, 0>>]
  <2>1. NameAt(msg, at, 0, name) =
            IF left = 0 THEN Result(<<>>, 0, "ok")
            ELSE IF first = 0 THEN Result(<<>>, 1, "ok")
            ELSE IF first >= 192 /\ Followed(0)
                 THEN IF left < 2 \/ target > Len(msg) THEN Result(<<>>, 0, "error")
                      ELSE Result(jump.labels, PointerLen, jump.status)
            ELSE IF first >= 192 /\ 0 > 5 THEN Result(<<>>, 0, "panic")
            ELSE IF length + 1 > left THEN Result(<<>>, 0, "error")
            ELSE Result(<<Octets(msg, at + 1, length)>> \o rest.labels,
                        length + 1 + rest.size, rest.status)
    BY DEF NameAt
  <2>2. ~(left = 0) /\ ~(first = 0) /\ ~(first >= 192) /\ length = n /\ ~(length + 1 > left)
    BY <1>6
  <2> HIDE DEF left, first, target, jump, length
  <2> QED
    BY <2>1, <2>2
<1>8. at \in 0..Len(msg) /\ at + n + 1 \in 0..Len(msg)
  BY <1>1, <1>3, <1>5
<1> QED
  BY <1>4, <1>7, <1>8 DEF n

\* A name is read where it is written, from its last label to its first.
LEMMA NameRead ==
    ASSUME NEW msg \in Seq(Octet), NEW at \in Nat, NEW labels \in Spelled,
           Holds(msg, at, SerializeLabels(labels))
    PROVE  ParseLabels(msg)[<<at, 0>>] = Result(labels, Len(SerializeLabels(labels)), "ok")
<1> DEFINE P == ParseLabels(msg)
           n == Len(labels)
           F == FlattenSeq(LabelParts(labels))
<1>1. /\ labels \in Seq(Label) /\ n \in Nat
      /\ \A i \in 1..n : labels[i] \in Label /\ Len(labels[i]) >= 1
  BY ElementOfSeq DEF Spelled
<1>2. /\ SerializeLabels(labels) = F \o <<0>> /\ F \in Seq(Octet)
      /\ Len(SerializeLabels(labels)) = Len(F) + 1
  BY <1>1, NameSerialized
<1>3. /\ LabelParts(labels) \in Seq(Seq(Octet)) /\ Len(LabelParts(labels)) = n
      /\ \A i \in 1..n : LabelParts(labels)[i] = <<Len(labels[i]) % 64>> \o labels[i]
  BY <1>1, LabelPartsTyped
<1>4. PICK ends : Flattened(LabelParts(labels), F, ends)
  BY <1>3, FlattenEnds
<1>5. <<0>> \in Seq(Octet) /\ Len(<<0>>) = 1 /\ <<0>>[1] = 0 /\ 1 \in 1..Len(<<0>>)
  <2>1. 0 \in Octet
    BY DEF Octet
  <2> QED
    BY <2>1
<1>6. Holds(msg, at, F) /\ Holds(msg, at + Len(F), <<0>>)
  BY <1>2, <1>5, HoldsParts
<1>7. \A p \in Calls(msg) : P[p] = NameAt(msg, p[1], p[2], P)
  BY ParseLabelsReturns
<1> HIDE DEF P, n, F
<1>8. /\ ends \in [0..n -> Nat] /\ ends[0] = 0 /\ ends[n] = Len(F)
      /\ \A i \in 1..n : ends[i] = ends[i - 1] + Len(LabelParts(labels)[i])
                          /\ Holds(F, ends[i - 1], LabelParts(labels)[i])
  BY <1>3, <1>4 DEF Flattened
<1> DEFINE Read(i) == P[<<at + ends[i], 0>>] =
                         Result(SubSeq(labels, i + 1, n), ends[n] - ends[i] + 1, "ok")
           S == {k \in Nat : k <= n => Read(n - k)}
<1>9. Read(n)
  <2>1. ends[n] \in Nat /\ at + ends[n] \in Nat
    BY <1>1, <1>8
  <2>2. msg[(at + ends[n]) + 1] = 0 /\ (at + ends[n]) + 1 <= Len(msg)
    BY <1>5, <1>6, <1>8 DEF Holds
  <2>3. ~(Len(msg) - (at + ends[n]) = 0) /\ at + ends[n] \in 0..Len(msg)
    BY <2>1, <2>2
  <2>4. <<at + ends[n], 0>> \in Calls(msg)
    BY <2>3 DEF Calls
  <2>5. P[<<at + ends[n], 0>>] = NameAt(msg, at + ends[n], 0, P)
    BY <1>7, <2>4
  <2>6. NameAt(msg, at + ends[n], 0, P) = Result(<<>>, 1, "ok")
    BY <2>2, <2>3 DEF NameAt
  <2>7. SubSeq(labels, n + 1, n) = <<>> /\ ends[n] - ends[n] + 1 = 1
    BY <1>1, <2>1, SubSeqEmpty
  <2> QED
    BY <2>5, <2>6, <2>7
<1>10. ASSUME NEW i \in 1..n, Read(i) PROVE Read(i - 1)
  <2>1. /\ labels[i] \in Label /\ Len(labels[i]) >= 1 /\ Len(labels[i]) \in Nat
        /\ LabelParts(labels)[i] = <<Len(labels[i]) % 64>> \o labels[i]
        /\ LabelParts(labels)[i] \in Seq(Octet)
        /\ Len(LabelParts(labels)[i]) = Len(labels[i]) + 1
    <3>1. labels[i] \in Label /\ Len(labels[i]) >= 1
      BY <1>1
    <3>2. LabelParts(labels)[i] = <<Len(labels[i]) % 64>> \o labels[i]
      BY <1>3
    <3>3. /\ Len(labels[i]) \in Nat /\ <<Len(labels[i]) % 64>> \o labels[i] \in Seq(Octet)
          /\ Len(<<Len(labels[i]) % 64>> \o labels[i]) = Len(labels[i]) + 1
      BY <3>1, LabelWritten
    <3> QED
      BY <3>1, <3>2, <3>3
  <2>2. i - 1 \in 0..n /\ ends[i - 1] \in Nat /\ at + ends[i - 1] \in Nat /\ ends[n] \in Nat
    BY <1>1, <1>8
  <2>3. ends[i] = ends[i - 1] + (Len(labels[i]) + 1)
    BY <1>8, <2>1
  <2>4. Holds(msg, at + ends[i - 1], <<Len(labels[i]) % 64>> \o labels[i])
    <3>1. Holds(F, ends[i - 1], LabelParts(labels)[i])
      BY <1>8
    <3>2. Holds(msg, at + ends[i - 1], LabelParts(labels)[i])
      BY <1>2, <1>6, <2>1, <2>2, <3>1, HoldsWithin
    <3> QED
      BY <2>1, <3>2
  <2> DEFINE b == at + ends[i - 1]
             next == b + Len(labels[i]) + 1
  <2>0. b \in Nat /\ Holds(msg, b, <<Len(labels[i]) % 64>> \o labels[i]) /\ next = at + ends[i]
    <3>1. next = at + ends[i]
      BY <2>1, <2>2, <2>3
    <3>2. b \in Nat /\ Holds(msg, b, <<Len(labels[i]) % 64>> \o labels[i])
      BY <2>2, <2>4
    <3> QED
      BY <3>1, <3>2
  <2> HIDE DEF b
  <2>5. /\ b \in 0..Len(msg)
        /\ NameAt(msg, b, 0, P) =
              Result(<<labels[i]>> \o P[<<next, 0>>].labels,
                     Len(labels[i]) + 1 + P[<<next, 0>>].size,
                     P[<<next, 0>>].status)
    <3>1. labels[i] \in Label /\ Len(labels[i]) >= 1
      BY <2>1
    <3> QED
      BY <2>0, <3>1, LabelRead
  <2>6. <<b, 0>> \in Calls(msg)
    BY <2>5 DEF Calls
  <2>7. /\ P[<<next, 0>>].labels = SubSeq(labels, i + 1, n)
        /\ P[<<next, 0>>].size = ends[n] - ends[i] + 1
        /\ P[<<next, 0>>].status = "ok"
    <3> HIDE DEF next
    <3> DEFINE behind == SubSeq(labels, i + 1, n)
               size   == ends[n] - ends[i] + 1
    <3>1. P[<<next, 0>>] = Result(behind, size, "ok")
      BY <1>10, <2>0
    <3> HIDE DEF behind, size
    <3>2. /\ P[<<next, 0>>].labels = behind /\ P[<<next, 0>>].size = size
          /\ P[<<next, 0>>].status = "ok"
      BY <3>1 DEF Result
    <3> QED
      BY <3>2 DEF behind, size
  <2>8. P[<<b, 0>>] = Result(<<labels[i]>> \o SubSeq(labels, i + 1, n),
                             Len(labels[i]) + 1 + (ends[n] - ends[i] + 1), "ok")
    <3>1. P[<<b, 0>>] = NameAt(msg, b, 0, P)
      BY <1>7, <2>6
    <3> HIDE DEF next
    <3> QED
      BY <2>5, <2>7, <3>1
  <2>9. <<labels[i]>> \o SubSeq(labels, i + 1, n) = SubSeq(labels, (i - 1) + 1, n)
    <3>1. i \in 1..Len(labels) /\ n \in i..Len(labels) /\ (i - 1) + 1 = i
      BY <1>1 DEF n
    <3> QED
      BY <1>1, <3>1, SubSeqRecursiveFirst
  <2>10. Len(labels[i]) + 1 + (ends[n] - ends[i] + 1) = ends[n] - ends[i - 1] + 1
    <3>1. \A l, e, f, z \in Nat : f = e + (l + 1) => l + 1 + (z - f + 1) = z - e + 1
      OBVIOUS
    <3>2. ends[i] \in Nat /\ Len(labels[i]) \in Nat
      BY <1>8, <2>1
    <3> DEFINE l == Len(labels[i])
               e == ends[i - 1]
               f == ends[i]
               z == ends[n]
    <3>3. l \in Nat /\ e \in Nat /\ f \in Nat /\ z \in Nat /\ f = e + (l + 1)
      BY <2>2, <2>3, <3>2
    <3> HIDE DEF l, e, f, z
    <3>4. l + 1 + (z - f + 1) = z - e + 1
      BY <3>1, <3>3
    <3> QED
      BY <3>4 DEF l, e, f, z
  <2> QED
    BY <2>8, <2>9, <2>10 DEF b
<1> HIDE DEF Read
<1>11. 0 \in S
  <2>1. n - 0 = n
    BY <1>1
  <2> QED
    BY <1>9, <2>1
<1>12. ASSUME NEW k \in Nat, k \in S PROVE k + 1 \in S
  <2>1. SUFFICES ASSUME k + 1 <= n PROVE Read(n - (k + 1))
    OBVIOUS
  <2>2. n - k \in 1..n /\ k <= n /\ (n - k) - 1 = n - (k + 1)
    BY <1>1, <2>1
  <2>3. Read(n - k)
    BY <1>12, <2>2
  <2>4. Read((n - k) - 1)
    BY <1>10, <2>2, <2>3
  <2> QED
    BY <2>2, <2>4
<1> HIDE DEF S
<1>13. n \in S
  BY <1>1, <1>11, <1>12, NatSetInduction
<1>14. Read(0)
  <2>1. n <= n /\ n - n = 0
    BY <1>1
  <2>2. Read(n - n)
    BY <1>13, <2>1 DEF S
  <2> QED
    BY <2>1, <2>2
<1>15. /\ at + ends[0] = at /\ ends[n] - ends[0] + 1 = Len(SerializeLabels(labels))
       /\ SubSeq(labels, 0 + 1, n) = labels
  <2>1. SubSeq(labels, 1, n) = labels
    BY <1>1, SubSeqFull DEF n
  <2>2. Len(F) \in Nat
    BY <1>2
  <2> QED
    BY <1>2, <1>8, <2>1, <2>2
<1> QED
  BY <1>14, <1>15 DEF Read, P

-----------------------------------------------------------------------------
(* Sections and messages written and read                                  *)

\* If each item of a section is parsed at its place, up to the next one's, the
\* section is.
LEMMA SectionPlaced ==
    ASSUME NEW Item, NEW s \in Seq(Item), NEW P, NEW a,
           P[<<a[Len(s) + 1], 0>>] = Section(<<>>, a[Len(s) + 1], "ok"),
           \A i \in 1..Len(s), k \in 1..Len(s) : P[<<a[i], k>>] = After(s[i], P[<<a[i + 1], k - 1>>])
    PROVE  P[<<a[1], Len(s)>>] = Section(s, a[Len(s) + 1], "ok")
<1> DEFINE n == Len(s)
           last == a[n + 1]
           Read(i) == P[<<a[i + 1], n - i>>] = Section(SubSeq(s, i + 1, n), last, "ok")
           S == {k \in Nat : k <= n => Read(n - k)}
<1>1. n \in Nat /\ SubSeq(s, 1, n) = s /\ SubSeq(s, n + 1, n) = <<>>
  BY SubSeqFull, SubSeqEmpty
<1>2. ASSUME NEW i \in 1..n, Read(i) PROVE Read(i - 1)
  <2>1. i \in 1..Len(s) /\ n \in i..Len(s) /\ (i - 1) + 1 = i /\ n - (i - 1) \in 1..n
        /\ (n - (i - 1)) - 1 = n - i
    BY <1>1
  <2>2. P[<<a[i], n - (i - 1)>>] = After(s[i], P[<<a[i + 1], n - i>>])
    BY <2>1
  <2>3. <<s[i]>> \o SubSeq(s, i + 1, n) = SubSeq(s, i, n)
    BY <2>1, SubSeqRecursiveFirst
  <2>4. P[<<a[i], n - (i - 1)>>] = Section(<<s[i]>> \o SubSeq(s, i + 1, n), last, "ok")
    BY <1>2, <2>2 DEF After, Section
  <2> QED
    BY <2>1, <2>3, <2>4
<1>3. Read(n)
  <2>1. n - n = 0
    BY <1>1
  <2> QED
    BY <1>1, <2>1
<1> HIDE DEF Read
<1>4. 0 \in S
  <2>1. n - 0 = n
    BY <1>1
  <2> QED
    BY <1>3, <2>1
<1>5. ASSUME NEW k \in Nat, k \in S PROVE k + 1 \in S
  <2>1. SUFFICES ASSUME k + 1 <= n PROVE Read(n - (k + 1))
    OBVIOUS
  <2>2. n - k \in 1..n /\ k <= n /\ (n - k) - 1 = n - (k + 1)
    BY <1>1, <2>1
  <2>3. Read(n - k)
    BY <1>5, <2>2
  <2>4. Read((n - k) - 1)
    BY <1>2, <2>2, <2>3
  <2> QED
    BY <2>2, <2>4
<1> HIDE DEF S
<1>6. n \in S
  BY <1>1, <1>4, <1>5, NatSetInduction
<1>7. Read(0)
  <2>1. n <= n /\ n - n = 0
    BY <1>1
  <2>2. Read(n - n)
    BY <1>6, <2>1 DEF S
  <2> QED
    BY <2>1, <2>2
<1> QED
  <2>1. n - 0 = n /\ 0 + 1 = 1
    BY <1>1
  <2> QED
    BY <1>1, <1>7, <2>1 DEF Read

\* If each item of a section is read where it is written, the section is.
LEMMA SectionRead ==
    ASSUME NEW Item, NEW s \in Seq(Item), NEW parts \in Seq(Seq(Octet)), Len(parts) = Len(s),
           NEW msg \in Seq(Octet), NEW at \in Nat, HeaderLen <= at,
           Holds(msg, at, FlattenSeq(parts)), NEW P,
           \A b \in HeaderLen..Len(msg) : P[<<b, 0>>] = Section(<<>>, b, "ok"),
           \A i \in 1..Len(s), b \in HeaderLen..Len(msg), k \in 1..Len(s) :
               Holds(msg, b, parts[i]) => P[<<b, k>>] = After(s[i], P[<<b + Len(parts[i]), k - 1>>])
    PROVE  P[<<at, Len(s)>>] = Section(s, at + Len(FlattenSeq(parts)), "ok")
<1> DEFINE n == Len(s)
           F == FlattenSeq(parts)
<1>1. n \in Nat /\ (\A i \in 1..n : s[i] \in Item /\ parts[i] \in Seq(Octet) /\ Len(parts[i]) \in Nat)
  BY ElementOfSeq, LenProperties
<1>2. PICK ends : Flattened(parts, F, ends)
  BY FlattenEnds
<1>3. /\ F \in Seq(Octet) /\ Len(F) \in Nat /\ Len(msg) \in Nat /\ HeaderLen \in Nat
      /\ Holds(msg, at, F) /\ at + Len(F) <= Len(msg)
  BY <1>2 DEF Flattened, Holds, HeaderLen
<1>4. /\ ends \in [0..n -> Nat] /\ ends[0] = 0 /\ ends[n] = Len(F)
      /\ \A i \in 1..n : ends[i] = ends[i - 1] + Len(parts[i]) /\ Holds(F, ends[i - 1], parts[i])
  BY <1>2 DEF Flattened
<1> HIDE DEF F
<1> DEFINE a == [i \in 1..n + 1 |-> at + ends[i - 1]]
<1>5. /\ \A i \in 1..n : a[i] = at + ends[i - 1] /\ a[i + 1] = at + ends[i]
      /\ a[1] = at /\ a[n + 1] = at + Len(F)
  <2>1. \A i \in 1..n + 1 : a[i] = at + ends[i - 1]
    OBVIOUS
  <2>2. \A i \in 1..n : i \in 1..n + 1 /\ i + 1 \in 1..n + 1 /\ (i + 1) - 1 = i
    BY <1>1
  <2>3. 1 \in 1..n + 1 /\ 1 - 1 = 0 /\ n + 1 \in 1..n + 1 /\ (n + 1) - 1 = n /\ at + 0 = at
    BY <1>1
  <2> HIDE DEF a
  <2>4. \A i \in 1..n : a[i] = at + ends[i - 1] /\ a[i + 1] = at + ends[i]
    BY <2>1, <2>2
  <2>5. a[1] = at + ends[0] /\ a[n + 1] = at + ends[n]
    BY <2>1, <2>3
  <2> QED
    BY <1>4, <2>3, <2>4, <2>5
<1> HIDE DEF a
<1>6. P[<<a[n + 1], 0>>] = Section(<<>>, a[n + 1], "ok")
  <2>1. at + Len(F) \in HeaderLen..Len(msg)
    BY <1>3
  <2> QED
    BY <1>5, <2>1
<1>7. ASSUME NEW i \in 1..n, NEW k \in 1..n
      PROVE  P[<<a[i], k>>] = After(s[i], P[<<a[i + 1], k - 1>>])
  <2> DEFINE b == at + ends[i - 1]
  <2>1. /\ i - 1 \in 0..n /\ ends[i - 1] \in Nat /\ parts[i] \in Seq(Octet) /\ Len(parts[i]) \in Nat
        /\ ends[i] = ends[i - 1] + Len(parts[i]) /\ b \in Nat /\ at <= b
    <3>1. i - 1 \in 0..n /\ parts[i] \in Seq(Octet) /\ Len(parts[i]) \in Nat
      BY <1>1
    <3>2. ends[i - 1] \in Nat
      BY <1>4, <3>1
    <3>3. b \in Nat /\ at <= b
      BY <3>2
    <3> QED
      BY <1>4, <3>1, <3>2, <3>3
  <2>2. Holds(msg, b, parts[i])
    BY <1>3, <1>4, <2>1, HoldsWithin
  <2>3. b \in HeaderLen..Len(msg)
    <3>1. b + Len(parts[i]) <= Len(msg)
      BY <2>2 DEF Holds
    <3>2. b \in Nat /\ at <= b /\ Len(parts[i]) \in Nat
      BY <2>1
    <3>3. HeaderLen \in Nat /\ Len(msg) \in Nat /\ at \in Nat /\ HeaderLen <= at
      BY <1>3 DEF HeaderLen
    <3> HIDE DEF b
    <3> QED
      BY <3>1, <3>2, <3>3
  <2>4. b + Len(parts[i]) = a[i + 1] /\ b = a[i]
    <3>1. a[i] = at + ends[i - 1] /\ a[i + 1] = at + ends[i]
      BY <1>5
    <3>2. (at + ends[i - 1]) + Len(parts[i]) = at + ends[i]
      BY <2>1
    <3> QED
      BY <3>1, <3>2
  <2> HIDE DEF b
  <2>5. P[<<b, k>>] = After(s[i], P[<<b + Len(parts[i]), k - 1>>])
    BY <2>2, <2>3
  <2> QED
    BY <2>4, <2>5
<1>8. P[<<a[1], n>>] = Section(s, a[n + 1], "ok")
  BY <1>6, <1>7, SectionPlaced DEF n
<1> QED
  BY <1>5, <1>8 DEF F

\* Items whose names can be spelled out.
SpelledQuestion == {q \in Question : q.labels \in Spelled}

SpelledRecord == {r \in Record : r.labels \in Spelled}

\* A question on the wire, and where it is read.
QuestionPart(q) == SerializeLabels(q.labels) \o q.fixed

LEMMA QuestionRead ==
    ASSUME NEW q \in SpelledQuestion, NEW msg \in Seq(Octet), NEW b \in HeaderLen..Len(msg),
           NEW k \in Nat, k > 0, Holds(msg, b, QuestionPart(q)), NEW P
    PROVE  QuestionsAt(msg, b, k, P) = After(q, P[<<b + Len(QuestionPart(q)), k - 1>>])
<1> DEFINE name == SerializeLabels(q.labels)
           r    == ParseLabels(msg)[<<b, 0>>]
<1>1. /\ q.labels \in Spelled /\ q.labels \in Seq(Label)
      /\ q.fixed \in Seq(Octet) /\ Len(q.fixed) = 4
      /\ q = [labels |-> q.labels, fixed |-> q.fixed]
  BY DEF SpelledQuestion, Question, Spelled
<1>2. name \in Seq(Octet) /\ Len(name) \in Nat /\ Len(name) >= 1
  <2>1. name \in Seq(Octet) /\ Len(name) = Len(FlattenSeq(LabelParts(q.labels))) + 1
        /\ FlattenSeq(LabelParts(q.labels)) \in Seq(Octet)
    BY <1>1, NameSerialized
  <2>2. Len(FlattenSeq(LabelParts(q.labels))) \in Nat
    BY <2>1
  <2> QED
    BY <2>1, <2>2
<1>3. b \in Nat /\ Len(msg) \in Nat /\ b <= Len(msg)
  BY DEF HeaderLen
<1> HIDE DEF name
<1>4. Holds(msg, b, name) /\ Holds(msg, b + Len(name), q.fixed)
  BY <1>1, <1>2, <1>3, HoldsParts DEF QuestionPart, name
<1>5. r = Result(q.labels, Len(name), "ok")
  BY <1>1, <1>3, <1>4, NameRead DEF name
<1>6. Octets(msg, b + Len(name), 4) = q.fixed
  <2>1. b + Len(name) \in Nat
    BY <1>2, <1>3
  <2>2. Octets(msg, b + Len(name), Len(q.fixed)) = q.fixed
    BY <1>1, <1>4, <2>1, OctetsHeld
  <2> QED
    BY <1>1, <2>2
<1>7. Len(QuestionPart(q)) = Len(name) + 4 /\ (b + Len(name)) + 4 <= Len(msg)
  <2>1. Len(name \o q.fixed) = Len(name) + Len(q.fixed)
    BY <1>1, <1>2, ConcatProperties
  <2>2. (b + Len(name)) + Len(q.fixed) <= Len(msg)
    BY <1>4 DEF Holds
  <2> QED
    BY <1>1, <2>1, <2>2 DEF QuestionPart, name
<1>8. r.labels = q.labels /\ r.size = Len(name) /\ r.status = "ok"
  BY <1>5 DEF Result
<1> HIDE DEF r
<1>9. /\ ~(k = 0 \/ b = Len(msg)) /\ ~(r.status # "ok") /\ ~(Len(msg) - (b + r.size) < 4)
      /\ (b + r.size) + 4 = b + (Len(name) + 4)
  <2>1. b # Len(msg) /\ ~(Len(msg) - (b + Len(name)) < 4) /\ (b + Len(name)) + 4 = b + (Len(name) + 4)
    BY <1>2, <1>3, <1>7
  <2> QED
    BY <1>8, <2>1
<1>10. QuestionsAt(msg, b, k, P) =
          IF k = 0 \/ b = Len(msg) THEN Section(<<>>, b, "ok")
          ELSE IF r.status # "ok" THEN Section(<<>>, b, r.status)
          ELSE IF Len(msg) - (b + r.size) < 4 THEN Section(<<>>, b, "error")
          ELSE After([labels |-> r.labels, fixed |-> Octets(msg, b + r.size, 4)],
                     P[<<(b + r.size) + 4, k - 1>>])
  BY DEF QuestionsAt, r
<1> QED
  BY <1>1, <1>6, <1>7, <1>8, <1>9, <1>10

\* A number of two octets is written and read as it is.
LEMMA PairWritten ==
    ASSUME NEW n \in Nat, n < BufferLen
    PROVE  /\ U16(n) \in Seq(Octet) /\ Len(U16(n)) = 2
           /\ \A msg \in Seq(Octet), at \in Nat : Holds(msg, at, U16(n)) => U16At(msg, at) = n
<1> DEFINE hi == n \div 256
           lo == n % 256
<1>1. n < 65536
  BY DEF BufferLen
<1>2. hi \in Nat /\ hi <= 255 /\ lo \in Nat /\ lo <= 255 /\ 256 * hi + lo = n
  BY <1>1
<1>3. U16(n) = <<hi, lo>>
  BY DEF U16
<1> HIDE DEF hi, lo
<1>4. hi \in Octet /\ lo \in Octet
  BY <1>2 DEF Octet
<1>5. <<hi, lo>> \in Seq(Octet) /\ Len(<<hi, lo>>) = 2 /\ <<hi, lo>>[1] = hi /\ <<hi, lo>>[2] = lo
  BY <1>4
<1>6. ASSUME NEW msg \in Seq(Octet), NEW at \in Nat, Holds(msg, at, <<hi, lo>>)
      PROVE  U16At(msg, at) = n
  <2>1. 1 \in 1..Len(<<hi, lo>>) /\ 2 \in 1..Len(<<hi, lo>>)
    BY <1>5
  <2>2. msg[at + 1] = hi /\ msg[at + 2] = lo
    BY <1>5, <1>6, <2>1 DEF Holds
  <2> QED
    BY <1>2, <2>2 DEF U16At
<1> QED
  BY <1>3, <1>5, <1>6

\* A name that can be spelled out is so many octets.
LEMMA NameLength ==
    ASSUME NEW labels \in Spelled
    PROVE  SerializeLabels(labels) \in Seq(Octet) /\ Len(SerializeLabels(labels)) \in Nat
<1>1. labels \in Seq(Label)
  BY DEF Spelled
<1>2. SerializeLabels(labels) \in Seq(Octet)
  BY <1>1, NameSerialized
<1> QED
  BY <1>2

\* What is written in four parts is there in four parts.
InFour(msg, at, a, b, c, d, w) ==
    /\ Holds(msg, at, a) /\ Holds(msg, at + Len(a), b)
    /\ Holds(msg, (at + Len(a)) + Len(b), c)
    /\ Holds(msg, ((at + Len(a)) + Len(b)) + Len(c), d)
    /\ at + Len(w) = (((at + Len(a)) + Len(b)) + Len(c)) + Len(d)

LEMMA HoldsFour ==
    ASSUME NEW a \in Seq(Octet), NEW b \in Seq(Octet), NEW c \in Seq(Octet), NEW d \in Seq(Octet),
           NEW msg \in Seq(Octet), NEW at \in Nat, NEW w, w = ((a \o b) \o c) \o d,
           Holds(msg, at, w)
    PROVE  InFour(msg, at, a, b, c, d, w)
<1> DEFINE x == a \o b
           y == x \o c
<1>1. Len(a) \in Nat /\ Len(b) \in Nat /\ Len(c) \in Nat /\ Len(d) \in Nat
  OBVIOUS
<1>2. x \in Seq(Octet) /\ Len(x) = Len(a) + Len(b)
  BY HoldsConcat
<1> HIDE DEF x
<1>3. y \in Seq(Octet) /\ Len(y) = Len(x) + Len(c)
  BY <1>2, HoldsConcat
<1> HIDE DEF y
<1>4. Len(y \o d) = Len(y) + Len(d)
  BY <1>3, HoldsConcat
<1>5. Holds(msg, at, y \o d)
  BY DEF x, y
<1>6. Holds(msg, at, y) /\ Holds(msg, at + Len(y), d)
  BY <1>3, <1>5, HoldsParts
<1>7. Holds(msg, at, x) /\ Holds(msg, at + Len(x), c)
  BY <1>2, <1>6, HoldsParts DEF y
<1>8. Holds(msg, at, a) /\ Holds(msg, at + Len(a), b)
  BY <1>7, HoldsParts DEF x
<1>9. /\ at + Len(x) = (at + Len(a)) + Len(b)
      /\ at + Len(y) = ((at + Len(a)) + Len(b)) + Len(c)
      /\ at + (Len(y) + Len(d)) = (((at + Len(a)) + Len(b)) + Len(c)) + Len(d)
  BY <1>1, <1>2, <1>3
<1>10. at + Len(w) = (((at + Len(a)) + Len(b)) + Len(c)) + Len(d)
  BY <1>4, <1>9 DEF x, y
<1> QED
  BY <1>6, <1>7, <1>8, <1>9, <1>10 DEF InFour

\* A record is read where it is written.
LEMMA RecordRead ==
    ASSUME NEW r \in SpelledRecord, NEW msg \in Seq(Octet), NEW b \in HeaderLen..Len(msg),
           NEW k \in Nat, k > 0, Holds(msg, b, SerializeRecord(r)), NEW P
    PROVE  RecordsAt(msg, b, k, P) = After(r, P[<<b + Len(SerializeRecord(r)), k - 1>>])
<1> DEFINE labels == r.labels
           copied == r.fixed
           rdata  == r.rdata
           name   == SerializeLabels(labels)
           length == Len(rdata)
           size   == U16(length % 65536)
           nm     == ParseLabels(msg)[<<b, 0>>]
           fixed  == b + Len(name)
           next   == b + Len(SerializeRecord(r))
<1>1. /\ labels \in Spelled /\ copied \in Seq(Octet) /\ Len(copied) = 8
      /\ rdata \in Seq(Octet) /\ 10 + length < BufferLen
  BY DEF SpelledRecord, Record
<1>2. r = [labels |-> labels, fixed |-> copied, rdata |-> rdata]
  BY DEF SpelledRecord, Record
<1>3. SerializeRecord(r) = ((name \o copied) \o size) \o rdata
  BY DEF SerializeRecord
<1>4. b \in Nat /\ Len(msg) \in Nat /\ b <= Len(msg)
  BY DEF HeaderLen
<1> HIDE DEF labels, copied, rdata
<1>5. name \in Seq(Octet) /\ Len(name) \in Nat /\ length \in Nat
  BY <1>1, NameLength
<1> HIDE DEF name, length
<1>6. length % 65536 = length /\ length < BufferLen
  <2>1. 10 + length < BufferLen
    BY <1>1
  <2> QED
    BY <1>5, <2>1 DEF BufferLen
<1>8. /\ size \in Seq(Octet) /\ Len(size) = 2
      /\ \A at \in Nat : Holds(msg, at, size) => U16At(msg, at) = length
  <2>1. size = U16(length)
    BY <1>6 DEF size
  <2> QED
    BY <1>5, <1>6, <2>1, PairWritten
<1> HIDE DEF size, fixed, next
<1>9. /\ Holds(msg, b, name) /\ Holds(msg, fixed, copied)
      /\ Holds(msg, fixed + Len(copied), size)
      /\ Holds(msg, (fixed + Len(copied)) + Len(size), rdata)
      /\ next = ((fixed + Len(copied)) + Len(size)) + Len(rdata)
  <2> DEFINE all == SerializeRecord(r)
  <2>1. /\ name \in Seq(Octet) /\ copied \in Seq(Octet) /\ size \in Seq(Octet)
        /\ rdata \in Seq(Octet) /\ b \in Nat
    BY <1>1, <1>4, <1>5, <1>8
  <2>2. all = ((name \o copied) \o size) \o rdata /\ Holds(msg, b, all)
    BY <1>3
  <2> HIDE DEF all
  <2>3. InFour(msg, b, name, copied, size, rdata, all)
    BY <2>1, <2>2, HoldsFour
  <2> QED
    BY <2>3, Zenon DEF InFour, fixed, next, all
<1>10. nm = Result(labels, Len(name), "ok")
  BY <1>1, <1>4, <1>9, NameRead DEF name
<1>11. fixed \in Nat /\ b <= fixed
  BY <1>4, <1>5 DEF fixed
<1>12. nm.labels = labels /\ nm.status = "ok" /\ b + nm.size = fixed
  BY <1>10 DEF Result, fixed
<1> HIDE DEF nm
<1>13. /\ (fixed + Len(copied)) + Len(size) = fixed + 10 /\ fixed + Len(copied) = fixed + 8
       /\ fixed + 8 \in Nat /\ fixed + 10 \in Nat /\ Len(rdata) = length
  BY <1>1, <1>8, <1>11 DEF length
<1>14. next = fixed + 10 + length
  BY <1>9, <1>13
<1>15. U16At(msg, fixed + 8) = length
  BY <1>8, <1>9, <1>13
<1>16. Octets(msg, fixed, 8) = copied
  <2>1. Octets(msg, fixed, Len(copied)) = copied
    BY <1>1, <1>9, <1>11, OctetsHeld
  <2> QED
    BY <1>1, <2>1
<1>17. Octets(msg, fixed + 10, length) = rdata /\ (fixed + 10) + length <= Len(msg)
  <2>1. Holds(msg, fixed + 10, rdata)
    BY <1>9, <1>13
  <2>2. Octets(msg, fixed + 10, Len(rdata)) = rdata /\ (fixed + 10) + Len(rdata) <= Len(msg)
    <3>1. (fixed + 10) + Len(rdata) <= Len(msg)
      BY <2>1 DEF Holds
    <3>2. rdata \in Seq(Octet) /\ fixed + 10 \in Nat
      BY <1>1, <1>13
    <3> QED
      BY <2>1, <3>1, <3>2, OctetsHeld
  <2> QED
    BY <1>13, <2>2
<1>18. /\ b # Len(msg) /\ ~(Len(msg) - fixed < 10) /\ ~(length > (Len(msg) - fixed) - 10)
       /\ k # 0
  BY <1>4, <1>5, <1>11, <1>17
<1>19. ~(10 + length >= BufferLen)
  <2>1. 10 + length < BufferLen
    BY <1>1
  <2> QED
    BY <1>5, <2>1 DEF BufferLen
<1>20. RecordsAt(msg, b, k, P) =
          IF k = 0 \/ b = Len(msg) THEN Section(<<>>, b, "ok")
          ELSE IF nm.status # "ok" THEN Section(<<>>, b, nm.status)
          ELSE IF Len(msg) - (b + nm.size) < 10
                  \/ U16At(msg, (b + nm.size) + 8) > (Len(msg) - (b + nm.size)) - 10
               THEN Section(<<>>, b, "error")
          ELSE IF 10 + U16At(msg, (b + nm.size) + 8) >= BufferLen THEN Section(<<>>, b, "panic")
          ELSE After([labels |-> nm.labels, fixed |-> Octets(msg, b + nm.size, 8),
                      rdata  |-> Octets(msg, (b + nm.size) + 10, U16At(msg, (b + nm.size) + 8))],
                     P[<<(b + nm.size) + 10 + U16At(msg, (b + nm.size) + 8), k - 1>>])
  BY DEF RecordsAt, nm, BufferLen
<1>21. RecordsAt(msg, b, k, P) =
          After([labels |-> labels, fixed |-> copied, rdata |-> rdata],
                P[<<fixed + 10 + length, k - 1>>])
  BY <1>12, <1>15, <1>16, <1>17, <1>18, <1>19, <1>20
<1> QED
  BY <1>2, <1>14, <1>21 DEF next

\* What is defined on 1..n is a sequence.
LEMMA ListOf ==
    ASSUME NEW S, NEW n \in Nat, NEW f, f = [i \in 1..n |-> f[i]], \A i \in 1..n : f[i] \in S
    PROVE  f \in Seq(S) /\ Len(f) = n
  OBVIOUS

\* Sections on the wire, and that they are octets.
QuestionParts(s) == [i \in DOMAIN s |-> QuestionPart(s[i])]

RecordParts(s) == [i \in DOMAIN s |-> SerializeRecord(s[i])]

LEMMA QuestionPartTyped ==
    ASSUME NEW q \in SpelledQuestion
    PROVE  QuestionPart(q) \in Seq(Octet)
<1>1. q.labels \in Spelled /\ q.fixed \in Seq(Octet)
  BY DEF SpelledQuestion, Question
<1>2. SerializeLabels(q.labels) \in Seq(Octet)
  BY <1>1, NameLength
<1> QED
  BY <1>1, <1>2, HoldsConcat DEF QuestionPart

LEMMA ConcatFour ==
    ASSUME NEW a \in Seq(Octet), NEW b \in Seq(Octet), NEW c \in Seq(Octet), NEW d \in Seq(Octet),
           NEW w, w = ((a \o b) \o c) \o d
    PROVE  w \in Seq(Octet) /\ Len(w) = ((Len(a) + Len(b)) + Len(c)) + Len(d)
<1> DEFINE x == a \o b
           y == x \o c
<1>1. x \in Seq(Octet) /\ Len(x) = Len(a) + Len(b)
  BY HoldsConcat
<1> HIDE DEF x
<1>2. y \in Seq(Octet) /\ Len(y) = Len(x) + Len(c)
  BY <1>1, HoldsConcat
<1> HIDE DEF y
<1>3. y \o d \in Seq(Octet) /\ Len(y \o d) = Len(y) + Len(d)
  BY <1>2, HoldsConcat
<1>4. w = y \o d
  BY DEF x, y
<1> QED
  BY <1>1, <1>2, <1>3, <1>4

LEMMA SerializedRecordTyped ==
    ASSUME NEW r \in SpelledRecord
    PROVE  SerializeRecord(r) \in Seq(Octet)
<1> DEFINE name  == SerializeLabels(r.labels)
           n     == Len(r.rdata)
           size  == U16(n % 65536)
           fixed == r.fixed
           rdata == r.rdata
<1>1. r.labels \in Spelled /\ fixed \in Seq(Octet) /\ rdata \in Seq(Octet) /\ 10 + n < BufferLen
  BY DEF SpelledRecord, Record
<1>2. SerializeRecord(r) = ((name \o fixed) \o size) \o rdata
  BY DEF SerializeRecord
<1>3. name \in Seq(Octet) /\ n \in Nat
  BY <1>1, NameLength
<1> HIDE DEF name, n, fixed, rdata
<1>4. n % 65536 = n /\ n < BufferLen
  <2>1. 10 + n < BufferLen
    BY <1>1
  <2> QED
    BY <1>3, <2>1 DEF BufferLen
<1>5. size \in Seq(Octet)
  <2>1. size = U16(n)
    BY <1>4 DEF size
  <2> QED
    BY <1>3, <1>4, <2>1, PairWritten
<1> HIDE DEF size
<1> QED
  BY <1>1, <1>2, <1>3, <1>5, ConcatFour

\* A section of questions is read where it is written, and one of records.
LEMMA QuestionsRead ==
    ASSUME NEW s \in Seq(SpelledQuestion), NEW msg \in Seq(Octet), NEW at \in Nat, HeaderLen <= at,
           Holds(msg, at, FlattenSeq(QuestionParts(s)))
    PROVE  /\ ParseQuestions(msg, Len(s))[<<at, Len(s)>>] =
                 Section(s, at + Len(FlattenSeq(QuestionParts(s))), "ok")
<1> DEFINE n == Len(s)
           P == ParseQuestions(msg, n)
           parts == QuestionParts(s)
<1>1. n \in Nat /\ DOMAIN s = 1..n /\ \A i \in 1..n : s[i] \in SpelledQuestion
  BY LenProperties, ElementOfSeq
<1>2. \A i \in 1..n : parts[i] = QuestionPart(s[i]) /\ parts[i] \in Seq(Octet)
  BY <1>1, QuestionPartTyped DEF QuestionParts
<1>3. parts = [i \in 1..n |-> parts[i]]
  BY <1>1 DEF QuestionParts
<1>4. \A p \in Starts(msg, n) : P[p] = QuestionsAt(msg, p[1], p[2], P)
  BY <1>1, ParseQuestionsReturns
<1> HIDE DEF n, P, parts
<1>5. parts \in Seq(Seq(Octet)) /\ Len(parts) = n
  BY <1>1, <1>2, <1>3, ListOf
<1>6. \A b \in HeaderLen..Len(msg), k \in 0..n : P[<<b, k>>] = QuestionsAt(msg, b, k, P)
  BY <1>4 DEF Starts
<1>7. ASSUME NEW b \in HeaderLen..Len(msg) PROVE P[<<b, 0>>] = Section(<<>>, b, "ok")
  <2>1. 0 \in 0..n
    BY <1>1
  <2>2. P[<<b, 0>>] = QuestionsAt(msg, b, 0, P)
    BY <1>6, <2>1
  <2>3. QuestionsAt(msg, b, 0, P) = Section(<<>>, b, "ok")
    BY DEF QuestionsAt
  <2> QED
    BY <2>2, <2>3
<1>8. ASSUME NEW i \in 1..n, NEW b \in HeaderLen..Len(msg), NEW k \in 1..n, Holds(msg, b, parts[i])
      PROVE  P[<<b, k>>] = After(s[i], P[<<b + Len(parts[i]), k - 1>>])
  <2>1. k \in Nat /\ k > 0 /\ k \in 0..n
    BY <1>1
  <2>2. P[<<b, k>>] = QuestionsAt(msg, b, k, P)
    BY <1>6, <2>1
  <2>3. s[i] \in SpelledQuestion /\ parts[i] = QuestionPart(s[i])
    BY <1>1, <1>2
  <2>4. Holds(msg, b, QuestionPart(s[i]))
    BY <1>8, <2>3
  <2>5. QuestionsAt(msg, b, k, P) = After(s[i], P[<<b + Len(QuestionPart(s[i])), k - 1>>])
    BY <2>1, <2>3, <2>4, QuestionRead
  <2> QED
    BY <2>2, <2>3, <2>5
<1>9. P[<<at, n>>] = Section(s, at + Len(FlattenSeq(parts)), "ok")
  BY <1>1, <1>5, <1>7, <1>8, SectionRead DEF n, parts
<1> QED
  BY <1>9 DEF n, P, parts

LEMMA RecordsRead ==
    ASSUME NEW s \in Seq(SpelledRecord), NEW msg \in Seq(Octet), NEW at \in Nat, HeaderLen <= at,
           Holds(msg, at, SerializeRecords(s))
    PROVE  /\ ParseRecords(msg, Len(s))[<<at, Len(s)>>] =
                 Section(s, at + Len(SerializeRecords(s)), "ok")
<1> DEFINE n == Len(s)
           P == ParseRecords(msg, n)
           parts == RecordParts(s)
<1>0. SerializeRecords(s) = FlattenSeq(parts)
  BY DEF SerializeRecords, RecordParts
<1>1. n \in Nat /\ DOMAIN s = 1..n /\ \A i \in 1..n : s[i] \in SpelledRecord
  BY LenProperties, ElementOfSeq
<1>2. \A i \in 1..n : parts[i] = SerializeRecord(s[i]) /\ parts[i] \in Seq(Octet)
  BY <1>1, SerializedRecordTyped DEF RecordParts
<1>3. parts = [i \in 1..n |-> parts[i]]
  BY <1>1 DEF RecordParts
<1>4. \A p \in Starts(msg, n) : P[p] = RecordsAt(msg, p[1], p[2], P)
  BY <1>1, ParseRecordsReturns
<1> HIDE DEF n, P, parts
<1>5. parts \in Seq(Seq(Octet)) /\ Len(parts) = n
  BY <1>1, <1>2, <1>3, ListOf
<1>6. \A b \in HeaderLen..Len(msg), k \in 0..n : P[<<b, k>>] = RecordsAt(msg, b, k, P)
  BY <1>4 DEF Starts
<1>7. ASSUME NEW b \in HeaderLen..Len(msg) PROVE P[<<b, 0>>] = Section(<<>>, b, "ok")
  <2>1. 0 \in 0..n
    BY <1>1
  <2>2. P[<<b, 0>>] = RecordsAt(msg, b, 0, P)
    BY <1>6, <2>1
  <2>3. RecordsAt(msg, b, 0, P) = Section(<<>>, b, "ok")
    BY DEF RecordsAt
  <2> QED
    BY <2>2, <2>3
<1>8. ASSUME NEW i \in 1..n, NEW b \in HeaderLen..Len(msg), NEW k \in 1..n, Holds(msg, b, parts[i])
      PROVE  P[<<b, k>>] = After(s[i], P[<<b + Len(parts[i]), k - 1>>])
  <2>1. k \in Nat /\ k > 0 /\ k \in 0..n
    BY <1>1
  <2>2. P[<<b, k>>] = RecordsAt(msg, b, k, P)
    BY <1>6, <2>1
  <2>3. s[i] \in SpelledRecord /\ parts[i] = SerializeRecord(s[i])
    BY <1>1, <1>2
  <2>4. Holds(msg, b, SerializeRecord(s[i]))
    BY <1>8, <2>3
  <2>5. RecordsAt(msg, b, k, P) = After(s[i], P[<<b + Len(SerializeRecord(s[i])), k - 1>>])
    BY <2>1, <2>3, <2>4, RecordRead
  <2> QED
    BY <2>2, <2>3, <2>5
<1>9. Holds(msg, at, FlattenSeq(parts))
  BY <1>0
<1>10. P[<<at, n>>] = Section(s, at + Len(FlattenSeq(parts)), "ok")
  BY <1>1, <1>5, <1>7, <1>8, <1>9, SectionRead DEF n
<1> QED
  BY <1>0, <1>10 DEF n, P

\* What the server may say: what it parsed, and one answer of its own.
Counted(Item) == {s \in Seq(Item) : Len(s) < BufferLen}

Replies == [questions : Counted(Question), answers : Counted(Record),
            authority : Counted(Record), additional : Counted(Record)]

SpelledReplies == [questions : Counted(SpelledQuestion), answers : Counted(SpelledRecord),
                   authority : Counted(SpelledRecord), additional : Counted(SpelledRecord)]

\* Without an empty label, the names of a reply can be spelled out.
LEMMA NameSpelled ==
    ASSUME NEW labels \in Seq(Label), <<>> \notin Range(labels)
    PROVE  labels \in Spelled
<1>1. ASSUME NEW i \in 1..Len(labels) PROVE Len(labels[i]) >= 1
  <2>1. labels[i] \in Label /\ labels[i] \in Range(labels)
    BY ElementOfSeq, LenProperties DEF Range
  <2>2. labels[i] \in Seq(Octet) /\ labels[i] # <<>>
    BY <2>1 DEF Label
  <2> QED
    BY <2>2, EmptySeq
<1> QED
  BY <1>1 DEF Spelled

LEMMA Retyped ==
    ASSUME NEW S, NEW T, NEW s \in Counted(S), \A i \in 1..Len(s) : s[i] \in T
    PROVE  s \in Counted(T)
<1>1. s \in Seq(S) /\ Len(s) < BufferLen /\ Len(s) \in Nat /\ s = [i \in 1..Len(s) |-> s[i]]
  BY LenProperties DEF Counted
<1>2. s \in Seq(T)
  BY <1>1, ListOf
<1> QED
  BY <1>1, <1>2 DEF Counted

LEMMA RecordsSpelled ==
    ASSUME NEW s \in Counted(Record), \A i \in DOMAIN s : <<>> \notin Range(s[i].labels)
    PROVE  s \in Counted(SpelledRecord)
<1>1. s \in Seq(Record) /\ DOMAIN s = 1..Len(s)
  BY LenProperties DEF Counted
<1>2. ASSUME NEW i \in 1..Len(s) PROVE s[i] \in SpelledRecord
  <2>1. s[i] \in Record /\ <<>> \notin Range(s[i].labels)
    BY <1>1, ElementOfSeq
  <2>2. s[i].labels \in Seq(Label)
    BY <2>1 DEF Record
  <2>3. s[i].labels \in Spelled
    BY <2>1, <2>2, NameSpelled
  <2> QED
    BY <2>1, <2>3 DEF SpelledRecord
<1> QED
  BY <1>2, Retyped

LEMMA QuestionsSpelled ==
    ASSUME NEW s \in Counted(Question), \A i \in DOMAIN s : <<>> \notin Range(s[i].labels)
    PROVE  s \in Counted(SpelledQuestion)
<1>1. s \in Seq(Question) /\ DOMAIN s = 1..Len(s)
  BY LenProperties DEF Counted
<1>2. ASSUME NEW i \in 1..Len(s) PROVE s[i] \in SpelledQuestion
  <2>1. s[i] \in Question /\ <<>> \notin Range(s[i].labels)
    BY <1>1, ElementOfSeq
  <2>2. s[i].labels \in Seq(Label)
    BY <2>1 DEF Question
  <2>3. s[i].labels \in Spelled
    BY <2>1, <2>2, NameSpelled
  <2> QED
    BY <2>1, <2>3 DEF SpelledQuestion
<1> QED
  BY <1>2, Retyped

LEMMA MessageSpelled ==
    ASSUME NEW m \in Replies, NamesSpelled(m)
    PROVE  m \in SpelledReplies
<1>1. /\ m.questions \in Counted(Question) /\ m.answers \in Counted(Record)
      /\ m.authority \in Counted(Record) /\ m.additional \in Counted(Record)
      /\ m = [questions |-> m.questions, answers |-> m.answers,
              authority |-> m.authority, additional |-> m.additional]
  BY DEF Replies
<1>2. /\ \A i \in DOMAIN m.questions : <<>> \notin Range(m.questions[i].labels)
      /\ \A i \in DOMAIN m.answers : <<>> \notin Range(m.answers[i].labels)
      /\ \A i \in DOMAIN m.authority : <<>> \notin Range(m.authority[i].labels)
      /\ \A i \in DOMAIN m.additional : <<>> \notin Range(m.additional[i].labels)
  BY Zenon DEF NamesSpelled
<1>3. m.questions \in Counted(SpelledQuestion)
  BY <1>1, <1>2, QuestionsSpelled
<1>4. /\ m.answers \in Counted(SpelledRecord) /\ m.authority \in Counted(SpelledRecord)
      /\ m.additional \in Counted(SpelledRecord)
  BY <1>1, <1>2, RecordsSpelled
<1> QED
  BY <1>1, <1>3, <1>4 DEF SpelledReplies

\* What the sections of a message are on the wire.
LEMMA SectionsWritten ==
    /\ \A s \in Seq(SpelledQuestion) : FlattenSeq(QuestionParts(s)) \in Seq(Octet)
    /\ \A s \in Seq(SpelledRecord) : SerializeRecords(s) \in Seq(Octet)
<1>1. ASSUME NEW s \in Seq(SpelledQuestion) PROVE FlattenSeq(QuestionParts(s)) \in Seq(Octet)
  <2> DEFINE parts == QuestionParts(s)
  <2>1. Len(s) \in Nat /\ DOMAIN s = 1..Len(s) /\ \A i \in 1..Len(s) : s[i] \in SpelledQuestion
    BY LenProperties, ElementOfSeq
  <2>2. /\ parts = [i \in 1..Len(s) |-> parts[i]]
        /\ \A i \in 1..Len(s) : parts[i] \in Seq(Octet)
    BY <2>1, QuestionPartTyped DEF QuestionParts
  <2> HIDE DEF parts
  <2>3. parts \in Seq(Seq(Octet))
    BY <2>1, <2>2, ListOf
  <2>4. PICK ends : Flattened(parts, FlattenSeq(parts), ends)
    BY <2>3, FlattenEnds
  <2> QED
    BY <2>4 DEF Flattened, parts
<1>2. ASSUME NEW s \in Seq(SpelledRecord) PROVE SerializeRecords(s) \in Seq(Octet)
  <2> DEFINE parts == RecordParts(s)
  <2>1. Len(s) \in Nat /\ DOMAIN s = 1..Len(s) /\ \A i \in 1..Len(s) : s[i] \in SpelledRecord
    BY LenProperties, ElementOfSeq
  <2>2. /\ parts = [i \in 1..Len(s) |-> parts[i]]
        /\ \A i \in 1..Len(s) : parts[i] \in Seq(Octet)
    BY <2>1, SerializedRecordTyped DEF RecordParts
  <2>3. SerializeRecords(s) = FlattenSeq(parts)
    BY DEF SerializeRecords, RecordParts
  <2> HIDE DEF parts
  <2>4. parts \in Seq(Seq(Octet))
    BY <2>1, <2>2, ListOf
  <2>5. PICK ends : Flattened(parts, FlattenSeq(parts), ends)
    BY <2>4, FlattenEnds
  <2> QED
    BY <2>3, <2>5 DEF Flattened
<1> QED
  BY <1>1, <1>2

\* The server parses what it serialized to what it serialized, however long.
LEMMA MessageRead ==
    ASSUME NEW m \in SpelledReplies, Len(Serialize(m)) > HeaderLen
    PROVE  ParseDNSMessage(Serialize(m)) = [status |-> "ok", msg |-> m]
<1> DEFINE msg == Serialize(m)
           q  == m.questions
           an == m.answers
           ns == m.authority
           ar == m.additional
           zero == <<0, 0, 0, 0>>
           u1 == U16(Len(q))
           u2 == U16(Len(an))
           u3 == U16(Len(ns))
           u4 == U16(Len(ar))
           oq == FlattenSeq(QuestionParts(q))
           oan == SerializeRecords(an)
           ons == SerializeRecords(ns)
           oar == SerializeRecords(ar)
           front == ((zero \o u1) \o u2) \o u3
           header == front \o u4
           most == ((header \o oq) \o oan) \o ons
<1>1. msg = most \o oar
  BY DEF Serialize, QuestionParts, QuestionPart, most, header, front
<1>2. m = Sections(q, an, ns, ar)
  BY DEF SpelledReplies, Sections
<1>3. /\ q \in Seq(SpelledQuestion) /\ Len(q) \in Nat /\ Len(q) < BufferLen
      /\ an \in Seq(SpelledRecord) /\ Len(an) \in Nat /\ Len(an) < BufferLen
      /\ ns \in Seq(SpelledRecord) /\ Len(ns) \in Nat /\ Len(ns) < BufferLen
      /\ ar \in Seq(SpelledRecord) /\ Len(ar) \in Nat /\ Len(ar) < BufferLen
  BY DEF SpelledReplies, Counted
<1> HIDE DEF q, an, ns, ar
<1>4. /\ oq \in Seq(Octet) /\ oan \in Seq(Octet) /\ ons \in Seq(Octet) /\ oar \in Seq(Octet)
  BY <1>3, SectionsWritten
<1>5. /\ u1 \in Seq(Octet) /\ Len(u1) = 2 /\ u2 \in Seq(Octet) /\ Len(u2) = 2
      /\ u3 \in Seq(Octet) /\ Len(u3) = 2 /\ u4 \in Seq(Octet) /\ Len(u4) = 2
  BY <1>3, PairWritten
<1>6. zero \in Seq(Octet) /\ Len(zero) = 4
  <2>1. 0 \in Octet
    BY DEF Octet
  <2> QED
    BY <2>1
<1> HIDE DEF zero, u1, u2, u3, u4, oq, oan, ons, oar, front, header, most
<1>7. front \in Seq(Octet) /\ Len(front) = 10
  <2>1. front \in Seq(Octet) /\ Len(front) = ((Len(zero) + Len(u1)) + Len(u2)) + Len(u3)
    <3>1. front = ((zero \o u1) \o u2) \o u3
      BY DEF front
    <3>2. zero \in Seq(Octet) /\ u1 \in Seq(Octet) /\ u2 \in Seq(Octet) /\ u3 \in Seq(Octet)
      BY <1>5, <1>6
    <3> QED
      BY <3>1, <3>2, ConcatFour
  <2> QED
    BY <1>5, <1>6, <2>1
<1>8. header \in Seq(Octet) /\ Len(header) = 12
  <2>1. header \in Seq(Octet) /\ Len(header) = Len(front) + Len(u4)
    BY <1>5, <1>7, HoldsConcat DEF header
  <2> QED
    BY <1>5, <1>7, <2>1
<1>9. most \in Seq(Octet)
  BY <1>4, <1>8, ConcatFour DEF most
<1>10. msg \in Seq(Octet)
  BY <1>1, <1>4, <1>9, HoldsConcat
<1>11. Len(msg) > HeaderLen /\ HeaderLen = 12
  BY DEF HeaderLen
<1> HIDE DEF msg
<1>12. Holds(msg, 0, msg)
  BY <1>10 DEF Holds
<1>13. Holds(msg, 0, most) /\ Holds(msg, 0 + Len(most), oar)
  BY <1>1, <1>4, <1>9, <1>10, <1>12, HoldsParts
<1>14. InFour(msg, 0, header, oq, oan, ons, most)
  BY <1>4, <1>8, <1>10, <1>13, HoldsFour DEF most
<1> DEFINE at2 == 12 + Len(oq)
           at3 == at2 + Len(oan)
           at4 == at3 + Len(ons)
<1>15. /\ Len(oq) \in Nat /\ Len(oan) \in Nat /\ Len(ons) \in Nat /\ Len(oar) \in Nat
  BY <1>4
<1>16. Holds(msg, 0, header) /\ Holds(msg, 12, oq) /\ Holds(msg, at2, oan) /\ Holds(msg, at3, ons)
       /\ Holds(msg, at4, oar)
  <2>1. /\ Holds(msg, 0, header) /\ Holds(msg, 0 + 12, oq)
        /\ Holds(msg, (0 + 12) + Len(oq), oan)
        /\ Holds(msg, ((0 + 12) + Len(oq)) + Len(oan), ons)
        /\ 0 + Len(most) = (((0 + 12) + Len(oq)) + Len(oan)) + Len(ons)
    BY <1>8, <1>14 DEF InFour
  <2>2. 0 + 12 = 12
    OBVIOUS
  <2>3. Holds(msg, (((0 + 12) + Len(oq)) + Len(oan)) + Len(ons), oar)
    BY <1>13, <2>1
  <2> QED
    BY <2>1, <2>2, <2>3
<1>17. /\ U16At(msg, 4) = Len(q) /\ U16At(msg, 6) = Len(an)
       /\ U16At(msg, 8) = Len(ns) /\ U16At(msg, 10) = Len(ar)
  <2>1. Holds(msg, 0, front) /\ Holds(msg, 0 + Len(front), u4)
    BY <1>5, <1>7, <1>10, <1>16, HoldsParts DEF header
  <2>2. InFour(msg, 0, zero, u1, u2, u3, front)
    BY <1>5, <1>6, <1>10, <2>1, HoldsFour DEF front
  <2>3. /\ Holds(msg, 0 + Len(zero), u1)
        /\ Holds(msg, (0 + Len(zero)) + Len(u1), u2)
        /\ Holds(msg, ((0 + Len(zero)) + Len(u1)) + Len(u2), u3)
    BY <2>2 DEF InFour
  <2>4. /\ 0 + Len(zero) = 4 /\ (0 + Len(zero)) + Len(u1) = 6
        /\ ((0 + Len(zero)) + Len(u1)) + Len(u2) = 8 /\ 0 + Len(front) = 10
    BY <1>5, <1>6, <1>7
  <2>5. Holds(msg, 4, u1) /\ Holds(msg, 6, u2) /\ Holds(msg, 8, u3) /\ Holds(msg, 10, u4)
    BY <2>1, <2>3, <2>4, Zenon
  <2> QED
    BY <1>3, <1>10, <2>5, PairWritten DEF u1, u2, u3, u4
<1>18. /\ at2 \in Nat /\ at3 \in Nat /\ at4 \in Nat /\ 12 \in Nat
       /\ HeaderLen <= 12 /\ HeaderLen <= at2 /\ HeaderLen <= at3 /\ HeaderLen <= at4
  BY <1>11, <1>15
<1> HIDE DEF at2, at3, at4
<1>19. ParseQuestions(msg, Len(q))[<<12, Len(q)>>] = Section(q, at2, "ok")
  BY <1>3, <1>10, <1>16, <1>18, QuestionsRead DEF oq, at2
<1>20. ParseRecords(msg, Len(an))[<<at2, Len(an)>>] = Section(an, at3, "ok")
  BY <1>3, <1>10, <1>16, <1>18, RecordsRead DEF oan, at3
<1>21. ParseRecords(msg, Len(ns))[<<at3, Len(ns)>>] = Section(ns, at4, "ok")
  BY <1>3, <1>10, <1>16, <1>18, RecordsRead DEF ons, at4
<1>22. ParseRecords(msg, Len(ar))[<<at4, Len(ar)>>] = Section(ar, at4 + Len(oar), "ok")
  BY <1>3, <1>10, <1>16, <1>18, RecordsRead DEF oar
<1>23. ParseDNSMessage(msg) = [status |-> "ok", msg |-> Sections(q, an, ns, ar)]
  <2>1. ~(Len(msg) <= HeaderLen)
    BY <1>10, <1>11
  <2>2. ParseQuestions(msg, U16At(msg, 4))[<<HeaderLen, U16At(msg, 4)>>] = Section(q, at2, "ok")
    BY <1>11, <1>17, <1>19
  <2> QED
    BY <1>17, <1>20, <1>21, <1>22, <2>1, <2>2, SectionsOk
<1> QED
  BY <1>2, <1>23 DEF msg

\* What the server sends it parsed before, but for one answer of its own.
\* It is among Replies, and on the wire as Serialize writes it.
SentInv == stage = "sent" => sent \in Replies /\ wire = Serialize(sent)

\* What was parsed leaves room for it in the count.
LEMMA Counts ==
    ASSUME NEW Item, NEW s \in Few(Item)
    PROVE  s \in Counted(Item) /\ \A e \in Item : Append(s, e) \in Counted(Item)
<1>1. s \in Seq(Item) /\ Len(s) \in Nat /\ Len(s) <= BufferLen - HeaderLen
  BY DEF Few
<1>2. Len(s) < BufferLen /\ Len(s) + 1 < BufferLen
  BY <1>1 DEF BufferLen, HeaderLen
<1>3. \A e \in Item : Append(s, e) \in Seq(Item) /\ Len(Append(s, e)) = Len(s) + 1
  BY <1>1, AppendProperties
<1> QED
  BY <1>1, <1>2, <1>3 DEF Counted

LEMMA MessagesAreReplies ==
    ASSUME NEW m \in Messages
    PROVE  m \in Replies
<1>1. /\ m.questions \in Few(Question) /\ m.answers \in Few(Record)
      /\ m.authority \in Few(Record) /\ m.additional \in Few(Record)
      /\ m = [questions |-> m.questions, answers |-> m.answers,
              authority |-> m.authority, additional |-> m.additional]
  BY DEF Messages
<1>2. /\ m.questions \in Counted(Question) /\ m.answers \in Counted(Record)
      /\ m.authority \in Counted(Record) /\ m.additional \in Counted(Record)
  BY <1>1, Counts
<1> QED
  BY <1>1, <1>2 DEF Replies

LEMMA RepliesSent ==
    ASSUME WireInv, WireNext
    PROVE  SentInv'
<1>1. ASSUME NEW m \in Replies, Send(m) PROVE SentInv'
  BY <1>1 DEF Send, SentInv
<1>2. ASSUME stage = "received"
      PROVE  ParseDNSMessage(wire).msg \in Messages
  BY <1>2, MessageParsed DEF WireInv
<1>3. CASE Relay
  <2>1. ParseDNSMessage(wire).msg \in Replies /\ Send(ParseDNSMessage(wire).msg)
    BY <1>2, <1>3, MessagesAreReplies DEF Relay
  <2> QED
    BY <1>1, <2>1
<1>4. CASE Drop
  BY <1>4 DEF Drop, SentInv
<1>5. CASE SendFailure
  <2> DEFINE m == ParseDNSMessage(wire).msg
  <2>1. m \in Messages /\ Send([Empty EXCEPT !.questions = m.questions])
    BY <1>2, <1>5 DEF SendFailure
  <2> HIDE DEF m
  <2>2. m.questions \in Few(Question) /\ \A Item : <<>> \in Few(Item)
    BY <2>1 DEF Messages, Few, BufferLen, HeaderLen
  <2>3. [Empty EXCEPT !.questions = m.questions] \in Messages
    BY <2>2 DEF Empty, Sections, Messages
  <2> QED
    BY <1>1, <2>1, <2>3, MessagesAreReplies
<1>6. ASSUME NEW ip \in Addresses, Answer(ip) PROVE SentInv'
  <2> DEFINE m == ParseDNSMessage(wire).msg
             own == [labels |-> m.questions[1].labels, fixed |-> Fixed, rdata |-> ip]
             reply == [m EXCEPT !.answers = Append(@, own)]
  <2>1. m \in Messages /\ Len(m.questions) = 1 /\ Send(reply)
    BY <1>2, <1>6 DEF Answer
  <2> HIDE DEF m
  <2>2. m \in Replies
    BY <2>1, MessagesAreReplies
  <2>3. m.questions \in Seq(Question) /\ m.answers \in Few(Record)
    BY <2>1 DEF Messages, Few
  <2>4. m.questions[1] \in Question
    BY <2>1, <2>3, ElementOfSeq
  <2>5. own \in Record
    <3>1. m.questions[1].labels \in Seq(Label)
      BY <2>4 DEF Question
    <3>2. Fixed \in Seq(Octet) /\ Len(Fixed) = 8 /\ ip \in Seq(Octet) /\ Len(ip) <= 16
      BY AnswerAssumption
    <3>3. 10 + Len(ip) < BufferLen
      BY <3>2 DEF BufferLen
    <3> QED
      BY <3>1, <3>2, <3>3 DEF Record
  <2> HIDE DEF own
  <2>6. Append(m.answers, own) \in Counted(Record)
    BY <2>3, <2>5, Counts
  <2>7. reply \in Replies
    BY <2>2, <2>6 DEF Replies
  <2> HIDE DEF reply
  <2> QED
    BY <1>1, <2>1, <2>7
<1> QED
  BY <1>3, <1>4, <1>5, <1>6 DEF WireNext

\* Whatever arrives, what the server sends it would parse back to what it meant
\* to send.
THEOREM SentAlwaysParses == WireSpec => []SentMessagesParse
<1>1. WireInit => WireInv /\ SentInv
  BY WireAssumption DEF WireInit, WireInv, SentInv
<1>2. WireInv /\ SentInv /\ [WireNext]_wireVars => (WireInv /\ SentInv)'
  <2> SUFFICES ASSUME WireInv, SentInv, [WireNext]_wireVars PROVE (WireInv /\ SentInv)'
    OBVIOUS
  <2>1. WireInv'
    BY DEF WireInv, WireNext, Relay, Drop, SendFailure, Answer, Send, wireVars
  <2>2. CASE UNCHANGED wireVars
    BY <2>1, <2>2 DEF SentInv, wireVars
  <2> QED
    BY <2>1, <2>2, RepliesSent
<1>3. WireInv /\ SentInv => SentMessagesParse
  BY MessageSpelled, MessageRead DEF SentInv, SentMessagesParse
<1> QED
  BY <1>1, <1>2, <1>3, PTL DEF WireSpec

-----------------------------------------------------------------------------
(* Messages of other implementations                                       *)

\* What parseLabels does at an octet that a name is written with.
LEMMA WrittenOctet ==
    ASSUME NEW msg \in Seq(Octet), NEW at \in 0..Len(msg) - 1, NEW depth \in 0..5
    PROVE  /\ msg[at + 1] = 0 => Done(msg, at, depth, 1, "ok")
           /\ msg[at + 1] \in 1..63 /\ at + msg[at + 1] + 1 <= Len(msg) =>
                 GoesOn(msg, at, depth, msg[at + 1])
           /\ msg[at + 1] \in 192..255 /\ depth < 5 /\ at + 2 <= Len(msg) =>
                 \A target \in 0..Len(msg) :
                     target = U16At(msg, at) % 16384 => Jumps(msg, at, depth, target)
<1> DEFINE left   == Len(msg) - at
           first  == msg[at + 1]
           length == first % 64
           target == U16At(msg, at) % 16384
<1>1. \A name : NameAt(msg, at, depth, name) =
          IF left = 0 THEN Result(<<>>, 0, "ok")
          ELSE IF first = 0 THEN Result(<<>>, 1, "ok")
          ELSE IF first >= 192 /\ depth < 5
               THEN IF left < 2 \/ target > Len(msg) THEN Result(<<>>, 0, "error")
                    ELSE Result(name[<<target, depth + 1>>].labels, 2,
                                name[<<target, depth + 1>>].status)
          ELSE IF first >= 192 /\ depth > 5 THEN Result(<<>>, 0, "panic")
          ELSE IF length + 1 > left THEN Result(<<>>, 0, "error")
          ELSE Result(<<Octets(msg, at + 1, length)>> \o name[<<at + length + 1, depth>>].labels,
                      length + 1 + name[<<at + length + 1, depth>>].size,
                      name[<<at + length + 1, depth>>].status)
  BY DEF NameAt, Followed, PointerLen
<1>2. Len(msg) \in Nat /\ at \in Nat /\ left = Len(msg) - at /\ left # 0
  OBVIOUS
<1>3. length = first % 64
  OBVIOUS
<1> HIDE DEF left, first, length, target
<1>4. ASSUME first = 0 PROVE Done(msg, at, depth, 1, "ok")
  BY <1>1, <1>2, <1>4 DEF Done
<1>5. ASSUME first \in 1..63, at + first + 1 <= Len(msg) PROVE GoesOn(msg, at, depth, first)
  <2>1. length = first
    BY <1>3, <1>5
  <2>2. left # 0 /\ first # 0 /\ ~(first >= 192) /\ ~(length + 1 > left) /\ first <= 63
    BY <1>2, <1>5, <2>1
  <2> QED
    BY <1>1, <1>5, <2>1, <2>2 DEF GoesOn
<1>6. ASSUME first \in 192..255, depth < 5, at + 2 <= Len(msg),
             NEW t \in 0..Len(msg), t = target
      PROVE  Jumps(msg, at, depth, t)
  <2>1. left # 0 /\ first # 0 /\ first >= 192 /\ ~(left < 2 \/ target > Len(msg))
    BY <1>2, <1>6
  <2> QED
    BY <1>1, <1>6, <2>1 DEF Jumps
<1>7. first = msg[at + 1] /\ target = U16At(msg, at) % 16384
  BY DEF first, target
<1>8. msg[at + 1] = 0 => Done(msg, at, depth, 1, "ok")
  BY <1>4, <1>7
<1>9. msg[at + 1] \in 1..63 /\ at + msg[at + 1] + 1 <= Len(msg) =>
          GoesOn(msg, at, depth, msg[at + 1])
  BY <1>5, <1>7
<1>10. msg[at + 1] \in 192..255 /\ depth < 5 /\ at + 2 <= Len(msg) =>
           \A t \in 0..Len(msg) : t = U16At(msg, at) % 16384 => Jumps(msg, at, depth, t)
  BY <1>6, <1>7
<1> QED
  BY <1>8, <1>9, <1>10

\* A name is parsed to its labels, to where its octets end, from any depth at which
\* no more than five pointers are followed to the last of them.
LEMMA NameMeant ==
    ASSUME NEW msg \in Seq(Octet), NEW known, NamesWritten(msg, known), NEW at \in DOMAIN known
    PROVE  ParseLabels(msg)[<<at, 0>>] = Result(known[at].labels, known[at].next - at, "ok")
<1> DEFINE P == ParseLabels(msg)
           Meant(p) == P[p] = Result(known[p[1]].labels, known[p[1]].next - p[1], "ok")
           S == {p \in Calls(msg) :
                    p[1] \in DOMAIN known /\ p[2] + known[p[1]].pointers <= 5 => Meant(p)}
<1>1. \A p \in Calls(msg) : P[p] = NameAt(msg, p[1], p[2], P)
  BY ParseLabelsReturns
<1>2. Rank(msg) \in [Calls(msg) -> Nat]
  BY RankBound
<1>3. \A o \in DOMAIN known :
          /\ o \in 0..Len(msg) - 1 /\ known[o].next \in Nat
          /\ known[o].pointers \in Nat /\ known[o].pointers <= 5
          /\ NameWritten(msg, known, o)
  BY DEF NamesWritten, MaxPointers
<1> HIDE DEF P
<1>4. ASSUME NEW p \in Calls(msg), \A q \in Calls(msg) : Rank(msg)[q] < Rank(msg)[p] => q \in S,
             p[1] \in DOMAIN known, p[2] + known[p[1]].pointers <= 5
      PROVE  Meant(p)
  <2>1. PICK o \in 0..Len(msg), depth \in 0..6 : p = <<o, depth>>
    BY DEF Calls
  <2> DEFINE first  == msg[o + 1]
             target == U16At(msg, o) % 16384
             behind == o + first + 1
             rest   == known[behind]
  <2>2. /\ o \in DOMAIN known /\ o \in 0..Len(msg) - 1 /\ Len(msg) \in Nat
        /\ known[o].next \in Nat /\ known[o].pointers \in Nat
        /\ depth + known[o].pointers <= 5 /\ depth \in 0..5
        /\ P[p] = NameAt(msg, o, depth, P)
    BY <1>1, <1>3, <1>4, <2>1
  <2>3. /\ first = 0 => Done(msg, o, depth, 1, "ok")
        /\ first \in 1..63 /\ behind <= Len(msg) => GoesOn(msg, o, depth, first)
        /\ first \in 192..255 /\ depth < 5 /\ o + 2 <= Len(msg) =>
              \A t \in 0..Len(msg) : t = target => Jumps(msg, o, depth, t)
    <3>1. o \in 0..Len(msg) - 1 /\ depth \in 0..5
      BY <2>2
    <3> QED
      BY <3>1, WrittenOctet
  <2>4. \/ first = 0 /\ known[o] = Name(<<>>, o + 1, 0)
        \/ /\ first \in 1..63 /\ behind \in DOMAIN known
           /\ known[o] = Name(<<Octets(msg, o + 1, first)>> \o rest.labels, rest.next, rest.pointers)
        \/ /\ first \in 192..255 /\ o + 2 <= Len(msg) /\ target \in DOMAIN known
           /\ known[o] = Name(known[target].labels, o + 2, known[target].pointers + 1)
    <3>1. NameWritten(msg, known, o)
      BY <1>3, <2>2
    <3> QED
      BY <3>1 DEF NameWritten
  <2> HIDE DEF first, target
  <2>5. CASE first = 0 /\ known[o] = Name(<<>>, o + 1, 0)
    <3>1. P[p] = Result(<<>>, 1, "ok")
      BY <2>2, <2>3, <2>5 DEF Done
    <3>2. known[o].labels = <<>> /\ known[o].next - o = 1
      BY <2>2, <2>5 DEF Name
    <3> QED
      BY <2>1, <3>1, <3>2
  <2>6. CASE /\ first \in 1..63 /\ behind \in DOMAIN known
             /\ known[o] = Name(<<Octets(msg, o + 1, first)>> \o rest.labels,
                                rest.next, rest.pointers)
    <3>1. /\ known[o].labels = <<Octets(msg, o + 1, first)>> \o rest.labels
          /\ known[o].next = rest.next /\ known[o].pointers = rest.pointers
      BY <2>6 DEF Name
    <3>2. behind \in 0..Len(msg) - 1 /\ first \in Nat /\ rest.next \in Nat
      <4>1. behind \in DOMAIN known /\ rest = known[behind] /\ first \in Nat
        BY <2>6
      <4> HIDE DEF behind, rest
      <4> QED
        BY <1>3, <4>1
    <3>3. GoesOn(msg, o, depth, first) /\ o + first + 1 <= Len(msg)
      BY <2>2, <2>3, <2>6, <3>2
    <3>4. <<behind, depth>> \in S /\ <<behind, depth>> \in Calls(msg)
      BY <1>4, <2>1, <2>2, <3>2, <3>3, LowerCalls
    <3>5. P[<<behind, depth>>] = Result(rest.labels, rest.next - behind, "ok")
      BY <2>2, <2>6, <3>1, <3>4
    <3>6. /\ P[<<behind, depth>>].labels = rest.labels
          /\ P[<<behind, depth>>].size = rest.next - behind
          /\ P[<<behind, depth>>].status = "ok"
      BY <3>5 DEF Result
    <3>7. P[p] = Result(<<Octets(msg, o + 1, first)>> \o P[<<behind, depth>>].labels,
                        first + 1 + P[<<behind, depth>>].size, P[<<behind, depth>>].status)
      BY <2>2, <3>3 DEF GoesOn
    <3>8. first + 1 + (rest.next - behind) = known[o].next - o
      <4>1. \A k, f, e \in Nat : f + 1 + (e - (k + f + 1)) = e - k
        OBVIOUS
      <4>2. o \in Nat
        OBVIOUS
      <4>3. first + 1 + (rest.next - (o + first + 1)) = rest.next - o
        <5> HIDE DEF rest
        <5> QED
          BY <3>2, <4>1, <4>2
      <4> QED
        BY <3>1, <4>3
    <3> HIDE DEF behind, rest
    <3>9. P[p] = Result(known[o].labels, known[o].next - o, "ok")
      BY <3>1, <3>6, <3>7, <3>8
    <3> QED
      BY <2>1, <3>9
  <2>7. CASE /\ first \in 192..255 /\ o + 2 <= Len(msg) /\ target \in DOMAIN known
             /\ known[o] = Name(known[target].labels, o + 2, known[target].pointers + 1)
    <3>1. /\ known[o].labels = known[target].labels /\ known[o].next = o + 2
          /\ known[o].pointers = known[target].pointers + 1
      BY <2>7 DEF Name
    <3>2. target \in 0..Len(msg) - 1 /\ known[target].pointers \in Nat
      BY <1>3, <2>7
    <3>3. depth < 5 /\ (depth + 1) + known[target].pointers <= 5 /\ target \in 0..Len(msg)
      <4>1. \A d, n \in Nat : d + (n + 1) <= 5 => d < 5 /\ (d + 1) + n <= 5
        OBVIOUS
      <4>2. depth \in Nat /\ depth + (known[target].pointers + 1) <= 5
        BY <2>2, <3>1
      <4> QED
        BY <3>2, <4>1, <4>2
    <3>4. Jumps(msg, o, depth, target)
      BY <2>3, <2>7, <3>3
    <3>5. <<target, depth + 1>> \in S /\ <<target, depth + 1>> \in Calls(msg)
      BY <1>4, <2>1, <3>3, LowerCalls
    <3>6. P[<<target, depth + 1>>] = Result(known[target].labels, known[target].next - target, "ok")
      BY <2>7, <3>3, <3>5
    <3>7. /\ P[<<target, depth + 1>>].labels = known[target].labels
          /\ P[<<target, depth + 1>>].status = "ok"
      BY <3>6 DEF Result
    <3>8. P[p] = Result(P[<<target, depth + 1>>].labels, 2, P[<<target, depth + 1>>].status)
      BY <2>2, <3>4 DEF Jumps
    <3>9. known[o].next - o = 2
      BY <2>2, <3>1
    <3>10. P[p] = Result(known[o].labels, known[o].next - o, "ok")
      BY <3>1, <3>7, <3>8, <3>9
    <3> QED
      BY <2>1, <3>10
  <2> QED
    BY <2>4, <2>5, <2>6, <2>7
<1>5. \A p \in Calls(msg) : (\A q \in Calls(msg) : Rank(msg)[q] < Rank(msg)[p] => q \in S) => p \in S
  BY <1>4
<1> HIDE DEF S
<1>6. Calls(msg) \subseteq S
  BY <1>2, <1>5, RankInduction
<1>7. <<at, 0>> \in Calls(msg) /\ 0 + known[at].pointers <= 5
  BY <1>3 DEF Calls
<1>8. Meant(<<at, 0>>)
  BY <1>6, <1>7 DEF S
<1> QED
  BY <1>8 DEF P

\* A question is parsed to what was meant, and so is a record.
LEMMA QuestionMeant ==
    ASSUME NEW msg \in Seq(Octet), NEW known, NamesWritten(msg, known), NEW q \in Question,
           NEW at \in HeaderLen..Len(msg), NEW next \in HeaderLen..Len(msg),
           QuestionWritten(msg, known, q, at, next), NEW k \in Nat, k > 0, NEW P
    PROVE  QuestionsAt(msg, at, k, P) = After(q, P[<<next, k - 1>>])
<1> DEFINE r     == ParseLabels(msg)[<<at, 0>>]
           fixed == known[at].next
<1>1. /\ at \in DOMAIN known /\ next = fixed + 4
      /\ q = [labels |-> known[at].labels, fixed |-> Octets(msg, fixed, 4)]
  BY DEF QuestionWritten
<1>2. at \in Nat /\ at < Len(msg) /\ fixed \in Nat /\ Len(msg) \in Nat /\ next <= Len(msg)
  BY <1>1 DEF NamesWritten, HeaderLen
<1>3. r = Result(known[at].labels, fixed - at, "ok")
  BY <1>1, NameMeant
<1>4. r.labels = known[at].labels /\ r.size = fixed - at /\ r.status = "ok"
  BY <1>3 DEF Result
<1>5. QuestionsAt(msg, at, k, P) =
          IF k = 0 \/ at = Len(msg) THEN Section(<<>>, at, "ok")
          ELSE IF r.status # "ok" THEN Section(<<>>, at, r.status)
          ELSE IF Len(msg) - (at + r.size) < 4 THEN Section(<<>>, at, "error")
          ELSE After([labels |-> r.labels, fixed |-> Octets(msg, at + r.size, 4)],
                     P[<<(at + r.size) + 4, k - 1>>])
  BY DEF QuestionsAt
<1> HIDE DEF r, fixed
<1>6. at + r.size = fixed /\ ~(k = 0 \/ at = Len(msg)) /\ ~(Len(msg) - fixed < 4)
  BY <1>1, <1>2, <1>4
<1> QED
  BY <1>1, <1>4, <1>5, <1>6

LEMMA RecordMeant ==
    ASSUME NEW msg \in Seq(Octet), NEW known, NamesWritten(msg, known), NEW x \in Record,
           NEW at \in HeaderLen..Len(msg), NEW next \in HeaderLen..Len(msg),
           RecordWritten(msg, known, x, at, next), NEW k \in Nat, k > 0, NEW P
    PROVE  RecordsAt(msg, at, k, P) = After(x, P[<<next, k - 1>>])
<1> DEFINE r     == ParseLabels(msg)[<<at, 0>>]
           fixed == known[at].next
           rdlen == U16At(msg, fixed + 8)
           left  == Len(msg) - fixed
<1>1. /\ at \in DOMAIN known /\ fixed + 10 <= Len(msg) /\ next = fixed + 10 + rdlen
      /\ x = [labels |-> known[at].labels, fixed |-> Octets(msg, fixed, 8),
              rdata  |-> Octets(msg, fixed + 10, rdlen)]
  BY DEF RecordWritten
<1>2. at \in Nat /\ at < Len(msg) /\ fixed \in Nat /\ Len(msg) \in Nat /\ next <= Len(msg)
  BY <1>1 DEF NamesWritten, HeaderLen
<1>3. rdlen \in Nat
  <2>1. fixed + 8 \in Nat /\ (fixed + 8) + 2 <= Len(msg)
    BY <1>1, <1>2
  <2> QED
    BY <2>1, OctetPairs
<1>4. r = Result(known[at].labels, fixed - at, "ok")
  BY <1>1, NameMeant
<1>5. r.labels = known[at].labels /\ r.size = fixed - at /\ r.status = "ok"
  BY <1>4 DEF Result
<1>6. 10 + rdlen < BufferLen
  <2>1. x.rdata = Octets(msg, fixed + 10, rdlen) /\ 10 + Len(x.rdata) < BufferLen
    BY <1>1 DEF Record
  <2>2. fixed + 10 \in Nat /\ (fixed + 10) + rdlen <= Len(msg)
    BY <1>1, <1>2, <1>3
  <2>3. Len(Octets(msg, fixed + 10, rdlen)) = rdlen
    BY <1>3, <2>2, OctetsTyped
  <2> QED
    BY <2>1, <2>3
<1>7. RecordsAt(msg, at, k, P) =
          IF k = 0 \/ at = Len(msg) THEN Section(<<>>, at, "ok")
          ELSE IF r.status # "ok" THEN Section(<<>>, at, r.status)
          ELSE IF Len(msg) - (at + r.size) < 10
                  \/ U16At(msg, (at + r.size) + 8) > (Len(msg) - (at + r.size)) - 10
               THEN Section(<<>>, at, "error")
          ELSE IF 10 + U16At(msg, (at + r.size) + 8) >= BufferLen THEN Section(<<>>, at, "panic")
          ELSE After([labels |-> r.labels, fixed |-> Octets(msg, at + r.size, 8),
                      rdata  |-> Octets(msg, (at + r.size) + 10, U16At(msg, (at + r.size) + 8))],
                     P[<<(at + r.size) + 10 + U16At(msg, (at + r.size) + 8), k - 1>>])
  BY DEF RecordsAt, BufferLen
<1> HIDE DEF r, fixed, rdlen, left
<1>8. at + r.size = fixed /\ k # 0 /\ at # Len(msg)
  BY <1>2, <1>5
<1>9. rdlen = U16At(msg, fixed + 8)
  BY DEF rdlen
<1>10. ~(Len(msg) - fixed < 10) /\ ~(rdlen > (Len(msg) - fixed) - 10)
  BY <1>1, <1>2, <1>3
<1>11. ~(10 + rdlen >= BufferLen)
  <2>1. BufferLen \in Nat
    BY DEF BufferLen
  <2> QED
    BY <1>3, <1>6, <2>1
<1>12. RecordsAt(msg, at, k, P) =
          After([labels |-> known[at].labels, fixed |-> Octets(msg, fixed, 8),
                 rdata  |-> Octets(msg, fixed + 10, rdlen)],
                P[<<fixed + 10 + rdlen, k - 1>>])
  BY <1>5, <1>7, <1>8, <1>9, <1>10, <1>11
<1> QED
  BY <1>1, <1>12

\* Places of n items, and where the last one ends.
Places(msg, n) == [1..n + 1 -> HeaderLen..Len(msg)]

\* A section is parsed to what was meant, from its first place to its last.
LEMMA QuestionsMeant ==
    ASSUME NEW msg \in Seq(Octet), NEW known, NamesWritten(msg, known),
           NEW s \in Seq(Question), NEW a \in Places(msg, Len(s)),
           \A i \in 1..Len(s) : QuestionWritten(msg, known, s[i], a[i], a[i + 1])
    PROVE  ParseQuestions(msg, Len(s))[<<a[1], Len(s)>>] = Section(s, a[Len(s) + 1], "ok")
<1> DEFINE n == Len(s)
           P == ParseQuestions(msg, n)
<1>1. /\ n \in Nat /\ \A i \in 1..n + 1 : a[i] \in HeaderLen..Len(msg)
      /\ \A i \in 1..n : s[i] \in Question
  <2>1. \A i \in 1..n : s[i] \in Question
    BY ElementOfSeq
  <2>2. \A i \in 1..n + 1 : a[i] \in HeaderLen..Len(msg)
    BY DEF Places
  <2> QED
    BY <2>1, <2>2
<1>2. \A p \in Starts(msg, n) : P[p] = QuestionsAt(msg, p[1], p[2], P)
  BY <1>1, ParseQuestionsReturns
<1>3. \A b \in HeaderLen..Len(msg), k \in 0..n : P[<<b, k>>] = QuestionsAt(msg, b, k, P)
  BY <1>2 DEF Starts
<1>4. \A i \in 1..n : QuestionWritten(msg, known, s[i], a[i], a[i + 1])
  OBVIOUS
<1> HIDE DEF n, P
<1>5. P[<<a[n + 1], 0>>] = Section(<<>>, a[n + 1], "ok")
  <2>1. 0 \in 0..n /\ a[n + 1] \in HeaderLen..Len(msg)
    BY <1>1
  <2>2. QuestionsAt(msg, a[n + 1], 0, P) = Section(<<>>, a[n + 1], "ok")
    BY DEF QuestionsAt
  <2> QED
    BY <1>3, <2>1, <2>2
<1>6. ASSUME NEW i \in 1..n, NEW k \in 1..n
      PROVE  P[<<a[i], k>>] = After(s[i], P[<<a[i + 1], k - 1>>])
  <2>1. /\ k \in Nat /\ k > 0 /\ k \in 0..n
        /\ a[i] \in HeaderLen..Len(msg) /\ a[i + 1] \in HeaderLen..Len(msg)
    BY <1>1
  <2>2. QuestionsAt(msg, a[i], k, P) = After(s[i], P[<<a[i + 1], k - 1>>])
    <3>1. QuestionWritten(msg, known, s[i], a[i], a[i + 1])
      BY <1>4
    <3>2. s[i] \in Question
      BY <1>1
    <3> QED
      BY <2>1, <3>1, <3>2, QuestionMeant
  <2> QED
    BY <1>3, <2>1, <2>2
<1> QED
  BY <1>5, <1>6, SectionPlaced DEF n, P

LEMMA RecordsMeant ==
    ASSUME NEW msg \in Seq(Octet), NEW known, NamesWritten(msg, known),
           NEW s \in Seq(Record), NEW a \in Places(msg, Len(s)),
           \A i \in 1..Len(s) : RecordWritten(msg, known, s[i], a[i], a[i + 1])
    PROVE  ParseRecords(msg, Len(s))[<<a[1], Len(s)>>] = Section(s, a[Len(s) + 1], "ok")
<1> DEFINE n == Len(s)
           P == ParseRecords(msg, n)
<1>1. /\ n \in Nat /\ \A i \in 1..n + 1 : a[i] \in HeaderLen..Len(msg)
      /\ \A i \in 1..n : s[i] \in Record
  <2>1. \A i \in 1..n : s[i] \in Record
    BY ElementOfSeq
  <2>2. \A i \in 1..n + 1 : a[i] \in HeaderLen..Len(msg)
    BY DEF Places
  <2> QED
    BY <2>1, <2>2
<1>2. \A p \in Starts(msg, n) : P[p] = RecordsAt(msg, p[1], p[2], P)
  BY <1>1, ParseRecordsReturns
<1>3. \A b \in HeaderLen..Len(msg), k \in 0..n : P[<<b, k>>] = RecordsAt(msg, b, k, P)
  BY <1>2 DEF Starts
<1>4. \A i \in 1..n : RecordWritten(msg, known, s[i], a[i], a[i + 1])
  OBVIOUS
<1> HIDE DEF n, P
<1>5. P[<<a[n + 1], 0>>] = Section(<<>>, a[n + 1], "ok")
  <2>1. 0 \in 0..n /\ a[n + 1] \in HeaderLen..Len(msg)
    BY <1>1
  <2>2. RecordsAt(msg, a[n + 1], 0, P) = Section(<<>>, a[n + 1], "ok")
    BY DEF RecordsAt
  <2> QED
    BY <1>3, <2>1, <2>2
<1>6. ASSUME NEW i \in 1..n, NEW k \in 1..n
      PROVE  P[<<a[i], k>>] = After(s[i], P[<<a[i + 1], k - 1>>])
  <2>1. /\ k \in Nat /\ k > 0 /\ k \in 0..n
        /\ a[i] \in HeaderLen..Len(msg) /\ a[i + 1] \in HeaderLen..Len(msg)
    BY <1>1
  <2>2. RecordsAt(msg, a[i], k, P) = After(s[i], P[<<a[i + 1], k - 1>>])
    <3>1. RecordWritten(msg, known, s[i], a[i], a[i + 1]) /\ s[i] \in Record
      BY <1>1, <1>4
    <3>2. a[i] \in HeaderLen..Len(msg) /\ a[i + 1] \in HeaderLen..Len(msg) /\ k \in Nat /\ k > 0
      BY <2>1
    <3> HIDE DEF P
    <3> QED
      BY <3>1, <3>2, RecordMeant
  <2> QED
    BY <1>3, <2>1, <2>2
<1> QED
  BY <1>5, <1>6, SectionPlaced DEF n, P

\* Of the places of a message, those of a section behind so many items.
LEMMA RecordsBehind ==
    ASSUME NEW msg \in Seq(Octet), NEW known, NamesWritten(msg, known), NEW s \in Seq(Record),
           NEW before \in Nat, NEW total \in Nat, before + Len(s) <= total,
           NEW at \in Places(msg, total), RecordsWritten(msg, known, s, at, before)
    PROVE  ParseRecords(msg, Len(s))[<<at[before + 1], Len(s)>>] =
              Section(s, at[before + Len(s) + 1], "ok")
<1> DEFINE n == Len(s)
           a == [i \in 1..n + 1 |-> at[before + i]]
<1>1. n \in Nat /\ before + n <= total
  OBVIOUS
<1>2. a \in Places(msg, n)
  BY <1>1 DEF Places
<1>3. \A i \in 1..n : RecordWritten(msg, known, s[i], at[before + i], at[before + i + 1])
  BY DEF RecordsWritten
<1>4. \A i \in 1..n + 1 : a[i] = at[before + i]
  OBVIOUS
<1>5. \A i \in 1..n : a[i] = at[before + i] /\ a[i + 1] = at[before + i + 1]
  BY <1>1, <1>4
<1>6. a[1] = at[before + 1] /\ a[n + 1] = at[before + n + 1]
  BY <1>1, <1>4
<1> HIDE DEF a
<1>7. \A i \in 1..n : RecordWritten(msg, known, s[i], a[i], a[i + 1])
  BY <1>3, <1>5
<1>8. ParseRecords(msg, n)[<<a[1], n>>] = Section(s, a[n + 1], "ok")
  BY <1>2, <1>7, RecordsMeant
<1> QED
  BY <1>6, <1>8

\* A message is parsed to what was meant, however its names were compressed.
LEMMA MessageMeant ==
    ASSUME NEW msg \in Seq(Octet), NEW m, NEW known, NEW at, MessageWritten(msg, m, known, at)
    PROVE  ParseDNSMessage(msg) = [status |-> "ok", msg |-> m]
<1> DEFINE q    == m.questions
           an   == m.answers
           ns   == m.authority
           ar   == m.additional
           at2  == Len(q)
           at3  == at2 + Len(an)
           at4  == at3 + Len(ns)
           last == at4 + Len(ar)
<1>1. /\ m \in DnsMessage /\ Len(msg) > HeaderLen
      /\ U16At(msg, 4) = Len(q) /\ U16At(msg, 6) = Len(an)
      /\ U16At(msg, 8) = Len(ns) /\ U16At(msg, 10) = Len(ar)
      /\ NamesWritten(msg, known)
      /\ at \in Places(msg, last) /\ at[1] = HeaderLen
      /\ \A i \in 1..Len(q) : QuestionWritten(msg, known, q[i], at[i], at[i + 1])
      /\ RecordsWritten(msg, known, an, at, at2)
      /\ RecordsWritten(msg, known, ns, at, at3)
      /\ RecordsWritten(msg, known, ar, at, at4)
  BY DEF MessageWritten, Places
<1>2. /\ q \in Seq(Question) /\ an \in Seq(Record) /\ ns \in Seq(Record) /\ ar \in Seq(Record)
  BY <1>1 DEF DnsMessage
<1>3. m = Sections(q, an, ns, ar)
  BY <1>1 DEF DnsMessage, Sections
<1> HIDE DEF q, an, ns, ar
<1>4. /\ at2 \in Nat /\ at3 \in Nat /\ at4 \in Nat /\ last \in Nat
      /\ Len(q) \in Nat /\ Len(an) \in Nat /\ Len(ns) \in Nat /\ Len(ar) \in Nat
      /\ at2 <= last /\ at3 <= last /\ at4 <= last
  BY <1>2
<1>5. ParseQuestions(msg, Len(q))[<<at[1], Len(q)>>] = Section(q, at[at2 + 1], "ok")
  <2> DEFINE a == [i \in 1..Len(q) + 1 |-> at[i]]
  <2>1. a \in Places(msg, Len(q))
    <3>1. \A i \in 1..last + 1 : at[i] \in HeaderLen..Len(msg)
      BY <1>1 DEF Places
    <3>2. \A i \in 1..Len(q) + 1 : i \in 1..last + 1
      BY <1>4
    <3> HIDE DEF last
    <3> QED
      BY <3>1, <3>2 DEF Places
  <2>2. \A i \in 1..Len(q) + 1 : a[i] = at[i]
    OBVIOUS
  <2>3. /\ \A i \in 1..Len(q) : a[i] = at[i] /\ a[i + 1] = at[i + 1]
        /\ a[1] = at[1] /\ a[Len(q) + 1] = at[at2 + 1]
    BY <1>4, <2>2
  <2> HIDE DEF a
  <2>4. \A i \in 1..Len(q) : QuestionWritten(msg, known, q[i], a[i], a[i + 1])
    BY <1>1, <2>3
  <2>5. ParseQuestions(msg, Len(q))[<<a[1], Len(q)>>] = Section(q, a[Len(q) + 1], "ok")
    BY <1>1, <1>2, <2>1, <2>4, QuestionsMeant
  <2> QED
    BY <2>3, <2>5
<1> HIDE DEF at2
<1>6. ParseRecords(msg, Len(an))[<<at[at2 + 1], Len(an)>>] = Section(an, at[at3 + 1], "ok")
  <2>1. /\ at2 \in Nat /\ last \in Nat /\ at2 + Len(an) <= last /\ an \in Seq(Record)
        /\ NamesWritten(msg, known) /\ at \in Places(msg, last)
        /\ RecordsWritten(msg, known, an, at, at2)
    BY <1>1, <1>2, <1>4
  <2>2. at2 + Len(an) = at3
    OBVIOUS
  <2> HIDE DEF at3, last
  <2>3. ParseRecords(msg, Len(an))[<<at[at2 + 1], Len(an)>>] = Section(an, at[at2 + Len(an) + 1], "ok")
    BY <2>1, RecordsBehind
  <2> QED
    BY <2>2, <2>3
<1> HIDE DEF at3
<1>7. ParseRecords(msg, Len(ns))[<<at[at3 + 1], Len(ns)>>] = Section(ns, at[at4 + 1], "ok")
  <2>1. /\ at3 \in Nat /\ last \in Nat /\ at3 + Len(ns) <= last /\ ns \in Seq(Record)
        /\ NamesWritten(msg, known) /\ at \in Places(msg, last)
        /\ RecordsWritten(msg, known, ns, at, at3)
    BY <1>1, <1>2, <1>4
  <2>2. at3 + Len(ns) = at4
    OBVIOUS
  <2> HIDE DEF at4, last
  <2>3. ParseRecords(msg, Len(ns))[<<at[at3 + 1], Len(ns)>>] = Section(ns, at[at3 + Len(ns) + 1], "ok")
    BY <2>1, RecordsBehind
  <2> QED
    BY <2>2, <2>3
<1> HIDE DEF at4
<1>8. ParseRecords(msg, Len(ar))[<<at[at4 + 1], Len(ar)>>] = Section(ar, at[last + 1], "ok")
  <2>1. /\ at4 \in Nat /\ last \in Nat /\ at4 + Len(ar) <= last /\ ar \in Seq(Record)
        /\ NamesWritten(msg, known) /\ at \in Places(msg, last)
        /\ RecordsWritten(msg, known, ar, at, at4)
    BY <1>1, <1>2, <1>4
  <2>2. at4 + Len(ar) = last
    OBVIOUS
  <2> HIDE DEF last
  <2>3. ParseRecords(msg, Len(ar))[<<at[at4 + 1], Len(ar)>>] = Section(ar, at[at4 + Len(ar) + 1], "ok")
    BY <2>1, RecordsBehind
  <2> QED
    BY <2>2, <2>3
<1>9. ParseDNSMessage(msg) = [status |-> "ok", msg |-> Sections(q, an, ns, ar)]
  <2>1. ~(Len(msg) <= HeaderLen)
    BY <1>1 DEF HeaderLen
  <2>2. ParseQuestions(msg, U16At(msg, 4))[<<HeaderLen, U16At(msg, 4)>>] = Section(q, at[at2 + 1], "ok")
    BY <1>1, <1>5
  <2> QED
    BY <1>1, <1>6, <1>7, <1>8, <2>1, <2>2, SectionsOk
<1> QED
  BY <1>3, <1>9

\* What arrives with a meaning was written for it.
MeantInv ==
    stage = "received" /\ meant # NoMessage =>
        \E known, at : MessageWritten(wire, meant, known, at)

\* A message of another implementation is parsed to what was meant, however many of
\* its names are compressed and however they share their ends, as long as a name
\* leads through five pointers at most.
THEOREM CompressionAlwaysUndone == WireSpec => []CompressionUndone
<1>1. WireInit => WireInv /\ MeantInv
  BY WireAssumption, EncodingAssumption DEF WireInit, WireInv, MeantInv
<1>2. WireInv /\ MeantInv /\ [WireNext]_wireVars => (WireInv /\ MeantInv)'
  <2> SUFFICES ASSUME WireInv, MeantInv, [WireNext]_wireVars PROVE (WireInv /\ MeantInv)'
    OBVIOUS
  <2>1. stage' # "received" \/ UNCHANGED wireVars
    BY DEF WireNext, Relay, Drop, SendFailure, Answer, Send
  <2> QED
    BY <2>1 DEF WireInv, MeantInv, wireVars
<1>3. WireInv /\ MeantInv => CompressionUndone
  BY MessageMeant DEF WireInv, MeantInv, CompressionUndone
<1> QED
  BY <1>1, <1>2, <1>3, PTL DEF WireSpec
=============================================================================
