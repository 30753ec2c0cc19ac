----------------------------- MODULE LocksProofs ----------------------------
(***************************************************************************)
(* The calls that change the WireGuard device exclude each other, and the  *)
(* goroutines of the daemon never wait for each other in a circle (module  *)
(* Locks), for every capacity of the channel.                              *)
(*                                                                         *)
(* The argument is about programs: each takes its mutexes in one order,    *)
(* puts messages with no mutex held, and calls the device for peers inside *)
(* wgLock.  This is shown of the pieces the programs are composed of, and  *)
(* kept by what is left of a program once its first operation is done.     *)
(***************************************************************************)
EXTENDS Locks, SequenceTheorems, TLAPS

Op == [do : {"lock", "unlock", "await", "put", "go", "call", "return"},
       what : Mutexes \cup Threads \cup DOMAIN Handlers
              \cup {"server", "signal", "peers", "address"}]

\* A mutex is taken only while those held have a lower rank.
Rank == [eng |-> 1, wg |-> 2, dns |-> 2, seen |-> 3]

\* Before operation i of s its goroutine is inside m: it comes to an unlock of m
\* before it comes to a lock.
InsideAt(s, m, i) ==
    \E k \in i..Len(s) : /\ s[k].do = "unlock" /\ s[k].what = m
                         /\ \A j \in i..k-1 : ~(s[j].do = "lock" /\ s[j].what = m)

Orderly(s, i) ==
    /\ s[i].do \in {"lock", "unlock"} => s[i].what \in Mutexes
    /\ s[i].do = "lock" =>
          /\ InsideAt(s, s[i].what, i + 1)
          /\ \A m \in Mutexes : InsideAt(s, m, i) => Rank[m] < Rank[s[i].what]
    /\ s[i].do = "unlock" => ~InsideAt(s, s[i].what, i + 1)
    /\ s[i].do = "put" =>
          s[i].what \in DOMAIN Handlers /\ \A m \in Mutexes : ~InsideAt(s, m, i)
    /\ s[i].do = "call" =>
          /\ i < Len(s) /\ s[i].what \in {"peers", "address"}
          /\ s[i + 1].do = "return" /\ s[i + 1].what = s[i].what
    /\ s[i].do = "go" => s[i].what \in Threads

PeersAt(s, i) == s[i].do \in {"call", "return"} /\ s[i].what = "peers"

\* What is left of a program.
Disciplined(s) ==
    /\ s \in Seq(Op)
    /\ \A i \in 1..Len(s) : Orderly(s, i)
    /\ \A i \in 1..Len(s) : PeersAt(s, i) => InsideAt(s, "wg", i)

\* A piece of a program that begins and ends outside of every mutex, takes none
\* below rank r, puts messages at rank 0 only, and makes no call for peers without
\* wgLock but those in bare.
Piece(r, bare, s) ==
    /\ s \in Seq(Op)
    /\ \A i \in 1..Len(s) : Orderly(s, i)
    /\ \A m \in Mutexes : ~InsideAt(s, m, 1)
    /\ \A i \in 1..Len(s) :
          /\ s[i].do = "lock" => r <= Rank[s[i].what]
          /\ s[i].do = "put" => r = 0
          /\ PeersAt(s, i) => "peers" \in bare \/ InsideAt(s, "wg", i)

-----------------------------------------------------------------------------
(* Pieces                                                                  *)

LEMMA PieceOfPiece ==
    ASSUME NEW r \in Nat, NEW q \in Nat, q <= r, NEW s, Piece(r, {}, s)
    PROVE  \A bare : Piece(q, bare, s)
<1>1. \A i \in 1..Len(s) : s[i].do = "lock" => Rank[s[i].what] \in Nat
  BY DEF Piece, Orderly, Rank, Mutexes
<1> QED
  BY <1>1 DEF Piece

LEMMA EmptyPiece ==
    ASSUME NEW r \in Nat, NEW bare
    PROVE  Piece(r, bare, <<>>)
<1>1. <<>> \in Seq(Op) /\ Len(<<>>) = 0
  BY EmptySeq
<1> QED
  BY <1>1 DEF Piece, InsideAt

\* An operation that takes no mutex and is no call.
LEMMA OnePiece ==
    ASSUME NEW r \in Nat, NEW bare, NEW op \in Op,
           \/ op.do = "await"
           \/ op.do = "go" /\ op.what \in Threads
           \/ op.do = "put" /\ r = 0 /\ op.what \in DOMAIN Handlers
    PROVE  Piece(r, bare, <<op>>)
<1>1. <<op>> \in Seq(Op) /\ Len(<<op>>) = 1 /\ <<op>>[1] = op
  OBVIOUS
<1>2. \A m, i : i \in {1} => ~InsideAt(<<op>>, m, i)
  BY <1>1 DEF InsideAt
<1> HIDE DEF Handlers
<1> QED
  BY <1>1, <1>2 DEF Piece, Orderly, PeersAt

LEMMA CallPiece ==
    ASSUME NEW r \in Nat, NEW bare, NEW c \in {"peers", "address"},
           c = "peers" => c \in bare
    PROVE  Piece(r, bare, Call(c))
<1> DEFINE s == Call(c)
<1>1. /\ s \in Seq(Op) /\ Len(s) = 2
      /\ s[1].do = "call" /\ s[1].what = c /\ s[2].do = "return" /\ s[2].what = c
  BY DEF Call, Op
<1> HIDE DEF s
<1>2. \A m, i : i \in {1, 2} => ~InsideAt(s, m, i)
  BY <1>1 DEF InsideAt
<1>3. \A i \in 1..Len(s) : i = 1 \/ i = 2
  BY <1>1
<1> QED
  BY <1>1, <1>2, <1>3 DEF Piece, Orderly, PeersAt, s

\* Where a goroutine is inside in two pieces, one after the other.
LEMMA InsideOfConcat ==
    ASSUME NEW p \in Seq(Op), NEW q \in Seq(Op), NEW m, ~InsideAt(q, m, 1)
    PROVE  /\ \A i \in 1..Len(p)+1 : InsideAt(p \o q, m, i) <=> InsideAt(p, m, i)
           /\ \A i \in 1..Len(q)+1 : InsideAt(p \o q, m, Len(p) + i) <=> InsideAt(q, m, i)
<1> DEFINE s == p \o q
<1>1. /\ Len(p) \in Nat /\ Len(q) \in Nat /\ Len(s) = Len(p) + Len(q)
      /\ \A i \in 1..Len(p) : s[i] = p[i]
      /\ \A i \in 1..Len(q) : s[Len(p) + i] = q[i]
  BY ConcatProperties, LenProperties
<1> HIDE DEF s
<1>2. ASSUME NEW i \in 1..Len(q)+1
      PROVE  InsideAt(s, m, Len(p) + i) <=> InsideAt(q, m, i)
  <2>1. ASSUME InsideAt(q, m, i) PROVE InsideAt(s, m, Len(p) + i)
    <3>1. PICK k \in i..Len(q) : /\ q[k].do = "unlock" /\ q[k].what = m
                                 /\ \A j \in i..k-1 : ~(q[j].do = "lock" /\ q[j].what = m)
      BY <2>1 DEF InsideAt
    <3>2. Len(p) + k \in Len(p) + i..Len(s) /\ s[Len(p) + k] = q[k]
      BY <1>1, <3>1
    <3> DEFINE n == Len(p) + k
    <3>3. ASSUME NEW j \in Len(p) + i..n-1
          PROVE  ~(s[j].do = "lock" /\ s[j].what = m)
      <4>1. j - Len(p) \in 1..Len(q) /\ j = Len(p) + (j - Len(p)) /\ j - Len(p) \in i..k-1
        BY <1>1, <3>1
      <4>2. s[j] = q[j - Len(p)]
        BY <1>1, <4>1
      <4> QED
        BY <3>1, <4>1, <4>2
    <3>4. n \in Len(p) + i..Len(s) /\ s[n].do = "unlock" /\ s[n].what = m
      BY <3>1, <3>2
    <3> HIDE DEF n
    <3> QED
      BY <3>3, <3>4 DEF InsideAt
  <2>2. ASSUME InsideAt(s, m, Len(p) + i) PROVE InsideAt(q, m, i)
    <3>1. PICK k \in Len(p) + i..Len(s) :
              /\ s[k].do = "unlock" /\ s[k].what = m
              /\ \A j \in Len(p) + i..k-1 : ~(s[j].do = "lock" /\ s[j].what = m)
      BY <2>2 DEF InsideAt
    <3>2. k - Len(p) \in i..Len(q) /\ s[k] = q[k - Len(p)]
      <4>1. k - Len(p) \in 1..Len(q) /\ k = Len(p) + (k - Len(p)) /\ k - Len(p) \in i..Len(q)
        BY <1>1, <3>1
      <4> QED
        BY <1>1, <4>1
    <3>3. ASSUME NEW j \in i..(k - Len(p))-1
          PROVE  ~(q[j].do = "lock" /\ q[j].what = m)
      <4>1. Len(p) + j \in Len(p) + i..k-1 /\ j \in 1..Len(q)
        BY <1>1, <3>1, <3>2
      <4>2. s[Len(p) + j] = q[j]
        BY <1>1, <4>1
      <4> QED
        BY <3>1, <4>1, <4>2
    <3> QED
      BY <3>1, <3>2, <3>3 DEF InsideAt
  <2> QED
    BY <2>1, <2>2
<1>3. ASSUME NEW i \in 1..Len(p)+1
      PROVE  InsideAt(s, m, i) <=> InsideAt(p, m, i)
  <2>1. ASSUME InsideAt(p, m, i) PROVE InsideAt(s, m, i)
    <3>1. PICK k \in i..Len(p) : /\ p[k].do = "unlock" /\ p[k].what = m
                                 /\ \A j \in i..k-1 : ~(p[j].do = "lock" /\ p[j].what = m)
      BY <2>1 DEF InsideAt
    <3>2. k \in i..Len(s) /\ s[k] = p[k] /\ \A j \in i..k-1 : s[j] = p[j]
      BY <1>1, <3>1
    <3>3. \A j \in i..k-1 : ~(s[j].do = "lock" /\ s[j].what = m)
      BY <3>1, <3>2
    <3> QED
      BY <3>1, <3>2, <3>3 DEF InsideAt
  <2>2. ASSUME InsideAt(s, m, i) PROVE InsideAt(p, m, i)
    <3>1. PICK k \in i..Len(s) : /\ s[k].do = "unlock" /\ s[k].what = m
                                 /\ \A j \in i..k-1 : ~(s[j].do = "lock" /\ s[j].what = m)
      BY <2>2 DEF InsideAt
    <3>2. CASE k <= Len(p)
      <4>1. k \in i..Len(p) /\ k \in 1..Len(p) /\ \A j \in i..k-1 : j \in 1..Len(p)
        BY <1>1, <3>1, <3>2
      <4>2. \A j \in i..k-1 : ~(p[j].do = "lock" /\ p[j].what = m)
        BY <1>1, <3>1, <4>1
      <4> QED
        BY <1>1, <3>1, <4>1, <4>2 DEF InsideAt
    <3>3. CASE k > Len(p)
      <4>1. k \in Len(p) + 1..Len(s) /\ \A j \in Len(p) + 1..k-1 : j \in i..k-1
        BY <1>1, <3>1, <3>3
      <4>2. InsideAt(s, m, Len(p) + 1)
        BY <3>1, <4>1 DEF InsideAt
      <4>3. InsideAt(q, m, 1)
        BY <1>1, <1>2, <4>2
      <4> QED
        BY <4>3
    <3> QED
      BY <1>1, <3>1, <3>2, <3>3
  <2> QED
    BY <2>1, <2>2
<1> QED
  BY <1>2, <1>3 DEF s

\* An operation of s is as orderly as the same operation of t, if what surrounds
\* them is the same.
LEMMA SameOrder ==
    ASSUME NEW s, NEW t, NEW i, NEW k, s[i] = t[k],
           s[i].do = "call" => i < Len(s) /\ s[i + 1] = t[k + 1],
           \A m \in Mutexes : InsideAt(s, m, i) <=> InsideAt(t, m, k),
           \A m \in Mutexes : InsideAt(s, m, i + 1) <=> InsideAt(t, m, k + 1),
           Orderly(t, k)
    PROVE  Orderly(s, i)
BY DEF Orderly

LEMMA ConcatPiece ==
    ASSUME NEW r \in Nat, NEW bare, NEW p, NEW q,
           Piece(r, bare, p), Piece(r, bare, q)
    PROVE  Piece(r, bare, p \o q)
<1> DEFINE s == p \o q
<1>0. p \in Seq(Op) /\ q \in Seq(Op)
  BY DEF Piece
<1>1. /\ s \in Seq(Op) /\ Len(p) \in Nat /\ Len(q) \in Nat /\ Len(s) = Len(p) + Len(q)
      /\ \A i \in 1..Len(p) : s[i] = p[i]
      /\ \A i \in 1..Len(q) : s[Len(p) + i] = q[i]
  BY <1>0, ConcatProperties, LenProperties
<1>2. \A m \in Mutexes :
          /\ \A i \in 1..Len(p)+1 : InsideAt(s, m, i) <=> InsideAt(p, m, i)
          /\ \A i \in 1..Len(q)+1 : InsideAt(s, m, Len(p) + i) <=> InsideAt(q, m, i)
  BY <1>0, InsideOfConcat DEF Piece
<1> HIDE DEF s
<1>3. \A m \in Mutexes : ~InsideAt(s, m, 1)
  BY <1>1, <1>2 DEF Piece
<1>4. "wg" \in Mutexes
  BY DEF Mutexes
<1>5. ASSUME NEW i \in 1..Len(p)
      PROVE  /\ Orderly(s, i)
             /\ s[i].do = "lock" => r <= Rank[s[i].what]
             /\ s[i].do = "put" => r = 0
             /\ PeersAt(s, i) => "peers" \in bare \/ InsideAt(s, "wg", i)
  <2>1. s[i] = p[i] /\ i \in 1..Len(p)+1 /\ i + 1 \in 1..Len(p)+1 /\ Orderly(p, i)
    BY <1>1 DEF Piece
  <2>2. s[i].do = "call" => i < Len(s) /\ s[i + 1] = p[i + 1]
    <3>1. s[i].do = "call" => i + 1 \in 1..Len(p)
      BY <1>1, <2>1 DEF Orderly
    <3> QED
      BY <1>1, <3>1
  <2>3. Orderly(s, i)
    BY <1>2, <2>1, <2>2, SameOrder
  <2> QED
    BY <1>2, <1>4, <2>1, <2>3 DEF Piece, PeersAt
<1>6. ASSUME NEW i \in 1..Len(q)
      PROVE  LET k == Len(p) + i
             IN  /\ Orderly(s, k)
                 /\ s[k].do = "lock" => r <= Rank[s[k].what]
                 /\ s[k].do = "put" => r = 0
                 /\ PeersAt(s, k) => "peers" \in bare \/ InsideAt(s, "wg", k)
  <2> DEFINE k == Len(p) + i
  <2>1. s[k] = q[i] /\ i \in 1..Len(q)+1 /\ i + 1 \in 1..Len(q)+1 /\ Orderly(q, i)
        /\ k + 1 = Len(p) + (i + 1)
    BY <1>1 DEF Piece
  <2>2. s[k].do = "call" => k < Len(s) /\ s[k + 1] = q[i + 1]
    <3>1. s[k].do = "call" => i + 1 \in 1..Len(q)
      BY <1>1, <2>1 DEF Orderly
    <3> QED
      BY <1>1, <2>1, <3>1
  <2>3. \A m \in Mutexes : /\ InsideAt(s, m, k) <=> InsideAt(q, m, i)
                           /\ InsideAt(s, m, k + 1) <=> InsideAt(q, m, i + 1)
    BY <1>2, <2>1
  <2> HIDE DEF k
  <2>4. Orderly(s, k)
    BY <2>1, <2>2, <2>3, SameOrder
  <2>5. /\ s[k].do = "lock" => r <= Rank[s[k].what]
        /\ s[k].do = "put" => r = 0
        /\ PeersAt(s, k) => "peers" \in bare \/ InsideAt(s, "wg", k)
    BY <1>4, <2>1, <2>3 DEF Piece, PeersAt
  <2> QED
    BY <2>4, <2>5 DEF k
<1>7. \A i \in 1..Len(s) : i \in 1..Len(p) \/ (i - Len(p) \in 1..Len(q) /\ i = Len(p) + (i - Len(p)))
  BY <1>1
<1>8. \A i \in 1..Len(s) : /\ Orderly(s, i)
                           /\ s[i].do = "lock" => r <= Rank[s[i].what]
                           /\ s[i].do = "put" => r = 0
                           /\ PeersAt(s, i) => "peers" \in bare \/ InsideAt(s, "wg", i)
  BY <1>5, <1>6, <1>7
<1> QED
  BY <1>1, <1>3, <1>8 DEF Piece, s

\* A piece inside a mutex of lower rank than all it takes.
LEMMA HeldPiece ==
    ASSUME NEW r \in Nat, NEW m \in Mutexes, r <= Rank[m], NEW p,
           NEW bare, m = "wg" \/ bare = {}, Piece(Rank[m] + 1, bare, p)
    PROVE  Piece(r, {}, Held(m, p))
<1> DEFINE s == Held(m, p)
           n == Len(p)
<1>0. p \in Seq(Op) /\ Lock(m) \in Op /\ Unlock(m) \in Op /\ Rank[m] \in Nat \ {0}
  BY DEF Piece, Op, Lock, Unlock, Mutexes, Rank
<1>1. /\ s \in Seq(Op) /\ n \in Nat /\ Len(s) = n + 2
      /\ s[1] = Lock(m) /\ s[n + 2] = Unlock(m)
      /\ \A i \in 1..n : s[i + 1] = p[i]
  <2>1. <<Lock(m)>> \in Seq(Op) /\ <<Unlock(m)>> \in Seq(Op)
        /\ Len(<<Lock(m)>>) = 1 /\ Len(<<Unlock(m)>>) = 1
        /\ <<Lock(m)>>[1] = Lock(m) /\ <<Unlock(m)>>[1] = Unlock(m)
    BY <1>0
  <2> DEFINE h == <<Lock(m)>> \o p
  <2>2. /\ h \in Seq(Op) /\ n \in Nat /\ Len(h) = n + 1 /\ h[1] = Lock(m)
        /\ \A i \in 1..n : h[i + 1] = p[i]
    BY <1>0, <2>1, ConcatProperties, LenProperties
  <2>3. s = h \o <<Unlock(m)>>
    BY DEF Held
  <2> HIDE DEF h, s
  <2>4. s \in Seq(Op) /\ Len(s) = n + 2
    BY <2>1, <2>2, <2>3, ConcatProperties
  <2>5. \A i \in 1..n+2 : s[i] = IF i <= n + 1 THEN h[i] ELSE <<Unlock(m)>>[i - (n + 1)]
    BY <2>1, <2>2, <2>3, ConcatProperties
  <2> QED
    BY <2>1, <2>2, <2>4, <2>5
<1>2. s[1].do = "lock" /\ s[1].what = m /\ s[n + 2].do = "unlock" /\ s[n + 2].what = m
  BY <1>1 DEF Lock, Unlock
<1> HIDE DEF s, n
\* p takes and releases no m.
<1>3. \A i \in 1..n : p[i].do = "lock" => p[i].what # m
  BY <1>0 DEF Piece, n
<1>4. \A i \in 2..n+1 : s[i] = p[i - 1] /\ i - 1 \in 1..n
  BY <1>1
<1>5. \A i \in 2..n+2 : InsideAt(s, m, i)
  <2> SUFFICES ASSUME NEW i \in 2..n+2 PROVE InsideAt(s, m, i)
    OBVIOUS
  <2>1. \A j \in i..n+1 : ~(s[j].do = "lock" /\ s[j].what = m)
    BY <1>1, <1>3, <1>4
  <2>2. n + 2 \in i..Len(s) /\ (n + 2) - 1 = n + 1
    BY <1>1
  <2> QED
    BY <1>2, <2>1, <2>2 DEF InsideAt
<1>6. \A x \in Mutexes \ {m} : \A i \in 1..n+1 : InsideAt(s, x, i + 1) <=> InsideAt(p, x, i)
  <2> SUFFICES ASSUME NEW x \in Mutexes \ {m}, NEW i \in 1..n+1
               PROVE  InsideAt(s, x, i + 1) <=> InsideAt(p, x, i)
    OBVIOUS
  <2>1. ASSUME InsideAt(s, x, i + 1) PROVE InsideAt(p, x, i)
    <3>1. PICK k \in i+1..Len(s) : /\ s[k].do = "unlock" /\ s[k].what = x
                                   /\ \A j \in i+1..k-1 : ~(s[j].do = "lock" /\ s[j].what = x)
      BY <2>1 DEF InsideAt
    <3>2. k # n + 2
      BY <1>2, <3>1
    <3>3. k - 1 \in i..n /\ s[k] = p[k - 1]
      BY <1>1, <1>4, <3>1, <3>2
    <3>4. ASSUME NEW j \in i..(k - 1)-1 PROVE ~(p[j].do = "lock" /\ p[j].what = x)
      <4>1. j \in 1..n /\ j + 1 \in i+1..k-1
        BY <1>1, <3>1, <3>3
      <4> QED
        BY <1>1, <3>1, <4>1
    <3> QED
      BY <3>1, <3>3, <3>4 DEF InsideAt, n
  <2>2. ASSUME InsideAt(p, x, i) PROVE InsideAt(s, x, i + 1)
    <3>1. PICK k \in i..n : /\ p[k].do = "unlock" /\ p[k].what = x
                            /\ \A j \in i..k-1 : ~(p[j].do = "lock" /\ p[j].what = x)
      BY <2>2 DEF InsideAt, n
    <3>2. k + 1 \in i+1..Len(s) /\ s[k + 1] = p[k]
      BY <1>1, <3>1
    <3>3. ASSUME NEW j \in i+1..(k + 1)-1 PROVE ~(s[j].do = "lock" /\ s[j].what = x)
      <4>1. j \in 2..n+1 /\ j - 1 \in i..k-1
        BY <1>1, <3>1
      <4> QED
        BY <1>4, <3>1, <4>1
    <3> QED
      BY <3>1, <3>2, <3>3 DEF InsideAt
  <2> QED
    BY <2>1, <2>2
<1>7. \A x \in Mutexes : ~InsideAt(p, x, 1)
  BY DEF Piece
<1>8. \A x \in Mutexes : ~InsideAt(s, x, 1)
  <2>1. ~InsideAt(s, m, 1)
    <3> SUFFICES ASSUME NEW k \in 1..Len(s), s[k].do = "unlock",
                        \A j \in 1..k-1 : ~(s[j].do = "lock" /\ s[j].what = m)
                 PROVE  FALSE
      BY DEF InsideAt
    <3>1. k # 1
      BY <1>2
    <3>2. 1 \in 1..k-1
      BY <1>1, <3>1
    <3> QED
      BY <1>2, <3>2
  <2>2. ASSUME NEW x \in Mutexes \ {m} PROVE ~InsideAt(s, x, 1)
    <3>1. ~InsideAt(s, x, 2)
      <4>1. 1 \in 1..n+1 /\ 1 + 1 = 2
        BY <1>1
      <4> QED
        BY <1>6, <1>7, <4>1
    <3> SUFFICES ASSUME NEW k \in 1..Len(s), s[k].do = "unlock", s[k].what = x,
                        \A j \in 1..k-1 : ~(s[j].do = "lock" /\ s[j].what = x)
                 PROVE  FALSE
      BY DEF InsideAt
    <3>2. k # 1
      BY <1>2
    <3>3. k \in 2..Len(s) /\ \A j \in 2..k-1 : j \in 1..k-1
      BY <1>1, <3>2
    <3> QED
      BY <3>1, <3>3 DEF InsideAt
  <2> QED
    BY <2>1, <2>2
<1>9. \A x \in Mutexes : ~InsideAt(s, x, n + 3)
  BY <1>1 DEF InsideAt
<1>10. Orderly(s, 1)
  <2>1. 2 \in 2..n+2 /\ 1 + 1 = 2
    BY <1>1
  <2> QED
    BY <1>2, <1>5, <1>8, <2>1 DEF Orderly
<1>11. Orderly(s, n + 2)
  <2>1. (n + 2) + 1 = n + 3
    BY <1>1
  <2> QED
    BY <1>2, <1>9, <2>1 DEF Orderly
<1>12. ASSUME NEW i \in 1..n
       PROVE  LET k == i + 1
              IN  /\ Orderly(s, k)
                  /\ s[k].do = "lock" => r <= Rank[s[k].what]
                  /\ s[k].do # "put"
                  /\ PeersAt(s, k) => InsideAt(s, "wg", k)
  <2> DEFINE k == i + 1
  <2>1. /\ s[k] = p[i] /\ k \in 2..n+2 /\ k + 1 \in 2..n+2 /\ Orderly(p, i)
        /\ i \in 1..n+1 /\ i + 1 \in 1..n+1 /\ k + 1 = (i + 1) + 1
    BY <1>1 DEF Piece, n
  <2>2. /\ \A x \in Mutexes \ {m} : /\ InsideAt(s, x, k) <=> InsideAt(p, x, i)
                                    /\ InsideAt(s, x, k + 1) <=> InsideAt(p, x, i + 1)
        /\ InsideAt(s, m, k)
    BY <1>5, <1>6, <2>1
  <2>3. /\ s[k].do = "lock" => Rank[m] + 1 <= Rank[s[k].what] /\ s[k].what \in Mutexes \ {m}
                               /\ Rank[s[k].what] \in Nat
        /\ s[k].do # "put"
    BY <1>0, <1>3, <2>1 DEF Piece, Orderly, n, Rank, Mutexes
  <2>4. s[k].do = "unlock" => s[k].what # m
    <3> SUFFICES ASSUME p[i].do = "unlock", p[i].what = m PROVE FALSE
      BY <2>1
    <3>1. i \in 1..Len(p) /\ \A j \in 1..i-1 : ~(p[j].do = "lock" /\ p[j].what = m)
      BY <1>1, <1>3 DEF n
    <3> QED
      BY <1>7, <3>1 DEF InsideAt
  <2>5. s[k].do = "call" => /\ k < Len(s) /\ s[k].what \in {"peers", "address"}
                            /\ s[k + 1].do = "return" /\ s[k + 1].what = s[k].what
    <3> SUFFICES ASSUME p[i].do = "call"
                 PROVE  /\ k < Len(s) /\ p[i].what \in {"peers", "address"}
                        /\ s[k + 1].do = "return" /\ s[k + 1].what = p[i].what
      BY <2>1
    <3>1. /\ i < n /\ p[i].what \in {"peers", "address"}
          /\ p[i + 1].do = "return" /\ p[i + 1].what = p[i].what
      BY <2>1 DEF Orderly, n
    <3>2. i + 1 \in 1..n /\ k < Len(s)
      BY <1>1, <3>1
    <3> QED
      BY <1>1, <3>1, <3>2
  <2> HIDE DEF k
  <2>6. Orderly(s, k)
    <3>1. s[k].do \in {"lock", "unlock"} => s[k].what \in Mutexes
      BY <2>1 DEF Orderly
    <3>2. ASSUME s[k].do = "lock"
          PROVE  /\ InsideAt(s, s[k].what, k + 1)
                 /\ \A x \in Mutexes : InsideAt(s, x, k) => Rank[x] < Rank[s[k].what]
      <4>1. InsideAt(s, s[k].what, k + 1)
        BY <2>1, <2>2, <2>3, <3>2 DEF Orderly
      <4>2. Rank[m] < Rank[s[k].what]
        BY <1>0, <2>3, <3>2
      <4>3. \A x \in Mutexes \ {m} : InsideAt(s, x, k) => Rank[x] < Rank[s[k].what]
        BY <2>1, <2>2, <3>2 DEF Orderly
      <4> QED
        BY <4>1, <4>2, <4>3
    <3>3. s[k].do = "unlock" => ~InsideAt(s, s[k].what, k + 1)
      BY <2>1, <2>2, <2>4, <3>1 DEF Orderly
    <3>4. s[k].do = "go" => s[k].what \in Threads
      BY <2>1 DEF Orderly
    <3> QED
      BY <2>3, <2>5, <3>1, <3>2, <3>3, <3>4 DEF Orderly
  <2>7. s[k].do = "lock" => r <= Rank[s[k].what]
    BY <1>0, <2>3
  <2>8. PeersAt(s, k) => InsideAt(s, "wg", k)
    <3>1. "wg" \in Mutexes
      BY DEF Mutexes
    <3> QED
      BY <2>1, <2>2, <3>1 DEF Piece, PeersAt, n
  <2> QED
    BY <2>3, <2>6, <2>7, <2>8 DEF k
<1>13. \A i \in 1..Len(s) : i = 1 \/ i = n + 2 \/ (i - 1 \in 1..n /\ i = (i - 1) + 1)
  BY <1>1
<1>14. \A i \in 1..Len(s) : /\ Orderly(s, i)
                            /\ s[i].do = "lock" => r <= Rank[s[i].what]
                            /\ s[i].do # "put"
                            /\ PeersAt(s, i) => InsideAt(s, "wg", i)
  <2>1. ASSUME NEW i \in {1, n + 2}
        PROVE  /\ Orderly(s, i)
               /\ s[i].do = "lock" => r <= Rank[s[i].what]
               /\ s[i].do # "put"
               /\ ~PeersAt(s, i)
    BY <1>2, <1>10, <1>11 DEF PeersAt
  <2> QED
    BY <1>12, <1>13, <2>1
<1> QED
  BY <1>1, <1>8, <1>14 DEF Piece, s

-----------------------------------------------------------------------------
(* The programs                                                            *)

LEMMA HeldPieces ==
    /\ \A p : Piece(4, {}, p) => Piece(3, {}, Held("seen", p))
    /\ \A p : Piece(3, {}, p) => Piece(2, {}, Held("dns", p))
    /\ \A p : Piece(3, {"peers"}, p) => Piece(2, {}, Held("wg", p))
    /\ \A p : Piece(2, {}, p) => Piece(1, {}, Held("eng", p)) /\ Piece(0, {}, Held("eng", p))
<1>1. /\ Rank["seen"] = 3 /\ Rank["dns"] = 2 /\ Rank["wg"] = 2 /\ Rank["eng"] = 1
      /\ "seen" \in Mutexes /\ "dns" \in Mutexes /\ "wg" \in Mutexes /\ "eng" \in Mutexes
  BY DEF Rank, Mutexes
<1>2. ASSUME NEW p, NEW m \in Mutexes, NEW r \in Nat, r <= Rank[m], Piece(Rank[m] + 1, {}, p)
      PROVE  Piece(r, {}, Held(m, p))
  BY <1>2, HeldPiece
<1>3. ASSUME NEW p, NEW r \in Nat, r <= Rank["wg"], Piece(Rank["wg"] + 1, {"peers"}, p)
      PROVE  Piece(r, {}, Held("wg", p))
  <2> DEFINE bare == {"peers"}
  <2>1. Piece(Rank["wg"] + 1, bare, p) /\ "wg" \in Mutexes
    BY <1>1, <1>3
  <2> HIDE DEF bare
  <2> QED
    BY <1>3, <2>1, HeldPiece
<1>4. ASSUME NEW p, Piece(4, {}, p) PROVE Piece(3, {}, Held("seen", p))
  <2>1. Piece(Rank["seen"] + 1, {}, p) /\ 3 \in Nat /\ 3 <= Rank["seen"]
    BY <1>1, <1>4
  <2> QED
    BY <1>1, <1>2, <2>1
<1>5. ASSUME NEW p, Piece(3, {}, p) PROVE Piece(2, {}, Held("dns", p))
  <2>1. Piece(Rank["dns"] + 1, {}, p) /\ 2 \in Nat /\ 2 <= Rank["dns"]
    BY <1>1, <1>5
  <2> QED
    BY <1>1, <1>2, <2>1
<1>6. ASSUME NEW p, Piece(3, {"peers"}, p) PROVE Piece(2, {}, Held("wg", p))
  <2>1. Piece(Rank["wg"] + 1, {"peers"}, p) /\ 2 \in Nat /\ 2 <= Rank["wg"]
    BY <1>1, <1>6
  <2> QED
    BY <1>3, <2>1
<1>7. ASSUME NEW p, Piece(2, {}, p)
      PROVE  Piece(1, {}, Held("eng", p)) /\ Piece(0, {}, Held("eng", p))
  <2>1. /\ Piece(Rank["eng"] + 1, {}, p)
        /\ 1 \in Nat /\ 1 <= Rank["eng"] /\ 0 \in Nat /\ 0 <= Rank["eng"]
    BY <1>1, <1>7
  <2> QED
    BY <1>1, <1>2, <2>1
<1> QED
  BY <1>4, <1>5, <1>6, <1>7

\* An operation that only waits, or starts a goroutine.
LEMMA FreePieces ==
    ASSUME NEW r \in Nat, NEW bare
    PROVE  /\ Piece(r, bare, <<Await("server")>>) /\ Piece(r, bare, <<Await("signal")>>)
           /\ \A t \in Threads : Piece(r, bare, <<Go(t)>>)
           /\ Piece(r, {"peers"}, Call("peers")) /\ Piece(r, {}, Call("address"))
           /\ Piece(r, bare, <<>>)
<1>1. Await("server") \in Op /\ Await("signal") \in Op
  BY DEF Await, Op
<1>2. \A t \in Threads : Go(t) \in Op
  BY DEF Go, Op
<1>3. Await("server").do = "await" /\ Await("signal").do = "await"
      /\ \A t \in Threads : Go(t).do = "go" /\ Go(t).what = t
  BY DEF Await, Go
<1> QED
  BY <1>1, <1>2, <1>3, OnePiece, CallPiece, EmptyPiece

LEMMA PutPiece ==
    ASSUME NEW kind \in DOMAIN Handlers
    PROVE  Piece(0, {}, <<Put(kind)>>)
<1>1. Put(kind) \in Op /\ Put(kind).do = "put" /\ Put(kind).what = kind
  BY DEF Put, Op
<1> QED
  BY <1>1, OnePiece

LEMMA CallbackPieces ==
    /\ Piece(3, {}, LocalPeer)
    /\ Piece(2, {}, WgUpdatePeers) /\ Piece(2, {}, WgOnUpdate)
    /\ Piece(2, {}, WgOnRebuild) /\ Piece(2, {}, DnsUpdatePeers)
<1>1. Piece(3, {}, LocalPeer) /\ Piece(3, {"peers"}, LocalPeer)
  BY FreePieces, HeldPieces, PieceOfPiece DEF LocalPeer
<1>2. Piece(2, {}, WgUpdatePeers)
  <2>1. Piece(3, {"peers"}, LocalPeer \o Call("peers"))
    BY <1>1, FreePieces, ConcatPiece
  <2> QED
    BY <2>1, HeldPieces DEF WgUpdatePeers
<1>3. Piece(2, {}, WgOnUpdate)
  BY FreePieces, HeldPieces DEF WgOnUpdate
<1>4. Piece(2, {}, WgOnRebuild)
  BY <1>2, FreePieces, ConcatPiece DEF WgOnRebuild
<1>5. Piece(2, {}, DnsUpdatePeers)
  BY FreePieces, HeldPieces DEF DnsUpdatePeers
<1> QED
  BY <1>1, <1>2, <1>3, <1>4, <1>5

\* The engine puts no message, so it never waits for itself.
LEMMA HandlerPieces ==
    ASSUME NEW kind \in DOMAIN Handlers, NEW p \in Handlers[kind]
    PROVE  Piece(0, {}, p) /\ \A i \in 1..Len(p) : p[i].do # "put"
<1>1. Piece(2, {}, <<Await("server")>>) /\ Piece(2, {}, <<>>)
  BY FreePieces
<1>2. ASSUME NEW a, NEW b, Piece(2, {}, a), Piece(2, {}, b)
      PROVE  Piece(1, {}, Held("eng", a \o b)) /\ Piece(2, {}, a \o b)
  BY <1>2, ConcatPiece, HeldPieces
<1>3. \A x \in RebuildState : Piece(1, {}, x)
  <2>1. Piece(2, {}, <<Await("server")>> \o WgOnRebuild)
    BY <1>1, <1>2, CallbackPieces
  <2>2. Piece(1, {}, Held("eng", <<Await("server")>> \o WgOnRebuild \o DnsUpdatePeers))
    BY <1>2, <2>1, CallbackPieces
  <2>3. Piece(1, {}, Held("eng", <<Await("server")>>))
    BY <1>1, HeldPieces
  <2> QED
    BY <2>2, <2>3 DEF RebuildState
<1>4. \A x \in HandleMembership : Piece(1, {}, x)
  <2>1. Piece(2, {}, <<Await("server")>> \o WgUpdatePeers)
    BY <1>1, <1>2, CallbackPieces
  <2>2. Piece(1, {}, Held("eng", <<Await("server")>> \o WgUpdatePeers \o DnsUpdatePeers))
    BY <1>2, <2>1, CallbackPieces
  <2>3. Piece(1, {}, Held("eng", WgUpdatePeers \o DnsUpdatePeers))
    BY <1>2, CallbackPieces
  <2>4. Piece(1, {}, Held("eng", <<>>))
    BY <1>1, HeldPieces
  <2> QED
    BY <2>2, <2>3, <2>4 DEF HandleMembership
<1>5. \A x \in HandleUpdate : Piece(1, {}, x)
  BY <1>2, CallbackPieces DEF HandleUpdate
<1>6. Piece(1, {}, <<>>)
  BY FreePieces
<1> QED
  <2>1. Piece(1, {}, p)
    BY <1>3, <1>4, <1>5, <1>6 DEF Handlers
  <2>2. Piece(0, {}, p)
    BY <2>1, PieceOfPiece
  <2> QED
    BY <2>1, <2>2 DEF Piece

LEMMA RoundPieces ==
    ASSUME NEW t, NEW p \in Programs(t)
    PROVE  Piece(0, {}, p)
<1>1. \A x \in OnDiscovMessage : Piece(0, {}, x)
  <2>1. Piece(0, {}, LocalPeer)
    BY CallbackPieces, PieceOfPiece
  <2>2. Piece(0, {}, Held("eng", <<>>))
    BY FreePieces, HeldPieces
  <2>3. Piece(0, {}, Held("eng", Held("wg", Call("peers"))))
    BY FreePieces, HeldPieces
  <2> QED
    BY <2>1, <2>2, <2>3, ConcatPiece DEF OnDiscovMessage
<1>2. \A x \in LookupDns : Piece(0, {}, x)
  <2>1. Piece(2, {}, Held("dns", <<>>))
    BY FreePieces, HeldPieces
  <2> QED
    BY <2>1, PieceOfPiece DEF LookupDns
<1>3. \A x \in GatewayRound : Piece(0, {}, x)
  <2>1. Piece(0, {}, <<Await("server")>>) /\ Piece(0, {}, <<>>)
    BY FreePieces
  <2>2. /\ Piece(0, {}, <<Put("Connect")>>) /\ Piece(0, {}, <<Put("Disconnect")>>)
        /\ Piece(0, {}, <<Put("Membership")>>) /\ Piece(0, {}, <<Put("Update")>>)
    BY PutPiece DEF Handlers
  <2>3. \A x, y : Piece(0, {}, x) /\ Piece(0, {}, y) => Piece(0, {}, x \o y)
    BY ConcatPiece
  <2>4. /\ <<Await("server"), Put("Disconnect")>> = <<Await("server")>> \o <<Put("Disconnect")>>
        /\ <<Await("server"), Put("Connect"), Await("server")>>
               = <<Await("server")>> \o <<Put("Connect")>> \o <<Await("server")>>
    OBVIOUS
  <2>5. /\ Piece(0, {}, <<Await("server"), Put("Disconnect")>>)
        /\ Piece(0, {}, <<Await("server"), Put("Connect"), Await("server")>>)
    BY <2>1, <2>2, <2>3, <2>4
  <2>6. \A messages \in {<<>>, <<Put("Membership")>>, <<Put("Update")>>} :
            Piece(0, {}, <<Await("server"), Put("Connect"), Await("server")>>
                                \o messages \o <<Put("Disconnect")>>)
    BY <2>1, <2>2, <2>3, <2>5
  <2> QED
    BY <2>5, <2>6 DEF GatewayRound
<1> QED
  BY <1>1, <1>2, <1>3 DEF Programs

LEMMA MainPieces ==
    ASSUME NEW p \in Main
    PROVE  Piece(0, {}, p)
<1> DEFINE wireguard == Held("wg", Call("peers"))
           up   == wireguard \o <<Go("resolver")>> \o Held("wg", Call("peers"))
                       \o <<Await("server")>>
           link == <<Go("gateway"), Go("engine")>>
           rest == <<Go("discovery"), Await("signal")>>
           bail == Held("wg", <<Await("server")>>)
<1>1. \A x, y : Piece(0, {}, x) /\ Piece(0, {}, y) => Piece(0, {}, x \o y)
  BY ConcatPiece
<1>2. \A x : Piece(2, {}, x) => Piece(0, {}, x)
  BY PieceOfPiece
<1>3. /\ Piece(0, {}, <<Await("server")>>) /\ Piece(0, {}, <<Await("signal")>>)
      /\ \A t \in Threads : Piece(0, {}, <<Go(t)>>)
      /\ Piece(3, {"peers"}, <<Await("server")>>) /\ Piece(3, {"peers"}, Call("peers"))
      /\ Piece(3, {"peers"}, <<>>)
  BY FreePieces
<1>4. Piece(0, {}, wireguard) /\ Piece(0, {}, bail) /\ Piece(0, {}, Held("wg", <<>>))
  BY <1>2, <1>3, HeldPieces
<1>5. /\ Piece(0, {}, <<Go("resolver")>>) /\ Piece(0, {}, <<Go("gateway")>>)
      /\ Piece(0, {}, <<Go("engine")>>) /\ Piece(0, {}, <<Go("discovery")>>)
  BY <1>3 DEF Threads
<1>6. Piece(0, {}, up)
  BY <1>1, <1>3, <1>4, <1>5
<1>7. Piece(0, {}, link)
  <2>1. link = <<Go("gateway")>> \o <<Go("engine")>>
    OBVIOUS
  <2> QED
    BY <1>1, <1>5, <2>1
<1>8. Piece(0, {}, rest)
  <2>1. rest = <<Go("discovery")>> \o <<Await("signal")>>
    OBVIOUS
  <2> QED
    BY <1>1, <1>3, <1>5, <2>1
<1>9. Piece(0, {}, StartPikopunch)
  <2>1. Piece(3, {"peers"}, <<Await("server")>> \o Call("peers"))
    BY <1>3, ConcatPiece
  <2> QED
    BY <1>2, <2>1, HeldPieces DEF StartPikopunch
<1>10. Piece(0, {}, Shutdown)
  BY <1>4 DEF Shutdown
<1>11. p \in {Held("wg", <<>>), wireguard \o Shutdown, up \o Shutdown,
              up \o link \o bail \o Shutdown, up \o link \o StartPikopunch \o Shutdown,
              up \o link \o StartPikopunch \o rest \o Shutdown}
  BY DEF Main
<1> HIDE DEF wireguard, up, link, rest, bail
<1> QED
  BY <1>1, <1>4, <1>6, <1>7, <1>8, <1>9, <1>10, <1>11

-----------------------------------------------------------------------------
(* What is left of a program                                               *)

LEMMA PieceDisciplined ==
    ASSUME NEW p, Piece(0, {}, p)
    PROVE  Disciplined(p) /\ \A m \in Mutexes : ~InsideAt(p, m, 1)
BY DEF Piece, Disciplined

LEMMA InsideOfTail ==
    ASSUME NEW s \in Seq(Op), s # <<>>, NEW m, NEW i \in 1..Len(s)
    PROVE  InsideAt(Tail(s), m, i) <=> InsideAt(s, m, i + 1)
<1> DEFINE u == Tail(s)
<1>1. Len(s) \in Nat \ {0} /\ Len(u) = Len(s) - 1 /\ \A j \in 1..Len(u) : u[j] = s[j + 1]
  BY HeadTailProperties, EmptySeq
<1> HIDE DEF u
<1>2. ASSUME InsideAt(u, m, i) PROVE InsideAt(s, m, i + 1)
  <2>1. PICK k \in i..Len(u) : /\ u[k].do = "unlock" /\ u[k].what = m
                               /\ \A j \in i..k-1 : ~(u[j].do = "lock" /\ u[j].what = m)
    BY <1>2 DEF InsideAt
  <2>2. k + 1 \in i+1..Len(s) /\ s[k + 1] = u[k]
    BY <1>1, <2>1
  <2>3. ASSUME NEW j \in i+1..(k + 1)-1 PROVE ~(s[j].do = "lock" /\ s[j].what = m)
    <3>1. j - 1 \in 1..Len(u) /\ j - 1 \in i..k-1 /\ (j - 1) + 1 = j
      BY <1>1, <2>1
    <3> QED
      BY <1>1, <2>1, <3>1
  <2> QED
    BY <2>1, <2>2, <2>3 DEF InsideAt
<1>3. ASSUME InsideAt(s, m, i + 1) PROVE InsideAt(u, m, i)
  <2>1. PICK k \in i+1..Len(s) : /\ s[k].do = "unlock" /\ s[k].what = m
                                 /\ \A j \in i+1..k-1 : ~(s[j].do = "lock" /\ s[j].what = m)
    BY <1>3 DEF InsideAt
  <2>2. k - 1 \in i..Len(u) /\ s[k] = u[k - 1]
    <3>1. k - 1 \in 1..Len(u) /\ k - 1 \in i..Len(u) /\ (k - 1) + 1 = k
      BY <1>1, <2>1
    <3> QED
      BY <1>1, <3>1
  <2>3. ASSUME NEW j \in i..(k - 1)-1 PROVE ~(u[j].do = "lock" /\ u[j].what = m)
    <3>1. j \in 1..Len(u) /\ j + 1 \in i+1..k-1
      BY <1>1, <2>1
    <3> QED
      BY <1>1, <2>1, <3>1
  <2> QED
    BY <2>1, <2>2, <2>3 DEF InsideAt
<1> QED
  BY <1>2, <1>3 DEF u

\* Once the first operation is done, the rest is disciplined, and what changed is
\* what it did.
LEMMA TailDisciplined ==
    ASSUME NEW s, Disciplined(s), s # <<>>
    PROVE  /\ Disciplined(Tail(s))
           /\ \A m \in Mutexes : InsideAt(Tail(s), m, 1) <=> InsideAt(s, m, 2)
           /\ Head(s) \in Op /\ Head(s) = s[1] /\ Orderly(s, 1) /\ Len(s) \in Nat \ {0}
           /\ Head(s).do = "call" => Tail(s) # <<>> /\ Head(Tail(s)) = s[2]
<1> DEFINE u == Tail(s)
<1>0. s \in Seq(Op)
  BY DEF Disciplined
<1>1. /\ u \in Seq(Op) /\ Len(s) \in Nat \ {0} /\ Len(u) = Len(s) - 1
      /\ \A j \in 1..Len(u) : u[j] = s[j + 1]
      /\ Head(s) \in Op /\ Head(s) = s[1]
  BY <1>0, HeadTailProperties, EmptySeq
<1>2. \A m \in Mutexes : \A i \in 1..Len(s) : InsideAt(u, m, i) <=> InsideAt(s, m, i + 1)
  BY <1>0, InsideOfTail
<1> HIDE DEF u
<1>3. \A m \in Mutexes : InsideAt(u, m, 1) <=> InsideAt(s, m, 2)
  <2>1. 1 \in 1..Len(s) /\ 1 + 1 = 2
    BY <1>1
  <2> QED
    BY <1>2, <2>1
<1>4. ASSUME NEW i \in 1..Len(u)
      PROVE  Orderly(u, i) /\ (PeersAt(u, i) => InsideAt(u, "wg", i))
  <2>1. /\ u[i] = s[i + 1] /\ i + 1 \in 1..Len(s) /\ i \in 1..Len(s)
        /\ Orderly(s, i + 1) /\ (PeersAt(s, i + 1) => InsideAt(s, "wg", i + 1))
    BY <1>1 DEF Disciplined
  <2>2. \A m \in Mutexes : /\ InsideAt(u, m, i) <=> InsideAt(s, m, i + 1)
                           /\ InsideAt(u, m, i + 1) <=> InsideAt(s, m, (i + 1) + 1)
    BY <1>1, <1>2, <2>1
  <2>3. u[i].do = "call" => i < Len(u) /\ u[i + 1] = s[(i + 1) + 1]
    <3>1. u[i].do = "call" => i + 1 < Len(s)
      BY <2>1 DEF Orderly
    <3>2. u[i].do = "call" => i + 1 \in 1..Len(u)
      BY <1>1, <3>1
    <3> QED
      BY <1>1, <3>2
  <2>4. Orderly(u, i)
    BY <2>1, <2>2, <2>3, SameOrder
  <2>5. "wg" \in Mutexes
    BY DEF Mutexes
  <2> QED
    BY <2>1, <2>2, <2>4, <2>5 DEF PeersAt
<1>5. Orderly(s, 1)
  BY <1>1 DEF Disciplined
<1>6. ASSUME Head(s).do = "call" PROVE u # <<>> /\ Head(u) = s[2]
  <2>1. 1 < Len(s)
    BY <1>1, <1>5, <1>6 DEF Orderly
  <2>2. 1 \in 1..Len(u) /\ 1 + 1 = 2
    BY <1>1, <2>1
  <2>3. u # <<>>
    BY <2>2, EmptySeq
  <2> QED
    BY <1>1, <2>2, <2>3, HeadTailProperties
<1> QED
  BY <1>1, <1>3, <1>4, <1>5, <1>6 DEF Disciplined, u

-----------------------------------------------------------------------------
(* The invariant                                                           *)

\* A goroutine holds the mutexes that the rest of its program unlocks before it
\* locks them, and a call under way is the one it has to return from.
LocksInv ==
    /\ todo \in [Threads -> Seq(Op)]
    /\ \A t \in Threads : Disciplined(todo[t])
    /\ running \subseteq Threads
    /\ holder \in [Mutexes -> Threads \cup {"nobody"}]
    /\ \A t \in Threads, m \in Mutexes : InsideAt(todo[t], m, 1) <=> holder[m] = t
    /\ \A i \in 1..Len(todo["engine"]) : todo["engine"][i].do # "put"
    /\ gw \in Seq(DOMAIN Handlers)
    /\ device \subseteq Threads \X {"peers", "address"}
    /\ \A t \in Threads, c \in {"peers", "address"} : <<t, c>> \in device =>
          /\ todo[t] # <<>>
          /\ Head(todo[t]).do = "return" /\ Head(todo[t]).what = c

LEMMA InitLocks == Init => LocksInv
<1> SUFFICES ASSUME Init PROVE LocksInv
  OBVIOUS
<1>1. PICK p \in Main : todo = [t \in Threads |-> IF t = "main" THEN p ELSE <<>>]
  BY DEF Init
<1>2. Piece(0, {}, p) /\ Piece(0, {}, <<>>)
  BY MainPieces, FreePieces
<1>3. /\ Disciplined(p) /\ \A m \in Mutexes : ~InsideAt(p, m, 1)
      /\ Disciplined(<<>>) /\ \A m \in Mutexes : ~InsideAt(<<>>, m, 1)
  BY <1>2, PieceDisciplined
<1>4. \A t \in Threads : /\ Disciplined(todo[t]) /\ todo[t] \in Seq(Op)
                         /\ \A m \in Mutexes : ~InsideAt(todo[t], m, 1)
  BY <1>1, <1>3 DEF Disciplined
<1>5. \A t \in Threads : t # "nobody"
  BY DEF Threads
<1>6. <<>> \in Seq(DOMAIN Handlers)
  BY EmptySeq
<1>7. "main" \in Threads
  BY DEF Threads
<1>8. todo["engine"] = <<>> /\ Len(<<>>) = 0
  BY <1>1, EmptySeq DEF Threads
<1> HIDE DEF Handlers
<1> QED
  BY <1>1, <1>4, <1>5, <1>6, <1>7, <1>8 DEF Init, LocksInv

LEMMA BeginKeepsLocks ==
    ASSUME LocksInv, NEW t \in Threads, Begin(t)
    PROVE  LocksInv'
<1>1. PICK p : /\ todo' = [todo EXCEPT ![t] = p]
               /\ \/ p \in Programs(t) /\ UNCHANGED gw
                  \/ gw # <<>> /\ p \in Handlers[Head(gw)] /\ gw' = Tail(gw)
  BY DEF Begin
<1>2. gw \in Seq(DOMAIN Handlers)
  BY DEF LocksInv
<1>3. /\ gw' \in Seq(DOMAIN Handlers) /\ Piece(0, {}, p)
      /\ t = "engine" => \A i \in 1..Len(p) : p[i].do # "put"
  <2>0. Programs("engine") = {}
    BY DEF Programs
  <2>1. CASE p \in Programs(t) /\ UNCHANGED gw
    BY <1>2, <2>0, <2>1, RoundPieces
  <2>2. CASE gw # <<>> /\ p \in Handlers[Head(gw)] /\ gw' = Tail(gw)
    <3>1. Head(gw) \in DOMAIN Handlers /\ Tail(gw) \in Seq(DOMAIN Handlers)
      BY <1>2, <2>2, HeadTailProperties
    <3> QED
      BY <2>2, <3>1, HandlerPieces
  <2> QED
    BY <1>1, <2>1, <2>2
<1>4. Disciplined(p) /\ p \in Seq(Op) /\ \A m \in Mutexes : ~InsideAt(p, m, 1)
  BY <1>3, PieceDisciplined DEF Piece
<1>5. todo[t] = <<>> /\ UNCHANGED <<running, holder, device>>
  BY DEF Begin
<1>6. \A m \in Mutexes : ~InsideAt(todo[t], m, 1)
  <2>1. Len(<<>>) = 0
    BY EmptySeq
  <2> QED
    BY <1>5, <2>1 DEF InsideAt
<1>7. \A u \in Threads : todo'[u] = IF u = t THEN p ELSE todo[u]
  BY <1>1 DEF LocksInv
<1>8. todo' \in [Threads -> Seq(Op)]
  BY <1>1, <1>4 DEF LocksInv
<1>9. \A u \in Threads : Disciplined(todo'[u])
  BY <1>4, <1>7 DEF LocksInv
<1>10. \A u \in Threads, m \in Mutexes : InsideAt(todo'[u], m, 1) <=> holder'[m] = u
  <2>1. \A u \in Threads, m \in Mutexes : InsideAt(todo[u], m, 1) <=> holder[m] = u
    BY DEF LocksInv
  <2> QED
    BY <1>4, <1>5, <1>6, <1>7, <2>1
<1>11. \A u \in Threads, c \in {"peers", "address"} : <<u, c>> \in device' =>
          todo'[u] # <<>> /\ Head(todo'[u]).do = "return" /\ Head(todo'[u]).what = c
  BY <1>5, <1>7 DEF LocksInv
<1>12. \A i \in 1..Len(todo'["engine"]) : todo'["engine"][i].do # "put"
  BY <1>3, <1>7 DEF LocksInv, Threads
<1> HIDE DEF Handlers
<1> QED
  BY <1>3, <1>5, <1>8, <1>9, <1>10, <1>11, <1>12 DEF LocksInv

\* A step of t that does the first operation of its program.
LEMMA StepKeepsLocks ==
    ASSUME LocksInv, NEW t \in Threads, todo[t] # <<>>,
           todo' = [todo EXCEPT ![t] = Tail(@)],
           \/ Head(todo[t]).do = "await" /\ UNCHANGED <<running, holder, gw, device>>
           \/ Proceed(t)
    PROVE  LocksInv'
<1> DEFINE s == todo[t]
           op == Head(s)
<1>1. /\ Disciplined(Tail(s)) /\ Tail(s) \in Seq(Op)
      /\ \A m \in Mutexes : InsideAt(Tail(s), m, 1) <=> InsideAt(s, m, 2)
      /\ op \in Op /\ op = s[1] /\ Orderly(s, 1) /\ Len(s) \in Nat \ {0}
      /\ op.do = "call" => Tail(s) # <<>> /\ Head(Tail(s)) = s[2]
  BY TailDisciplined DEF LocksInv, Disciplined
<1>2. \A u \in Threads : todo'[u] = IF u = t THEN Tail(s) ELSE todo[u]
  BY DEF LocksInv
<1>3. todo' \in [Threads -> Seq(Op)] /\ \A u \in Threads : Disciplined(todo'[u])
  BY <1>1, <1>2 DEF LocksInv
<1>4. \A m \in Mutexes :
          InsideAt(Tail(s), m, 1) <=>
              IF op.do = "lock" /\ op.what = m THEN TRUE
              ELSE IF op.do = "unlock" /\ op.what = m THEN FALSE
              ELSE InsideAt(s, m, 1)
  <2> SUFFICES ASSUME NEW m \in Mutexes
               PROVE  InsideAt(s, m, 2) <=>
                          IF op.do = "lock" /\ op.what = m THEN TRUE
                          ELSE IF op.do = "unlock" /\ op.what = m THEN FALSE
                          ELSE InsideAt(s, m, 1)
    BY <1>1
  <2>1. 1 + 1 = 2
    OBVIOUS
  <2>2. CASE op.do = "lock" /\ op.what = m
    BY <1>1, <2>1, <2>2 DEF Orderly
  <2>3. CASE op.do = "unlock" /\ op.what = m
    BY <1>1, <2>1, <2>3 DEF Orderly
  <2>4. CASE ~(op.do = "lock" /\ op.what = m) /\ ~(op.do = "unlock" /\ op.what = m)
    <3>1. ASSUME InsideAt(s, m, 1) PROVE InsideAt(s, m, 2)
      <4>1. PICK k \in 1..Len(s) : /\ s[k].do = "unlock" /\ s[k].what = m
                                   /\ \A j \in 1..k-1 : ~(s[j].do = "lock" /\ s[j].what = m)
        BY <3>1 DEF InsideAt
      <4>2. k # 1
        BY <1>1, <2>4, <4>1
      <4>3. k \in 2..Len(s) /\ \A j \in 2..k-1 : j \in 1..k-1
        BY <1>1, <4>1, <4>2
      <4> QED
        BY <4>1, <4>3 DEF InsideAt
    <3>2. ASSUME InsideAt(s, m, 2) PROVE InsideAt(s, m, 1)
      <4>1. PICK k \in 2..Len(s) : /\ s[k].do = "unlock" /\ s[k].what = m
                                   /\ \A j \in 2..k-1 : ~(s[j].do = "lock" /\ s[j].what = m)
        BY <3>2 DEF InsideAt
      <4>2. k \in 1..Len(s) /\ \A j \in 1..k-1 : j = 1 \/ j \in 2..k-1
        BY <1>1, <4>1
      <4>3. \A j \in 1..k-1 : ~(s[j].do = "lock" /\ s[j].what = m)
        BY <1>1, <2>4, <4>1, <4>2
      <4> QED
        BY <4>1, <4>2, <4>3 DEF InsideAt
    <3> QED
      BY <2>4, <3>1, <3>2
  <2> QED
    BY <2>2, <2>3, <2>4
<1>5. \A m \in Mutexes : (InsideAt(s, m, 1) <=> holder[m] = t)
                         /\ (op.do = "unlock" /\ op.what = m => InsideAt(s, m, 1))
  <2>1. ASSUME NEW m \in Mutexes, op.do = "unlock", op.what = m PROVE InsideAt(s, m, 1)
    <3>1. 1 \in 1..Len(s) /\ \A j \in 1..1-1 : FALSE
      BY <1>1
    <3> QED
      BY <1>1, <2>1, <3>1 DEF InsideAt
  <2> QED
    BY <2>1 DEF LocksInv
<1>6. t # "nobody"
  BY DEF Threads
<1> HIDE DEF s, op, Handlers
<1>7. /\ holder' \in [Mutexes -> Threads \cup {"nobody"}]
      /\ \A u \in Threads, m \in Mutexes : InsideAt(todo'[u], m, 1) <=> holder'[m] = u
  <2>1. CASE op.do = "lock" /\ op.what \in Mutexes /\ holder[op.what] = "nobody"
             /\ holder' = [holder EXCEPT ![op.what] = t]
    <3>1. \A m \in Mutexes : holder'[m] = IF m = op.what THEN t ELSE holder[m]
      BY <2>1 DEF LocksInv
    <3>2. \A u \in Threads, m \in Mutexes : InsideAt(todo'[u], m, 1) <=> holder'[m] = u
      <4> SUFFICES ASSUME NEW u \in Threads, NEW m \in Mutexes
                   PROVE  InsideAt(todo'[u], m, 1) <=> holder'[m] = u
        OBVIOUS
      <4>1. CASE u = t
        BY <1>2, <1>4, <1>5, <2>1, <3>1, <4>1
      <4>2. CASE u # t
        <5>1. InsideAt(todo[u], m, 1) <=> holder[m] = u
          BY DEF LocksInv
        <5>2. u # "nobody"
          BY DEF Threads
        <5> QED
          BY <1>2, <2>1, <3>1, <4>2, <5>1, <5>2
      <4> QED
        BY <4>1, <4>2
    <3>3. holder' \in [Mutexes -> Threads \cup {"nobody"}]
      BY <2>1 DEF LocksInv
    <3> QED
      BY <3>2, <3>3
  <2>2. CASE op.do = "unlock" /\ op.what \in Mutexes
             /\ holder' = [holder EXCEPT ![op.what] = "nobody"]
    <3>1. \A m \in Mutexes : holder'[m] = IF m = op.what THEN "nobody" ELSE holder[m]
      BY <2>2 DEF LocksInv
    <3>2. holder[op.what] = t
      BY <1>5, <2>2
    <3>3. \A u \in Threads, m \in Mutexes : InsideAt(todo'[u], m, 1) <=> holder'[m] = u
      <4> SUFFICES ASSUME NEW u \in Threads, NEW m \in Mutexes
                   PROVE  InsideAt(todo'[u], m, 1) <=> holder'[m] = u
        OBVIOUS
      <4>0. u # "nobody"
        BY DEF Threads
      <4>1. CASE u = t
        BY <1>2, <1>4, <1>5, <2>2, <3>1, <4>0, <4>1
      <4>2. CASE u # t
        <5>1. InsideAt(todo[u], m, 1) <=> holder[m] = u
          BY DEF LocksInv
        <5> QED
          BY <1>2, <3>1, <3>2, <4>0, <4>2, <5>1
      <4> QED
        BY <4>1, <4>2
    <3>4. holder' \in [Mutexes -> Threads \cup {"nobody"}]
      BY <2>2 DEF LocksInv
    <3> QED
      BY <3>3, <3>4
  <2>3. CASE op.do \notin {"lock", "unlock"} /\ UNCHANGED holder
    <3>1. \A u \in Threads, m \in Mutexes : InsideAt(todo'[u], m, 1) <=> holder'[m] = u
      <4> SUFFICES ASSUME NEW u \in Threads, NEW m \in Mutexes
                   PROVE  InsideAt(todo'[u], m, 1) <=> holder'[m] = u
        OBVIOUS
      <4>1. CASE u = t
        BY <1>2, <1>4, <1>5, <2>3, <4>1
      <4>2. CASE u # t
        BY <1>2, <2>3, <4>2 DEF LocksInv
      <4> QED
        BY <4>1, <4>2
    <3> QED
      BY <2>3, <3>1 DEF LocksInv
  <2>4. op.do \in {"lock", "unlock"} => op.what \in Mutexes
    BY <1>1 DEF Orderly
  <2> QED
    BY <2>1, <2>2, <2>3, <2>4 DEF Proceed, s, op
<1>8. running' \subseteq Threads
  <2>1. CASE op.do = "go" /\ running' = running \cup {op.what}
    BY <1>1, <2>1 DEF Orderly, LocksInv
  <2> QED
    BY <2>1 DEF Proceed, s, op, LocksInv
<1>9. gw' \in Seq(DOMAIN Handlers)
  <2>0. gw \in Seq(DOMAIN Handlers)
    BY DEF LocksInv
  <2>1. CASE op.do = "put" /\ gw' = Append(gw, op.what)
    <3>1. op.what \in DOMAIN Handlers
      BY <1>1, <2>1 DEF Orderly
    <3> QED
      BY <2>0, <2>1, <3>1, AppendProperties
  <2> QED
    BY <2>0, <2>1 DEF Proceed, s, op
<1>10. /\ device' \subseteq Threads \X {"peers", "address"}
       /\ \A u \in Threads, c \in {"peers", "address"} : <<u, c>> \in device' =>
              /\ todo'[u] # <<>>
              /\ Head(todo'[u]).do = "return" /\ Head(todo'[u]).what = c
  <2>0. /\ device \subseteq Threads \X {"peers", "address"}
        /\ \A u \in Threads, c \in {"peers", "address"} : <<u, c>> \in device =>
              /\ todo[u] # <<>>
              /\ Head(todo[u]).do = "return" /\ Head(todo[u]).what = c
    BY DEF LocksInv
  <2>1. \A c \in {"peers", "address"} : <<t, c>> \in device => op.do = "return" /\ op.what = c
    BY <2>0 DEF s, op
  <2>2. CASE op.do = "call" /\ device' = device \cup {<<t, op.what>>}
    <3>1. Tail(s) # <<>> /\ Head(Tail(s)).do = "return" /\ Head(Tail(s)).what = op.what
      <4>1. 1 + 1 = 2
        OBVIOUS
      <4> QED
        BY <1>1, <2>2, <4>1 DEF Orderly
    <3>2. op.what \in {"peers", "address"}
      BY <1>1, <2>2 DEF Orderly
    <3>3. device' \subseteq Threads \X {"peers", "address"}
      BY <2>0, <2>2, <3>2
    <3>4. \A u \in Threads, c \in {"peers", "address"} : <<u, c>> \in device' =>
              (<<u, c>> \in device /\ u # t) \/ (u = t /\ c = op.what)
      BY <2>1, <2>2
    <3>5. ASSUME NEW u \in Threads, NEW c \in {"peers", "address"}, <<u, c>> \in device'
          PROVE  /\ todo'[u] # <<>>
                 /\ Head(todo'[u]).do = "return" /\ Head(todo'[u]).what = c
      <4>1. CASE <<u, c>> \in device /\ u # t
        BY <1>2, <2>0, <4>1
      <4>2. CASE u = t /\ c = op.what
        BY <1>2, <3>1, <4>2
      <4> QED
        BY <3>4, <3>5, <4>1, <4>2
    <3> QED
      BY <3>3, <3>5
  <2>3. CASE op.do = "return" /\ device' = device \ {<<t, op.what>>}
    BY <1>2, <2>0, <2>1, <2>3
  <2>4. CASE op.do \notin {"call", "return"} /\ UNCHANGED device
    BY <1>2, <2>0, <2>1, <2>4
  <2> QED
    BY <2>2, <2>3, <2>4 DEF Proceed, s, op
<1>11. \A i \in 1..Len(todo'["engine"]) : todo'["engine"][i].do # "put"
  <2>0. /\ \A i \in 1..Len(todo["engine"]) : todo["engine"][i].do # "put"
        /\ s \in Seq(Op) /\ s # <<>>
    BY DEF LocksInv, s
  <2>1. CASE t = "engine"
    <3>1. /\ \A j \in 1..Len(Tail(s)) : Tail(s)[j] = s[j + 1]
          /\ Len(Tail(s)) = Len(s) - 1
      BY <2>0, HeadTailProperties
    <3>2. \A j \in 1..Len(Tail(s)) : j + 1 \in 1..Len(s)
      BY <1>1, <3>1
    <3> QED
      BY <1>2, <2>0, <2>1, <3>1, <3>2 DEF s
  <2>2. CASE t # "engine"
    BY <1>2, <2>0, <2>2 DEF Threads
  <2> QED
    BY <2>1, <2>2
<1> QED
  BY <1>3, <1>7, <1>8, <1>9, <1>10, <1>11 DEF LocksInv

\* The mutexes, the channel and the calls under way, always.
THEOREM LocksInvariance == Spec => []LocksInv
<1>1. LocksInv /\ [Next]_vars => LocksInv'
  <2> SUFFICES ASSUME LocksInv, [Next]_vars PROVE LocksInv'
    OBVIOUS
  <2>1. CASE UNCHANGED vars
    BY <2>1 DEF vars, LocksInv
  <2>2. ASSUME NEW t \in Threads, Begin(t) PROVE LocksInv'
    BY <2>2, BeginKeepsLocks
  <2>3. ASSUME NEW t \in Threads, Proceed(t) PROVE LocksInv'
    BY <2>3, StepKeepsLocks DEF Proceed
  <2>4. ASSUME NEW t \in Threads, NEW x \in {"server", "signal"}, Come(t, x) PROVE LocksInv'
    <3>1. Head(todo[t]).do = "await"
      BY <2>4 DEF Come, Await
    <3> QED
      BY <2>4, <3>1, StepKeepsLocks DEF Come
  <2> QED
    BY <2>1, <2>2, <2>3, <2>4 DEF Next
<1> QED
  BY <1>1, InitLocks, PTL DEF Spec

\* Of the calls that change the device's peers no two overlap.
THEOREM PeerCallsAlwaysSerialized == Spec => []PeerCallsSerialized
<1>1. LocksInv => PeerCallsSerialized
  <2> SUFFICES ASSUME LocksInv, NEW c \in device, NEW e \in device, c[2] = "peers", e[2] = "peers"
               PROVE  c = e
    BY DEF PeerCallsSerialized
  <2>1. c \in Threads \X {"peers", "address"} /\ e \in Threads \X {"peers", "address"}
    BY DEF LocksInv
  <2>2. ASSUME NEW t \in Threads, <<t, "peers">> \in device PROVE holder["wg"] = t
    <3>1. todo[t] # <<>> /\ Head(todo[t]).do = "return" /\ Head(todo[t]).what = "peers"
          /\ Disciplined(todo[t])
      BY <2>2 DEF LocksInv
    <3>2. Head(todo[t]) = todo[t][1] /\ 1 \in 1..Len(todo[t])
      BY <3>1, TailDisciplined
    <3>3. InsideAt(todo[t], "wg", 1) /\ "wg" \in Mutexes
      BY <3>1, <3>2 DEF Disciplined, PeersAt, Mutexes
    <3> QED
      BY <3>3 DEF LocksInv
  <2>3. c = <<c[1], "peers">> /\ e = <<e[1], "peers">> /\ c[1] \in Threads /\ e[1] \in Threads
    BY <2>1
  <2>4. holder["wg"] = c[1] /\ holder["wg"] = e[1]
    BY <2>2, <2>3
  <2> QED
    BY <2>3, <2>4
<1> QED
  BY <1>1, LocksInvariance, PTL

\* Along a chain of goroutines that wait for each other the mutexes have higher
\* and higher ranks, and a goroutine at the channel holds none: no chain has five.
THEOREM WaitsNeverCircular == Spec => []NoCircularWait
<1>1. LocksInv => NoCircularWait
  <2> SUFFICES ASSUME LocksInv, NEW T \in (SUBSET Threads) \ {{}},
                      \A t \in T : \E u \in T : WaitsFor(t, u)
               PROVE  FALSE
    BY DEF NoCircularWait
  <2>0. /\ T \subseteq Threads
        /\ \A t \in Threads, m \in Mutexes : holder[m] = t => InsideAt(todo[t], m, 1)
        /\ \A i \in 1..Len(todo["engine"]) : todo["engine"][i].do # "put"
    BY DEF LocksInv
  <2> DEFINE first(t) == Head(todo[t])
             at(t) == IF first(t).do = "lock" THEN Rank[first(t).what] ELSE 0
  <2>1. ASSUME NEW t \in T
        PROVE  /\ Orderly(todo[t], 1) /\ first(t) = todo[t][1]
               /\ first(t).do \in {"lock", "put"} /\ at(t) \in 0..3
    <3>1. todo[t] # <<>> /\ first(t).do \in {"lock", "put"} /\ Disciplined(todo[t])
      BY DEF WaitsFor, LocksInv
    <3>2. Orderly(todo[t], 1) /\ first(t) = todo[t][1]
      BY <3>1, TailDisciplined
    <3>3. first(t).do = "lock" => first(t).what \in Mutexes
      BY <3>2 DEF Orderly
    <3>4. \A m \in Mutexes : Rank[m] \in 0..3
      BY DEF Rank, Mutexes
    <3> QED
      BY <3>1, <3>2, <3>3, <3>4
  <2>2. ASSUME NEW t \in T, NEW u \in T, WaitsFor(t, u), first(t).do = "lock"
        PROVE  first(u).do = "lock" /\ at(t) < at(u)
    <3>1. holder[first(t).what] = u /\ first(t).what \in Mutexes
      BY <2>1, <2>2 DEF WaitsFor, Orderly
    <3>2. \A m \in Mutexes : holder[m] = u => InsideAt(todo[u], m, 1)
      BY <2>0
    <3>6. InsideAt(todo[u], first(t).what, 1)
      BY <3>1, <3>2, Zenon
    <3>3. first(u).do = "lock"
      BY <2>1, <3>1, <3>6 DEF Orderly
    <3>4. Rank[first(t).what] < Rank[first(u).what]
      BY <2>1, <3>1, <3>3, <3>6 DEF Orderly
    <3> QED
      BY <2>2, <3>3, <3>4
  <2>3. ASSUME NEW t \in T, NEW u \in T, WaitsFor(t, u), first(t).do = "put"
        PROVE  first(u).do = "lock"
    <3>1. u = "engine"
      BY <2>3 DEF WaitsFor
    <3>2. todo[u] # <<>> /\ Disciplined(todo[u])
      BY <2>3 DEF WaitsFor, LocksInv
    <3>3. 1 \in 1..Len(todo[u])
      BY <3>2, TailDisciplined
    <3>4. todo["engine"][1].do # "put"
      BY <2>0, <3>1, <3>3
    <3>5. first(u).do # "put"
      BY <2>1, <3>1, <3>4
    <3> QED
      BY <2>1, <3>5
  <2> HIDE DEF first, at
  <2>4. PICK t \in T : first(t).do = "lock"
    BY <2>1, <2>3
  <2>5. \A n \in Nat : n <= 3 => \E u \in T : first(u).do = "lock" /\ at(u) >= n
    <3>1. \A u \in T : first(u).do = "lock" =>
              \E v \in T : first(v).do = "lock" /\ at(u) < at(v)
      BY <2>2
    <3>2. PICK u1 \in T : first(u1).do = "lock" /\ at(t) < at(u1)
      BY <2>4, <3>1
    <3>3. PICK u2 \in T : first(u2).do = "lock" /\ at(u1) < at(u2)
      BY <3>1, <3>2
    <3>4. PICK u3 \in T : first(u3).do = "lock" /\ at(u2) < at(u3)
      BY <3>1, <3>3
    <3>5. at(t) \in 0..3 /\ at(u1) \in 0..3 /\ at(u2) \in 0..3 /\ at(u3) \in 0..3
      BY <2>1
    <3> QED
      BY <3>2, <3>3, <3>4, <3>5
  <2>6. PICK u \in T : first(u).do = "lock" /\ at(u) >= 3
    BY <2>5
  <2>7. PICK v \in T : at(u) < at(v)
    BY <2>2, <2>6
  <2>8. at(u) \in 0..3 /\ at(v) \in 0..3
    BY <2>1
  <2> QED
    BY <2>6, <2>7, <2>8
<1> QED
  BY <1>1, LocksInvariance, PTL
=============================================================================
