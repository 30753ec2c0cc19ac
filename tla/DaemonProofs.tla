---------------------------- MODULE DaemonProofs ----------------------------
(***************************************************************************)
(* Daemons on one machine and what they share (module Lifecycle), for every*)
(* number of daemons and tools.                                            *)
(***************************************************************************)
EXTENDS Lifecycle, TLAPS, SequenceTheorems

-----------------------------------------------------------------------------
(* The invariant                                                           *)

\* Places of a daemon whose device works, and of one that may have a device.
Served == {"configure", "connect", "details", "resolver", "running"}
Busy == Served \cup {"takedown", "close"}

\* The device of a daemon is open while it is used, closed or open while main
\* takes it down, and gone when the process is; an open one has the interface.
Owned ==
    \A d \in Daemons :
        /\ at[d] \in Served => wgDev[d] = "open"
        /\ at[d] \in Busy => wgDev[d] # "nil"
        /\ at[d] = "out" => wgDev[d] = "nil"
        /\ wgDev[d] = "open" => link = d

\* Unless something was left behind, the interface has a daemon that will still
\* close it.
NoOrphan == ~left => \A d \in Daemons : link = d => at[d] \in Busy

LifeInv ==
    /\ LifeTypeOK
    /\ Owned
    /\ NoOrphan
    /\ NothingLeftBehind

-----------------------------------------------------------------------------
(* The file                                                                *)

StoreTypeOK ==
    /\ exists \in BOOLEAN /\ torn \in BOOLEAN /\ overlap \in BOOLEAN
    /\ data \in Seq(Config \X Nat)
    /\ cfg \in [Programs -> Config] /\ meant \in Config
    /\ at \in [Programs -> Places]
    /\ issued \in 0..MaxTokens

LEMMA DefaultIsConfig == Default \in Config
BY ConfigAssumption DEF Default, Config

LEMMA CellsNat == ASSUME NEW c PROVE Cells(c) \in Nat
BY DEF Cells

\* A text is a sequence of cells.
LEMMA TextIsSeq ==
    ASSUME NEW c \in Config
    PROVE  Text(c) \in Seq(Config \X Nat)
<1>1. Cells(c) \in Nat
  BY CellsNat
<1>2. \A i \in 1..Cells(c) : <<c, i>> \in Config \X Nat
  BY <1>1
<1>3. Text(c) \in [1..Cells(c) -> Config \X Nat]
  BY <1>2 DEF Text
<1> HIDE DEF Text
<1> QED
  BY <1>1, <1>3

\* What is behind a text written at offset 0 is a sequence of cells.
LEMMA RestIsSeq ==
    ASSUME data \in Seq(Config \X Nat), NEW t \in Seq(Config \X Nat)
    PROVE  SubSeq(data, Len(t) + 1, Len(data)) \in Seq(Config \X Nat)
<1>1. Len(t) \in Nat /\ Len(data) \in Nat /\ DOMAIN data = 1..Len(data)
  BY LenProperties
<1>2. \A i \in Len(t) + 1 .. Len(data) : data[i] \in Config \X Nat
  BY <1>1, ElementOfSeq
<1> QED
  BY <1>1, <1>2, SubSeqProperties

\* Going to a place changes at only there.
LEMMA GotoTyped ==
    ASSUME StoreTypeOK, NEW p \in Programs, NEW place \in Places, Goto(p, place)
    PROVE  /\ at' \in [Programs -> Places] /\ overlap' \in BOOLEAN
           /\ at'[p] = place
           /\ \A q \in Programs \ {p} : at'[q] = at[q]
<1>1. at' = [at EXCEPT ![p] = place] /\ at \in [Programs -> Places]
  BY DEF Goto, StoreTypeOK
<1>2. overlap' \in BOOLEAN
  BY DEF Goto, Overlapping, StoreTypeOK
<1> QED
  BY <1>1, <1>2

LEMMA CreateTyped ==
    ASSUME StoreTypeOK, NEW p \in Programs, NEW from, NEW to \in Places, Create(p, from, to)
    PROVE  StoreTypeOK' /\ \A q \in Programs \ {p} : at'[q] = at[q]
<1>1. "failed" \in Places /\ <<>> \in Seq(Config \X Nat)
  BY EmptySeq DEF Places
<1> QED
  BY <1>1, GotoTyped DEF Create, StoreTypeOK, fileVars

LEMMA EncodeTyped ==
    ASSUME StoreTypeOK, NEW p \in Programs, NEW from, NEW to \in Places, Encode(p, from, to)
    PROVE  StoreTypeOK' /\ \A q \in Programs \ {p} : at'[q] = at[q]
<1> DEFINE text == Text(cfg[p])
<1>1. cfg[p] \in Config /\ data \in Seq(Config \X Nat) /\ "failed" \in Places
  BY DEF StoreTypeOK, Places
<1>2. text \o SubSeq(data, Len(text) + 1, Len(data)) \in Seq(Config \X Nat)
  <2>1. text \in Seq(Config \X Nat)
    BY <1>1, TextIsSeq
  <2> HIDE DEF text
  <2> QED
    BY <1>1, <2>1, RestIsSeq, ConcatProperties
<1>3. [meant EXCEPT !.token = cfg[p].token] \in Config
  BY <1>1 DEF StoreTypeOK, Config
<1> HIDE DEF text
<1>4. CASE /\ Goto(p, to) /\ torn' = FALSE
           /\ data' = text \o SubSeq(data, Len(text) + 1, Len(data))
           /\ meant' = IF cfg[p].token = 0 THEN meant
                       ELSE [meant EXCEPT !.token = cfg[p].token]
           /\ UNCHANGED <<exists, cfg, issued>>
  <2>1. at' \in [Programs -> Places] /\ overlap' \in BOOLEAN
        /\ \A q \in Programs \ {p} : at'[q] = at[q]
    BY <1>4, GotoTyped
  <2>2. data' \in Seq(Config \X Nat)
    BY <1>2, <1>4
  <2>3. meant' \in Config
    BY <1>3, <1>4 DEF StoreTypeOK
  <2>4. exists' \in BOOLEAN /\ torn' \in BOOLEAN
    BY <1>4 DEF StoreTypeOK
  <2>5. cfg' \in [Programs -> Config] /\ issued' \in 0..MaxTokens
    BY <1>4 DEF StoreTypeOK
  <2> QED
    BY <2>1, <2>2, <2>3, <2>4, <2>5 DEF StoreTypeOK
<1>5. CASE /\ Goto(p, "failed") /\ torn' = TRUE
           /\ UNCHANGED <<data, meant, exists, cfg, issued>>
  <2>1. at' \in [Programs -> Places] /\ overlap' \in BOOLEAN
        /\ \A q \in Programs \ {p} : at'[q] = at[q]
    BY <1>1, <1>5, GotoTyped
  <2>2. torn' \in BOOLEAN
    BY <1>5
  <2>3. exists' \in BOOLEAN /\ data' \in Seq(Config \X Nat)
        /\ cfg' \in [Programs -> Config] /\ meant' \in Config /\ issued' \in 0..MaxTokens
    BY <1>5 DEF StoreTypeOK
  <2> QED
    BY <2>1, <2>2, <2>3 DEF StoreTypeOK
<1> QED
  BY <1>4, <1>5 DEF Encode, text

\* A read of the file, with the save that makes it.
LEMMA ReadTyped ==
    ASSUME StoreTypeOK, NEW p \in Programs, NEW to \in Places, ReadConfigFile(p, to)
    PROVE  StoreTypeOK' /\ \A q \in Programs \ {p} : at'[q] = at[q]
<1>0. {"open", "create", "encode", "failed"} \subseteq Places
  BY DEF Places
<1>1. CASE Stat(p)
  <2>1. (IF exists THEN "open" ELSE "create") \in Places
    BY <1>0
  <2> QED
    BY <1>1, <2>1, GotoTyped DEF Stat, StoreTypeOK, fileVars
<1>2. CASE Create(p, "create", "encode")
  BY <1>0, <1>2, CreateTyped
<1>3. CASE Encode(p, "encode", to)
  BY <1>3, EncodeTyped
<1>4. CASE Decode(p, to)
  <2>1. cfg' \in [Programs -> Config]
    BY <1>4 DEF Decode, Decoded, StoreTypeOK
  <2> QED
    BY <1>0, <1>4, <2>1, GotoTyped DEF Decode, StoreTypeOK, fileVars
<1> QED
  BY <1>1, <1>2, <1>3, <1>4 DEF ReadConfigFile

LEMMA GoneTyped ==
    ASSUME StoreTypeOK, NEW p \in Programs, Gone(p)
    PROVE  /\ StoreTypeOK' /\ at'[p] = "out"
           /\ \A q \in Programs \ {p} : at'[q] = at[q]
<1>1. "out" \in Places /\ torn' \in BOOLEAN
  BY DEF Places, Gone, StoreTypeOK
<1> QED
  BY <1>1, DefaultIsConfig, GotoTyped DEF Gone, StoreTypeOK, fileVars

LEMMA BeginTyped ==
    ASSUME StoreTypeOK, NEW p \in Programs, Begin(p)
    PROVE  /\ StoreTypeOK' /\ at'[p] = "stat"
           /\ \A q \in Programs \ {p} : at'[q] = at[q]
<1>1. "stat" \in Places
  BY DEF Places
<1> QED
  BY <1>1, GotoTyped DEF Begin, StoreTypeOK, fileVars

LEMMA ToolTyped ==
    ASSUME StoreTypeOK, NEW p \in Programs, Tool(p)
    PROVE  StoreTypeOK' /\ \A q \in Programs \ {p} : at'[q] = at[q]
<1>0. {"ask", "save", "write", "done"} \subseteq Places
  BY DEF Places
<1>1. CASE Begin(p) \/ Gone(p)
  BY <1>1, BeginTyped, GoneTyped
<1>2. CASE ReadConfigFile(p, "ask")
  BY <1>0, <1>2, ReadTyped
<1>3. CASE Login(p)
  <2>1. issued' \in 0..MaxTokens
    BY <1>3, ConfigAssumption DEF Login, StoreTypeOK
  <2>2. cfg' \in [Programs -> Config]
    BY <1>3, <2>1 DEF Login, StoreTypeOK, Config
  <2> QED
    BY <1>0, <1>3, <2>1, <2>2, GotoTyped DEF Login, StoreTypeOK, fileVars
<1>4. CASE Create(p, "save", "write")
  BY <1>0, <1>4, CreateTyped
<1>5. CASE Encode(p, "write", "done")
  BY <1>0, <1>5, EncodeTyped
<1> QED
  BY <1>1, <1>2, <1>3, <1>4, <1>5 DEF Tool

LEMMA UserTyped ==
    ASSUME StoreTypeOK, Edit \/ RemoveFile
    PROVE  StoreTypeOK' /\ at' = at
<1>1. CASE Edit
  <2>1. PICK c \in Config : data' = Text([c EXCEPT !.device = TRUE])
    BY <1>1 DEF Edit, Decoded
  <2>2. [c EXCEPT !.device = TRUE] \in Config /\ meant' \in Config
    BY <1>1 DEF Edit, Config, StoreTypeOK
  <2>3. data' \in Seq(Config \X Nat) /\ overlap' \in BOOLEAN
    BY <1>1, <2>1, <2>2, TextIsSeq DEF Edit, StoreTypeOK
  <2> QED
    BY <1>1, <2>2, <2>3 DEF Edit, StoreTypeOK
<1>2. CASE RemoveFile
  BY <1>2, EmptySeq, DefaultIsConfig DEF RemoveFile, StoreTypeOK
<1> QED
  BY <1>1, <1>2

-----------------------------------------------------------------------------
(* The steps                                                               *)

LEMMA LifeInitInv == LifeInit => LifeInv
<1> SUFFICES ASSUME LifeInit PROVE LifeInv
  OBVIOUS
<1> USE DEF LifeInit, StoreInit
<1>1. 0 \in 0..MaxTokens /\ 0 \in 0..MaxNames /\ <<>> \in Seq(Config \X Nat)
  BY ConfigAssumption, LifecycleAssumption, EmptySeq
<1>2. "out" \in Places
  BY DEF Places
<1>3. LifeTypeOK
  BY <1>1, <1>2, DefaultIsConfig DEF LifeTypeOK
<1>4. Owned /\ NoOrphan
  BY LifecycleAssumption DEF Owned, NoOrphan, Served, Busy
<1>5. NothingLeftBehind
  BY DEF NothingLeftBehind
<1> QED
  BY <1>3, <1>4, <1>5 DEF LifeInv

LEMMA StoreOfLife == LifeTypeOK => StoreTypeOK
BY DEF LifeTypeOK, StoreTypeOK

\* A daemon that goes on and touches no file.
LEMMA StepTyped ==
    ASSUME LifeTypeOK, NEW d \in Daemons, NEW from, NEW to \in Places, Step(d, from, to)
    PROVE  /\ StoreTypeOK' /\ at[d] = from /\ at'[d] = to
           /\ \A q \in Daemons \ {d} : at'[q] = at[q]
<1>1. d \in Programs /\ Daemons \subseteq Programs
  BY LifecycleAssumption
<1> QED
  BY <1>1, StoreOfLife, GotoTyped DEF Step, StoreTypeOK, fileVars

\* A step that leaves the device and its resolver alone, of a daemon that goes
\* from one place to another where it has the same claims.
LEMMA QuietStep ==
    ASSUME LifeInv, StoreTypeOK', NEW d \in Daemons,
           \A q \in Daemons \ {d} : at'[q] = at[q],
           UNCHANGED <<machineVars, wgDev, left, clash>>,
           sigchan' \in [Daemons -> BOOLEAN], pressed' \in [Daemons -> BOOLEAN],
           at'[d] # "out",
           at'[d] \in Served => at[d] \in Served,
           at'[d] \in Busy => at[d] \in Busy,
           at[d] \in Busy => at'[d] \in Busy,
           at[d] \in {"running", "takedown"} => at'[d] \in {"running", "takedown"}
    PROVE  LifeInv'
<1> USE DEF LifeInv, machineVars
<1>1. LifeTypeOK'
  BY DEF LifeTypeOK, StoreTypeOK
<1>2. Owned' /\ NoOrphan'
  BY DEF Owned, NoOrphan
<1>3. NothingLeftBehind'
  BY DEF NothingLeftBehind
<1> QED
  BY <1>1, <1>2, <1>3

\* An error, at a place without a device, or after it was closed.
LEMMA CloseStep ==
    ASSUME LifeInv, NEW d \in Daemons, StoreTypeOK', at[d] \in Busy, Close(d),
           UNCHANGED <<names, signalVars, clash>>,
           \A q \in Daemons \ {d} : at'[q] = at[q],
           \/ at[d] = "configure" /\ at'[d] = "takedown"
           \/ at[d] = "close" /\ at'[d] = "failed"
    PROVE  LifeInv'
<1> USE DEF LifeInv, Close, Ours, signalVars
<1>1. wgDev' = [wgDev EXCEPT ![d] = "closed"] /\ wgDev \in [Daemons -> {"nil", "open", "closed"}]
  BY DEF LifeTypeOK
<1>2. wgDev'[d] = "closed" /\ \A q \in Daemons \ {d} : wgDev'[q] = wgDev[q]
  BY <1>1
<1>3. LifeTypeOK'
  <2>1. left' \in BOOLEAN
    BY DEF LifeTypeOK
  <2>2. link' \in Daemons \cup {"none", "orphan"}
    BY DEF LifeTypeOK
  <2> QED
    BY <1>1, <2>1, <2>2 DEF LifeTypeOK, StoreTypeOK
<1>4. d # "none" /\ \A q \in Daemons : q # "none"
  BY LifecycleAssumption
<1>5. Owned'
  BY <1>2, <1>4 DEF Owned, Served, Busy
<1>6. ~left' => ~left /\ link' # d /\ (link' = link \/ link' = "none")
  BY <1>4 DEF LifeTypeOK
<1>7. NoOrphan'
  BY <1>4, <1>6 DEF NoOrphan
<1>8. NothingLeftBehind'
  BY <1>6 DEF NothingLeftBehind
<1> QED
  BY <1>3, <1>5, <1>7, <1>8

LEMMA StartupInv ==
    ASSUME LifeInv, NEW d \in Daemons, Startup(d)
    PROVE  LifeInv'
<1>0. LifeTypeOK /\ StoreTypeOK /\ d \in Programs /\ Daemons \subseteq Programs
  BY StoreOfLife, LifecycleAssumption DEF LifeInv
<1>p. {"device", "failed", "configure", "connect", "details", "resolver", "running",
       "takedown"} \subseteq Places
  BY DEF Places
<1>s. sigchan \in [Daemons -> BOOLEAN] /\ pressed \in [Daemons -> BOOLEAN]
  BY <1>0 DEF LifeTypeOK
<1>1. CASE ReadConfigFile(d, "device") /\ UNCHANGED lifeVars
  <2>1. StoreTypeOK' /\ \A q \in Programs \ {d} : at'[q] = at[q]
    BY <1>0, <1>p, <1>1, ReadTyped
  <2>2. at[d] \in {"stat", "create", "encode", "open"}
    BY <1>1 DEF ReadConfigFile, Stat, Create, Encode, Decode
  <2>3. at'[d] \in {"open", "create", "encode", "device", "failed"}
    BY <1>0, <1>1 DEF ReadConfigFile, Stat, Create, Encode, Decode, Goto, StoreTypeOK
  <2> QED
    BY <1>0, <1>1, <1>s, <2>1, <2>2, <2>3, QuietStep DEF lifeVars, signalVars, Served, Busy
<1>2. CASE NewDevice(d)
  <2>1. CASE AddFails(d)
    <3>1. StoreTypeOK' /\ at[d] = "device" /\ at'[d] = "failed"
          /\ \A q \in Daemons \ {d} : at'[q] = at[q]
      BY <1>0, <1>p, <2>1, StepTyped DEF AddFails
    <3> QED
      BY <1>2, <1>s, <2>1, <3>1, QuietStep DEF AddFails, NewDevice, signalVars, machineVars, Served, Busy
  <2>2. ASSUME NEW to, link = "none", Step(d, "device", to), link' = d,
               UNCHANGED <<signalVars, names, clash>>,
               \/ to = "failed" /\ left' = TRUE /\ UNCHANGED wgDev
               \/ to = "configure" /\ wgDev' = [wgDev EXCEPT ![d] = "open"] /\ UNCHANGED left
        PROVE  LifeInv'
    <3>0. to \in Places /\ to \in {"failed", "configure"}
      BY <1>p, <2>2
    <3>1. StoreTypeOK' /\ at[d] = "device" /\ at'[d] = to
          /\ \A q \in Daemons \ {d} : at'[q] = at[q]
      BY <1>0, <2>2, <3>0, StepTyped
    <3>2. wgDev \in [Daemons -> {"nil", "open", "closed"}]
          /\ wgDev' \in [Daemons -> {"nil", "open", "closed"}]
          /\ wgDev'[d] = (IF to = "configure" THEN "open" ELSE wgDev[d])
          /\ \A q \in Daemons \ {d} : wgDev'[q] = wgDev[q]
      BY <1>0, <2>2 DEF LifeTypeOK
    <3>3. left' \in BOOLEAN
      BY <1>0, <2>2 DEF LifeTypeOK
    <3>4. LifeTypeOK'
      BY <1>0, <2>2, <3>1, <3>2, <3>3 DEF LifeTypeOK, StoreTypeOK, signalVars
    <3>5. \A q \in Daemons : wgDev[q] # "open" /\ q # "none" /\ q # "orphan"
      BY <2>2, LifecycleAssumption DEF LifeInv, Owned
    <3>6. Owned'
      BY <2>2, <3>0, <3>1, <3>2, <3>5 DEF LifeInv, Owned, Served, Busy
    <3>7. ~left' => to = "configure" /\ ~left
      BY <2>2
    <3>8. NoOrphan' /\ NothingLeftBehind'
      BY <2>2, <3>1, <3>5, <3>7 DEF LifeInv, NoOrphan, NothingLeftBehind, Served, Busy
    <3> QED
      BY <3>4, <3>6, <3>8 DEF LifeInv
  <2> QED
    BY <1>2, <2>1, <2>2 DEF NewDevice
<1>3. CASE Configure(d)
  <2>1. CASE Step(d, "configure", "connect") /\ UNCHANGED <<link, wgDev, left>>
    <3>1. StoreTypeOK' /\ at[d] = "configure" /\ at'[d] = "connect"
          /\ \A q \in Daemons \ {d} : at'[q] = at[q]
      BY <1>0, <1>p, <2>1, StepTyped
    <3> QED
      BY <1>3, <1>s, <2>1, <3>1, QuietStep DEF Configure, signalVars, machineVars, Served, Busy
  <2>2. CASE Step(d, "configure", "takedown") /\ Close(d)
    <3>1. StoreTypeOK' /\ at[d] = "configure" /\ at'[d] = "takedown"
          /\ \A q \in Daemons \ {d} : at'[q] = at[q]
      BY <1>0, <1>p, <2>2, StepTyped
    <3> QED
      BY <1>3, <2>2, <3>1, CloseStep DEF Configure, Served, Busy
  <2> QED
    BY <1>3, <2>1, <2>2 DEF Configure
<1>4. ASSUME NEW from \in {"connect", "details"}, NEW to \in {"details", "resolver"},
             Request(d, from, to)
      PROVE  LifeInv'
  <2>1. PICK place \in {to, "takedown"} : Step(d, from, place)
    BY <1>4 DEF Request
  <2>2. place \in Places /\ place \in {"details", "resolver", "takedown"}
    BY <1>p, <1>4
  <2>3. StoreTypeOK' /\ at[d] = from /\ at'[d] = place
        /\ \A q \in Daemons \ {d} : at'[q] = at[q]
    BY <1>0, <2>1, <2>2, StepTyped
  <2>4. at[d] \in Served /\ at[d] \in Busy /\ at'[d] \in Busy /\ at'[d] # "out"
        /\ at[d] \notin {"running", "takedown"}
    BY <1>4, <2>2, <2>3 DEF Served, Busy
  <2>5. UNCHANGED <<machineVars, wgDev, left, clash>> /\ sigchan' = sigchan /\ pressed' = pressed
    BY <1>4 DEF Request, lifeVars, signalVars
  <2> QED
    BY <1>s, <2>3, <2>4, <2>5, QuietStep
<1>5. CASE BringupDns(d)
  <2>1. StoreTypeOK' /\ at[d] = "resolver" /\ at'[d] = "running"
        /\ \A q \in Daemons \ {d} : at'[q] = at[q]
    BY <1>0, <1>p, <1>5, StepTyped DEF BringupDns
  <2>2. names' \in 0..MaxNames /\ clash' \in BOOLEAN
    <3>1. names \in 0..MaxNames
      BY <1>0 DEF LifeTypeOK
    <3>2. clash' \in BOOLEAN
      BY <1>0, <1>5 DEF BringupDns, LifeTypeOK
    <3>3. names' \in 0..MaxNames
      BY <1>5, <3>1, LifecycleAssumption DEF BringupDns
    <3> QED
      BY <3>2, <3>3
  <2>3. LifeTypeOK'
    BY <1>0, <1>5, <2>1, <2>2 DEF BringupDns, LifeTypeOK, StoreTypeOK, signalVars
  <2>4. Owned' /\ NoOrphan'
    BY <1>5, <2>1 DEF BringupDns, LifeInv, Owned, NoOrphan, Served, Busy
  <2>5. NothingLeftBehind'
    BY <1>5, <2>1 DEF BringupDns, LifeInv, NothingLeftBehind
  <2> QED
    BY <2>3, <2>4, <2>5 DEF LifeInv
<1> QED
  BY <1>1, <1>2, <1>3, <1>4, <1>5 DEF Startup

\* The end of a process that leaves nothing, or is known to.
LEMMA EndStep ==
    ASSUME LifeInv, NEW d \in Daemons, Ends(d), left' \in BOOLEAN,
           left' = left \/ left',
           ~left' => ~left /\ at[d] = "failed"
    PROVE  LifeInv'
<1> USE DEF LifeInv, Ends
<1>0. LifeTypeOK /\ StoreTypeOK /\ d \in Programs /\ Daemons \subseteq Programs
  BY StoreOfLife, LifecycleAssumption
<1>1. StoreTypeOK' /\ at'[d] = "out" /\ \A q \in Programs \ {d} : at'[q] = at[q]
  BY <1>0, GoneTyped
<1>2. /\ wgDev' \in [Daemons -> {"nil", "open", "closed"}]
      /\ wgDev'[d] = "nil"
      /\ \A q \in Daemons \ {d} : wgDev'[q] = wgDev[q]
  BY <1>0 DEF LifeTypeOK
<1>3. d # "none" /\ \A q \in Daemons : q # "orphan"
  BY LifecycleAssumption
<1>4. LifeTypeOK'
  <2>1. sigchan' \in [Daemons -> BOOLEAN] /\ pressed' \in [Daemons -> BOOLEAN]
    BY <1>0 DEF LifeTypeOK
  <2>2. link' \in Daemons \cup {"none", "orphan"}
    BY <1>0 DEF LifeTypeOK
  <2> QED
    BY <1>0, <1>1, <1>2, <2>1, <2>2 DEF LifeTypeOK, StoreTypeOK
<1>5. Owned'
  BY <1>0, <1>1, <1>2, <1>3 DEF Owned, Served, Busy
<1>6. ~left' => link # d
  BY DEF NoOrphan, Served, Busy
<1>7. NoOrphan' /\ NothingLeftBehind'
  BY <1>0, <1>1, <1>3, <1>6 DEF NoOrphan, NothingLeftBehind
<1> QED
  BY <1>4, <1>5, <1>7

LEMMA MainInv ==
    ASSUME LifeInv, NEW d \in Daemons, Main(d)
    PROVE  LifeInv'
<1>0. LifeTypeOK /\ StoreTypeOK
  BY StoreOfLife DEF LifeInv
<1>p. {"failed", "takedown", "close"} \subseteq Places
  BY DEF Places
<1>1. CASE TakeSignal(d)
  <2>1. StoreTypeOK' /\ at[d] = "running" /\ at'[d] = "takedown"
        /\ \A q \in Daemons \ {d} : at'[q] = at[q]
    BY <1>0, <1>p, <1>1, StepTyped DEF TakeSignal
  <2>2. sigchan' \in [Daemons -> BOOLEAN] /\ pressed' \in [Daemons -> BOOLEAN]
    BY <1>0, <1>1 DEF TakeSignal, LifeTypeOK
  <2>3. UNCHANGED <<machineVars, wgDev, left, clash>>
    BY <1>1 DEF TakeSignal
  <2> QED
    BY <2>1, <2>2, <2>3, QuietStep DEF Served, Busy
<1>2. CASE TakedownDns(d)
  <2>1. StoreTypeOK' /\ at[d] = "takedown" /\ at'[d] = "close"
        /\ \A q \in Daemons \ {d} : at'[q] = at[q]
    BY <1>0, <1>p, <1>2, StepTyped DEF TakedownDns
  <2>2. names' \in 0..MaxNames
    BY <1>0, <1>2, LifecycleAssumption DEF TakedownDns, LifeTypeOK
  <2>3. clash' \in BOOLEAN /\ left' \in BOOLEAN
    BY <1>0, <1>2 DEF TakedownDns, LifeTypeOK
  <2>4. UNCHANGED <<link, wgDev, sigchan, pressed>>
    BY <1>2 DEF TakedownDns, signalVars
  <2>5. LifeTypeOK'
    BY <1>0, <2>1, <2>2, <2>3, <2>4 DEF LifeTypeOK, StoreTypeOK
  <2>6. ~left' => ~left /\ names' = 0
    BY <1>2 DEF TakedownDns
  <2>7. Owned'
    BY <2>1, <2>4 DEF LifeInv, Owned, Served, Busy
  <2>8. NoOrphan'
    BY <2>1, <2>4, <2>6 DEF LifeInv, NoOrphan, Served, Busy
  <2>9. NothingLeftBehind'
    BY <2>4, <2>6 DEF LifeInv, NothingLeftBehind
  <2> QED
    BY <2>5, <2>7, <2>8, <2>9 DEF LifeInv
<1>3. CASE CloseDevice(d)
  <2>1. StoreTypeOK' /\ at[d] = "close" /\ at'[d] = "failed"
        /\ \A q \in Daemons \ {d} : at'[q] = at[q]
    BY <1>0, <1>p, <1>3, StepTyped DEF CloseDevice
  <2> QED
    BY <1>3, <2>1, CloseStep DEF CloseDevice, Busy
<1>4. CASE Return(d)
  <2>1. left \in BOOLEAN /\ left' = left
    BY <1>0, <1>4 DEF Return, LifeTypeOK
  <2> QED
    BY <1>4, <2>1, EndStep DEF Return
<1> QED
  BY <1>1, <1>2, <1>3, <1>4 DEF Main

LEMMA OtherInv ==
    ASSUME LifeInv,
           \/ \E d \in Daemons : Start(d) \/ Interrupt(d) \/ Kill(d)
           \/ (\E p \in Programs \ Daemons : Tool(p)) /\ UNCHANGED lifeVars
           \/ (Edit \/ RemoveFile) /\ UNCHANGED lifeVars
           \/ CleanUp
           \/ UNCHANGED daemonVars
    PROVE  LifeInv'
<1>0. LifeTypeOK /\ StoreTypeOK /\ Daemons \subseteq Programs
  BY StoreOfLife, LifecycleAssumption DEF LifeInv
<1>s. sigchan \in [Daemons -> BOOLEAN] /\ pressed \in [Daemons -> BOOLEAN]
  BY <1>0 DEF LifeTypeOK
<1>a. ASSUME StoreTypeOK', UNCHANGED lifeVars, \A q \in Daemons : at'[q] = at[q]
      PROVE  LifeInv'
  BY <1>a DEF LifeInv, LifeTypeOK, StoreTypeOK, Owned, NoOrphan, NothingLeftBehind,
     lifeVars, machineVars, signalVars
<1>1. ASSUME NEW d \in Daemons, Start(d)
      PROVE  LifeInv'
  <2>1. StoreTypeOK' /\ at[d] = "out" /\ at'[d] = "stat"
        /\ \A q \in Daemons \ {d} : at'[q] = at[q]
    BY <1>0, <1>1, BeginTyped DEF Start, Begin
  <2>2. UNCHANGED <<machineVars, wgDev, left, clash>> /\ sigchan' = sigchan /\ pressed' = pressed
    BY <1>1 DEF Start, lifeVars, signalVars
  <2> QED
    BY <1>s, <2>1, <2>2, QuietStep DEF Served, Busy
<1>2. ASSUME NEW d \in Daemons, Interrupt(d)
      PROVE  LifeInv'
  <2>1. StoreTypeOK' /\ at' = at /\ UNCHANGED <<machineVars, wgDev, left, clash>>
    BY <1>0, <1>2 DEF Interrupt, StoreTypeOK, storeVars, fileVars
  <2>2. sigchan' \in [Daemons -> BOOLEAN] /\ pressed' \in [Daemons -> BOOLEAN]
    BY <1>s, <1>2 DEF Interrupt
  <2> QED
    BY <1>0, <2>1, <2>2 DEF LifeInv, LifeTypeOK, StoreTypeOK, Owned, NoOrphan,
       NothingLeftBehind, machineVars
<1>3. ASSUME NEW d \in Daemons, Kill(d)
      PROVE  LifeInv'
  BY <1>3, EndStep DEF Kill
<1>4. ASSUME NEW p \in Programs \ Daemons, Tool(p), UNCHANGED lifeVars
      PROVE  LifeInv'
  <2>1. StoreTypeOK' /\ \A q \in Programs \ {p} : at'[q] = at[q]
    BY <1>0, <1>4, ToolTyped
  <2> QED
    BY <1>0, <1>4, <1>a, <2>1
<1>5. CASE (Edit \/ RemoveFile) /\ UNCHANGED lifeVars
  BY <1>0, <1>5, <1>a, UserTyped
<1>6. CASE CleanUp
  <2>1. StoreTypeOK' /\ at' = at /\ wgDev' = wgDev /\ sigchan' = sigchan /\ pressed' = pressed
    BY <1>0, <1>6 DEF CleanUp, StoreTypeOK, storeVars, fileVars, signalVars
  <2>2. LifeTypeOK'
    <3>1. names' \in 0..MaxNames
      BY <1>6, LifecycleAssumption DEF CleanUp
    <3>2. left' \in BOOLEAN /\ clash' \in BOOLEAN /\ link' \in Daemons \cup {"none", "orphan"}
      BY <1>6 DEF CleanUp
    <3> QED
      BY <1>0, <2>1, <3>1, <3>2 DEF LifeTypeOK, StoreTypeOK
  <2>3. \A q \in Daemons : wgDev[q] = "nil" /\ q # "none"
    BY <1>6, LifecycleAssumption DEF CleanUp, LifeInv, Owned
  <2>4. Owned' /\ NoOrphan' /\ NothingLeftBehind'
    BY <1>6, <2>1, <2>3 DEF CleanUp, LifeInv, Owned, NoOrphan, NothingLeftBehind, Served, Busy
  <2> QED
    BY <2>2, <2>4 DEF LifeInv
<1>7. CASE UNCHANGED daemonVars
  BY <1>0, <1>7, <1>a DEF daemonVars, storeVars, fileVars, StoreTypeOK
<1> QED
  BY <1>1, <1>2, <1>3, <1>4, <1>5, <1>6, <1>7

\* The inductive invariant.
THEOREM LifeInvariance == LifeSpec => []LifeInv
<1>1. LifeInv /\ [LifeNext]_daemonVars => LifeInv'
  BY StartupInv, MainInv, OtherInv DEF LifeNext
<1> QED
  BY LifeInitInv, <1>1, PTL DEF LifeSpec

-----------------------------------------------------------------------------
(* The theorems                                                            *)

\* The file is a sequence of cells, the programs are at their places, and what
\* they share keeps its types.
THEOREM LifeTypeCorrect == LifeSpec => []LifeTypeOK
<1>1. LifeInv => LifeTypeOK
  BY DEF LifeInv
<1> QED
  BY LifeInvariance, <1>1, PTL

\* An open device has the interface: nobody deletes it under its daemon.
THEOREM DevicesStayOurs == LifeSpec => []DeviceIsOurs
<1>1. LifeInv => DeviceIsOurs
  BY DEF LifeInv, Owned, DeviceIsOurs
<1> QED
  BY LifeInvariance, <1>1, PTL

\* No interface and no entry in the resolver stays behind a daemon that was not
\* killed and whose clean-up did not fail.
THEOREM NothingEverLeftBehind == LifeSpec => []NothingLeftBehind
<1>1. LifeInv => NothingLeftBehind
  BY DEF LifeInv
<1> QED
  BY LifeInvariance, <1>1, PTL

\* No other daemon takes out what a daemon that is up has entered in the
\* resolver, but one whose own device was closed: a daemon with an open device
\* has the interface, so there is no second that has.
THEOREM ResolverIsKept == LifeSpec => ResolverKept
<1>1. LifeInv /\ [LifeNext]_daemonVars =>
          [\A d \in Daemons :
              at[d] = "running" /\ at'[d] = "running" /\ ~clash' => names' >= names]_daemonVars
  <2> SUFFICES ASSUME LifeInv, LifeNext, NEW d \in Daemons,
                      at[d] = "running", at'[d] = "running", ~clash'
               PROVE  names' >= names
    BY DEF LifeInv
  <2>0. names \in Nat
    BY LifecycleAssumption DEF LifeInv, LifeTypeOK
  <2>1. CASE names' = names
    BY <2>0, <2>1
  <2>2. ASSUME NEW e \in Daemons, Startup(e)
        PROVE  names' >= names
    BY <2>0, <2>2 DEF Startup, NewDevice, Configure, Request, BringupDns, lifeVars, machineVars
  <2>3. ASSUME NEW e \in Daemons, Main(e)
        PROVE  names' >= names
    <3>1. CASE TakedownDns(e) /\ names' # names
      <4>1. wgDev[e] # "closed" /\ at[e] = "takedown"
        BY <3>1 DEF TakedownDns, Step
      <4>2. wgDev[e] = "open" /\ wgDev[d] = "open"
        BY <4>1 DEF LifeInv, LifeTypeOK, Owned, Served, Busy
      <4> QED
        BY <4>1, <4>2 DEF LifeInv, Owned
    <3> QED
      BY <2>1, <2>3, <3>1 DEF Main, TakeSignal, CloseDevice, Return, Ends, machineVars
  <2>4. ASSUME NEW e \in Daemons, Start(e) \/ Interrupt(e) \/ Kill(e)
        PROVE  names' >= names
    BY <2>1, <2>4 DEF Start, Interrupt, Kill, Ends, lifeVars, machineVars
  <2>5. CASE UNCHANGED lifeVars
    BY <2>1, <2>5 DEF lifeVars, machineVars
  <2>6. ~CleanUp
    BY DEF CleanUp
  <2> QED
    BY <2>2, <2>3, <2>4, <2>5, <2>6 DEF LifeNext
<1> QED
  BY LifeInvariance, <1>1, PTL DEF LifeSpec, ResolverKept

-----------------------------------------------------------------------------
(* The file stays readable                                                 *)

\* A text is found at the start of what it was written over.
LEMMA WrittenIsFound ==
    ASSUME NEW t \in Seq(Config \X Nat), NEW rest \in Seq(Config \X Nat),
           data' = t \o rest
    PROVE  StartsWith(t)'
<1>1. /\ t \o rest \in Seq(Config \X Nat)
      /\ Len(t \o rest) = Len(t) + Len(rest)
      /\ \A i \in 1..Len(t) : (t \o rest)[i] = t[i]
      /\ Len(t) \in Nat /\ Len(rest) \in Nat
  BY ConcatProperties, LenProperties
<1>2. \A i \in 1..Len(t) : (t \o rest)[i] \in Config \X Nat
  BY <1>1, ElementOfSeq
<1>3. /\ SubSeq(t \o rest, 1, Len(t)) \in Seq(Config \X Nat)
      /\ Len(SubSeq(t \o rest, 1, Len(t))) = Len(t)
      /\ \A i \in 1..Len(t) : SubSeq(t \o rest, 1, Len(t))[i] = (t \o rest)[i]
  BY <1>1, <1>2, SubSeqProperties
<1>4. SubSeq(t \o rest, 1, Len(t)) = t
  BY <1>1, <1>3, SeqEqual
<1> QED
  BY <1>1, <1>4 DEF StartsWith

\* Whatever a program writes, its text can be decoded.
LEMMA EncodedIsReadable ==
    ASSUME StoreTypeOK, NEW p \in Programs, NEW from, NEW to, Encode(p, from, to), ~torn'
    PROVE  Decoded' # {}
<1>1. PICK c \in Config : c = cfg[p]
  BY DEF StoreTypeOK
<1>2. PICK text \in Seq(Config \X Nat) : text = Text(c)
  BY TextIsSeq
<1>3. PICK rest \in Seq(Config \X Nat) : rest = SubSeq(data, Len(text) + 1, Len(data))
  BY RestIsSeq DEF StoreTypeOK
<1>4. data' = text \o rest
  BY <1>1, <1>2, <1>3 DEF Encode
<1>5. StartsWith(text)'
  BY <1>4, WrittenIsFound
<1> QED
  BY <1>1, <1>2, <1>5 DEF Decoded

\* A text alone can be decoded.
LEMMA TextIsReadable ==
    ASSUME NEW c \in Config, data' = Text(c)
    PROVE  Decoded' # {}
<1>1. PICK text \in Seq(Config \X Nat) : text = Text(c)
  BY TextIsSeq
<1>2. <<>> \in Seq(Config \X Nat) /\ text \o <<>> = text
  BY EmptySeq, ConcatEmptySeq
<1>3. StartsWith(text)'
  BY <1>1, <1>2, WrittenIsFound
<1> QED
  BY <1>1, <1>3 DEF Decoded

\* A program that is not writing goes on, and touches no file.
LEMMA QuietRead ==
    ASSUME StoreTypeOK, SavesStayReadable, NEW p \in Programs, NEW place \in Places,
           Goto(p, place), UNCHANGED <<exists, data, torn>>, at[p] \notin {"encode", "write"}
    PROVE  SavesStayReadable'
<1>1. \A q \in Programs \ {p} : at'[q] = at[q]
  BY GotoTyped
<1>2. Writing => Writing'
  BY <1>1 DEF Writing
<1>3. Decoded' = Decoded
  BY DEF Decoded, StartsWith
<1> QED
  BY <1>2, <1>3 DEF SavesStayReadable

LEMMA CreateRead ==
    ASSUME StoreTypeOK, SavesStayReadable, NEW p \in Programs, NEW to \in {"encode", "write"},
           \E from \in {"create", "save"} : Create(p, from, to)
    PROVE  SavesStayReadable'
<1>1. "failed" \in Places /\ to \in Places
  BY DEF Places
<1>2. CASE Goto(p, "failed") /\ UNCHANGED fileVars
  BY <1>1, <1>2, QuietRead DEF Create, fileVars
<1>3. CASE Goto(p, to)
  <2>1. at'[p] = to
    BY <1>1, <1>3, GotoTyped
  <2> QED
    BY <2>1 DEF SavesStayReadable, Writing
<1> QED
  BY <1>2, <1>3 DEF Create

LEMMA EncodeRead ==
    ASSUME StoreTypeOK, NEW p \in Programs, NEW from, NEW to, Encode(p, from, to)
    PROVE  SavesStayReadable'
BY EncodedIsReadable DEF SavesStayReadable

\* A read of the file, up to a place where it is not written.
LEMMA ReadRead ==
    ASSUME StoreTypeOK, SavesStayReadable, NEW p \in Programs, NEW to \in Places,
           ReadConfigFile(p, to)
    PROVE  SavesStayReadable'
<1>0. {"open", "create", "failed"} \subseteq Places
  BY DEF Places
<1>1. CASE Stat(p)
  BY <1>0, <1>1, QuietRead DEF Stat, fileVars
<1>2. CASE Create(p, "create", "encode")
  BY <1>2, CreateRead
<1>3. CASE Encode(p, "encode", to)
  BY <1>3, EncodeRead
<1>4. CASE Decode(p, to)
  BY <1>0, <1>4, QuietRead DEF Decode, fileVars
<1> QED
  BY <1>1, <1>2, <1>3, <1>4 DEF ReadConfigFile

LEMMA GoneRead ==
    ASSUME StoreTypeOK, SavesStayReadable, NEW p \in Programs, Gone(p)
    PROVE  SavesStayReadable'
<1>1. CASE at[p] \in {"encode", "write"}
  BY <1>1 DEF Gone, SavesStayReadable
<1>2. CASE at[p] \notin {"encode", "write"}
  <2>1. "out" \in Places
    BY DEF Places
  <2>2. torn' = torn
    BY <1>2 DEF Gone, StoreTypeOK
  <2> QED
    BY <1>2, <2>1, <2>2, QuietRead DEF Gone, fileVars
<1> QED
  BY <1>1, <1>2

LEMMA ToolRead ==
    ASSUME StoreTypeOK, SavesStayReadable, NEW p \in Programs, Tool(p)
    PROVE  SavesStayReadable'
<1>0. {"stat", "ask", "save"} \subseteq Places
  BY DEF Places
<1>1. CASE Begin(p) \/ Login(p)
  BY <1>0, <1>1, QuietRead DEF Begin, Login, fileVars
<1>2. CASE ReadConfigFile(p, "ask")
  BY <1>0, <1>2, ReadRead
<1>3. CASE Create(p, "save", "write")
  BY <1>3, CreateRead
<1>4. CASE Encode(p, "write", "done")
  BY <1>4, EncodeRead
<1>5. CASE Gone(p)
  BY <1>5, GoneRead
<1> QED
  BY <1>1, <1>2, <1>3, <1>4, <1>5 DEF Tool

LEMMA LifeStepRead ==
    ASSUME LifeTypeOK, SavesStayReadable, [LifeNext]_daemonVars
    PROVE  SavesStayReadable'
<1>0. StoreTypeOK /\ Daemons \subseteq Programs
  BY StoreOfLife, LifecycleAssumption
<1>p. {"device", "configure", "connect", "details", "resolver", "running", "takedown",
       "close", "failed", "stat"} \subseteq Places
  BY DEF Places
<1>1. ASSUME NEW d \in Daemons, NEW from, NEW to \in Places, Step(d, from, to),
             from \notin {"encode", "write"}
      PROVE  SavesStayReadable'
  BY <1>0, <1>1, QuietRead DEF Step, fileVars
<1>2. ASSUME NEW d \in Daemons, Startup(d)
      PROVE  SavesStayReadable'
  <2>1. CASE ReadConfigFile(d, "device")
    BY <1>0, <1>p, <2>1, ReadRead
  <2>2. CASE NewDevice(d) \/ Configure(d)
    BY <1>p, <1>1, <2>2 DEF NewDevice, AddFails, Configure
  <2>3. CASE Request(d, "connect", "details") \/ Request(d, "details", "resolver")
    BY <1>p, <1>1, <2>3 DEF Request
  <2>4. CASE BringupDns(d)
    BY <1>p, <1>1, <2>4 DEF BringupDns
  <2> QED
    BY <1>2, <2>1, <2>2, <2>3, <2>4 DEF Startup
<1>3. ASSUME NEW d \in Daemons, Main(d) \/ Kill(d)
      PROVE  SavesStayReadable'
  <2>1. CASE Gone(d)
    BY <1>0, <2>1, GoneRead
  <2> QED
    BY <1>p, <1>1, <1>3, <2>1 DEF Main, TakeSignal, TakedownDns, CloseDevice, Return, Kill, Ends
<1>4. ASSUME NEW d \in Daemons, Start(d)
      PROVE  SavesStayReadable'
  BY <1>0, <1>p, <1>4, QuietRead DEF Start, Begin, fileVars
<1>5. ASSUME UNCHANGED storeVars
      PROVE  SavesStayReadable'
  BY <1>5 DEF SavesStayReadable, Writing, Decoded, StartsWith, storeVars, fileVars
<1>6. ASSUME NEW p \in Programs \ Daemons, Tool(p)
      PROVE  SavesStayReadable'
  BY <1>0, <1>6, ToolRead
<1>7. CASE Edit
  <2>1. PICK c \in Config : data' = Text(c)
    BY <1>7 DEF Edit, Decoded, Config
  <2> QED
    BY <2>1, TextIsReadable DEF SavesStayReadable
<1>8. CASE RemoveFile
  BY <1>8 DEF RemoveFile, SavesStayReadable
<1> QED
  BY <1>2, <1>3, <1>4, <1>5, <1>6, <1>7, <1>8 DEF LifeNext, Interrupt, CleanUp, daemonVars

\* However saves overlap, the file can be read, unless a save was cut off.
THEOREM SavesAlwaysReadable == LifeSpec => []SavesStayReadable
<1>1. LifeInit => SavesStayReadable
  BY DEF LifeInit, StoreInit, SavesStayReadable
<1> QED
  BY <1>1, LifeStepRead, LifeTypeCorrect, PTL DEF LifeSpec

-----------------------------------------------------------------------------
(* Programs that take turns                                                *)

\* A text alone is decoded as what it is the text of: every cell names it.
LEMMA TextDecodes ==
    ASSUME NEW m \in Config, data = Text(m)
    PROVE  Decoded = {m}
<1>1. \A c \in Config : /\ Text(c) \in Seq(Config \X Nat) /\ Len(Text(c)) = Cells(c)
                       /\ Text(c)[1] = <<c, 1>>
                       /\ Cells(c) \in Nat /\ Cells(c) >= 1
  <2> SUFFICES ASSUME NEW c \in Config
               PROVE  /\ Text(c) \in Seq(Config \X Nat) /\ Len(Text(c)) = Cells(c)
                      /\ Text(c)[1] = <<c, 1>> /\ Cells(c) \in Nat /\ Cells(c) >= 1
    OBVIOUS
  <2>1. Cells(c) \in Nat /\ Cells(c) >= 1
    BY DEF Cells
  <2>2. Text(c) \in Seq(Config \X Nat)
    BY TextIsSeq
  <2>3. DOMAIN Text(c) = 1..Cells(c) /\ DOMAIN Text(c) = 1..Len(Text(c)) /\ Len(Text(c)) \in Nat
    BY <2>2, LenProperties DEF Text
  <2>4. Len(Text(c)) = Cells(c)
    BY <2>1, <2>3
  <2> QED
    BY <2>1, <2>2, <2>4 DEF Text
<1>m. data \in Seq(Config \X Nat) /\ data[1] = <<m, 1>> /\ Len(data) \in Nat
  BY <1>1
<1>2. ASSUME NEW n \in Nat, n >= 1, n <= Len(data)
      PROVE  /\ SubSeq(data, 1, n)[1] = <<m, 1>>
             /\ SubSeq(data, 1, n) \in Seq(Config \X Nat) /\ Len(SubSeq(data, 1, n)) = n
             /\ \A i \in 1..n : SubSeq(data, 1, n)[i] = data[i]
  <2>1. \A i \in 1..n : data[i] \in Config \X Nat
    BY <1>m, <1>2, ElementOfSeq
  <2>2. 1 \in Int /\ n \in Int
    BY <1>2
  <2>3. /\ SubSeq(data, 1, n) \in Seq(Config \X Nat)
        /\ Len(SubSeq(data, 1, n)) = (IF 1 <= n THEN n - 1 + 1 ELSE 0)
        /\ \A i \in 1..n - 1 + 1 : SubSeq(data, 1, n)[i] = data[1 + i - 1]
    BY <2>1, <2>2, SubSeqProperties
  <2>4. \A i \in 1..n : SubSeq(data, 1, n)[i] = data[i]
    BY <1>2, <2>3
  <2> QED
    BY <1>m, <1>2, <2>3, <2>4
<1>3. ASSUME NEW c \in Decoded
      PROVE  c = m
  <2>1. c \in Config /\ Len(Text(c)) <= Len(data) /\ SubSeq(data, 1, Len(Text(c))) = Text(c)
    BY <1>1 DEF Decoded, StartsWith
  <2>2. Text(c)[1] = <<c, 1>> /\ Len(Text(c)) \in Nat /\ Len(Text(c)) >= 1
    BY <1>1, <2>1
  <2>3. <<c, 1>> = <<m, 1>>
    BY <1>2, <2>1, <2>2
  <2> QED
    BY <2>3
<1>4. m \in Decoded
  <2>1. SubSeq(data, 1, Len(Text(m))) = Text(m)
    <3>1. Len(Text(m)) \in Nat /\ Len(Text(m)) >= 1 /\ Len(Text(m)) <= Len(data)
      BY <1>1
    <3> QED
      BY <1>1, <1>2, <3>1, SeqEqual
  <2> QED
    BY <1>1, <2>1 DEF Decoded, StartsWith
<1> QED
  BY <1>3, <1>4

LEMMA EmptyDecodesNothing ==
    ASSUME data = <<>>
    PROVE  Decoded = {}
<1> SUFFICES ASSUME NEW c \in Decoded PROVE FALSE
  OBVIOUS
<1>1. c \in Config /\ Text(c) \in Seq(Config \X Nat) /\ 0 >= Len(Text(c))
  BY TextIsSeq, EmptySeq DEF Decoded, StartsWith
<1>2. DOMAIN Text(c) = {}
  BY <1>1, LenProperties
<1>3. DOMAIN Text(c) = 1..Cells(c) /\ Cells(c) \in Nat /\ Cells(c) >= 1
  BY DEF Text, Cells
<1> QED
  BY <1>2, <1>3

\* What a program may hold and find, from its look for the file to the save.
Turn(p) ==
    /\ at[p] = "create" => ~exists
    /\ at[p] = "encode" => exists /\ data = <<>> /\ meant = Default
    /\ at[p] \in {"ask", "save"} => exists /\ data = Text(meant)
    /\ at[p] = "write" => exists /\ data = <<>>
    /\ at[p] = "ask" => cfg[p] = meant
    /\ at[p] \in {"save", "write"} =>
          cfg[p].token # 0 /\ cfg[p] = [meant EXCEPT !.token = cfg[p].token]

\* The file between saves.
FileMeant ==
    /\ ~exists => data = <<>> /\ meant = Default /\ ~torn
    /\ torn => data = <<>>
    /\ exists /\ ~Writing /\ ~torn => data = Text(meant)

\* The inductive invariant: at most one program is between reading and saving.
TurnsInv ==
    /\ \A p \in Programs :
          at[p] \in {"out", "stat", "open", "create", "encode"} => cfg[p] = Default
    /\ ~overlap => ~Overlapping /\ FileMeant /\ \A p \in Programs : Turn(p)

LEMMA TurnsEnough ==
    ASSUME StoreTypeOK, TurnsInv
    PROVE  TurnsLoseNothing
<1>1. meant \in Config
  BY DEF StoreTypeOK
<1> QED
  BY <1>1, TextDecodes DEF TurnsInv, FileMeant, TurnsLoseNothing

\* A program that was not writing goes where it will not save.
LEMMA QuietTurn ==
    ASSUME StoreTypeOK, TurnsInv, NEW p \in Programs, NEW place \in Places,
           Goto(p, place), UNCHANGED <<exists, data, meant, torn>>,
           at[p] \notin {"encode", "write"}, place \notin Saving,
           \A q \in Programs \ {p} : cfg'[q] = cfg[q],
           place \in {"out", "stat", "open"} => cfg'[p] = Default
    PROVE  TurnsInv'
<1>1. at'[p] = place /\ \A q \in Programs \ {p} : at'[q] = at[q]
  BY GotoTyped
<1>2. ~overlap' => ~overlap /\ ~Overlapping'
  BY DEF Goto
<1>3. Writing => Writing'
  BY <1>1 DEF Writing
<1>4. ~overlap' => FileMeant'
  BY <1>2, <1>3 DEF TurnsInv, FileMeant, Text, Cells
<1>5. \A q \in Programs \ {p} : ~overlap' => Turn(q)'
  BY <1>1, <1>2 DEF TurnsInv, Turn, Text, Cells
<1>6. Turn(p)'
  BY <1>1 DEF Turn, Saving
<1>7. \A q \in Programs :
          at'[q] \in {"out", "stat", "open", "create", "encode"} => cfg'[q] = Default
  BY <1>1 DEF TurnsInv, Saving
<1> QED
  BY <1>2, <1>4, <1>5, <1>6, <1>7 DEF TurnsInv

\* A program that might save, or now may, is the only one unless turns overlap.
LEMMA WholeTurn ==
    ASSUME StoreTypeOK, TurnsInv, NEW p \in Programs, NEW place \in Places,
           Goto(p, place), at[p] \in Saving \/ place \in Saving,
           \A q \in Programs \ {p} : cfg'[q] = cfg[q],
           place \in {"out", "stat", "open", "create", "encode"} => cfg'[p] = Default,
           /\ ~overlap
           /\ FileMeant /\ Turn(p)
           /\ \A q \in Programs \ {p} : at[q] \notin Saving
           => FileMeant' /\ Turn(p)'
    PROVE  TurnsInv'
<1>1. at'[p] = place /\ \A q \in Programs \ {p} : at'[q] = at[q]
  BY GotoTyped
<1>2. ~overlap' => ~overlap /\ ~Overlapping'
  BY DEF Goto
<1>3. ~overlap' => \A q \in Programs \ {p} : at[q] \notin Saving
  BY <1>1, <1>2 DEF Overlapping, TurnsInv
<1>4. ~overlap' => FileMeant' /\ Turn(p)'
  BY <1>2, <1>3 DEF TurnsInv
<1>5. \A q \in Programs \ {p} : ~overlap' => Turn(q)'
  BY <1>1, <1>3 DEF Turn, Saving
<1>6. \A q \in Programs :
          at'[q] \in {"out", "stat", "open", "create", "encode"} => cfg'[q] = Default
  BY <1>1 DEF TurnsInv
<1> QED
  BY <1>2, <1>4, <1>5, <1>6 DEF TurnsInv

\* What a program decodes while nobody may save is what was meant.
LEMMA FoundIsMeant ==
    ASSUME StoreTypeOK, FileMeant, ~Writing, NEW c \in Decoded
    PROVE  exists /\ ~torn /\ data = Text(meant) /\ c = meant
<1>1. data # <<>>
  BY EmptyDecodesNothing
<1>2. exists /\ ~torn /\ data = Text(meant)
  BY <1>1 DEF FileMeant
<1> QED
  BY <1>2, TextDecodes DEF StoreTypeOK

LEMMA CreateTurn ==
    ASSUME StoreTypeOK, TurnsInv, NEW p \in Programs, NEW from, NEW to,
           Create(p, from, to), <<from, to>> \in {<<"create", "encode">>, <<"save", "write">>}
    PROVE  TurnsInv'
<1>0. /\ to \in Places /\ "failed" \in Places /\ at[p] = from /\ at[p] \in Saving
      /\ at[p] \notin {"encode", "write"} /\ "failed" \notin Saving
      /\ UNCHANGED <<cfg, meant, torn>>
  BY DEF Places, Saving, Create
<1>1. CASE exists' = TRUE /\ data' = <<>> /\ Goto(p, to)
  <2>1. at'[p] = to
    BY <1>0, <1>1, GotoTyped
  <2>2. to = "encode" => cfg'[p] = Default
    BY <1>0 DEF TurnsInv
  <2>3. Writing'
    BY <2>1 DEF Writing
  <2>4. FileMeant'
    BY <1>1, <2>3 DEF FileMeant
  <2>5. FileMeant /\ Turn(p) => Turn(p)'
    BY <1>0, <1>1, <2>1 DEF Turn, FileMeant
  <2> QED
    BY <1>0, <1>1, <2>2, <2>4, <2>5, WholeTurn
<1>2. CASE Goto(p, "failed") /\ UNCHANGED fileVars
  BY <1>0, <1>2, QuietTurn DEF fileVars
<1> QED
  BY <1>1, <1>2 DEF Create

\* Over an empty file a save writes its text alone.
LEMMA OverEmpty ==
    ASSUME NEW t \in Seq(Config \X Nat), data = <<>>
    PROVE  t \o SubSeq(data, Len(t) + 1, Len(data)) = t
<1>1. PICK rest \in Seq(Config \X Nat) : rest = SubSeq(data, Len(t) + 1, Len(data))
  BY EmptySeq, RestIsSeq
<1>2. rest = <<>>
  <2>1. Len(t) \in Nat /\ Len(data) = 0
    BY LenProperties, EmptySeq
  <2>2. Len(t) + 1 \in Int /\ 0 \in Int /\ ~(Len(t) + 1 <= 0)
    BY <2>1
  <2>3. \A i \in Len(t) + 1 .. 0 : data[i] \in Config \X Nat
    BY <2>2
  <2>4. Len(rest) = 0
    BY <1>1, <2>1, <2>2, <2>3, SubSeqProperties
  <2> QED
    BY <1>1, <2>4, EmptySeq
<1> QED
  BY <1>1, <1>2, ConcatEmptySeq

LEMMA EncodeTurn ==
    ASSUME StoreTypeOK, TurnsInv, NEW p \in Programs, NEW from, NEW to,
           Encode(p, from, to),
           <<from, to>> \in {<<"encode", "ask">>, <<"encode", "device">>, <<"write", "done">>}
    PROVE  TurnsInv'
<1>0. /\ to \in Places /\ "failed" \in Places /\ at[p] = from /\ at[p] \in Saving
      /\ to \notin {"out", "stat", "open", "create", "encode", "write", "save"}
      /\ cfg' = cfg /\ exists' = exists
  BY DEF Places, Saving, Encode
<1>1. PICK c \in Config : c = cfg[p]
  BY DEF StoreTypeOK
<1>2. PICK text \in Seq(Config \X Nat) : text = Text(c)
  BY TextIsSeq
<1>3. ASSUME FileMeant, Turn(p)
      PROVE  /\ exists /\ data = <<>>
             /\ c = [meant EXCEPT !.token = c.token]
             /\ from = "encode" => c = meant /\ c.token = 0
             /\ from = "write" => c.token # 0
  <2>1. exists /\ data = <<>>
    BY <1>0, <1>3 DEF Turn
  <2>2. CASE from = "encode"
    <3>1. c = Default /\ meant = Default
      BY <1>0, <1>1, <1>3, <2>2 DEF TurnsInv, Turn
    <3> QED
      BY <2>1, <2>2, <3>1 DEF Default
  <2>3. CASE from = "write"
    BY <1>0, <1>1, <1>3, <2>1, <2>3 DEF Turn
  <2> QED
    BY <2>2, <2>3
<1>4. CASE /\ Goto(p, to) /\ torn' = FALSE
           /\ data' = text \o SubSeq(data, Len(text) + 1, Len(data))
           /\ meant' = IF c.token = 0 THEN meant ELSE [meant EXCEPT !.token = c.token]
  <2>1. at'[p] = to
    BY <1>0, <1>4, GotoTyped
  <2>2. ASSUME FileMeant, Turn(p)
        PROVE  exists' /\ meant' = c /\ data' = Text(meant')
    <3>1. exists /\ data = <<>>
      BY <1>3, <2>2
    <3>2. meant' = c
      BY <1>0, <1>3, <1>4, <2>2
    <3>3. data' = text
      BY <1>4, <3>1, OverEmpty
    <3>4. Text(meant') = Text(c)
      BY <3>2
    <3> QED
      BY <1>0, <1>2, <3>1, <3>2, <3>3, <3>4
  <2>3. ASSUME FileMeant, Turn(p)
        PROVE  FileMeant' /\ Turn(p)'
    <3>1. FileMeant'
      BY <1>4, <2>2, <2>3 DEF FileMeant
    <3>2. Turn(p)'
      BY <1>0, <1>1, <2>1, <2>2, <2>3 DEF Turn
    <3> QED
      BY <3>1, <3>2
  <2> QED
    BY <1>0, <1>4, <2>3, WholeTurn
<1>5. CASE torn' = TRUE /\ Goto(p, "failed") /\ UNCHANGED <<data, meant>>
  <2>1. at'[p] = "failed"
    BY <1>0, <1>5, GotoTyped
  <2>2. Turn(p)'
    BY <2>1 DEF Turn
  <2>3. FileMeant /\ Turn(p) => FileMeant'
    BY <1>0, <1>3, <1>5 DEF FileMeant
  <2> QED
    BY <1>0, <1>5, <2>2, <2>3, WholeTurn
<1> QED
  BY <1>1, <1>2, <1>4, <1>5 DEF Encode

LEMMA ReadTurn ==
    ASSUME StoreTypeOK, TurnsInv, NEW p \in Programs, NEW to \in {"ask", "device"},
           ReadConfigFile(p, to)
    PROVE  TurnsInv'
<1>0. /\ {"open", "create", "failed"} \subseteq Places /\ to \in Places
      /\ "create" \in Saving /\ "ask" \in Saving
      /\ "open" \notin Saving /\ "failed" \notin Saving /\ "device" \notin Saving
  BY DEF Places, Saving
<1>1. CASE Stat(p)
  <2>1. at[p] = "stat" /\ UNCHANGED <<exists, data, meant, torn, cfg>> /\ cfg[p] = Default
    BY <1>1 DEF Stat, fileVars, TurnsInv
  <2>2. CASE exists
    <3>1. Goto(p, "open")
      BY <1>1, <2>2 DEF Stat
    <3> QED
      BY <1>0, <2>1, <3>1, QuietTurn
  <2>3. CASE ~exists
    <3>1. Goto(p, "create")
      BY <1>1, <2>3 DEF Stat
    <3>2. at'[p] = "create" /\ \A q \in Programs \ {p} : at'[q] = at[q]
      BY <1>0, <3>1, GotoTyped
    <3>3. Turn(p)'
      BY <2>1, <2>3, <3>2 DEF Turn
    <3>4. FileMeant => FileMeant'
      BY <2>1, <2>3 DEF FileMeant
    <3> QED
      BY <1>0, <2>1, <3>1, <3>3, <3>4, WholeTurn
  <2> QED
    BY <2>2, <2>3
<1>2. CASE Create(p, "create", "encode")
  BY <1>2, CreateTurn
<1>3. CASE Encode(p, "encode", to)
  BY <1>3, EncodeTurn
<1>4. CASE Decode(p, to)
  <2>1. at[p] = "open" /\ UNCHANGED <<exists, data, meant, torn>>
    BY <1>4 DEF Decode, fileVars
  <2>2. CASE Goto(p, "failed") /\ UNCHANGED cfg
    BY <1>0, <2>1, <2>2, QuietTurn
  <2>3. CASE to = "device" /\ Goto(p, to) /\ UNCHANGED cfg
    BY <1>0, <2>1, <2>3, QuietTurn
  <2>4. ASSUME to = "ask", Goto(p, to),
               NEW c \in Decoded, cfg' = [cfg EXCEPT ![p] = c]
        PROVE  TurnsInv'
    <3>1. cfg'[p] = c /\ \A q \in Programs \ {p} : cfg'[q] = cfg[q]
      BY <2>4 DEF StoreTypeOK
    <3>2. at'[p] = "ask"
      BY <1>0, <2>4, GotoTyped
    <3>3. ASSUME FileMeant, \A q \in Programs \ {p} : at[q] \notin Saving
          PROVE  FileMeant' /\ Turn(p)'
      <4>1. ~Writing
        BY <2>1, <3>3 DEF Writing, Saving
      <4>2. exists /\ ~torn /\ data = Text(meant) /\ c = meant
        BY <3>3, <4>1, FoundIsMeant
      <4>3. Text(meant)' = Text(meant)
        BY <2>1 DEF Text, Cells
      <4>4. FileMeant'
        BY <2>1, <4>2, <4>3 DEF FileMeant
      <4>5. Turn(p)'
        BY <2>1, <3>1, <3>2, <4>2, <4>3 DEF Turn
      <4> QED
        BY <4>4, <4>5
    <3> QED
      BY <1>0, <2>4, <3>1, <3>3, WholeTurn
  <2> QED
    BY <1>0, <1>4, <2>2, <2>3, <2>4 DEF Decode
<1> QED
  BY <1>1, <1>2, <1>3, <1>4 DEF ReadConfigFile

LEMMA GoneTurn ==
    ASSUME StoreTypeOK, TurnsInv, NEW p \in Programs, Gone(p)
    PROVE  TurnsInv'
<1>1. /\ "out" \in Places /\ "out" \notin Saving /\ Goto(p, "out")
      /\ UNCHANGED <<exists, data, meant>>
  BY DEF Places, Saving, Gone, fileVars
<1>2. cfg'[p] = Default /\ \A q \in Programs \ {p} : cfg'[q] = cfg[q]
  BY DEF Gone, StoreTypeOK
<1>3. CASE at[p] \in {"encode", "write"}
  <2>1. torn' = TRUE /\ at[p] \in Saving
    BY <1>3 DEF Gone, Saving
  <2>2. at'[p] = "out"
    BY <1>1, GotoTyped
  <2>3. Turn(p)'
    BY <2>2 DEF Turn
  <2>4. FileMeant /\ Turn(p) => FileMeant'
    BY <1>1, <1>3, <2>1 DEF FileMeant, Turn
  <2> QED
    BY <1>1, <1>2, <2>1, <2>3, <2>4, WholeTurn
<1>4. CASE at[p] \notin {"encode", "write"}
  <2>1. torn' = torn
    BY <1>4 DEF Gone, StoreTypeOK
  <2> QED
    BY <1>1, <1>2, <1>4, <2>1, QuietTurn
<1> QED
  BY <1>3, <1>4

LEMMA BeginTurn ==
    ASSUME StoreTypeOK, TurnsInv, NEW p \in Programs, Begin(p)
    PROVE  TurnsInv'
<1>1. "stat" \in Places /\ "stat" \notin Saving
  BY DEF Places, Saving
<1>2. cfg[p] = Default
  BY DEF Begin, TurnsInv
<1> QED
  BY <1>1, <1>2, QuietTurn DEF Begin, fileVars

LEMMA LoginTurn ==
    ASSUME StoreTypeOK, TurnsInv, NEW p \in Programs, Login(p)
    PROVE  TurnsInv'
<1>1. /\ "save" \in Places /\ "save" \in Saving /\ Goto(p, "save") /\ at[p] = "ask"
      /\ UNCHANGED <<exists, data, meant, torn>>
  BY DEF Places, Saving, Login, fileVars
<1>2. issued' # 0
  BY ConfigAssumption DEF Login, StoreTypeOK
<1>3. /\ cfg'[p] = [cfg[p] EXCEPT !.token = issued'] /\ cfg[p] \in Config
      /\ \A q \in Programs \ {p} : cfg'[q] = cfg[q]
  BY DEF Login, StoreTypeOK
<1>4. cfg'[p].token = issued'
  BY <1>3 DEF Config
<1>5. at'[p] = "save" /\ \A q \in Programs \ {p} : at'[q] = at[q]
  BY <1>1, GotoTyped
<1>6. Text(meant)' = Text(meant)
  BY <1>1 DEF Text, Cells
<1>7. FileMeant /\ Turn(p) => FileMeant'
  BY <1>1, <1>6 DEF FileMeant, Turn
<1>8. Turn(p) => Turn(p)'
  BY <1>1, <1>2, <1>3, <1>4, <1>5, <1>6 DEF Turn
<1> QED
  BY <1>1, <1>3, <1>7, <1>8, WholeTurn

LEMMA ToolTurn ==
    ASSUME StoreTypeOK, TurnsInv, NEW p \in Programs, Tool(p)
    PROVE  TurnsInv'
<1>1. CASE Begin(p) \/ Gone(p) \/ Login(p)
  BY <1>1, BeginTurn, GoneTurn, LoginTurn
<1>2. CASE ReadConfigFile(p, "ask")
  BY <1>2, ReadTurn
<1>3. CASE Create(p, "save", "write")
  BY <1>3, CreateTurn
<1>4. CASE Encode(p, "write", "done")
  BY <1>4, EncodeTurn
<1> QED
  BY <1>1, <1>2, <1>3, <1>4 DEF Tool

LEMMA UserTurn ==
    ASSUME StoreTypeOK, TurnsInv, Edit \/ RemoveFile
    PROVE  TurnsInv'
<1>1. CASE Edit
  <2>1. PICK c \in Decoded : data' = Text([c EXCEPT !.device = TRUE])
    BY <1>1 DEF Edit
  <2>2. /\ exists' = exists /\ torn' = torn /\ at' = at /\ cfg' = cfg
        /\ meant' = [meant EXCEPT !.device = TRUE]
    BY <1>1 DEF Edit
  <2>3. ~overlap' => ~overlap /\ \A p \in Programs : at[p] \notin Saving
    BY <1>1 DEF Edit
  <2>4. ASSUME ~overlap'
        PROVE  ~Overlapping' /\ FileMeant' /\ \A p \in Programs : Turn(p)'
    <3>1. ~Writing /\ FileMeant
      BY <2>3, <2>4 DEF Writing, Saving, TurnsInv
    <3>2. exists /\ ~torn /\ c = meant
      BY <3>1, FoundIsMeant
    <3>3. Text(meant)' = Text([c EXCEPT !.device = TRUE])
      BY <2>2, <3>2 DEF Text, Cells
    <3>4. FileMeant'
      BY <2>1, <2>2, <3>2, <3>3 DEF FileMeant
    <3>5. ~Overlapping' /\ \A p \in Programs : Turn(p)'
      BY <2>2, <2>3, <2>4 DEF Overlapping, Turn, Saving
    <3> QED
      BY <3>4, <3>5
  <2> QED
    BY <2>2, <2>4 DEF TurnsInv
<1>2. CASE RemoveFile
  <2>1. /\ exists' = FALSE /\ data' = <<>> /\ torn' = FALSE /\ meant' = Default
        /\ UNCHANGED <<cfg, at, overlap>>
        /\ \A p \in Programs : at[p] \notin Saving
    BY <1>2 DEF RemoveFile
  <2>2. FileMeant'
    BY <2>1 DEF FileMeant
  <2>3. ~Overlapping' /\ \A p \in Programs : Turn(p)'
    BY <2>1 DEF Overlapping, Turn, Saving
  <2> QED
    BY <2>1, <2>2, <2>3 DEF TurnsInv
<1> QED
  BY <1>1, <1>2

LEMMA LifeStepTurn ==
    ASSUME LifeTypeOK, TurnsInv, [LifeNext]_daemonVars
    PROVE  TurnsInv'
<1>0. StoreTypeOK /\ Daemons \subseteq Programs
  BY StoreOfLife, LifecycleAssumption
<1> DEFINE Later == {"configure", "connect", "details", "resolver", "running", "takedown",
                     "close", "failed"}
<1>p. Later \subseteq Places /\ Later \cap (Saving \cup {"out", "stat", "open"}) = {}
  BY DEF Places, Saving
<1>1. ASSUME NEW d \in Daemons, NEW from, NEW to \in Later, Step(d, from, to),
             from \notin {"encode", "write"}
      PROVE  TurnsInv'
  <2>1. to \in Places /\ to \notin Saving /\ to \notin {"out", "stat", "open"}
    BY <1>p
  <2> HIDE DEF Later
  <2> QED
    BY <1>0, <1>1, <2>1, QuietTurn DEF Step, fileVars
<1>2. ASSUME NEW d \in Daemons, Startup(d)
      PROVE  TurnsInv'
  <2>1. CASE ReadConfigFile(d, "device")
    BY <1>0, <2>1, ReadTurn
  <2>2. CASE NewDevice(d) \/ Configure(d)
    BY <1>1, <2>2 DEF NewDevice, AddFails, Configure
  <2>3. CASE Request(d, "connect", "details") \/ Request(d, "details", "resolver")
    BY <1>1, <2>3 DEF Request
  <2>4. CASE BringupDns(d)
    BY <1>1, <2>4 DEF BringupDns
  <2> QED
    BY <1>2, <2>1, <2>2, <2>3, <2>4 DEF Startup
<1>3. ASSUME NEW d \in Daemons, Main(d) \/ Kill(d)
      PROVE  TurnsInv'
  <2>1. CASE Gone(d)
    BY <1>0, <2>1, GoneTurn
  <2> QED
    BY <1>1, <1>3, <2>1 DEF Main, TakeSignal, TakedownDns, CloseDevice, Return, Kill, Ends
<1>4. ASSUME NEW d \in Daemons, Start(d)
      PROVE  TurnsInv'
  BY <1>0, <1>4, BeginTurn DEF Start
<1>5. ASSUME UNCHANGED storeVars
      PROVE  TurnsInv'
  BY <1>5 DEF TurnsInv, Turn, FileMeant, Overlapping, Writing, Text, Cells, storeVars, fileVars
<1>6. ASSUME NEW p \in Programs \ Daemons, Tool(p)
      PROVE  TurnsInv'
  BY <1>0, <1>6, ToolTurn
<1>7. CASE Edit \/ RemoveFile
  BY <1>0, <1>7, UserTurn
<1> QED
  BY <1>2, <1>3, <1>4, <1>5, <1>6, <1>7 DEF LifeNext, Interrupt, CleanUp, daemonVars

\* Programs that take turns lose nothing, however many there are, wherever their
\* calls fail and whenever they are killed.
THEOREM TurnsAlwaysLoseNothing == LifeSpec => []TurnsLoseNothing
<1>1. LifeInit => TurnsInv
  BY DEF LifeInit, StoreInit, TurnsInv, Turn, FileMeant, Overlapping, Saving
<1>2. LifeTypeOK /\ TurnsInv => TurnsLoseNothing
  BY StoreOfLife, TurnsEnough
<1> QED
  BY <1>1, <1>2, LifeStepTurn, LifeTypeCorrect, PTL DEF LifeSpec
=============================================================================
