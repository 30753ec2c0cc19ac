----------------------------- MODULE ConfigStore ----------------------------
(***************************************************************************)
(* The configuration file (internal/config/config.go), which the daemon    *)
(* and the command line tool read and write without a lock.                *)
(*                                                                         *)
(* A save truncates the file and then writes its JSON at offset 0 with one *)
(* write; a read looks for the file, opens it and decodes the FIRST value  *)
(* in it.  Another program may act between any two of these.  The file is  *)
(* a sequence of cells, some octets of one text each: a save over a longer *)
(* text leaves the end of that text behind its own.                        *)
(*                                                                         *)
(* Of the settings two are modelled: the token, which a login sets, and    *)
(* whether the user has entered this device, which no program does.        *)
(***************************************************************************)
EXTENDS Naturals, Sequences

CONSTANTS
    Programs,     \* processes that use the file
    MaxTokens     \* BOUND on the tokens the server gives

ASSUME ConfigAssumption == MaxTokens \in Nat

VARIABLES
    exists,   \* there is a file
    data,     \* its cells, <<>> when it does not exist
    cfg,      \* config.Cfg of each program, while it may still save it
    at,       \* where each program is
    issued,   \* how many tokens the server has given
    meant,    \* history: the token of the last login that saved one, and
              \* what the user entered
    torn,     \* history: a save ended between truncating and writing, and
              \* none has ended since
    overlap   \* history: two programs were between reading the file and
              \* saving it, or the user changed it while one was

fileVars == <<exists, data>>
storeVars == <<fileVars, cfg, at, issued, meant, torn, overlap>>

Config == [token : 0..MaxTokens, device : BOOLEAN]

Default == [token |-> 0, device |-> FALSE]

Cells(c) == 1 + (IF c.token = 0 THEN 0 ELSE 1) + (IF c.device THEN 1 ELSE 0)

Text(c) == [i \in 1..Cells(c) |-> <<c, i>>]

\* A faulty reader, which takes the whole file for one value.
BugStartsWith(t) == data = t

StartsWith(t) == Len(data) >= Len(t) /\ SubSeq(data, 1, Len(t)) = t

Decoded == {c \in Config : StartsWith(Text(c))}

\* Places from which a program may go on to save what it holds.
Saving == {"create", "encode", "ask", "save", "write"}

Overlapping == \E p, q \in Programs : p # q /\ at[p] \in Saving /\ at[q] \in Saving

Goto(p, place) ==
    /\ at' = [at EXCEPT ![p] = place]
    /\ overlap' = (overlap \/ Overlapping')

-----------------------------------------------------------------------------
(* SaveConfigFile                                                          *)

\* MkdirAll or Create may fail, and nothing has changed.
Create(p, from, to) ==
    /\ at[p] = from
    /\ \/ exists' = TRUE /\ data' = <<>> /\ Goto(p, to)
       \/ Goto(p, "failed") /\ UNCHANGED fileVars
    /\ UNCHANGED <<cfg, issued, meant, torn>>

\* The descriptor stands at offset 0, whatever others wrote since.  Encode may
\* fail, and the file stays as Create left it.
Encode(p, from, to) ==
    /\ at[p] = from
    /\ LET text == Text(cfg[p])
       IN  \/ /\ data' = text \o SubSeq(data, Len(text) + 1, Len(data))
              /\ torn' = FALSE
              /\ meant' = IF cfg[p].token = 0 THEN meant
                          ELSE [meant EXCEPT !.token = cfg[p].token]
              /\ Goto(p, to)
           \/ /\ torn' = TRUE
              /\ Goto(p, "failed")
              /\ UNCHANGED <<data, meant>>
    /\ UNCHANGED <<exists, cfg, issued>>

-----------------------------------------------------------------------------
(* ReadConfigFile                                                          *)

\* A faulty look: an error of any kind counts for a file that is not there.
BugStat(p) ==
    /\ at[p] = "stat"
    /\ \/ Goto(p, "create")
       \/ exists /\ Goto(p, "open")
    /\ UNCHANGED <<fileVars, cfg, issued, meant, torn>>

\* Only a file that is not there is created.  Other errors of Stat come back
\* from Open.
Stat(p) ==
    /\ at[p] = "stat"
    /\ Goto(p, IF exists THEN "open" ELSE "create")
    /\ UNCHANGED <<fileVars, cfg, issued, meant, torn>>

\* A file without a whole value gives an error.
Decode(p, to) ==
    /\ at[p] = "open"
    /\ \/ /\ \E c \in Decoded : cfg' = IF to \in Saving THEN [cfg EXCEPT ![p] = c] ELSE cfg
          /\ Goto(p, to)
       \/ Decoded = {} /\ Goto(p, "failed") /\ UNCHANGED cfg
    /\ UNCHANGED <<fileVars, issued, meant, torn>>

\* Ends at the given place, or at "failed".
ReadConfigFile(p, to) ==
    \/ Stat(p)
    \/ Create(p, "create", "encode")
    \/ Encode(p, "encode", to)
    \/ Decode(p, to)

-----------------------------------------------------------------------------
(* The start and the end of a program                                      *)

Begin(p) ==
    /\ at[p] = "out"
    /\ Goto(p, "stat")
    /\ UNCHANGED <<fileVars, cfg, issued, meant, torn>>

\* The process is gone, at whatever place it was.
Gone(p) ==
    /\ cfg' = [cfg EXCEPT ![p] = Default]
    /\ torn' = (torn \/ at[p] \in {"encode", "write"})
    /\ Goto(p, "out")
    /\ UNCHANGED <<fileVars, issued, meant>>

-----------------------------------------------------------------------------
(* pikonodectl, and the user                                               *)

\* The server gives a new token.  When it refuses, and after other commands
\* than login, the tool ends (Gone).
Login(p) ==
    /\ at[p] = "ask"
    /\ issued < MaxTokens
    /\ issued' = issued + 1
    /\ cfg' = [cfg EXCEPT ![p].token = issued']
    /\ Goto(p, "save")
    /\ UNCHANGED <<fileVars, meant, torn>>

\* The tool may end at any place: by an error, a signal, or because it is done.
Tool(p) ==
    \/ Begin(p)
    \/ ReadConfigFile(p, "ask")
    \/ Login(p)
    \/ Create(p, "save", "write")
    \/ Encode(p, "write", "done")
    \/ at[p] # "out" /\ Gone(p)

\* The user enters this device.
Edit ==
    /\ exists
    /\ \E c \in Decoded :
          /\ ~c.device
          /\ data' = Text([c EXCEPT !.device = TRUE])
    /\ meant' = [meant EXCEPT !.device = TRUE]
    /\ overlap' = (overlap \/ \E p \in Programs : at[p] \in Saving)
    /\ UNCHANGED <<exists, cfg, at, issued, torn>>

\* The user takes away a file that no program can read.
RemoveFile ==
    /\ exists /\ Decoded = {}
    /\ \A p \in Programs : at[p] \notin Saving \cup {"open"}
    /\ exists' = FALSE
    /\ data' = <<>>
    /\ torn' = FALSE
    /\ meant' = Default
    /\ UNCHANGED <<cfg, at, issued, overlap>>

StoreInit ==
    /\ exists = FALSE
    /\ data = <<>>
    /\ cfg = [p \in Programs |-> Default]
    /\ at = [p \in Programs |-> "out"]
    /\ issued = 0
    /\ meant = Default
    /\ torn = FALSE
    /\ overlap = FALSE

-----------------------------------------------------------------------------

Writing == \E p \in Programs : at[p] \in {"encode", "write"}

\* However saves overlap, the file they leave can be read: only a save that was
\* cut off between truncating and writing spoils it, and the next save that ends
\* repairs it.  A shorter text written over a longer one leaves a tail, which the
\* decoder does not look at.
SavesStayReadable == exists /\ ~Writing /\ ~torn => Decoded # {}

\* Programs that take turns lose nothing: the file has the token of the last
\* login and what the user entered.  Those that do not may: a login writes back
\* all it read before it asked the server, and a first start that found no file
\* writes the defaults over one that is there by then.
TurnsLoseNothing == exists /\ ~Writing /\ ~torn /\ ~overlap => Decoded = {meant}
=============================================================================
