------------------------------ MODULE UartLog ------------------------------
(***************************************************************************)
(* The log output (src/src/uart_log.rs).                                   *)
(*                                                                         *)
(* Both cores log.  A record is formatted on its core and then, in one     *)
(* critical section, put into PIPE whole or not at all, behind a notice of *)
(* the records dropped before it.  A task on core 0 moves PIPE to the UART *)
(* chunk by chunk.                                                         *)
(*                                                                         *)
(* A byte stands for its place in its line: the record, whether the line   *)
(* is the record's or the notice in front of it, and how far in it is.     *)
(***************************************************************************)
EXTENDS Naturals, Sequences, FiniteSets

CONSTANTS
  Cores,
  PIPE_LEN,     \* capacity of PIPE, in bytes
  LINE_LEN,     \* longest formatted record
  NOTICE_LEN,   \* length of a notice
  CHUNK_LEN,    \* bytes the task takes at a time
  U32_MAX,      \* where the count of dropped records saturates
  MaxRecords    \* bound: records logged

ASSUME LogAssumption ==
  /\ IsFiniteSet(Cores)
  /\ PIPE_LEN \in Nat /\ CHUNK_LEN \in Nat \ {0}
  /\ LINE_LEN \in Nat \ {0} /\ NOTICE_LEN \in Nat \ {0}
  /\ U32_MAX \in Nat \ {0} /\ MaxRecords \in Nat

VARIABLES
  pc,         \* where each core is in log
  line,       \* the bytes each core has still to push
  loaded,     \* the count of dropped records each core has read
  holder,     \* the cores inside the critical section
  pipe,       \* PIPE
  dropped,    \* DROPPED
  chunk,      \* what the task is writing to the UART
  sent,       \* history: the last byte sent
  logged,     \* history: records logged,
  kept,       \* put into PIPE,
  noticed,    \* and reported by a notice as dropped
  saturated   \* history: DROPPED has been at its limit

coreVars == <<pc, line, loaded, holder>>
countVars == <<logged, kept, noticed, saturated>>
vars == <<coreVars, pipe, dropped, chunk, sent, countVars>>

Byte == [rec : 0..MaxRecords, kind : {"record", "notice"}, at : Nat, of : Nat]

\* A line of n bytes.
Line(rec, kind, n) ==
  [k \in 1..n |-> [rec |-> rec, kind |-> kind, at |-> k, of |-> n]]

Free == PIPE_LEN - Len(pipe)

Init ==
  /\ pc = [c \in Cores |-> "idle"] /\ line = [c \in Cores |-> <<>>]
  /\ loaded = [c \in Cores |-> 0] /\ holder = {}
  /\ pipe = <<>> /\ dropped = 0 /\ chunk = <<>>
  /\ sent = [rec |-> 0, kind |-> "record", at |-> 1, of |-> 1]
  /\ logged = 0 /\ kept = 0 /\ noticed = 0 /\ saturated = FALSE

-----------------------------------------------------------------------------
(* Faulty variants, each a slip the code could have made; the properties    *)
(* below are confirmed to tell them from the real definitions.              *)

\* A critical section of this core only.
EnterOneCore(c) ==
  /\ pc[c] = "formatted"
  /\ holder' = holder \cup {c}
  /\ loaded' = [loaded EXCEPT ![c] = dropped]
  /\ pc' = [pc EXCEPT ![c] = "check"]
  /\ UNCHANGED <<line, pipe, dropped, chunk, sent, countVars>>

\* The notice is not counted in.
FitsWithoutNotice(c) == Len(line[c]) <= Free

\* fetch_add wraps.
DropCountWrapping(n) == n + 1

-----------------------------------------------------------------------------
(* log *)

\* A record of some length is formatted; LineBuf has cut it to LINE_LEN.
Format(c) ==
  /\ pc[c] = "idle" /\ logged < MaxRecords
  /\ pc' = [pc EXCEPT ![c] = "formatted"]
  /\ logged' = logged + 1
  /\ \E n \in 1..LINE_LEN : line' = [line EXCEPT ![c] = Line(logged + 1, "record", n)]
  /\ UNCHANGED <<loaded, holder, pipe, dropped, chunk, sent, kept, noticed, saturated>>

\* The critical section is entered, on both cores' behalf.
Enter(c) ==
  /\ pc[c] = "formatted" /\ holder = {}
  /\ holder' = {c}
  /\ loaded' = [loaded EXCEPT ![c] = dropped]
  /\ pc' = [pc EXCEPT ![c] = "check"]
  /\ UNCHANGED <<line, pipe, dropped, chunk, sent, countVars>>

NoticeLen(c) == IF loaded[c] = 0 THEN 0 ELSE NOTICE_LEN

Fits(c) == NoticeLen(c) + Len(line[c]) <= Free

\* saturating_add
DropCount(n) == IF n < U32_MAX THEN n + 1 ELSE n

\* No room: the record is dropped and counted.
Drop(c) ==
  /\ pc[c] = "check" /\ ~Fits(c)
  /\ dropped' = DropCount(loaded[c])
  /\ saturated' = (saturated \/ loaded[c] = U32_MAX)
  /\ pc' = [pc EXCEPT ![c] = "idle"] /\ holder' = holder \ {c}
  /\ line' = [line EXCEPT ![c] = <<>>]
  /\ UNCHANGED <<loaded, pipe, chunk, sent, logged, kept, noticed>>

\* Room: the notice, if any, goes first.
Keep(c) ==
  /\ pc[c] = "check" /\ Fits(c)
  /\ pc' = [pc EXCEPT ![c] = "push"]
  /\ line' = [line EXCEPT ![c] = Line(@[1].rec, "notice", NoticeLen(c)) \o @]
  /\ UNCHANGED <<loaded, holder, pipe, dropped, chunk, sent, countVars>>

\* push: try_write takes a part (not across the pipe's wraparound), or fails.
Push(c) ==
  /\ pc[c] = "push" /\ line[c] # <<>>
  /\ IF Free = 0 THEN line' = [line EXCEPT ![c] = <<>>] /\ UNCHANGED pipe
     ELSE \E n \in 1..Len(line[c]) :
            /\ n <= Free
            /\ pipe' = pipe \o SubSeq(line[c], 1, n)
            /\ line' = [line EXCEPT ![c] = SubSeq(@, n + 1, Len(@))]
  /\ UNCHANGED <<pc, loaded, holder, dropped, chunk, sent, countVars>>

\* DROPPED is reset and the critical section left.
Leave(c) ==
  /\ pc[c] = "push" /\ line[c] = <<>>
  /\ dropped' = 0
  /\ kept' = kept + 1 /\ noticed' = noticed + loaded[c]
  /\ pc' = [pc EXCEPT ![c] = "idle"] /\ holder' = holder \ {c}
  /\ UNCHANGED <<line, loaded, pipe, chunk, sent, logged, saturated>>

Log(c) == Format(c) \/ Enter(c) \/ Drop(c) \/ Keep(c) \/ Push(c) \/ Leave(c)

-----------------------------------------------------------------------------
(* task *)

\* PIPE.read, a critical section of its own.
Read ==
  /\ chunk = <<>> /\ pipe # <<>> /\ holder = {}
  /\ \E n \in 1..Len(pipe) :
       /\ n <= CHUNK_LEN
       /\ chunk' = SubSeq(pipe, 1, n)
       /\ pipe' = SubSeq(pipe, n + 1, Len(pipe))
  /\ UNCHANGED <<coreVars, dropped, sent, countVars>>

\* write_all, byte by byte.
Transmit ==
  /\ chunk # <<>>
  /\ sent' = Head(chunk) /\ chunk' = Tail(chunk)
  /\ UNCHANGED <<coreVars, pipe, dropped, countVars>>

Next == (\E c \in Cores : Log(c)) \/ Read \/ Transmit

Spec == Init /\ [][Next]_vars

-----------------------------------------------------------------------------
(* Properties *)

TypeOK ==
  /\ pc \in [Cores -> {"idle", "formatted", "check", "push"}]
  /\ line \in [Cores -> Seq(Byte)]
  /\ loaded \in [Cores -> 0..U32_MAX]
  /\ holder \subseteq Cores
  /\ pipe \in Seq(Byte) /\ Len(pipe) <= PIPE_LEN
  /\ dropped \in 0..U32_MAX
  /\ chunk \in Seq(Byte) /\ sent \in Byte
  /\ logged \in 0..MaxRecords /\ kept \in Nat /\ noticed \in Nat
  /\ saturated \in BOOLEAN

(***************************************************************************)
(* What goes out of the UART is whole lines, never cut short or mixed with *)
(* the other core's, and a notice comes right in front of the record that  *)
(* it was put with (uart_log.rs: "whole or not at all, so lines from the   *)
(* two cores never interleave").                                           *)
(***************************************************************************)
Follows(a, b) ==
  IF a.at = a.of
  THEN b.at = 1 /\ (a.kind = "notice" => b.rec = a.rec /\ b.kind = "record")
  ELSE b.rec = a.rec /\ b.kind = a.kind /\ b.of = a.of /\ b.at = a.at + 1

Stream == <<sent>> \o chunk \o pipe

Chain(s) == \A k \in 1..(Len(s) - 1) : Follows(s[k], s[k + 1])

Complete(s) == LET b == s[Len(s)] IN b.at = b.of /\ b.kind = "record"

WholeLines == Chain(Stream) /\ (holder = {} => Complete(Stream))

(***************************************************************************)
(* No record gets lost silently: each is put into the pipe, reported as    *)
(* dropped, or counted to be reported, but for those on their way          *)
(* (uart_log.rs: "the number of dropped records is reported in front of    *)
(* the next one that fits").                                               *)
(***************************************************************************)
Idle == \A c \in Cores : pc[c] = "idle"

Accounted == Idle /\ ~saturated => logged = kept + noticed + dropped
=============================================================================
