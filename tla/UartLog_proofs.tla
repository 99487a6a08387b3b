--------------------------- MODULE UartLog_proofs ---------------------------
(***************************************************************************)
(* Theorems about UartLog, for every value of its constants.               *)
(***************************************************************************)
EXTENDS UartLog, SequenceTheorems, FiniteSetTheorems, TLAPS

-----------------------------------------------------------------------------
(* The inductive invariant *)

\* At most one core is in the critical section.
Exclusive ==
  /\ \A c \in Cores : c \in holder <=> pc[c] \in {"check", "push"}
  /\ \A c, d \in holder : c = d

\* A formatted record, before its notice is put in front of it.
Record(s) ==
  /\ s # <<>> /\ Chain(s) /\ Complete(s)
  /\ s[1].at = 1 /\ s[1].kind = "record"

\* What a core has still to push carries on from where the pipe ends, and fits.
LinesWell ==
  \A c \in Cores :
    /\ pc[c] \in {"formatted", "check"} => Record(line[c])
    /\ pc[c] = "push" =>
         /\ Chain(Stream \o line[c]) /\ Complete(Stream \o line[c])
         /\ Len(line[c]) <= Free

StreamWell ==
  /\ Chain(Stream)
  /\ (\A c \in Cores : pc[c] # "push") => Complete(Stream)

IInv == TypeOK /\ Exclusive /\ LinesWell /\ StreamWell

-----------------------------------------------------------------------------
(* Lemmas about lines *)

\* Two chains make one, when the second carries on from the first.
LEMMA ChainConcat ==
  ASSUME NEW S, NEW a \in Seq(S), NEW b \in Seq(S), Chain(a), Chain(b),
         a # <<>>, b # <<>>, Follows(a[Len(a)], b[1])
  PROVE  Chain(a \o b)
  <1> DEFINE s == a \o b
  <1>1. /\ Len(a) \in Nat \ {0} /\ Len(b) \in Nat \ {0}
        /\ Len(s) = Len(a) + Len(b)
        /\ \A k \in 1..(Len(a) + Len(b)) :
             s[k] = IF k <= Len(a) THEN a[k] ELSE b[k - Len(a)]
    BY ConcatProperties, EmptySeq
  <1> HIDE DEF s
  <1>2. ASSUME NEW k \in 1..(Len(s) - 1) PROVE Follows(s[k], s[k + 1])
    <2>1. CASE k < Len(a)
      <3>1. s[k] = a[k] /\ s[k + 1] = a[k + 1] /\ k \in 1..(Len(a) - 1)
        BY <1>1, <2>1
      <3> QED BY <3>1, Zenon DEF Chain
    <2>2. CASE k = Len(a)
      <3>1. s[k] = a[Len(a)] /\ s[k + 1] = b[1]
        BY <1>1, <2>2
      <3> QED BY <3>1, Zenon
    <2>3. CASE k > Len(a)
      <3> DEFINE j == k - Len(a)
      <3>1. s[k] = b[j] /\ s[k + 1] = b[j + 1] /\ j \in 1..(Len(b) - 1)
        BY <1>1, <2>3
      <3> QED BY <3>1, Zenon DEF Chain
    <2> QED BY <1>1, <2>1, <2>2, <2>3
  <1> QED BY <1>2, Zenon DEF Chain, s

\* The front of a chain is one.
LEMMA ChainFront ==
  ASSUME NEW S, NEW a \in Seq(S), NEW b \in Seq(S), Chain(a \o b)
  PROVE  Chain(a)
  <1> DEFINE s == a \o b
  <1>1. /\ Len(a) \in Nat /\ Len(b) \in Nat
        /\ Len(s) = Len(a) + Len(b)
        /\ \A k \in 1..(Len(a) + Len(b)) :
             s[k] = IF k <= Len(a) THEN a[k] ELSE b[k - Len(a)]
    BY ConcatProperties, LenProperties
  <1>2. Chain(s)
    OBVIOUS
  <1> HIDE DEF s
  <1>3. ASSUME NEW k \in 1..(Len(a) - 1) PROVE Follows(a[k], a[k + 1])
    <2>1. s[k] = a[k] /\ s[k + 1] = a[k + 1] /\ k \in 1..(Len(s) - 1)
      BY <1>1
    <2> QED BY <1>2, <2>1, Zenon DEF Chain
  <1> QED BY <1>3, Zenon DEF Chain

\* So is its back.
LEMMA ChainBack ==
  ASSUME NEW S, NEW a \in Seq(S), NEW b \in Seq(S), Chain(a \o b)
  PROVE  Chain(b)
  <1> DEFINE s == a \o b
  <1>1. /\ Len(a) \in Nat /\ Len(b) \in Nat
        /\ Len(s) = Len(a) + Len(b)
        /\ \A k \in 1..(Len(a) + Len(b)) :
             s[k] = IF k <= Len(a) THEN a[k] ELSE b[k - Len(a)]
    BY ConcatProperties, LenProperties
  <1>2. Chain(s)
    OBVIOUS
  <1> HIDE DEF s
  <1>3. ASSUME NEW k \in 1..(Len(b) - 1) PROVE Follows(b[k], b[k + 1])
    <2> DEFINE j == Len(a) + k
    <2>1. s[j] = b[k] /\ s[j + 1] = b[k + 1] /\ j \in 1..(Len(s) - 1)
      BY <1>1
    <2> QED BY <1>2, <2>1, Zenon DEF Chain
  <1> QED BY <1>3, Zenon DEF Chain

\* The last element of a concatenation is the last one of its second part.
LEMMA LastOfConcat ==
  ASSUME NEW S, NEW a \in Seq(S), NEW b \in Seq(S), b # <<>>
  PROVE  (a \o b)[Len(a \o b)] = b[Len(b)]
  <1> DEFINE s == a \o b
  <1>1. /\ Len(a) \in Nat /\ Len(b) \in Nat \ {0}
        /\ Len(s) = Len(a) + Len(b)
        /\ \A k \in 1..(Len(a) + Len(b)) :
             s[k] = IF k <= Len(a) THEN a[k] ELSE b[k - Len(a)]
    BY ConcatProperties, LenProperties, EmptySeq
  <1> HIDE DEF s
  <1>2. s[Len(s)] = b[Len(b)]
    BY <1>1
  <1> QED BY <1>2 DEF s

LEMMA Associative ==
  ASSUME NEW a \in Seq(Byte), NEW b \in Seq(Byte), NEW c \in Seq(Byte)
  PROVE  (a \o b) \o c = a \o (b \o c)
  BY ConcatAssociative

\* A sequence is its first n elements and the others.
LEMMA Parts ==
  ASSUME NEW S, NEW s \in Seq(S), NEW n \in 1..Len(s)
  PROVE  /\ SubSeq(s, 1, n) \in Seq(S) /\ SubSeq(s, n + 1, Len(s)) \in Seq(S)
         /\ Len(SubSeq(s, 1, n)) = n /\ Len(SubSeq(s, n + 1, Len(s))) = Len(s) - n
         /\ SubSeq(s, 1, n) \o SubSeq(s, n + 1, Len(s)) = s
  <1>1. Len(s) \in Nat /\ \A k \in 1..Len(s) : s[k] \in S
    BY LenProperties
  <1>2. SubSeq(s, 1, n) \in Seq(S) /\ Len(SubSeq(s, 1, n)) = n
    BY <1>1, SubSeqProperties
  <1>3. SubSeq(s, n + 1, Len(s)) \in Seq(S) /\ Len(SubSeq(s, n + 1, Len(s))) = Len(s) - n
    <2> DEFINE t == SubSeq(s, n + 1, Len(s))
    <2>1. \A k \in (n + 1)..Len(s) : s[k] \in S
      BY <1>1
    <2>2. n + 1 \in Int /\ Len(s) \in Int
      BY <1>1
    <2>3. t \in Seq(S) /\ Len(t) = IF n + 1 <= Len(s) THEN Len(s) - (n + 1) + 1 ELSE 0
      BY <2>1, <2>2, SubSeqProperties
    <2> HIDE DEF t
    <2>4. Len(t) = Len(s) - n
      BY <1>1, <2>3
    <2> QED BY <2>3, <2>4 DEF t
  <1>4. SubSeq(s, 1, n) \o SubSeq(s, n + 1, Len(s)) = SubSeq(s, 1, Len(s))
    <2>1. 1 \in 1..(Len(s) + 1) /\ n \in (1 - 1)..Len(s) /\ Len(s) \in n..Len(s)
      BY <1>1
    <2> QED BY <2>1, ConcatAdjacentSubSeq
  <1>5. SubSeq(s, 1, Len(s)) = s
    BY SubSeqFull
  <1> QED BY <1>2, <1>3, <1>4, <1>5, Zenon

\* What Line builds.
LEMMA LineType ==
  ASSUME NEW rec \in 0..MaxRecords, NEW kind \in {"record", "notice"}, NEW n \in Nat
  PROVE  /\ Line(rec, kind, n) \in Seq(Byte) /\ Len(Line(rec, kind, n)) = n
         /\ Chain(Line(rec, kind, n))
  <1> DEFINE e(k) == [rec |-> rec, kind |-> kind, at |-> k, of |-> n]
             s == [k \in 1..n |-> e(k)]
  <1>1. s = Line(rec, kind, n)
    BY DEF Line
  <1>2. ASSUME NEW k \in 1..n PROVE e(k) \in Byte
    BY DEF Byte
  <1>3. s \in [1..n -> Byte]
    BY <1>2
  <1>4. s \in Seq(Byte)
    BY <1>3, SeqDef
  <1>5. DOMAIN s = 1..Len(s) /\ Len(s) \in Nat /\ DOMAIN s = 1..n
    BY <1>3, <1>4, LenProperties
  <1>6. Len(s) = n
    BY <1>5
  <1>7. ASSUME NEW k \in 1..(Len(s) - 1) PROVE Follows(s[k], s[k + 1])
    <2>1. k \in 1..n /\ k + 1 \in 1..n /\ k # n
      BY <1>6
    <2>2. s[k] = e(k) /\ s[k + 1] = e(k + 1)
      BY <2>1
    <2> QED BY <2>1, <2>2 DEF Follows
  <1> QED BY <1>1, <1>4, <1>6, <1>7, Zenon DEF Chain

LEMMA LineEnds ==
  ASSUME NEW rec, NEW kind, NEW n \in Nat \ {0}
  PROVE  /\ Line(rec, kind, n)[1].at = 1 /\ Line(rec, kind, n)[1].kind = kind
         /\ Line(rec, kind, n)[n].rec = rec /\ Line(rec, kind, n)[n].kind = kind
         /\ Line(rec, kind, n)[n].at = Line(rec, kind, n)[n].of
  <1>1. 1 \in 1..n /\ n \in 1..n
    OBVIOUS
  <1> QED BY <1>1 DEF Line

\* The notice's length, and that a formatted record names its record.
LEMMA NoticeLenType ==
  ASSUME LogAssumption, TypeOK, NEW c \in Cores
  PROVE  NoticeLen(c) \in Nat
  BY DEF LogAssumption, TypeOK, NoticeLen

LEMMA FirstByte ==
  ASSUME NEW s \in Seq(Byte), s # <<>>
  PROVE  /\ s[1] \in Byte /\ s[1].rec \in 0..MaxRecords
         /\ s[Len(s)] \in Byte /\ Len(s) \in Nat \ {0}
  <1>1. Len(s) \in Nat \ {0}
    BY EmptySeq
  <1>2. 1 \in 1..Len(s) /\ Len(s) \in 1..Len(s)
    BY <1>1
  <1>3. s[1] \in Byte /\ s[Len(s)] \in Byte
    BY <1>2, ElementOfSeq
  <1> QED BY <1>1, <1>3 DEF Byte

LEMMA StreamType ==
  ASSUME TypeOK
  PROVE  /\ <<sent>> \in Seq(Byte) /\ Len(<<sent>>) = 1 /\ <<sent>>[1] = sent
         /\ <<sent>> \o chunk \in Seq(Byte) /\ Stream \in Seq(Byte)
         /\ Stream # <<>> /\ Stream = <<sent>> \o (chunk \o pipe)
  <1>1. sent \in Byte /\ chunk \in Seq(Byte) /\ pipe \in Seq(Byte)
    BY DEF TypeOK
  <1>2. <<sent>> \in Seq(Byte) /\ Len(<<sent>>) = 1 /\ <<sent>>[1] = sent
    BY <1>1
  <1>3. <<sent>> \o chunk \in Seq(Byte) /\ Len(<<sent>> \o chunk) = 1 + Len(chunk)
    BY <1>1, <1>2, ConcatProperties
  <1>4. Stream \in Seq(Byte) /\ Len(Stream) = Len(<<sent>> \o chunk) + Len(pipe)
    BY <1>1, <1>3, ConcatProperties DEF Stream
  <1>5. Len(chunk) \in Nat /\ Len(pipe) \in Nat
    BY <1>1, LenProperties
  <1>6. Len(Stream) # 0
    BY <1>3, <1>4, <1>5
  <1>7. Stream # <<>>
    BY <1>6, EmptySeq
  <1>8. Stream = <<sent>> \o (chunk \o pipe)
    BY <1>1, <1>2, ConcatAssociative DEF Stream
  <1> QED BY <1>2, <1>3, <1>4, <1>7, <1>8

-----------------------------------------------------------------------------
(* Types *)

LEMMA TypeInit == ASSUME LogAssumption PROVE Init => TypeOK
  <1>1. <<>> \in Seq(Byte) /\ Len(<<>>) = 0
    BY EmptySeq
  <1>2. [rec |-> 0, kind |-> "record", at |-> 1, of |-> 1] \in Byte
    BY DEF Byte, LogAssumption
  <1>3. 0 \in 0..U32_MAX /\ 0 \in 0..MaxRecords /\ 0 <= PIPE_LEN
    BY DEF LogAssumption
  <1> SUFFICES ASSUME Init PROVE TypeOK
    OBVIOUS
  <1>4. /\ pc \in [Cores -> {"idle", "formatted", "check", "push"}]
        /\ line \in [Cores -> Seq(Byte)] /\ loaded \in [Cores -> 0..U32_MAX]
        /\ holder \subseteq Cores
    BY <1>1, <1>3 DEF Init
  <1> QED BY <1>1, <1>2, <1>3, <1>4, Zenon DEF Init, TypeOK

LEMMA TypeStep ==
  ASSUME LogAssumption PROVE TypeOK /\ LinesWell /\ [Next]_vars => TypeOK'
  <1> SUFFICES ASSUME TypeOK, LinesWell, [Next]_vars PROVE TypeOK'
    OBVIOUS
  <1> USE LogAssumption DEF LogAssumption
  <1>1. ASSUME NEW c \in Cores, Format(c) PROVE TypeOK'
    <2>1. logged + 1 \in 0..MaxRecords
      BY <1>1 DEF Format, TypeOK
    <2>2. PICK n \in 1..LINE_LEN : line' = [line EXCEPT ![c] = Line(logged + 1, "record", n)]
      BY <1>1 DEF Format
    <2>3. Line(logged + 1, "record", n) \in Seq(Byte)
      BY <2>1, LineType
    <2>4. line' \in [Cores -> Seq(Byte)]
      BY <2>2, <2>3 DEF TypeOK
    <2> QED BY <1>1, <2>1, <2>4 DEF Format, TypeOK
  <1>2. ASSUME NEW c \in Cores, Enter(c) PROVE TypeOK'
    BY <1>2 DEF Enter, TypeOK, countVars
  <1>3. ASSUME NEW c \in Cores, Drop(c) PROVE TypeOK'
    <2>1. DropCount(loaded[c]) \in 0..U32_MAX
      BY DEF DropCount, TypeOK
    <2>2. <<>> \in Seq(Byte)
      BY EmptySeq
    <2>3. line' \in [Cores -> Seq(Byte)]
      BY <1>3, <2>2 DEF Drop, TypeOK
    <2>4. saturated' \in BOOLEAN
      BY <1>3, Zenon DEF Drop, TypeOK
    <2>5. pc' \in [Cores -> {"idle", "formatted", "check", "push"}] /\ holder' \subseteq Cores
      BY <1>3 DEF Drop, TypeOK
    <2> QED BY <1>3, <2>1, <2>3, <2>4, <2>5, Zenon DEF Drop, TypeOK
  <1>4. ASSUME NEW c \in Cores, Keep(c) PROVE TypeOK'
    <2>1. line[c] \in Seq(Byte) /\ line[c] # <<>>
      BY <1>4 DEF Keep, TypeOK, LinesWell, Record
    <2>2. Line(line[c][1].rec, "notice", NoticeLen(c)) \in Seq(Byte)
      BY <2>1, FirstByte, LineType, NoticeLenType
    <2>3. Line(line[c][1].rec, "notice", NoticeLen(c)) \o line[c] \in Seq(Byte)
      BY <2>1, <2>2, ConcatProperties
    <2>4. line' \in [Cores -> Seq(Byte)]
      BY <1>4, <2>3 DEF Keep, TypeOK
    <2> QED BY <1>4, <2>4 DEF Keep, TypeOK, countVars
  <1>5. ASSUME NEW c \in Cores, Push(c) PROVE TypeOK'
    <2>1. line[c] \in Seq(Byte) /\ pipe \in Seq(Byte) /\ Len(pipe) \in Nat
      BY LenProperties DEF TypeOK
    <2>2. CASE Free = 0
      <3>1. line' \in [Cores -> Seq(Byte)] /\ pipe' = pipe
        BY <1>5, <2>2, EmptySeq DEF Push, TypeOK
      <3> QED BY <1>5, <3>1 DEF Push, TypeOK, countVars
    <2>3. CASE Free # 0
      <3>1. PICK n \in 1..Len(line[c]) :
              /\ n <= Free
              /\ pipe' = pipe \o SubSeq(line[c], 1, n)
              /\ line' = [line EXCEPT ![c] = SubSeq(@, n + 1, Len(@))]
        BY <1>5, <2>3 DEF Push
      <3>2. /\ SubSeq(line[c], 1, n) \in Seq(Byte)
            /\ SubSeq(line[c], n + 1, Len(line[c])) \in Seq(Byte)
            /\ Len(SubSeq(line[c], 1, n)) = n
        BY <2>1, Parts
      <3>3. pipe' \in Seq(Byte) /\ Len(pipe') = Len(pipe) + n
        BY <2>1, <3>1, <3>2, ConcatProperties
      <3>4. Len(pipe') <= PIPE_LEN
        BY <2>1, <3>1, <3>3 DEF Free
      <3>5. line' \in [Cores -> Seq(Byte)]
        BY <3>1, <3>2 DEF TypeOK
      <3> QED BY <1>5, <3>3, <3>4, <3>5 DEF Push, TypeOK, countVars
    <2> QED BY <2>2, <2>3
  <1>6. ASSUME NEW c \in Cores, Leave(c) PROVE TypeOK'
    BY <1>6 DEF Leave, TypeOK
  <1>7. CASE Read
    <2>1. pipe \in Seq(Byte) /\ Len(pipe) \in Nat
      BY LenProperties DEF TypeOK
    <2>2. PICK n \in 1..Len(pipe) :
            /\ chunk' = SubSeq(pipe, 1, n) /\ pipe' = SubSeq(pipe, n + 1, Len(pipe))
      BY <1>7 DEF Read
    <2>3. chunk' \in Seq(Byte) /\ pipe' \in Seq(Byte) /\ Len(pipe') = Len(pipe) - n
      BY <2>1, <2>2, Parts
    <2>4. Len(pipe') <= PIPE_LEN
      BY <2>1, <2>3 DEF TypeOK
    <2> QED BY <1>7, <2>3, <2>4 DEF Read, TypeOK, coreVars, countVars
  <1>8. CASE Transmit
    <2>1. Head(chunk) \in Byte /\ Tail(chunk) \in Seq(Byte)
      BY <1>8, HeadTailProperties DEF Transmit, TypeOK
    <2> QED BY <1>8, <2>1 DEF Transmit, TypeOK, coreVars, countVars
  <1>9. CASE UNCHANGED vars
    BY <1>9 DEF vars, coreVars, countVars, TypeOK
  <1> QED
    BY <1>1, <1>2, <1>3, <1>4, <1>5, <1>6, <1>7, <1>8, <1>9 DEF Next, Log

-----------------------------------------------------------------------------
(* The critical section *)

LEMMA ExclusiveInit == Init => Exclusive
  BY DEF Init, Exclusive

LEMMA ExclusiveStep == TypeOK /\ Exclusive /\ [Next]_vars => Exclusive'
  <1> SUFFICES ASSUME TypeOK, Exclusive, [Next]_vars PROVE Exclusive'
    OBVIOUS
  <1>1. ASSUME NEW c \in Cores, Format(c) PROVE Exclusive'
    BY <1>1 DEF Format, Exclusive, TypeOK
  <1>2. ASSUME NEW c \in Cores, Enter(c) PROVE Exclusive'
    BY <1>2 DEF Enter, Exclusive, TypeOK
  <1>3. ASSUME NEW c \in Cores, Drop(c) PROVE Exclusive'
    BY <1>3 DEF Drop, Exclusive, TypeOK
  <1>4. ASSUME NEW c \in Cores, Keep(c) PROVE Exclusive'
    BY <1>4 DEF Keep, Exclusive, TypeOK
  <1>5. ASSUME NEW c \in Cores, Push(c) PROVE Exclusive'
    BY <1>5 DEF Push, Exclusive, TypeOK
  <1>6. ASSUME NEW c \in Cores, Leave(c) PROVE Exclusive'
    BY <1>6 DEF Leave, Exclusive, TypeOK
  <1>7. CASE Read
    BY <1>7 DEF Read, coreVars, Exclusive
  <1>8. CASE Transmit
    BY <1>8 DEF Transmit, coreVars, Exclusive
  <1>9. CASE UNCHANGED vars
    BY <1>9 DEF vars, coreVars, Exclusive
  <1> QED
    BY <1>1, <1>2, <1>3, <1>4, <1>5, <1>6, <1>7, <1>8, <1>9 DEF Next, Log

-----------------------------------------------------------------------------
(* Whole lines *)

\* A step that leaves the bytes alone and brings no core to where it pushes.
LEMMA LinesKept ==
  ASSUME LinesWell, StreamWell, UNCHANGED <<pipe, chunk, sent>>,
         \A d \in Cores :
           \/ pc'[d] = pc[d] /\ line'[d] = line[d]
           \/ pc[d] # "push" /\ pc'[d] \in {"formatted", "check"} /\ Record(line'[d])
           \/ pc[d] # "push" /\ pc'[d] = "idle"
  PROVE  LinesWell' /\ StreamWell'
  <1>1. Stream' = Stream /\ Free' = Free
    BY DEF Stream, Free
  <1>2. LinesWell'
    <2> SUFFICES ASSUME NEW d \in Cores
        PROVE /\ pc'[d] \in {"formatted", "check"} => Record(line'[d])
              /\ pc'[d] = "push" =>
                   /\ Chain(Stream' \o line'[d]) /\ Complete(Stream' \o line'[d])
                   /\ Len(line'[d]) <= Free'
      BY Zenon DEF LinesWell, Record, Chain, Complete, Follows
    <2> QED BY <1>1 DEF LinesWell
  <1>3. StreamWell'
    <2>1. Chain(Stream')
      BY <1>1 DEF StreamWell
    <2>2. ASSUME \A d \in Cores : pc'[d] # "push" PROVE Complete(Stream')
      BY <1>1, <2>2 DEF StreamWell
    <2> QED BY <2>1, <2>2, Zenon DEF StreamWell, Chain, Complete, Follows
  <1> QED BY <1>2, <1>3

\* A new record's line.
LEMMA RecordLine ==
  ASSUME NEW rec \in 0..MaxRecords, NEW n \in Nat \ {0}
  PROVE  Record(Line(rec, "record", n))
  <1> DEFINE s == Line(rec, "record", n)
  <1>1. s \in Seq(Byte) /\ Len(s) = n /\ Chain(s)
    BY LineType
  <1>2. s[1].at = 1 /\ s[1].kind = "record" /\ s[n].at = s[n].of /\ s[n].kind = "record"
    BY LineEnds
  <1> HIDE DEF s
  <1>3. Len(s) # 0
    BY <1>1
  <1>4. s # <<>>
    BY <1>3, EmptySeq
  <1> QED BY <1>1, <1>2, <1>4 DEF Record, Complete, s

\* A record with its notice carries on from a complete stream.
LEMMA NoticeCarriesOn ==
  ASSUME LogAssumption, NEW s \in Seq(Byte), Record(s), NEW n \in Nat,
         NEW t \in Seq(Byte), t # <<>>, Chain(t), Complete(t)
  PROVE  /\ Line(s[1].rec, "notice", n) \o s \in Seq(Byte)
         /\ Len(Line(s[1].rec, "notice", n) \o s) = n + Len(s)
         /\ Chain(t \o (Line(s[1].rec, "notice", n) \o s))
         /\ Complete(t \o (Line(s[1].rec, "notice", n) \o s))
  <1> DEFINE a == Line(s[1].rec, "notice", n)
             b == a \o s
  <1>1. /\ s[1] \in Byte /\ s[1].rec \in 0..MaxRecords /\ Len(s) \in Nat \ {0}
        /\ s # <<>> /\ Chain(s) /\ Complete(s) /\ s[1].at = 1 /\ s[1].kind = "record"
    BY FirstByte DEF Record
  <1>2. /\ a \in Seq(Byte) /\ Len(a) = n /\ Chain(a)
        /\ n # 0 => a[1].at = 1 /\ a[n].at = a[n].of /\ a[n].kind = "notice" /\ a[n].rec = s[1].rec
    <2>1. a \in Seq(Byte) /\ Len(a) = n /\ Chain(a)
      BY <1>1, LineType
    <2>2. ASSUME n # 0
          PROVE  /\ a[1].at = 1 /\ a[n].at = a[n].of
                 /\ a[n].kind = "notice" /\ a[n].rec = s[1].rec
      <3>1. n \in Nat \ {0}
        BY <2>2
      <3> QED BY <3>1, LineEnds
    <2> QED BY <2>1, <2>2
  <1> HIDE DEF a
  <1>3. /\ b \in Seq(Byte) /\ Len(b) = Len(a) + Len(s)
        /\ \A k \in 1..(Len(a) + Len(s)) : b[k] = IF k <= Len(a) THEN a[k] ELSE s[k - Len(a)]
    BY <1>2, ConcatProperties, Zenon
  <1>4. b # <<>>
    <2>1. Len(b) # 0
      BY <1>1, <1>3
    <2> QED BY <2>1, EmptySeq
  <1>5. Complete(b)
    BY <1>1, <1>2, LastOfConcat DEF Complete
  <1>6. b[1].at = 1 /\ Chain(b)
    <2>1. CASE n = 0
      <3>1. a = <<>>
        BY <1>2, <2>1, EmptySeq
      <3>2. b = s
        BY <3>1, ConcatEmptySeq
      <3> QED BY <1>1, <3>2
    <2>2. CASE n # 0
      <3>1. n \in 1..n /\ 1 \in 1..n /\ 1 \in 1..(Len(a) + Len(s)) /\ 1 <= Len(a)
        BY <1>1, <1>2, <2>2
      <3>2. a # <<>>
        BY <1>2, <2>2, EmptySeq
      <3>3. Follows(a[Len(a)], s[1])
        BY <1>1, <1>2, <3>1 DEF Follows
      <3>4. Chain(b)
        BY <1>1, <1>2, <3>2, <3>3, ChainConcat
      <3>5. b[1] = a[1]
        BY <1>3, <3>1
      <3> QED BY <1>2, <3>1, <3>4, <3>5
    <2> QED BY <2>1, <2>2
  <1>7. Follows(t[Len(t)], b[1])
    BY <1>6 DEF Complete, Follows
  <1> HIDE DEF b
  <1>8. Chain(t \o b)
    BY <1>3, <1>4, <1>6, <1>7, ChainConcat
  <1>9. Complete(t \o b)
    <2>1. (t \o b)[Len(t \o b)] = b[Len(b)]
      BY <1>3, <1>4, LastOfConcat
    <2> QED BY <1>5, <2>1, Zenon DEF Complete
  <1>10. b \in Seq(Byte) /\ Len(b) = n + Len(s)
    BY <1>2, <1>3
  <1> QED BY <1>8, <1>9, <1>10, Zenon DEF a, b

\* A core pushes a part of its line.
LEMMA PushWell ==
  ASSUME LogAssumption, TypeOK, TypeOK', Exclusive, LinesWell, StreamWell,
         NEW c \in Cores, Push(c)
  PROVE  LinesWell' /\ StreamWell'
  <1> DEFINE s == line[c]
             t == line'[c]
  <1>1. /\ s \in Seq(Byte) /\ s # <<>> /\ pipe \in Seq(Byte)
        /\ Len(s) \in Nat \ {0} /\ Len(pipe) \in Nat
    BY EmptySeq, LenProperties DEF TypeOK, Push
  <1>2. /\ pc[c] = "push" /\ pc' = pc /\ chunk' = chunk /\ sent' = sent
        /\ Chain(Stream \o s) /\ Complete(Stream \o s) /\ Len(s) <= Free
    BY DEF Push, LinesWell
  <1>3. Free # 0
    BY <1>1, <1>2 DEF Free, TypeOK, LogAssumption
  <1>4. PICK n \in 1..Len(s) :
          /\ n <= Free
          /\ pipe' = pipe \o SubSeq(s, 1, n)
          /\ line' = [line EXCEPT ![c] = SubSeq(@, n + 1, Len(@))]
    BY <1>3 DEF Push
  <1>5. t = SubSeq(s, n + 1, Len(s))
    BY <1>4 DEF TypeOK
  <1>6. /\ SubSeq(s, 1, n) \in Seq(Byte) /\ t \in Seq(Byte)
        /\ Len(SubSeq(s, 1, n)) = n /\ Len(t) = Len(s) - n
        /\ SubSeq(s, 1, n) \o t = s
    BY <1>1, <1>5, Parts
  <1>7. Stream' = Stream \o SubSeq(s, 1, n) /\ Stream' \o t = Stream \o s
    <2>1. Stream' = (<<sent>> \o chunk) \o (pipe \o SubSeq(s, 1, n))
      BY <1>2, <1>4 DEF Stream
    <2>2. <<sent>> \o chunk \in Seq(Byte) /\ Stream \in Seq(Byte)
      BY StreamType
    <2>3. Stream' = Stream \o SubSeq(s, 1, n)
      <3>1. Stream = (<<sent>> \o chunk) \o pipe
        BY DEF Stream
      <3>2. ((<<sent>> \o chunk) \o pipe) \o SubSeq(s, 1, n)
              = (<<sent>> \o chunk) \o (pipe \o SubSeq(s, 1, n))
        <4> DEFINE h == <<sent>> \o chunk
                   x == SubSeq(s, 1, n)
        <4>1. h \in Seq(Byte) /\ x \in Seq(Byte) /\ pipe \in Seq(Byte)
          BY <1>1, <1>6, <2>2
        <4> HIDE DEF h, x
        <4>2. (h \o pipe) \o x = h \o (pipe \o x)
          BY <4>1, Associative
        <4> QED BY <4>2 DEF h, x
      <3> QED BY <2>1, <3>1, <3>2, Zenon
    <2>4. (Stream \o SubSeq(s, 1, n)) \o t = Stream \o (SubSeq(s, 1, n) \o t)
      BY <1>6, <2>2, Associative, Zenon
    <2> QED BY <1>6, <2>3, <2>4, Zenon
  <1>8. Stream' \in Seq(Byte)
    BY StreamType, <1>6, <1>7, ConcatProperties
  <1>9. Chain(Stream')
    BY <1>2, <1>6, <1>7, <1>8, ChainFront
  <1>10. Len(t) <= Free'
    <2>1. Len(pipe') = Len(pipe) + n
      BY <1>1, <1>4, <1>6, ConcatProperties
    <2>2. Free' = Free - n /\ Free \in Int
      BY <1>1, <2>1 DEF Free, LogAssumption
    <2>3. Len(t) = Len(s) - n /\ Len(s) <= Free
      BY <1>2, <1>6
    <2> HIDE DEF s, t
    <2> QED BY <1>1, <2>2, <2>3
  <1>11. ASSUME NEW d \in Cores, d # c
         PROVE pc[d] # "push" /\ line'[d] = line[d]
    BY <1>2, <1>4, <1>11 DEF Exclusive, TypeOK
  <1>12. LinesWell'
    <2> SUFFICES ASSUME NEW d \in Cores
        PROVE /\ pc'[d] \in {"formatted", "check"} => Record(line'[d])
              /\ pc'[d] = "push" =>
                   /\ Chain(Stream' \o line'[d]) /\ Complete(Stream' \o line'[d])
                   /\ Len(line'[d]) <= Free'
      BY Zenon DEF LinesWell, Record, Chain, Complete, Follows
    <2>1. CASE d = c
      BY <1>2, <1>7, <1>10, <2>1
    <2>2. CASE d # c
      BY <1>2, <1>11, <2>2 DEF LinesWell
    <2> QED BY <2>1, <2>2
  <1>13. StreamWell'
    BY <1>2, <1>9, Zenon DEF StreamWell, Chain, Follows
  <1> QED BY <1>12, <1>13

\* Bytes are taken off the front of the stream.
LEMMA TransmitWell ==
  ASSUME TypeOK, TypeOK', LinesWell, StreamWell, Transmit
  PROVE  LinesWell' /\ StreamWell'
  <1>1. /\ chunk \in Seq(Byte) /\ chunk # <<>> /\ pipe \in Seq(Byte) /\ sent \in Byte
        /\ sent' = Head(chunk) /\ chunk' = Tail(chunk) /\ pipe' = pipe
        /\ pc' = pc /\ line' = line /\ Free' = Free
    BY DEF TypeOK, Transmit, coreVars, Free
  <1>2. <<sent'>> \o chunk' = chunk
    <2>1. Len(chunk) \in Nat \ {0}
      BY <1>1, EmptySeq
    <2>2. 1 \in 1..Len(chunk) /\ Len(chunk) \in 1..Len(chunk)
      BY <2>1
    <2>3. SubSeq(chunk, 1, Len(chunk)) = <<chunk[1]>> \o SubSeq(chunk, 1 + 1, Len(chunk))
      BY <1>1, <2>2, SubSeqRecursiveFirst
    <2>4. SubSeq(chunk, 1, Len(chunk)) = chunk /\ Tail(chunk) = SubSeq(chunk, 2, Len(chunk))
      BY <1>1, SubSeqFull, TailIsSubSeq
    <2>5. Head(chunk) = chunk[1]
      BY <1>1
    <2> QED BY <1>1, <2>3, <2>4, <2>5
  <1>3. Stream' = chunk \o pipe /\ Stream = <<sent>> \o Stream'
    <2>1. Stream' = chunk \o pipe
      BY <1>1, <1>2, Zenon DEF Stream
    <2> QED BY <2>1, StreamType, Zenon
  <1>4. <<sent>> \in Seq(Byte) /\ Stream' \in Seq(Byte) /\ Stream' # <<>>
    BY <1>1, <1>3, ConcatProperties, ConcatEqualIffEmpty
  <1>5. Chain(Stream')
    BY <1>3, <1>4, ChainBack DEF StreamWell
  <1>6. ASSUME Complete(Stream) PROVE Complete(Stream')
    BY <1>3, <1>4, <1>6, LastOfConcat DEF Complete
  <1>7. ASSUME NEW c \in Cores, Chain(Stream \o line[c]), Complete(Stream \o line[c])
        PROVE  Chain(Stream' \o line[c]) /\ Complete(Stream' \o line[c])
    <2>1. line[c] \in Seq(Byte)
      BY DEF TypeOK
    <2>2. Stream \o line[c] = <<sent>> \o (Stream' \o line[c])
      BY <1>3, <1>4, <2>1, Associative, Zenon
    <2>3. Stream' \o line[c] \in Seq(Byte) /\ Stream' \o line[c] # <<>>
      BY <1>4, <2>1, ConcatProperties, ConcatEqualIffEmpty
    <2>4. Chain(Stream' \o line[c])
      BY <1>4, <1>7, <2>2, <2>3, ChainBack
    <2>5. Complete(Stream' \o line[c])
      BY <1>4, <1>7, <2>2, <2>3, LastOfConcat DEF Complete
    <2> QED BY <2>4, <2>5
  <1>8. LinesWell'
    <2> SUFFICES ASSUME NEW c \in Cores
        PROVE /\ pc'[c] \in {"formatted", "check"} => Record(line'[c])
              /\ pc'[c] = "push" =>
                   /\ Chain(Stream' \o line'[c]) /\ Complete(Stream' \o line'[c])
                   /\ Len(line'[c]) <= Free'
      BY Zenon DEF LinesWell, Record, Chain, Complete, Follows
    <2> QED BY <1>1, <1>7 DEF LinesWell
  <1>9. StreamWell'
    BY <1>1, <1>5, <1>6, Zenon DEF StreamWell, Chain, Complete, Follows
  <1> QED BY <1>8, <1>9

\* A core whose record fits puts its notice in front of it.
LEMMA KeepWell ==
  ASSUME LogAssumption, TypeOK, Exclusive, LinesWell, StreamWell, NEW c \in Cores, Keep(c)
  PROVE  LinesWell' /\ StreamWell'
  <1> DEFINE s == line[c]
             b == Line(s[1].rec, "notice", NoticeLen(c)) \o s
  <1>1. /\ s \in Seq(Byte) /\ Record(s) /\ NoticeLen(c) \in Nat
        /\ pc[c] = "check" /\ NoticeLen(c) + Len(s) <= Free
        /\ pc' = [pc EXCEPT ![c] = "push"] /\ line' = [line EXCEPT ![c] = b]
        /\ pipe' = pipe /\ chunk' = chunk /\ sent' = sent
    BY NoticeLenType DEF Keep, Fits, TypeOK, LinesWell
  <1>2. \A d \in Cores : pc[d] # "push"
    BY <1>1 DEF Exclusive
  <1>3. Stream \in Seq(Byte) /\ Stream # <<>> /\ Chain(Stream) /\ Complete(Stream)
    BY <1>2, StreamType DEF StreamWell
  <1>4. Len(b) = NoticeLen(c) + Len(s) /\ Chain(Stream \o b) /\ Complete(Stream \o b)
    BY <1>1, <1>3, NoticeCarriesOn
  <1>5. pc'[c] = "push" /\ line'[c] = b
    BY <1>1 DEF TypeOK
  <1>6. \A d \in Cores : d # c => pc'[d] = pc[d] /\ line'[d] = line[d]
    BY <1>1 DEF TypeOK
  <1>7. Stream' = Stream /\ Free' = Free
    BY <1>1 DEF Stream, Free
  <1> HIDE DEF b, s
  <1>8. LinesWell'
    <2> SUFFICES ASSUME NEW d \in Cores
        PROVE /\ pc'[d] \in {"formatted", "check"} => Record(line'[d])
              /\ pc'[d] = "push" =>
                   /\ Chain(Stream' \o line'[d]) /\ Complete(Stream' \o line'[d])
                   /\ Len(line'[d]) <= Free'
      BY Zenon DEF LinesWell, Record, Chain, Complete, Follows
    <2>1. CASE d = c
      BY <1>1, <1>4, <1>5, <1>7, <2>1
    <2>2. CASE d # c
      BY <1>2, <1>6, <2>2 DEF LinesWell
    <2> QED BY <2>1, <2>2
  <1>9. StreamWell'
    BY <1>3, <1>5, <1>7, Zenon DEF StreamWell, Chain, Follows
  <1> QED BY <1>8, <1>9

\* A core that has pushed its line leaves a complete stream behind.
LEMMA LeaveWell ==
  ASSUME TypeOK, Exclusive, LinesWell, StreamWell, NEW c \in Cores, Leave(c)
  PROVE  LinesWell' /\ StreamWell'
  <1>1. /\ pc[c] = "push" /\ line[c] = <<>> /\ pc' = [pc EXCEPT ![c] = "idle"]
        /\ line' = line /\ pipe' = pipe /\ chunk' = chunk /\ sent' = sent
    BY DEF Leave
  <1>2. Stream' = Stream /\ Free' = Free
    BY <1>1 DEF Stream, Free
  <1>3. Stream \o line[c] = Stream
    BY <1>1, StreamType, ConcatEmptySeq
  <1>4. Chain(Stream) /\ Complete(Stream)
    BY <1>1, <1>3 DEF LinesWell
  <1>5. pc'[c] = "idle" /\ \A d \in Cores : d # c => pc'[d] = pc[d]
    BY <1>1 DEF TypeOK
  <1>6. LinesWell'
    <2> SUFFICES ASSUME NEW d \in Cores
        PROVE /\ pc'[d] \in {"formatted", "check"} => Record(line'[d])
              /\ pc'[d] = "push" =>
                   /\ Chain(Stream' \o line'[d]) /\ Complete(Stream' \o line'[d])
                   /\ Len(line'[d]) <= Free'
      BY Zenon DEF LinesWell, Record, Chain, Complete, Follows
    <2>1. CASE d = c
      BY <1>5, <2>1
    <2>2. CASE d # c
      BY <1>1, <1>2, <1>5, <2>2 DEF LinesWell
    <2> QED BY <2>1, <2>2
  <1>7. StreamWell'
    BY <1>2, <1>4, Zenon DEF StreamWell, Chain, Complete, Follows
  <1> QED BY <1>6, <1>7

\* The task takes a chunk: the stream stays as it is.
LEMMA ReadWell ==
  ASSUME TypeOK, Exclusive, LinesWell, StreamWell, Read
  PROVE  LinesWell' /\ StreamWell'
  <1>1. pipe \in Seq(Byte) /\ <<sent>> \in Seq(Byte)
    BY StreamType DEF TypeOK
  <1>2. PICK n \in 1..Len(pipe) :
          chunk' = SubSeq(pipe, 1, n) /\ pipe' = SubSeq(pipe, n + 1, Len(pipe))
    BY DEF Read
  <1>3. chunk' \in Seq(Byte) /\ pipe' \in Seq(Byte) /\ chunk' \o pipe' = pipe
    BY <1>1, <1>2, Parts
  <1>4. /\ chunk = <<>> /\ holder = {} /\ pc' = pc /\ line' = line /\ sent' = sent
    BY DEF Read, coreVars
  <1>5. Stream' = Stream
    <2>1. Stream = <<sent>> \o pipe
      BY <1>1, <1>4, ConcatEmptySeq DEF Stream
    <2>2. (<<sent>> \o chunk') \o pipe' = <<sent>> \o (chunk' \o pipe')
      <3> DEFINE h == <<sent>>
                 x == chunk'
                 y == pipe'
      <3>1. h \in Seq(Byte) /\ x \in Seq(Byte) /\ y \in Seq(Byte)
        BY <1>1, <1>3
      <3> HIDE DEF h, x, y
      <3>2. (h \o x) \o y = h \o (x \o y)
        BY <3>1, Associative
      <3> QED BY <3>2 DEF h, x, y
    <2>3. Stream' = (<<sent>> \o chunk') \o pipe'
      BY <1>4 DEF Stream
    <2> QED BY <1>3, <2>1, <2>2, <2>3, Zenon
  <1>6. \A d \in Cores : pc[d] # "push"
    BY <1>4 DEF Exclusive
  <1>7. LinesWell'
    <2> SUFFICES ASSUME NEW d \in Cores
        PROVE /\ pc'[d] \in {"formatted", "check"} => Record(line'[d])
              /\ pc'[d] = "push" =>
                   /\ Chain(Stream' \o line'[d]) /\ Complete(Stream' \o line'[d])
                   /\ Len(line'[d]) <= Free'
      BY Zenon DEF LinesWell, Record, Chain, Complete, Follows
    <2> QED BY <1>4, <1>6 DEF LinesWell
  <1>8. StreamWell'
    BY <1>5, <1>6, Zenon DEF StreamWell, Chain, Complete, Follows
  <1> QED BY <1>7, <1>8

LEMMA WellInit == LogAssumption /\ Init => LinesWell /\ StreamWell
  <1> SUFFICES ASSUME LogAssumption, Init PROVE LinesWell /\ StreamWell
    OBVIOUS
  <1>1. /\ Stream = <<sent>> \o <<>> \o <<>> /\ sent \in Byte
        /\ sent.at = sent.of /\ sent.kind = "record"
    BY TypeInit DEF Init, Stream, TypeOK
  <1>2. Stream = <<sent>>
    BY <1>1, ConcatEmptySeq
  <1>3. Chain(Stream) /\ Complete(Stream)
    BY <1>1, <1>2 DEF Chain, Complete
  <1> QED BY <1>3 DEF Init, LinesWell, StreamWell

LEMMA WellStep ==
  LogAssumption /\ IInv /\ TypeOK' /\ [Next]_vars => LinesWell' /\ StreamWell'
  <1> SUFFICES ASSUME LogAssumption, TypeOK, Exclusive, LinesWell, StreamWell, TypeOK',
                      [Next]_vars
               PROVE  LinesWell' /\ StreamWell'
    BY DEF IInv
  <1>1. ASSUME NEW c \in Cores, Format(c) PROVE LinesWell' /\ StreamWell'
    <2>1. PICK n \in 1..LINE_LEN : line' = [line EXCEPT ![c] = Line(logged + 1, "record", n)]
      BY <1>1 DEF Format
    <2>2. logged + 1 \in 0..MaxRecords /\ n \in Nat \ {0}
      BY <1>1 DEF Format, TypeOK, LogAssumption
    <2>3. Record(Line(logged + 1, "record", n))
      BY <2>2, RecordLine
    <2>4. /\ pc[c] = "idle" /\ pc' = [pc EXCEPT ![c] = "formatted"]
          /\ UNCHANGED <<pipe, chunk, sent>>
      BY <1>1 DEF Format
    <2>5. pc'[c] = "formatted" /\ line'[c] = Line(logged + 1, "record", n)
      BY <2>1, <2>4 DEF TypeOK
    <2>6. \A d \in Cores : d # c => pc'[d] = pc[d] /\ line'[d] = line[d]
      BY <2>1, <2>4 DEF TypeOK
    <2> QED BY <2>3, <2>4, <2>5, <2>6, LinesKept
  <1>2. ASSUME NEW c \in Cores, Enter(c) PROVE LinesWell' /\ StreamWell'
    <2>1. /\ pc[c] = "formatted" /\ pc' = [pc EXCEPT ![c] = "check"]
          /\ line' = line /\ UNCHANGED <<pipe, chunk, sent>>
      BY <1>2 DEF Enter
    <2>2. pc'[c] = "check" /\ Record(line[c]) /\ \A d \in Cores : d # c => pc'[d] = pc[d]
      BY <2>1 DEF TypeOK, LinesWell
    <2> QED BY <2>1, <2>2, LinesKept
  <1>3. ASSUME NEW c \in Cores, Drop(c) PROVE LinesWell' /\ StreamWell'
    <2>1. /\ pc[c] = "check" /\ pc' = [pc EXCEPT ![c] = "idle"]
          /\ line' = [line EXCEPT ![c] = <<>>] /\ UNCHANGED <<pipe, chunk, sent>>
      BY <1>3 DEF Drop
    <2>2. pc'[c] = "idle" /\ \A d \in Cores : d # c => pc'[d] = pc[d] /\ line'[d] = line[d]
      BY <2>1 DEF TypeOK
    <2> QED BY <2>1, <2>2, LinesKept
  <1>4. CASE UNCHANGED vars
    BY <1>4, LinesKept DEF vars, coreVars
  <1> QED
    BY <1>1, <1>2, <1>3, <1>4, KeepWell, PushWell, LeaveWell, ReadWell, TransmitWell
       DEF Next, Log

-----------------------------------------------------------------------------
(* Counting records *)

\* The cores with a record on its way.
Busy == {c \in Cores : pc[c] # "idle"}

\* The count read on entering the critical section is good until it is left.
Counting ==
  /\ \A c \in holder : loaded[c] = dropped
  /\ ~saturated => logged = kept + noticed + dropped + Cardinality(Busy)

LEMMA BusySize ==
  ASSUME LogAssumption
  PROVE  /\ Cardinality(Busy) \in Nat
         /\ \A c \in Cores :
              /\ c \notin Busy => Cardinality(Busy \cup {c}) = Cardinality(Busy) + 1
              /\ c \in Busy => Cardinality(Busy \ {c}) = Cardinality(Busy) - 1
  <1>1. IsFiniteSet(Busy)
    BY FS_Subset DEF Busy, LogAssumption
  <1> QED BY <1>1, FS_CardinalityType, FS_AddElement, FS_RemoveElement

LEMMA CountingInit == LogAssumption /\ Init => Counting
  <1> SUFFICES ASSUME LogAssumption, Init PROVE Counting
    OBVIOUS
  <1>1. Busy = {}
    BY DEF Busy, Init
  <1>2. Cardinality(Busy) = 0
    BY <1>1, FS_EmptySet
  <1> QED BY <1>2 DEF Init, Counting

LEMMA CountingStep ==
  LogAssumption /\ TypeOK /\ Exclusive /\ Counting /\ [Next]_vars => Counting'
  <1> SUFFICES ASSUME LogAssumption, TypeOK, Exclusive, Counting, [Next]_vars
               PROVE  Counting'
    OBVIOUS
  <1>1. ASSUME NEW c \in Cores, Format(c) PROVE Counting'
    <2>1. c \notin Busy /\ Busy' = Busy \cup {c}
      BY <1>1 DEF Format, Busy, TypeOK
    <2>2. Cardinality(Busy') = Cardinality(Busy) + 1 /\ Cardinality(Busy) \in Nat
      BY <2>1, BusySize
    <2>3. /\ logged' = logged + 1
          /\ UNCHANGED <<holder, loaded, dropped, kept, noticed, saturated>>
      BY <1>1 DEF Format
    <2> QED BY <2>2, <2>3 DEF Counting, TypeOK
  <1>2. ASSUME NEW c \in Cores, Enter(c) PROVE Counting'
    <2>1. Busy' = Busy
      BY <1>2 DEF Enter, Busy, TypeOK
    <2>2. \A d \in holder' : loaded'[d] = dropped'
      BY <1>2 DEF Enter, TypeOK
    <2> QED BY <1>2, <2>1, <2>2 DEF Enter, Counting, countVars
  <1>3. ASSUME NEW c \in Cores, Drop(c) PROVE Counting'
    <2>1. /\ pc[c] = "check" /\ c \in holder /\ loaded[c] = dropped
      BY <1>3 DEF Drop, Exclusive, Counting
    <2>2. c \in Busy /\ Busy' = Busy \ {c}
      BY <1>3, <2>1 DEF Drop, Busy, TypeOK
    <2>3. Cardinality(Busy') = Cardinality(Busy) - 1 /\ Cardinality(Busy) \in Nat
      BY <2>2, BusySize
    <2>4. holder' = {}
      BY <1>3, <2>1 DEF Drop, Exclusive
    <2>5. ASSUME ~saturated' PROVE ~saturated /\ dropped' = dropped + 1
      <3>1. ~saturated /\ loaded[c] # U32_MAX
        BY <1>3, <2>5 DEF Drop
      <3>2. dropped' = DropCount(dropped)
        BY <1>3, <2>1 DEF Drop
      <3> QED BY <2>1, <3>1, <3>2 DEF DropCount, TypeOK, LogAssumption
    <2>6. UNCHANGED <<logged, kept, noticed>>
      BY <1>3 DEF Drop
    <2> QED BY <2>3, <2>4, <2>5, <2>6 DEF Counting, TypeOK
  <1>4. ASSUME NEW c \in Cores, Keep(c) PROVE Counting'
    <2>1. Busy' = Busy
      BY <1>4 DEF Keep, Busy, TypeOK
    <2> QED BY <1>4, <2>1 DEF Keep, Counting, countVars
  <1>5. ASSUME NEW c \in Cores, Push(c) PROVE Counting'
    <2>1. Busy' = Busy
      BY <1>5 DEF Push, Busy
    <2> QED BY <1>5, <2>1 DEF Push, Counting, countVars
  <1>6. ASSUME NEW c \in Cores, Leave(c) PROVE Counting'
    <2>1. /\ pc[c] = "push" /\ c \in holder /\ loaded[c] = dropped
      BY <1>6 DEF Leave, Exclusive, Counting
    <2>2. c \in Busy /\ Busy' = Busy \ {c}
      BY <1>6, <2>1 DEF Leave, Busy, TypeOK
    <2>3. Cardinality(Busy') = Cardinality(Busy) - 1 /\ Cardinality(Busy) \in Nat
      BY <2>2, BusySize
    <2>4. holder' = {}
      BY <1>6, <2>1 DEF Leave, Exclusive
    <2>5. /\ dropped' = 0 /\ kept' = kept + 1 /\ noticed' = noticed + dropped
          /\ UNCHANGED <<logged, saturated>>
      BY <1>6, <2>1 DEF Leave
    <2> QED BY <2>3, <2>4, <2>5 DEF Counting, TypeOK
  <1>7. CASE Read
    BY <1>7 DEF Read, coreVars, countVars, Counting, Busy
  <1>8. CASE Transmit
    BY <1>8 DEF Transmit, coreVars, countVars, Counting, Busy
  <1>9. CASE UNCHANGED vars
    BY <1>9 DEF vars, coreVars, countVars, Counting, Busy
  <1> QED
    BY <1>1, <1>2, <1>3, <1>4, <1>5, <1>6, <1>7, <1>8, <1>9 DEF Next, Log

-----------------------------------------------------------------------------
(* Theorems *)

\* The inductive invariant holds.
LEMMA Invariant == ASSUME LogAssumption PROVE Spec => []IInv
  <1>1. Init => IInv
    BY TypeInit, ExclusiveInit, WellInit, Zenon DEF IInv
  <1>2. IInv /\ [Next]_vars => IInv'
    BY TypeStep, ExclusiveStep, WellStep, Zenon DEF IInv
  <1> QED BY <1>1, <1>2, PTL DEF Spec

\* Every variable keeps to its type: the pipe never takes more than its
\* capacity, and the count of dropped records does not wrap.
THEOREM TypeCorrect == ASSUME LogAssumption PROVE Spec => []TypeOK
  <1>1. IInv => TypeOK
    BY DEF IInv
  <1> QED BY <1>1, Invariant, PTL

\* Whatever the lengths, the UART sends whole lines, each notice right in front
\* of the record it was put with.
THEOREM AlwaysWhole == ASSUME LogAssumption PROVE Spec => []WholeLines
  <1>1. IInv => WholeLines
    BY DEF IInv, Exclusive, StreamWell, WholeLines
  <1> QED BY <1>1, Invariant, PTL

\* However the cores take turns, every record is in the pipe, reported as dropped
\* or counted to be reported once no core has one on its way.
THEOREM AllAccounted == ASSUME LogAssumption PROVE Spec => []Accounted
  <1>1. Init => Counting
    BY CountingInit
  <1>2. IInv /\ Counting /\ [Next]_vars => Counting'
    BY CountingStep DEF IInv
  <1>3. IInv /\ Counting => Accounted
    <2> SUFFICES ASSUME TypeOK, Counting, Idle, ~saturated
                 PROVE  logged = kept + noticed + dropped
      BY DEF IInv, Accounted
    <2>1. Busy = {}
      BY DEF Busy, Idle
    <2>2. Cardinality(Busy) = 0
      BY <2>1, FS_EmptySet
    <2> QED BY <2>2 DEF Counting, TypeOK
  <1> QED BY <1>1, <1>2, <1>3, Invariant, PTL DEF Spec
=============================================================================
