-------------------------- MODULE HidFramingProofs --------------------------
(* Theorems about HidFraming, for any sizes of messages, reports and the   *)
(* reassembly buffer and any number of messages, losses and disconnects:   *)
(* types; and, while the first packet of a split report is never lost, a   *)
(* message arrives or is damaged itself, and a packet costs one report.    *)
EXTENDS HidFraming, FiniteSetTheorems, SequenceTheorems, TLAPS

(* HidChunker never passes the end of its message, and there is none       *)
(* before the first.                                                       *)
ChunkInv ==
  /\ offset <= CurrentSize
  /\ sizes = << >> => emitted

Piece(part, r) == [part |-> part, report |-> r]

(* A report that HidChunker made last.                                     *)
Latest(r) ==
  /\ r.msg = Current
  /\ r.off + r.len = offset
  /\ r.flag = Flag(r.off = 0, offset >= CurrentSize)

(* What is on the wire is of the latest report, and a tail there follows   *)
(* its head.  A head that waits has perhaps lost its tail.                 *)
OnTheWire(r) ==
  \/ ~split /\ wire = <<Piece("whole", r)>>
  \/ split /\ wire = <<Piece("head", r), Piece("tail", r)>>
  \/ split /\ wire = <<Piece("tail", r)>> /\ partial = <<Piece("head", r)>>

WireInv ==
  /\ \/ wire = << >>
     \/ connected /\ emitted /\ \E r \in Report : Latest(r) /\ OnTheWire(r)
  /\ partial = << >> \/ (split /\ \E r \in Report : partial = <<Piece("head", r)>>)

(* Bytes p + 1 to p + n of message k.                                      *)
Bytes(k, p, n) == [i \in 1 .. n |-> <<k, p + i>>]

(* What the reassembler has after the first p bytes of message k.          *)
Held(k, p) ==
  IF p <= Capacity THEN asm.buffer = Bytes(k, 0, p) /\ ~asm.overflowing
                   ELSE asm.overflowing /\ asm.overflowSize = p

(* The bytes of the latest message that the bridge was given.              *)
Fed == IF wire = << >> THEN offset ELSE Head(wire).report.off

Over == Done /\ wire = << >>

PrefixInv ==
  (Current # 0 /\ Current \notin damaged /\ Fed > 0 /\ ~Over) => Held(Current, Fed)

(* An undamaged message whose last report was taken has been handed over,  *)
(* and nothing is handed over of a message before its last report.         *)
AllArrive ==
  \A k \in 1 .. Current : (k \notin damaged /\ (k < Current \/ Over)) =>
    \E n \in 1 .. Len(results) : results[n] = Expected(k)

OncePerMessage ==
  /\ \A n \in 1 .. Len(results) :
       results[n].by <= Current /\ (results[n].by = Current => Over)
  /\ \A m, n \in 1 .. Len(results) : m < n => results[m].by < results[n].by

(* Message k alone, from its first byte on and not beyond its byte p.      *)
UpTo(body, k, p) ==
  /\ OfOneMessage(body, k)
  /\ \A i \in 1 .. Len(body) : body[i][2] <= p

(* What the reassembler has of a message whose FIRST was not lost.         *)
BufferInv ==
  (Current # 0 /\ Current \notin beheaded /\ Fed > 0 /\ ~Over) => UpTo(asm.buffer, Current, Fed)

StartInv == BufferInv /\ BeginsWithItsFirst

(* A report that was sent was taken whole, has cost a packet, or is the    *)
(* one on the wire.                                                        *)
CostInv == sent <= intact + lost + (IF wire = << >> THEN 0 ELSE 1)

IInv == /\ TypeOK /\ ChunkInv /\ WireInv /\ PrefixInv
        /\ AllArrive /\ OncePerMessage /\ StartInv /\ CostInv

---------------------------------------------------------------------------
(* The size of joined packets                                              *)

(* How many packets of a kind there are is a number.                       *)
LEMMA CountType ==
  ASSUME NEW ps \in Seq(Packet), NEW part
  PROVE  /\ IsFiniteSet({i \in 1 .. Len(ps) : ps[i].part = part})
         /\ Count(ps, part) \in Nat
<1> DEFINE of == {i \in 1 .. Len(ps) : ps[i].part = part}
<1>1. Len(ps) \in Nat
  BY LenProperties
<1>2. IsFiniteSet(1 .. Len(ps))
  BY <1>1, FS_Interval
<1>3. IsFiniteSet(of)
  BY <1>2, FS_Subset
<1> QED
  BY <1>3, FS_CardinalityType DEF Count

(* One more packet counts for its own kind.                                *)
LEMMA CountAppend ==
  ASSUME NEW ps \in Seq(Packet), NEW p \in Packet, NEW part
  PROVE  Count(Append(ps, p), part) = Count(ps, part) + (IF p.part = part THEN 1 ELSE 0)
<1> DEFINE of(qs) == {i \in 1 .. Len(qs) : qs[i].part = part}
           new == Append(ps, p)
           last == Len(ps) + 1
<1>1. Len(ps) \in Nat /\ Len(new) = last /\ new[last] = p
  BY AppendProperties, LenProperties
<1>2. \A i \in 1 .. Len(ps) : new[i] = ps[i]
  BY AppendProperties
<1>3. of(new) = IF p.part = part THEN of(ps) \cup {last} ELSE of(ps)
  <2> HIDE DEF new
  <2> QED
    BY <1>1, <1>2
<1>4. IsFiniteSet(of(ps)) /\ Cardinality(of(ps)) \in Nat /\ last \notin of(ps)
  <2>1. IsFiniteSet(of(ps))
    BY CountType
  <2>2. Cardinality(of(ps)) \in Nat
    BY <2>1, FS_CardinalityType
  <2>3. last \notin of(ps)
    BY <1>1
  <2> QED
    BY <2>1, <2>2, <2>3
<1>5. Cardinality(of(ps) \cup {last}) = Cardinality(of(ps)) + 1
  <2> HIDE DEF of, last
  <2> QED
    BY <1>4, FS_AddElement
<1>6. Count(new, part) = Cardinality(of(new)) /\ Count(ps, part) = Cardinality(of(ps))
  BY DEF Count
<1> HIDE DEF of, last, new
<1>7. Count(new, part) = Count(ps, part) + (IF p.part = part THEN 1 ELSE 0)
  BY <1>3, <1>4, <1>5, <1>6
<1> QED
  BY <1>7 DEF new

(* Packets joined are as long as all of them; a report is 129 bytes.       *)
LEMMA JoinedSize ==
  /\ PartsSize(<< >>) = 0
  /\ \A ps \in Seq(Packet) : PartsSize(ps) \in Nat
  /\ \A ps \in Seq(Packet), p \in Packet :
       PartsSize(Append(ps, p)) = PartsSize(ps) + PartSize[p.part]
  /\ PartSize["whole"] = 129 /\ PartSize["head"] = 128 /\ PartSize["tail"] = 1
<1>1. PartSize["whole"] = 129 /\ PartSize["head"] = 128 /\ PartSize["tail"] = 1
  BY DEF PartSize, ReportSize
<1>2. PartsSize(<< >>) = 0
  <2>1. \A part : {i \in 1 .. Len(<< >>) : << >>[i].part = part} = {}
    BY EmptySeq
  <2>2. \A part : Count(<< >>, part) = 0
    BY <2>1, FS_EmptySet DEF Count
  <2> QED
    BY <1>1, <2>2 DEF PartsSize
<1>3. ASSUME NEW ps \in Seq(Packet)
      PROVE  /\ PartsSize(ps) = Count(ps, "whole") * 129 + Count(ps, "head") * 128 + Count(ps, "tail")
             /\ PartsSize(ps) \in Nat
  <2>1. Count(ps, "whole") \in Nat /\ Count(ps, "head") \in Nat /\ Count(ps, "tail") \in Nat
    BY CountType
  <2>2. PartsSize(ps) = Count(ps, "whole") * 129 + Count(ps, "head") * 128 + Count(ps, "tail") * 1
    BY <1>1 DEF PartsSize
  <2> QED
    BY <2>1, <2>2
<1>4. ASSUME NEW ps \in Seq(Packet), NEW p \in Packet
      PROVE  PartsSize(Append(ps, p)) = PartsSize(ps) + PartSize[p.part]
  <2>1. p.part \in {"whole", "head", "tail"}
    BY DEF Packet
  <2>2. PICK qs \in Seq(Packet) : qs = Append(ps, p)
    BY AppendProperties
  <2>3. \A part : Count(qs, part) = Count(ps, part) + (IF p.part = part THEN 1 ELSE 0)
    BY <2>2, CountAppend
  <2>4. PICK w \in Nat, h \in Nat, t \in Nat :
          w = Count(ps, "whole") /\ h = Count(ps, "head") /\ t = Count(ps, "tail")
    BY CountType
  <2>5. PartsSize(ps) = w * 129 + h * 128 + t
    BY <1>3, <2>4
  <2>6. CASE p.part = "whole"
    <3>1. /\ Count(qs, "whole") = w + 1 /\ Count(qs, "head") = h
          /\ Count(qs, "tail") = t
      BY <2>3, <2>4, <2>6
    <3>2. PartsSize(qs) = (w + 1) * 129 + h * 128 + t
      BY <1>3, <3>1
    <3> QED
      BY <1>1, <2>2, <2>5, <2>6, <3>2
  <2>7. CASE p.part = "head"
    <3>1. /\ Count(qs, "whole") = w /\ Count(qs, "head") = h + 1
          /\ Count(qs, "tail") = t
      BY <2>3, <2>4, <2>7
    <3>2. PartsSize(qs) = w * 129 + (h + 1) * 128 + t
      BY <1>3, <3>1
    <3> QED
      BY <1>1, <2>2, <2>5, <2>7, <3>2
  <2>8. CASE p.part = "tail"
    <3>1. /\ Count(qs, "whole") = w /\ Count(qs, "head") = h
          /\ Count(qs, "tail") = t + 1
      BY <2>3, <2>4, <2>8
    <3>2. PartsSize(qs) = w * 129 + h * 128 + (t + 1)
      BY <1>3, <3>1
    <3> QED
      BY <1>1, <2>2, <2>5, <2>8, <3>2
  <2> QED
    BY <2>1, <2>6, <2>7, <2>8
<1> QED
  BY <1>1, <1>2, <1>3, <1>4

---------------------------------------------------------------------------
(* Types                                                                   *)

(* The size of the latest message is a number.                             *)
LEMMA SizeType ==
  ASSUME ChunkerTypeOK
  PROVE  Current \in Nat /\ CurrentSize \in Nat
<1>1. Current \in Nat
  BY LenProperties DEF ChunkerTypeOK, Current
<1>2. Current # 0 => sizes[Current] \in Sizes
  BY <1>1, ElementOfSeq DEF ChunkerTypeOK, Current
<1> QED
  BY <1>1, <1>2, HidAssumption DEF CurrentSize

(* HidChunker::next() makes a report of the latest message.                *)
LEMMA NextReport ==
  ASSUME ChunkerTypeOK, ChunkInv, ~Done,
         NEW r, r = [msg |-> Current, off |-> offset, len |-> Least(CurrentSize - offset, MaxPayload),
                     flag |-> FlagOf(offset, Least(CurrentSize - offset, MaxPayload))]
  PROVE  /\ r \in Report /\ Current > 0
         /\ offset + r.len <= CurrentSize /\ (offset < CurrentSize => r.len > 0)
<1>1. Current \in Nat /\ CurrentSize \in Nat /\ offset \in Nat /\ MaxPayload \in Nat \ {0, 1}
  BY SizeType, HidAssumption DEF ChunkerTypeOK
<1>2. Current # 0
  <2>1. SUFFICES ASSUME Current = 0 PROVE FALSE
    OBVIOUS
  <2>2. sizes = << >>
    BY <2>1, EmptySeq DEF Current, ChunkerTypeOK
  <2> QED
    BY <1>1, <2>1, <2>2 DEF ChunkInv, Done, CurrentSize
<1>3. offset <= CurrentSize
  BY DEF ChunkInv
<1>4. /\ Least(CurrentSize - offset, MaxPayload) \in 0 .. MaxPayload
      /\ offset + Least(CurrentSize - offset, MaxPayload) <= CurrentSize
      /\ offset < CurrentSize => Least(CurrentSize - offset, MaxPayload) > 0
  BY <1>1, <1>3 DEF Least
<1>5. \A o, l : FlagOf(o, l) \in {"First", "Middle", "Last", "Single"}
  BY DEF FlagOf, Flag
<1>6. Current \in 1 .. MaxMessages
  BY <1>1, <1>2, HidAssumption DEF ChunkerTypeOK, Current
<1> QED
  BY <1>1, <1>4, <1>5, <1>6 DEF Report

(* What the joined bytes read as: a report of that many cells.             *)
LEMMA ReadAs ==
  ASSUME NEW ps \in Seq(Packet), ps # << >>
  PROVE  /\ AsReport(ps).len \in Nat
         /\ AsReport(ps).cells \in Seq(Cells) /\ Len(AsReport(ps).cells) = AsReport(ps).len
<1> DEFINE a == ps[1].report
           b == ps[Len(ps)].report
           cell(r, i) == IF i <= r.len THEN <<r.msg, r.off + i>> ELSE Junk
<1>1. Len(ps) \in Nat \ {0}
  BY LenProperties, EmptySeq
<1>2. a \in Report /\ b \in Report
  <2>1. 1 \in 1 .. Len(ps) /\ Len(ps) \in 1 .. Len(ps)
    BY <1>1
  <2>2. ps[1] \in Packet /\ ps[Len(ps)] \in Packet
    BY <2>1, ElementOfSeq
  <2> QED
    BY <2>2 DEF Packet
<1>3. Junk \in Cells
  BY HidAssumption DEF Junk, Cells
<1>4. a.len \in Nat
  BY <1>2, HidAssumption DEF Report
<1>5. CASE ps[1].part = "tail"
  BY <1>3, <1>5 DEF AsReport
<1>6. CASE ps[1].part # "tail"
  <2> DEFINE cells == [i \in 1 .. a.len |-> cell(IF i = MaxPayload THEN b ELSE a, i)]
  <2>1. \A r \in Report, i \in Nat : cell(r, i) \in Cells
    BY <1>3, HidAssumption DEF Report, Cells
  <2>2. cells \in [1 .. a.len -> Cells]
    BY <1>2, <2>1
  <2>3. AsReport(ps).len = a.len /\ AsReport(ps).cells = cells
    BY <1>6 DEF AsReport
  <2>4. cells \in Seq(Cells) /\ Len(cells) = a.len
    <3> HIDE DEF cells, a
    <3> QED
      BY <1>4, <2>2
  <2> QED
    BY <1>4, <2>3, <2>4
<1> QED
  BY <1>5, <1>6

(* feed() keeps its buffer within its capacity, and has none of a message  *)
(* that outgrew it.                                                        *)
LEMMA FeedTypes ==
  ASSUME ReassemblerTypeOK,
         NEW r, r.len \in Nat, r.cells \in Seq(Cells), Len(r.cells) = r.len
  PROVE  LET s == Feed(asm, r).asm
         IN /\ s \in [buffer : Seq(Cells), overflowing : BOOLEAN, overflowSize : Nat]
            /\ Len(s.buffer) <= Capacity
            /\ s.overflowing => s.buffer = << >>
<1> DEFINE T == [buffer : Seq(Cells), overflowing : BOOLEAN, overflowSize : Nat]
           good(s) == s \in T /\ Len(s.buffer) <= Capacity /\ (s.overflowing => s.buffer = << >>)
           base == Start(asm, r)
<1>0. << >> \in Seq(Cells) /\ Len(<< >>) = 0 /\ Capacity \in Nat
  BY EmptySeq, HidAssumption
<1>1. good(Idle)
  BY <1>0 DEF Idle
<1>2. good(base)
  BY <1>1 DEF Start, ReassemblerTypeOK
<1>3. CASE r.len > MaxPayload \/ r.flag = "bad" \/ NoBeginning(asm, r)
  <2>1. Feed(asm, r).asm = Idle
    BY <1>3 DEF Feed, Fail
  <2> QED
    BY <1>1, <2>1
<1>4. CASE ~(r.len > MaxPayload \/ r.flag = "bad" \/ NoBeginning(asm, r)) /\ Fits(base, r)
  <2>1. Feed(asm, r).asm = [base EXCEPT !.buffer = @ \o r.cells]
    BY <1>4 DEF Feed
  <2>2. /\ base.buffer \o r.cells \in Seq(Cells)
        /\ Len(base.buffer \o r.cells) = Len(base.buffer) + r.len
    <3>1. base.buffer \in Seq(Cells)
      BY <1>2
    <3>2. \A c, d \in Seq(Cells) : c \o d \in Seq(Cells) /\ Len(c \o d) = Len(c) + Len(d)
      BY ConcatProperties
    <3> HIDE DEF base
    <3> QED
      BY <3>1, <3>2
  <2>3. Len(base.buffer) + r.len <= Capacity /\ ~base.overflowing
    BY <1>4 DEF Fits
  <2> QED
    <3> HIDE DEF base
    <3> DEFINE s == [base EXCEPT !.buffer = @ \o r.cells]
    <3>0. base \in T
      BY <1>2
    <3>2. s \in T
      BY <2>2, <3>0
    <3>4. s.buffer = base.buffer \o r.cells /\ s.overflowing = base.overflowing
      BY <3>0
    <3>3. Len(s.buffer) <= Capacity
      BY <2>2, <2>3, <3>4
    <3>5. ~s.overflowing
      BY <2>3, <3>4, Zenon
    <3> HIDE DEF s
    <3>6. Feed(asm, r).asm = s
      BY <2>1 DEF s
    <3> QED
      BY <3>2, <3>3, <3>5, <3>6
<1>5. CASE ~(r.len > MaxPayload \/ r.flag = "bad" \/ NoBeginning(asm, r)) /\ ~Fits(base, r)
  <2> DEFINE size == r.len + (IF base.overflowing THEN base.overflowSize ELSE Len(base.buffer))
  <2>1. Feed(asm, r).asm = [buffer |-> << >>, overflowing |-> ~IsLast(r), overflowSize |-> size]
    BY <1>5 DEF Feed, Overflow
  <2>2. Len(base.buffer) \in Nat /\ base.overflowSize \in Nat
    <3>1. base.buffer \in Seq(Cells) /\ base.overflowSize \in Nat
      BY <1>2
    <3> HIDE DEF base
    <3> QED
      BY <3>1, LenProperties
  <2>3. size \in Nat
    <3> HIDE DEF base
    <3> QED
      BY <2>2
  <2>4. (~IsLast(r)) \in BOOLEAN
    BY DEF IsLast
  <2> HIDE DEF base, size
  <2>5. [buffer |-> << >>, overflowing |-> ~IsLast(r), overflowSize |-> size] \in T
    BY <1>0, <2>3, <2>4
  <2> QED
    BY <1>0, <2>1, <2>5
<1> QED
  BY <1>3, <1>4, <1>5

(* Joined packets are shorter than a report, or are one and are fed.       *)
LEMMA JoinedTypes ==
  ASSUME BridgeTypeOK, NEW p \in Packet
  PROVE  /\ Joined(p) \in Seq(Packet) /\ Joined(p) # << >>
         /\ PartsSize(Joined(p)) <= ReportSize
<1>1. partial \in Seq(Packet) /\ PartsSize(partial) \in Nat
  BY JoinedSize DEF BridgeTypeOK
<1>2. p.part \in {"whole", "head", "tail"}
  BY DEF Packet
<1>3. CASE Restarts(p)
  <2>1. <<p>> = Append(<< >>, p) /\ << >> \in Seq(Packet)
    BY EmptySeq
  <2>2. PartsSize(<<p>>) = PartSize[p.part]
    <3>1. PartsSize(Append(<< >>, p)) = PartsSize(<< >>) + PartSize[p.part]
      BY <2>1, JoinedSize
    <3> QED
      BY <1>2, <2>1, <3>1, JoinedSize
  <2>3. Joined(p) = <<p>>
    BY <1>3 DEF Joined
  <2> QED
    BY <1>2, <2>1, <2>2, <2>3, JoinedSize DEF ReportSize
<1>4. CASE ~Restarts(p)
  <2>1. Joined(p) = Append(partial, p)
    BY <1>4 DEF Joined
  <2>2. PartsSize(partial) + PartSize[p.part] <= ReportSize
    BY <1>1, <1>2, <1>4, JoinedSize DEF Restarts, ReportSize
  <2> QED
    BY <1>1, <2>1, <2>2, AppendProperties, JoinedSize
<1> QED
  BY <1>3, <1>4

(* The first packet of the wire is one, and so are the rest.               *)
LEMMA WireTypes ==
  ASSUME BridgeTypeOK, wire # << >>
  PROVE  Head(wire) \in Packet /\ Tail(wire) \in Seq(Packet)
BY HeadTailProperties DEF BridgeTypeOK

(* Before the first report there is nothing.                               *)
LEMMA InitTypes == Init => TypeOK /\ ChunkInv
<1> SUFFICES ASSUME Init PROVE TypeOK /\ ChunkInv
  OBVIOUS
<1>1. << >> \in Seq(Sizes) /\ << >> \in Seq(Packet) /\ << >> \in Seq(Result) /\ << >> \in Seq(Cells)
  BY EmptySeq
<1>2. Len(<< >>) = 0 /\ PartsSize(<< >>) = 0
  BY JoinedSize
<1>3. ChunkerTypeOK
  BY <1>1, <1>2, HidAssumption DEF Init, ChunkerTypeOK
<1>4. ReassemblerTypeOK
  <2>1. asm = [buffer |-> << >>, overflowing |-> FALSE, overflowSize |-> 0]
    BY DEF Init, Idle
  <2> QED
    BY <1>1, <1>2, <2>1, HidAssumption DEF ReassemblerTypeOK
<1>5. BridgeTypeOK
  BY <1>1, <1>2 DEF Init, BridgeTypeOK, ReportSize
<1>6. ChunkInv
  BY <1>2 DEF Init, ChunkInv, CurrentSize, Current
<1> QED
  BY <1>3, <1>4, <1>5, <1>6 DEF Init, TypeOK

(* HidChunker begins a message.                                            *)
LEMMA StartTypes ==
  ASSUME ChunkerTypeOK, NEW size \in Sizes, StartMessage(size)
  PROVE  /\ ChunkerTypeOK' /\ ChunkInv'
         /\ Len(sizes') = Len(sizes) + 1 /\ sizes'[Len(sizes')] = size
         /\ \A k \in 1 .. Len(sizes) : sizes'[k] = sizes[k]
<1>1. sizes' = Append(sizes, size) /\ sizes \in Seq(Sizes) /\ Len(sizes) \in Nat
  BY LenProperties DEF StartMessage, ChunkerTypeOK
<1>2. /\ sizes' \in Seq(Sizes) /\ Len(sizes') = Len(sizes) + 1 /\ sizes'[Len(sizes')] = size
      /\ sizes' # << >> /\ \A k \in 1 .. Len(sizes) : sizes'[k] = sizes[k]
  BY <1>1, AppendProperties
<1>3. Len(sizes) < MaxMessages
  BY DEF StartMessage, Current
<1>4. ChunkerTypeOK'
  <2>1. Len(sizes') <= MaxMessages
    BY <1>1, <1>2, <1>3, HidAssumption
  <2>2. offset' = 0 /\ emitted' = FALSE /\ split' = split /\ sent' = sent
    BY DEF StartMessage
  <2> QED
    BY <1>2, <2>1, <2>2 DEF ChunkerTypeOK
<1>5. CurrentSize' = size /\ size \in Nat /\ offset' = 0
  BY <1>1, <1>2, HidAssumption DEF StartMessage, CurrentSize, Current
<1> QED
  BY <1>2, <1>4, <1>5 DEF ChunkInv

(* HidChunker makes a report of one or two packets.                        *)
LEMMA EmitTypes ==
  ASSUME TypeOK, ChunkInv, EmitReport
  PROVE  TypeOK' /\ ChunkInv'
<1> USE DEF TypeOK
<1> DEFINE len == Least(CurrentSize - offset, MaxPayload)
           r == [msg |-> Current, off |-> offset, len |-> len, flag |-> FlagOf(offset, len)]
<1>1. r \in Report /\ r.len = len /\ offset + len <= CurrentSize
  <2>1. ~Done
    BY DEF EmitReport
  <2> QED
    BY <2>1, NextReport
<1>2. len \in Nat
  BY <1>1, HidAssumption DEF Report
<1>3. /\ offset' = offset + len /\ emitted' = TRUE /\ sent' = sent + 1
      /\ wire' = IF split THEN <<Piece("head", r), Piece("tail", r)>> ELSE <<Piece("whole", r)>>
  BY DEF EmitReport, Piece
<1>4. UNCHANGED <<split, sizes, connected, bridgeVars, lost, damaged, beheaded, unplugs>>
  BY DEF EmitReport
<1> HIDE DEF r, len
<1>5. wire' \in Seq(Packet)
  <2>1. Piece("head", r) \in Packet /\ Piece("tail", r) \in Packet /\ Piece("whole", r) \in Packet
    BY <1>1 DEF Piece, Packet
  <2> QED
    BY <1>3, <2>1
<1>6. ChunkerTypeOK'
  BY <1>2, <1>3, <1>4 DEF ChunkerTypeOK
<1>7. ReassemblerTypeOK'
  BY <1>4 DEF ReassemblerTypeOK, bridgeVars
<1>8. BridgeTypeOK'
  BY <1>4, <1>5 DEF BridgeTypeOK, bridgeVars
<1>9. ChunkInv'
  BY <1>1, <1>3, <1>4 DEF ChunkInv, CurrentSize, Current
<1> QED
  BY <1>4, <1>6, <1>7, <1>8, <1>9

(* A report fed to the reassembler; a complete message, or the size of one *)
(* too long, goes to the session.                                          *)
LEMMA FeedReportTypes ==
  ASSUME ReassemblerTypeOK, BridgeTypeOK,
         NEW ps \in Seq(Packet), ps # << >>, NEW dropped \in Nat, FeedReport(ps, dropped)
  PROVE  ReassemblerTypeOK' /\ results' \in Seq(Result) /\ malformed' \in Nat /\ intact' \in Nat
<1> DEFINE r == AsReport(ps)
           f == Feed(asm, r)
           by == ps[Len(ps)].report.msg
<1>1. r.len \in Nat /\ r.cells \in Seq(Cells) /\ Len(r.cells) = r.len
  BY ReadAs
<1>2. by \in 1 .. MaxMessages
  <2>1. Len(ps) \in Nat \ {0}
    BY EmptySeq
  <2>2. Len(ps) \in 1 .. Len(ps)
    BY <2>1
  <2>3. ps[Len(ps)] \in Packet
    BY <2>2, ElementOfSeq
  <2> QED
    BY <2>3 DEF Packet, Report
<1>3. asm' = f.asm
  BY DEF FeedReport
<1>4. /\ f.asm \in [buffer : Seq(Cells), overflowing : BOOLEAN, overflowSize : Nat]
      /\ Len(f.asm.buffer) <= Capacity /\ (f.asm.overflowing => f.asm.buffer = << >>)
  <2> HIDE DEF r
  <2> QED
    BY <1>1, FeedTypes
<1>5. ReassemblerTypeOK'
  <2> HIDE DEF f
  <2> QED
    BY <1>3, <1>4 DEF ReassemblerTypeOK
<1>6. /\ [kind |-> "message", by |-> by, body |-> f.asm.buffer] \in Result
      /\ [kind |-> "overflow", by |-> by, body |-> f.asm.overflowSize] \in Result
  <2>1. f.asm.buffer \in Seq(Cells) /\ f.asm.overflowSize \in Nat
    <3> HIDE DEF f
    <3> QED
      BY <1>4
  <2> HIDE DEF f, by
  <2> QED
    BY <1>2, <2>1 DEF Result
<1>7. \/ results' = Append(results, [kind |-> "message", by |-> by, body |-> f.asm.buffer])
      \/ results' = Append(results, [kind |-> "overflow", by |-> by, body |-> f.asm.overflowSize])
      \/ results' = results
  BY DEF FeedReport
<1>8. results' \in Seq(Result)
  <2>1. results \in Seq(Result) /\ \A x \in Result : Append(results, x) \in Seq(Result)
    BY AppendProperties DEF BridgeTypeOK
  <2> HIDE DEF f, by
  <2> QED
    BY <1>6, <1>7, <2>1
<1>9. malformed' \in Nat /\ intact' \in Nat
  <2>1. malformed' = malformed + dropped + (IF f.status = "Malformed" THEN 1 ELSE 0)
    BY DEF FeedReport
  <2>2. intact' = intact + (IF ps[1].part # "tail" /\ Cardinality(Reports(ps)) = 1 THEN 1 ELSE 0)
    BY DEF FeedReport
  <2> HIDE DEF f
  <2> QED
    BY <2>1, <2>2 DEF BridgeTypeOK
<1> QED
  BY <1>5, <1>8, <1>9

(* One IN transfer keeps the types, whatever was lost before it.           *)
LEMMA ReportInTypes ==
  ASSUME TypeOK, OnReportIn
  PROVE  TypeOK'
<1> USE DEF TypeOK
<1> DEFINE p == Head(wire)
           joined == Joined(p)
           dropped == IF Restarts(p) THEN 1 ELSE 0
<1>1. wire # << >> /\ wire' = Tail(wire) /\ transfers' = transfers + 1
  BY DEF OnReportIn
<1>2. UNCHANGED <<chunkerVars, connected, lost, damaged, beheaded, unplugs>>
  BY DEF OnReportIn
<1>3. p \in Packet /\ wire' \in Seq(Packet)
  BY <1>1, WireTypes
<1>4. joined \in Seq(Packet) /\ joined # << >> /\ PartsSize(joined) <= ReportSize
  <2> HIDE DEF p
  <2> QED
    BY <1>3, JoinedTypes
<1>5. dropped \in Nat
  OBVIOUS
<1>6. ChunkerTypeOK'
  BY <1>2 DEF ChunkerTypeOK, chunkerVars
<1>7. CASE PartsSize(joined) = ReportSize
  <2>1. partial' = << >> /\ FeedReport(joined, dropped)
    BY <1>7 DEF OnReportIn
  <2>2. ReassemblerTypeOK' /\ results' \in Seq(Result) /\ malformed' \in Nat /\ intact' \in Nat
    <3> HIDE DEF joined, dropped
    <3> QED
      BY <1>4, <1>5, <2>1, FeedReportTypes
  <2>3. partial' \in Seq(Packet) /\ PartsSize(partial') < ReportSize
    BY <2>1, EmptySeq, JoinedSize DEF ReportSize
  <2>4. BridgeTypeOK'
    BY <1>1, <1>3, <2>2, <2>3 DEF BridgeTypeOK
  <2> QED
    BY <1>2, <1>6, <2>2, <2>4
<1>8. CASE PartsSize(joined) # ReportSize
  <2>1. partial' = joined /\ malformed' = malformed + dropped /\ UNCHANGED <<asm, results, intact>>
    BY <1>8 DEF OnReportIn
  <2>2. PartsSize(joined) < ReportSize
    <3>1. PartsSize(joined) \in Nat
      BY <1>4, JoinedSize
    <3> HIDE DEF joined
    <3> QED
      BY <1>4, <1>8, <3>1 DEF ReportSize
  <2>3. malformed' \in Nat
    <3> HIDE DEF dropped
    <3> QED
      BY <1>5, <2>1 DEF BridgeTypeOK
  <2>4. BridgeTypeOK'
    <3> HIDE DEF joined
    <3> QED
      BY <1>1, <1>3, <1>4, <2>1, <2>2, <2>3 DEF BridgeTypeOK
  <2>5. ReassemblerTypeOK'
    BY <2>1 DEF ReassemblerTypeOK
  <2> QED
    BY <1>2, <1>6, <2>4, <2>5
<1> QED
  BY <1>7, <1>8

(* The reports of some packets are reports, and not infinitely many.       *)
LEMMA ReportsTypes ==
  ASSUME NEW ps \in Seq(Packet)
  PROVE  Reports(ps) \subseteq Report /\ IsFiniteSet(Reports(ps))
<1>1. Len(ps) \in Nat
  BY LenProperties
<1>2. \A i \in 1 .. Len(ps) : ps[i] \in Packet
  BY ElementOfSeq
<1>3. Reports(ps) \subseteq Report
  BY <1>2 DEF Reports, Packet
<1>4. IsFiniteSet(1 .. Len(ps))
  BY <1>1, FS_Interval
<1> DEFINE f == [i \in 1 .. Len(ps) |-> ps[i].report]
<1>5. f \in Surjection(1 .. Len(ps), Reports(ps))
  BY DEF Surjection, Reports
<1> QED
  BY <1>3, <1>4, <1>5, FS_Surjection

(* A disconnect ends the message under way.                                *)
LEMMA RemovedTypes ==
  ASSUME TypeOK, ChunkInv, OnRemoved
  PROVE  TypeOK' /\ ChunkInv'
<1> USE DEF TypeOK
<1> DEFINE cut == Reports(wire) \cup Reports(partial)
<1>1. /\ connected' = FALSE /\ partial' = << >> /\ wire' = << >> /\ offset' = CurrentSize
      /\ emitted' = TRUE /\ unplugs' = unplugs + 1
      /\ lost' = lost + Cardinality(cut)
      /\ damaged' = damaged \cup {r.msg : r \in cut} \cup (IF Done THEN {} ELSE {Current})
      /\ UNCHANGED <<split, sizes, sent, asm, transfers, malformed, results, intact, beheaded>>
  BY DEF OnRemoved
<1>2. cut \subseteq Report /\ IsFiniteSet(cut)
  <2>1. wire \in Seq(Packet) /\ partial \in Seq(Packet)
    BY DEF BridgeTypeOK
  <2>2. /\ Reports(wire) \subseteq Report /\ IsFiniteSet(Reports(wire))
        /\ Reports(partial) \subseteq Report /\ IsFiniteSet(Reports(partial))
    BY <2>1, ReportsTypes
  <2> QED
    BY <2>2, FS_Union
<1>3. Cardinality(cut) \in Nat
  BY <1>2, FS_CardinalityType
<1>4. {r.msg : r \in cut} \subseteq 1 .. MaxMessages
  BY <1>2 DEF Report
<1>5. ~Done => Current \in 1 .. MaxMessages
  <2>1. Current \in Nat /\ Current <= MaxMessages
    BY SizeType DEF ChunkerTypeOK, Current
  <2>2. ASSUME Current = 0 PROVE Done
    <3>1. sizes = << >>
      BY <2>2, EmptySeq DEF Current, ChunkerTypeOK
    <3> QED
      BY <2>2, <3>1 DEF ChunkInv, Done, CurrentSize, ChunkerTypeOK
  <2> QED
    BY <2>1, <2>2, HidAssumption
<1>6. damaged' \subseteq 1 .. MaxMessages /\ beheaded' \subseteq damaged'
  <2> HIDE DEF cut
  <2> QED
    BY <1>1, <1>4, <1>5
<1>7. lost' \in Nat /\ unplugs' \in Nat
  <2> HIDE DEF cut
  <2> QED
    BY <1>1, <1>3
<1>8. CurrentSize \in Nat /\ CurrentSize' = CurrentSize
  BY <1>1, SizeType DEF CurrentSize, Current
<1>9. ChunkerTypeOK' /\ ChunkInv'
  BY <1>1, <1>8 DEF ChunkerTypeOK, ChunkInv
<1>10. ReassemblerTypeOK'
  BY <1>1 DEF ReassemblerTypeOK
<1>11. BridgeTypeOK'
  BY <1>1, EmptySeq, JoinedSize DEF BridgeTypeOK, ReportSize
<1> QED
  BY <1>1, <1>6, <1>7, <1>9, <1>10, <1>11

(* A lost packet damages its message.                                      *)
LEMMA LoseTypes ==
  ASSUME TypeOK, Lose
  PROVE  TypeOK'
<1> USE DEF TypeOK
<1>1. /\ wire # << >> /\ lost' = lost + 1 /\ wire' = Tail(wire)
      /\ damaged' = damaged \cup {Head(wire).report.msg}
      /\ beheaded' = beheaded \cup (IF Head(wire).report.off = 0 THEN {Head(wire).report.msg} ELSE {})
      /\ UNCHANGED <<chunkerVars, connected, bridgeVars, unplugs>>
  BY DEF Lose
<1>2. Head(wire) \in Packet /\ wire' \in Seq(Packet)
  BY <1>1, WireTypes
<1>3. Head(wire).report.msg \in 1 .. MaxMessages
  BY <1>2 DEF Packet, Report
<1>4. ChunkerTypeOK' /\ ReassemblerTypeOK'
  <2>1. ChunkerTypeOK'
    BY <1>1 DEF ChunkerTypeOK, chunkerVars
  <2>2. ReassemblerTypeOK'
    BY <1>1 DEF ReassemblerTypeOK, bridgeVars
  <2> QED
    BY <2>1, <2>2
<1>5. BridgeTypeOK'
  <2>1. UNCHANGED <<partial, results, transfers, malformed, intact>>
    BY <1>1 DEF bridgeVars
  <2> QED
    BY <1>2, <2>1 DEF BridgeTypeOK
<1>6. UNCHANGED <<connected, unplugs>> /\ lost' \in Nat
  BY <1>1
<1> QED
  BY <1>1, <1>3, <1>4, <1>5, <1>6

(* Every step keeps the types.                                             *)
LEMMA StepTypes ==
  ASSUME TypeOK, ChunkInv, [Next]_vars
  PROVE  TypeOK' /\ ChunkInv'
<1> USE DEF TypeOK
<1>1. ASSUME NEW size \in Sizes, StartMessage(size) PROVE TypeOK' /\ ChunkInv'
  <2>1. ChunkerTypeOK' /\ ChunkInv'
    BY <1>1, StartTypes
  <2>2. UNCHANGED <<connected, wire, bridgeVars, lost, damaged, beheaded, unplugs>>
    BY <1>1 DEF StartMessage
  <2>3. ReassemblerTypeOK' /\ BridgeTypeOK'
    BY <2>2 DEF ReassemblerTypeOK, BridgeTypeOK, bridgeVars
  <2> QED
    BY <2>1, <2>2, <2>3
<1>2. CASE Lose
  BY <1>2, LoseTypes DEF Lose, ChunkInv, CurrentSize, Current, chunkerVars
<1>3. CASE OnReportIn
  BY <1>3, ReportInTypes DEF OnReportIn, ChunkInv, CurrentSize, Current, chunkerVars
<1>4. CASE OnProbe
  <2>1. connected' = TRUE /\ partial' = << >>
    BY <1>4 DEF OnProbe
  <2>2. UNCHANGED <<chunkerVars, wire, asm, transfers, malformed, results, intact, lost, damaged, beheaded, unplugs>>
    BY <1>4 DEF OnProbe
  <2>3. ChunkerTypeOK' /\ ChunkInv' /\ ReassemblerTypeOK'
    BY <2>2 DEF ChunkerTypeOK, ChunkInv, ReassemblerTypeOK, CurrentSize, Current, chunkerVars
  <2>4. BridgeTypeOK'
    BY <2>1, <2>2, EmptySeq, JoinedSize DEF BridgeTypeOK, ReportSize
  <2> QED
    BY <2>1, <2>2, <2>3, <2>4
<1>5. CASE UNCHANGED vars
  BY <1>5 DEF vars, chunkerVars, bridgeVars, ChunkerTypeOK, ChunkInv, ReassemblerTypeOK, BridgeTypeOK,
              CurrentSize, Current
<1> QED
  BY <1>1, <1>2, <1>3, <1>4, <1>5, EmitTypes, RemovedTypes DEF Next

(* Every variable has its type, the reassembly buffer stays within its     *)
(* capacity and the joined packets within a report, whatever is lost.      *)
THEOREM TypeCorrect == Spec => []TypeOK
<1>1. Init => TypeOK /\ ChunkInv
  BY InitTypes
<1>2. (TypeOK /\ ChunkInv) /\ [Next]_vars => (TypeOK /\ ChunkInv)'
  BY StepTypes
<1> QED
  BY <1>1, <1>2, PTL DEF Spec

---------------------------------------------------------------------------
(* What the reassembler is given                                           *)

(* A report as it was sent.                                                *)
AsSent(r) == [len |-> r.len, flag |-> r.flag, cells |-> Bytes(r.msg, r.off, r.len)]

(* The bridge feeds a report as it was sent.                               *)
Given(r) ==
  LET f == Feed(asm, AsSent(r))
  IN /\ asm' = f.asm
     /\ results' = CASE f.status = "Complete" ->
                          Append(results, [kind |-> "message", by |-> r.msg, body |-> f.asm.buffer])
                     [] f.status = "Overflow" ->
                          Append(results, [kind |-> "overflow", by |-> r.msg, body |-> f.asm.overflowSize])
                     [] OTHER -> results
     /\ intact' = intact + 1

(* A sequence of one, and one more.                                        *)
LEMMA AppendOne ==
  ASSUME NEW S, NEW a \in S, NEW b \in S
  PROVE  Append(<<a>>, b) = <<a, b>>
<1>1. <<a>> \in Seq(S) /\ Len(<<a>>) = 1 /\ <<a>>[1] = a
  OBVIOUS
<1>2. <<a, b>> \in Seq(S) /\ Len(<<a, b>>) = 2 /\ <<a, b>>[1] = a /\ <<a, b>>[2] = b
  OBVIOUS
<1>3. /\ Append(<<a>>, b) \in Seq(S) /\ Len(Append(<<a>>, b)) = 2
      /\ Append(<<a>>, b)[1] = a /\ Append(<<a>>, b)[2] = b
  BY <1>1, AppendProperties
<1>4. \A i \in 1 .. Len(<<a, b>>) : <<a, b>>[i] = Append(<<a>>, b)[i]
  <2>1. \A i \in 1 .. 2 : i = 1 \/ i = 2
    OBVIOUS
  <2> QED
    BY <1>2, <1>3, <2>1
<1> QED
  BY <1>2, <1>3, <1>4, SeqEqual

(* A whole report, or its head and its tail, are joined, and nothing less. *)
LEMMA JoinedReport ==
  ASSUME NEW r \in Report
  PROVE  /\ Piece("whole", r) \in Packet /\ Piece("head", r) \in Packet /\ Piece("tail", r) \in Packet
         /\ PartsSize(<<Piece("whole", r)>>) = ReportSize
         /\ PartsSize(<<Piece("head", r)>>) = ReportSize - 1
         /\ PartsSize(<<Piece("head", r), Piece("tail", r)>>) = ReportSize
<1> DEFINE h == Piece("head", r)
           t == Piece("tail", r)
           w == Piece("whole", r)
<1>1. w \in Packet /\ h \in Packet /\ t \in Packet /\ << >> \in Seq(Packet)
  BY EmptySeq DEF Piece, Packet
<1>2. w.part = "whole" /\ h.part = "head" /\ t.part = "tail"
  BY DEF Piece
<1> HIDE DEF h, t, w
<1>3. <<w>> = Append(<< >>, w) /\ <<h>> = Append(<< >>, h) /\ <<h, t>> = Append(<<h>>, t)
  BY <1>1, AppendOne
<1>4. <<w>> \in Seq(Packet) /\ <<h>> \in Seq(Packet)
  BY <1>1
<1>5. \A ps \in Seq(Packet), p \in Packet :
        PartsSize(Append(ps, p)) = PartsSize(ps) + PartSize[p.part]
  BY JoinedSize
<1>6. PartsSize(<<w>>) = 129 /\ PartsSize(<<h>>) = 128
  <2>1. /\ PartsSize(Append(<< >>, w)) = PartsSize(<< >>) + PartSize[w.part]
        /\ PartsSize(Append(<< >>, h)) = PartsSize(<< >>) + PartSize[h.part]
    BY <1>1, <1>5
  <2> QED
    BY <1>2, <1>3, <2>1, JoinedSize
<1>7. PartsSize(<<h, t>>) = 129
  <2>1. PartsSize(Append(<<h>>, t)) = PartsSize(<<h>>) + PartSize[t.part]
    BY <1>1, <1>4, <1>5
  <2>2. PartSize["tail"] = 1
    BY JoinedSize
  <2>3. PartsSize(<<h, t>>) = PartsSize(Append(<<h>>, t))
    BY <1>3, Zenon
  <2>4. PartSize[t.part] = 1
    BY <1>2, <2>2
  <2> QED
    BY <1>6, <2>1, <2>3, <2>4
<1> QED
  BY <1>1, <1>6, <1>7 DEF h, t, w, ReportSize

(* Both read as the report that was sent.                                  *)
LEMMA ReadAsSent ==
  ASSUME NEW r \in Report,
         NEW ps, ps = <<Piece("whole", r)>> \/ ps = <<Piece("head", r), Piece("tail", r)>>
  PROVE  /\ AsReport(ps) = AsSent(r) /\ ps[Len(ps)].report.msg = r.msg
         /\ ps[1].part # "tail" /\ Cardinality(Reports(ps)) = 1
<1>1. ps[1].report = r /\ ps[Len(ps)].report = r /\ ps[1].part # "tail"
  <2>1. CASE ps = <<Piece("whole", r)>>
    BY <2>1 DEF Piece
  <2>2. CASE ps = <<Piece("head", r), Piece("tail", r)>>
    BY <2>2 DEF Piece
  <2> QED
    BY <2>1, <2>2
<1>2. r.len \in Nat
  BY HidAssumption DEF Report
<1> DEFINE cell(q, i) == IF i <= q.len THEN <<q.msg, q.off + i>> ELSE Junk
<1>3. [i \in 1 .. r.len |-> cell(IF i = MaxPayload THEN r ELSE r, i)] = Bytes(r.msg, r.off, r.len)
  BY <1>2 DEF Bytes
<1>4. AsReport(ps) = [len |-> r.len, flag |-> r.flag,
                      cells |-> [i \in 1 .. r.len |-> cell(IF i = MaxPayload THEN r ELSE r, i)]]
  BY <1>1 DEF AsReport
<1>5. AsReport(ps) = AsSent(r)
  <2> HIDE DEF cell
  <2> QED
    BY <1>3, <1>4 DEF AsSent
<1>6. Reports(ps) = {r}
  <2>1. CASE ps = <<Piece("whole", r)>>
    BY <2>1 DEF Reports, Piece
  <2>2. CASE ps = <<Piece("head", r), Piece("tail", r)>>
    BY <2>2 DEF Reports, Piece
  <2> QED
    BY <2>1, <2>2
<1> QED
  BY <1>1, <1>5, <1>6, FS_Singleton

(* An IN transfer is the head of a report, whose tail follows, or it ends  *)
(* a report, which is then fed as it was sent.                             *)
LEMMA Delivery ==
  ASSUME WireInv, OnReportIn
  PROVE  \E r \in Report :
           /\ Latest(r) /\ Head(wire).report = r /\ emitted
           /\ \/ /\ split /\ wire' = <<Piece("tail", r)>> /\ partial' = <<Piece("head", r)>>
                 /\ UNCHANGED <<asm, results, intact>>
              \/ wire' = << >> /\ partial' = << >> /\ Given(r)
<1>1. PICK r \in Report : Latest(r) /\ OnTheWire(r)
  BY DEF WireInv, OnReportIn
<1> DEFINE h == Piece("head", r)
           t == Piece("tail", r)
           w == Piece("whole", r)
<1>2. /\ emitted /\ wire' = Tail(wire)
      /\ partial = << >> \/ (split /\ \E q \in Report : partial = <<Piece("head", q)>>)
  BY DEF WireInv, OnReportIn
<1>3. /\ PartsSize(<<w>>) = 129 /\ PartsSize(<<h>>) = 128 /\ PartsSize(<<h, t>>) = 129
      /\ PartsSize(<< >>) = 0
      /\ PartSize["whole"] = 129 /\ PartSize["head"] = 128 /\ PartSize["tail"] = 1
  BY JoinedReport, JoinedSize DEF ReportSize
<1>4. w.part = "whole" /\ h.part = "head" /\ t.part = "tail" /\ w.report = r /\ h.report = r /\ t.report = r
  BY DEF Piece
<1>5. ASSUME NEW ps, ps = <<w>> \/ ps = <<h, t>>, NEW n, FeedReport(ps, n)
      PROVE  Given(r)
  <2>1. /\ AsReport(ps) = AsSent(r) /\ ps[Len(ps)].report.msg = r.msg
        /\ ps[1].part # "tail" /\ Cardinality(Reports(ps)) = 1
    BY <1>5, ReadAsSent
  <2> QED
    BY <1>5, <2>1 DEF FeedReport, Given
<1>6. CASE ~split /\ wire = <<w>>
  <2>1. partial = << >> /\ Head(wire) = w /\ Tail(wire) = << >>
    BY <1>2, <1>6
  <2>2. Joined(w) = <<w>>
    BY <2>1 DEF Joined
  <2>3. FeedReport(<<w>>, IF Restarts(w) THEN 1 ELSE 0) /\ partial' = << >>
    BY <1>3, <2>1, <2>2 DEF OnReportIn, ReportSize
  <2>4. Given(r)
    BY <1>5, <2>3
  <2> QED
    BY <1>1, <1>2, <1>4, <2>1, <2>3, <2>4
<1>7. CASE split /\ wire = <<h, t>>
  <2>1. Head(wire) = h /\ Tail(wire) = <<t>>
    BY <1>7
  <2>2. Joined(h) = <<h>>
    <3>1. CASE partial = << >>
      BY <3>1 DEF Joined
    <3>2. ASSUME NEW q \in Report, partial = <<Piece("head", q)>> PROVE Joined(h) = <<h>>
      <4>1. PartsSize(partial) = 128
        <5>1. PartsSize(<<Piece("head", q)>>) = ReportSize - 1
          BY JoinedReport
        <5> QED
          BY <3>2, <5>1 DEF ReportSize
      <4>2. Restarts(h)
        BY <1>3, <1>4, <4>1 DEF Restarts, ReportSize
      <4> QED
        BY <4>2 DEF Joined
    <3> QED
      BY <1>2, <3>1, <3>2
  <2>3. partial' = <<h>> /\ UNCHANGED <<asm, results, intact>>
    BY <1>3, <2>1, <2>2 DEF OnReportIn, ReportSize
  <2> QED
    BY <1>1, <1>2, <1>4, <1>7, <2>1, <2>3
<1>8. CASE split /\ wire = <<t>> /\ partial = <<h>>
  <2>1. Head(wire) = t /\ Tail(wire) = << >>
    BY <1>8
  <2>2. ~Restarts(t)
    BY <1>3, <1>4, <1>8 DEF Restarts, ReportSize
  <2>3. Joined(t) = <<h, t>>
    <3>1. Joined(t) = Append(partial, t)
      BY <2>2 DEF Joined
    <3> HIDE DEF h, t
    <3>2. Append(<<h>>, t) = <<h, t>>
      <4>1. h \in Packet /\ t \in Packet
        BY JoinedReport DEF h, t
      <4> QED
        BY <4>1, AppendOne
    <3> QED
      BY <1>8, <3>1, <3>2, Zenon
  <2>4. FeedReport(<<h, t>>, 0) /\ partial' = << >>
    BY <1>3, <2>1, <2>2, <2>3 DEF OnReportIn, ReportSize
  <2>5. Given(r)
    BY <1>5, <2>4
  <2> QED
    BY <1>1, <1>2, <1>4, <2>1, <2>4, <2>5
<1> QED
  BY <1>1, <1>6, <1>7, <1>8 DEF OnTheWire

(* The first p bytes of a message and the next n are its first p + n.      *)
LEMMA BytesJoin ==
  ASSUME NEW k, NEW p \in Nat, NEW n \in Nat
  PROVE  Bytes(k, 0, p) \o Bytes(k, p, n) = Bytes(k, 0, p + n)
<1> DEFINE S == {k} \X Nat
           a == Bytes(k, 0, p)
           b == Bytes(k, p, n)
           c == Bytes(k, 0, p + n)
<1>1. /\ a \in Seq(S) /\ Len(a) = p /\ \A i \in 1 .. p : a[i] = <<k, i>>
      /\ b \in Seq(S) /\ Len(b) = n /\ \A i \in 1 .. n : b[i] = <<k, p + i>>
      /\ c \in Seq(S) /\ Len(c) = p + n /\ \A i \in 1 .. p + n : c[i] = <<k, i>>
  <2>1. a \in Seq(S) /\ Len(a) = p /\ \A i \in 1 .. p : a[i] = <<k, i>>
    BY DEF Bytes
  <2>2. b \in Seq(S) /\ Len(b) = n /\ \A i \in 1 .. n : b[i] = <<k, p + i>>
    BY DEF Bytes
  <2>3. c \in Seq(S) /\ Len(c) = p + n /\ \A i \in 1 .. p + n : c[i] = <<k, i>>
    BY DEF Bytes
  <2> QED
    BY <2>1, <2>2, <2>3
<1> HIDE DEF a, b, c, S
<1>2. /\ a \o b \in Seq(S) /\ Len(a \o b) = p + n
      /\ \A i \in 1 .. p + n : (a \o b)[i] = IF i <= p THEN a[i] ELSE b[i - p]
  BY <1>1, ConcatProperties
<1>3. \A i \in 1 .. p + n : (a \o b)[i] = c[i]
  <2> SUFFICES ASSUME NEW i \in 1 .. p + n PROVE (a \o b)[i] = c[i]
    OBVIOUS
  <2>1. CASE i <= p
    <3>1. i \in 1 .. p /\ (a \o b)[i] = a[i]
      BY <1>2, <2>1
    <3> QED
      BY <1>1, <3>1
  <2>2. CASE ~(i <= p)
    <3>1. PICK j \in 1 .. n : j = i - p /\ p + j = i
      BY <2>2
    <3>2. (a \o b)[i] = b[j]
      BY <1>2, <2>2, <3>1
    <3>3. b[j] = <<k, p + j>> /\ c[i] = <<k, i>>
      BY <1>1
    <3> QED
      BY <3>1, <3>2, <3>3
  <2> QED
    BY <2>1, <2>2
<1>4. a \o b = c
  BY <1>1, <1>2, <1>3, SeqEqual
<1> QED
  BY <1>4 DEF a, b, c

(* A message is its first bytes, all of them.                              *)
LEMMA BodyBytes == \A k : sizes[k] \in Nat => Body(k) = Bytes(k, 0, sizes[k])
  BY DEF Body, Bytes

(* HidChunker marks the first and the last report of a message as such.    *)
LEMMA LatestReport ==
  ASSUME TypeOK, ChunkInv, emitted, NEW r \in Report, Latest(r)
  PROVE  /\ r.len \in Nat /\ r.off \in Nat /\ r.len <= MaxPayload /\ r.flag # "bad"
         /\ IsFirst(AsSent(r)) <=> r.off = 0
         /\ IsLast(AsSent(r)) <=> offset >= CurrentSize
         /\ Done <=> offset >= CurrentSize
         /\ Current \in 1 .. Len(sizes) /\ CurrentSize = sizes[Current]
         /\ sizes[Current] \in Nat /\ offset \in Nat /\ offset <= CurrentSize
         /\ AsSent(r).len = r.len /\ AsSent(r).cells = Bytes(Current, r.off, r.len)
         /\ r.off + r.len = offset /\ r.msg = Current
<1> USE DEF TypeOK
<1>1. r.len \in Nat /\ r.off \in Nat /\ r.len <= MaxPayload /\ r.flag # "bad" /\ r.msg \in Nat \ {0}
  BY HidAssumption DEF Report
<1>2. AsSent(r).flag = Flag(r.off = 0, offset >= CurrentSize) /\ AsSent(r).len = r.len
  BY DEF Latest, AsSent
<1>3. /\ r.off + r.len = offset /\ r.msg = Current
      /\ AsSent(r).cells = Bytes(Current, r.off, r.len)
  BY DEF Latest, AsSent
<1>4. IsFirst(AsSent(r)) <=> r.off = 0
  BY <1>2 DEF IsFirst, Flag
<1>5. IsLast(AsSent(r)) <=> offset >= CurrentSize
  BY <1>2 DEF IsLast, Flag
<1>6. Done <=> offset >= CurrentSize
  BY DEF Done
<1>7. Current \in 1 .. Len(sizes) /\ CurrentSize = sizes[Current]
  <2>1. Current \in Nat /\ Current # 0 /\ Current = Len(sizes)
    BY <1>1, <1>3, SizeType DEF Current
  <2> QED
    BY <2>1 DEF CurrentSize
<1>8. sizes[Current] \in Nat /\ offset \in Nat /\ offset <= CurrentSize
  BY <1>7, SizeType DEF ChunkInv, ChunkerTypeOK
<1> QED
  BY <1>1, <1>2, <1>3, <1>4, <1>5, <1>6, <1>7, <1>8

(* feed() ends a message only with its last report.                        *)
LEMMA OnlyTheLast ==
  ASSUME NEW r, Given(r)
  PROVE  \/ results' = results
         \/ IsLast(AsSent(r)) /\ \E x : x.by = r.msg /\ results' = Append(results, x)
<1> DEFINE f == Feed(asm, AsSent(r))
<1>1. f.status \in {"Complete", "Overflow"} => IsLast(AsSent(r))
  BY DEF Feed, Fail, Overflow
<1> HIDE DEF f
<1>2. results' = CASE f.status = "Complete" ->
                        Append(results, [kind |-> "message", by |-> r.msg, body |-> f.asm.buffer])
                   [] f.status = "Overflow" ->
                        Append(results, [kind |-> "overflow", by |-> r.msg, body |-> f.asm.overflowSize])
                   [] OTHER -> results
  BY DEF Given, f
<1>3. CASE f.status = "Complete"
  BY <1>1, <1>2, <1>3
<1>4. CASE f.status = "Overflow"
  BY <1>1, <1>2, <1>4
<1>5. CASE f.status \notin {"Complete", "Overflow"}
  BY <1>2, <1>5
<1> QED
  BY <1>3, <1>4, <1>5

(* A report that continues what the reassembler has of its message, or     *)
(* begins it, is added; the last one hands over what is expected.          *)
LEMMA FeedContinues ==
  ASSUME TypeOK, ChunkInv, emitted, NEW r \in Report, Latest(r), Given(r),
         r.off > 0 => Held(Current, r.off), UNCHANGED <<sizes, offset>>
  PROVE  /\ ~Done => Held(Current, offset)'
         /\ Done => results' = Append(results, Expected(Current))
<1> DEFINE g == AsSent(r)
           base == Start(asm, g)
           f == Feed(asm, g)
<1>0. /\ r.len \in Nat /\ r.off \in Nat /\ r.len <= MaxPayload /\ r.flag # "bad"
      /\ IsFirst(g) <=> r.off = 0
      /\ IsLast(g) <=> offset >= CurrentSize
      /\ Done <=> offset >= CurrentSize
      /\ Current \in 1 .. Len(sizes) /\ CurrentSize = sizes[Current]
      /\ sizes[Current] \in Nat /\ offset \in Nat /\ offset <= CurrentSize
      /\ g.len = r.len /\ g.cells = Bytes(Current, r.off, r.len)
      /\ r.off + r.len = offset /\ r.msg = Current
  BY LatestReport
<1>1. g.flag # "bad" /\ Capacity \in Nat /\ Current' = Current /\ MaxPayload \in Nat
  BY <1>0, HidAssumption DEF AsSent, Current
<1>2. ~NoBeginning(asm, g)
  <2>1. CASE r.off = 0
    BY <1>0, <2>1 DEF NoBeginning
  <2>2. CASE r.off # 0
    <3>1. Held(Current, r.off)
      BY <1>0, <2>2
    <3>2. Bytes(Current, 0, r.off) # << >>
      <4>1. DOMAIN Bytes(Current, 0, r.off) = 1 .. r.off /\ DOMAIN << >> = {}
        BY DEF Bytes
      <4>2. 1 \in 1 .. r.off
        BY <1>0, <2>2
      <4> QED
        BY <4>1, <4>2
    <3> QED
      BY <3>1, <3>2 DEF Held, NoBeginning
  <2> QED
    BY <2>1, <2>2
<1>3. f = IF Fits(base, g)
          THEN [asm |-> [base EXCEPT !.buffer = @ \o g.cells],
                status |-> IF IsLast(g) THEN "Complete" ELSE "InProgress"]
          ELSE Overflow(base, g)
  BY <1>0, <1>1, <1>2 DEF Feed
<1>4. /\ r.off <= Capacity => base.buffer = Bytes(Current, 0, r.off) /\ ~base.overflowing
      /\ r.off > Capacity => base.overflowing /\ base.overflowSize = r.off
  <2>1. CASE r.off = 0
    <3>1. base.buffer = << >> /\ ~base.overflowing
      BY <1>0, <2>1 DEF Start, Idle
    <3>2. Bytes(Current, 0, 0) = << >>
      BY DEF Bytes
    <3> QED
      BY <1>1, <2>1, <3>1, <3>2
  <2>2. CASE r.off # 0
    <3>1. base = asm
      BY <1>0, <2>2 DEF Start
    <3>2. Held(Current, r.off)
      BY <1>0, <2>2
    <3>3. CASE r.off <= Capacity
      BY <1>0, <1>1, <3>1, <3>2, <3>3 DEF Held
    <3>4. CASE r.off > Capacity
      BY <1>0, <1>1, <3>1, <3>2, <3>4 DEF Held
    <3> QED
      BY <1>0, <1>1, <3>3, <3>4
  <2> QED
    BY <2>1, <2>2
<1>5. Len(Bytes(Current, 0, r.off)) = r.off
  BY <1>0 DEF Bytes
<1>6. asm' = f.asm
  BY DEF Given
<1>7. results' = CASE f.status = "Complete" ->
                        Append(results, [kind |-> "message", by |-> r.msg, body |-> f.asm.buffer])
                   [] f.status = "Overflow" ->
                        Append(results, [kind |-> "overflow", by |-> r.msg, body |-> f.asm.overflowSize])
                   [] OTHER -> results
  BY DEF Given
<1>8. CASE offset <= Capacity
  <2>1. r.off <= Capacity
    BY <1>0, <1>1, <1>8
  <2>2. Fits(base, g)
    BY <1>0, <1>1, <1>4, <1>5, <1>8, <2>1 DEF Fits
  <2>3. f.asm = [base EXCEPT !.buffer = @ \o g.cells]
    BY <1>3, <2>2
  <2>4. base.buffer \o g.cells = Bytes(Current, 0, offset)
    <3>1. Bytes(Current, 0, r.off) \o Bytes(Current, r.off, r.len) = Bytes(Current, 0, r.off + r.len)
      BY <1>0, BytesJoin
    <3> QED
      BY <1>0, <1>4, <2>1, <3>1
  <2>5. base \in [buffer : Seq(Cells), overflowing : BOOLEAN, overflowSize : Nat]
    BY EmptySeq DEF Start, Idle, TypeOK, ReassemblerTypeOK
  <2>6. f.asm.buffer = Bytes(Current, 0, offset)
    <3> HIDE DEF base, g, f
    <3> QED
      BY <2>3, <2>4, <2>5
  <2>7. ~f.asm.overflowing
    <3>1. f.asm.overflowing = base.overflowing
      <4> HIDE DEF base, g, f
      <4> QED
        BY <2>3, <2>5
    <3> QED
      BY <1>4, <2>1, <3>1, Zenon
  <2>8. CASE ~Done
    <3>1. Held(Current, offset)'
      <4> HIDE DEF f
      <4> QED
        BY <1>1, <1>6, <1>8, <2>6, <2>7 DEF Held
    <3> QED
      BY <2>8, <3>1
  <2>9. CASE Done
    <3>1. f.status = "Complete" /\ offset = sizes[Current]
      BY <1>0, <1>3, <2>2, <2>9
    <3>2. results' = Append(results, [kind |-> "message", by |-> Current, body |-> f.asm.buffer])
      BY <1>0, <1>7, <3>1
    <3>3. Expected(Current) = [kind |-> "message", by |-> Current, body |-> Bytes(Current, 0, offset)]
      BY <1>0, <1>8, <3>1, BodyBytes DEF Expected
    <3> QED
      BY <2>6, <2>9, <3>2, <3>3, Zenon
  <2> QED
    BY <2>8, <2>9
<1>9. CASE offset > Capacity
  <2>1. ~Fits(base, g)
    <3>1. CASE r.off <= Capacity
      BY <1>0, <1>1, <1>4, <1>5, <1>9, <3>1 DEF Fits
    <3>2. CASE r.off > Capacity
      BY <1>4, <3>2 DEF Fits
    <3> QED
      BY <1>0, <1>1, <3>1, <3>2
  <2>2. f = Overflow(base, g)
    BY <1>3, <2>1
  <2>3. g.len + (IF base.overflowing THEN base.overflowSize ELSE Len(base.buffer)) = offset
    <3>1. CASE r.off <= Capacity
      BY <1>0, <1>4, <1>5, <3>1
    <3>2. CASE r.off > Capacity
      BY <1>0, <1>4, <3>2
    <3> QED
      BY <1>0, <1>1, <3>1, <3>2
  <2>4. /\ f.asm = [buffer |-> << >>, overflowing |-> ~IsLast(g), overflowSize |-> offset]
        /\ f.status = IF IsLast(g) THEN "Overflow" ELSE "InProgress"
    BY <2>2, <2>3 DEF Overflow
  <2>5. CASE ~Done
    <3>1. asm'.overflowing /\ asm'.overflowSize = offset
      <4>1. ~IsLast(g)
        BY <1>0, <2>5
      <4>2. f.asm.overflowSize = offset /\ f.asm.overflowing = ~IsLast(g)
        BY <2>4
      <4>3. f.asm.overflowing
        BY <4>1, <4>2, Zenon
      <4> HIDE DEF f
      <4> QED
        BY <1>6, <4>2, <4>3
    <3> QED
      BY <1>0, <1>1, <1>9, <2>5, <3>1 DEF Held
  <2>6. CASE Done
    <3>1. f.status = "Overflow" /\ offset = sizes[Current] /\ f.asm.overflowSize = offset
      BY <1>0, <2>4, <2>6
    <3>2. results' = Append(results, [kind |-> "overflow", by |-> Current, body |-> offset])
      BY <1>0, <1>7, <3>1
    <3>3. Expected(Current) = [kind |-> "overflow", by |-> Current, body |-> offset]
      BY <1>0, <1>1, <1>9, <3>1 DEF Expected
    <3> QED
      BY <2>6, <3>2, <3>3
  <2> QED
    BY <2>5, <2>6
<1> QED
  BY <1>0, <1>1, <1>8, <1>9

(* A body of message k up to byte p, and its n bytes after it.             *)
LEMMA GrowsInOrder ==
  ASSUME NEW b \in Seq(Cells), NEW k, NEW p \in Nat, NEW n \in Nat, Bytes(k, p, n) \in Seq(Cells),
         b # << >> \/ p = 0, UpTo(b, k, p)
  PROVE  UpTo(b \o Bytes(k, p, n), k, p + n)
<1> DEFINE c == b \o Bytes(k, p, n)
<1>1. Len(b) \in Nat /\ Len(Bytes(k, p, n)) = n
  <2>1. DOMAIN Bytes(k, p, n) = 1 .. n
    BY DEF Bytes
  <2> QED
    BY <2>1, LenProperties
<1>2. /\ Len(c) = Len(b) + n
      /\ \A i \in 1 .. Len(b) + n :
           c[i] = IF i <= Len(b) THEN b[i] ELSE Bytes(k, p, n)[i - Len(b)]
  BY <1>1, ConcatProperties
<1>3. \A i \in 1 .. Len(b) : c[i] = b[i] /\ b[i][2] \in Nat
  <2>1. \A i \in 1 .. Len(b) : b[i] \in Cells
    BY ElementOfSeq
  <2>2. \A i \in 1 .. Len(b) : b[i][2] \in Nat
    BY <2>1 DEF Cells
  <2>3. \A i \in 1 .. Len(b) : i \in 1 .. Len(b) + n /\ i <= Len(b)
    BY <1>1
  <2> HIDE DEF c
  <2> QED
    BY <1>2, <2>2, <2>3
<1>4. \A i \in 1 .. Len(b) + n : i \notin 1 .. Len(b) =>
        c[i] = <<k, p + (i - Len(b))>> /\ i - Len(b) \in 1 .. n
  <2>1. \A i \in 1 .. Len(b) + n : i \notin 1 .. Len(b) => ~(i <= Len(b)) /\ i - Len(b) \in 1 .. n
    BY <1>1
  <2>2. \A i \in 1 .. n : Bytes(k, p, n)[i] = <<k, p + i>>
    BY DEF Bytes
  <2> HIDE DEF c
  <2> QED
    BY <1>2, <2>1, <2>2
<1> HIDE DEF c
<1>5. \A i \in 1 .. Len(c) : c[i][1] = k /\ c[i][2] <= p + n /\ c[i][2] \in Nat
  <2> SUFFICES ASSUME NEW i \in 1 .. Len(c) PROVE c[i][1] = k /\ c[i][2] <= p + n /\ c[i][2] \in Nat
    OBVIOUS
  <2>1. CASE i \in 1 .. Len(b)
    <3>1. c[i] = b[i] /\ b[i][2] \in Nat /\ b[i][1] = k /\ b[i][2] <= p
      BY <1>3, <2>1 DEF UpTo, OfOneMessage
    <3> QED
      BY <3>1
  <2>2. CASE i \notin 1 .. Len(b)
    <3>1. c[i] = <<k, p + (i - Len(b))>> /\ i - Len(b) \in 1 .. n
      BY <1>2, <1>4, <2>2
    <3>2. c[i][1] = k /\ c[i][2] = p + (i - Len(b))
      BY <3>1
    <3> QED
      BY <3>1, <3>2
  <2> QED
    BY <2>1, <2>2
<1>6. ASSUME NEW i \in 1 .. Len(c), NEW j \in 1 .. Len(c), i < j PROVE c[i][2] < c[j][2]
  <2>1. CASE j \in 1 .. Len(b)
    <3>1. i \in 1 .. Len(b)
      BY <1>1, <1>6, <2>1
    <3>2. b[i][2] < b[j][2]
      BY <1>6, <2>1, <3>1 DEF UpTo, OfOneMessage
    <3> QED
      BY <1>3, <2>1, <3>1, <3>2
  <2>2. CASE j \notin 1 .. Len(b) /\ i \in 1 .. Len(b)
    <3>1. c[j] = <<k, p + (j - Len(b))>> /\ j - Len(b) \in 1 .. n
      BY <1>2, <1>4, <2>2
    <3>2. c[j][2] = p + (j - Len(b))
      BY <3>1
    <3>3. c[i][2] <= p /\ c[i][2] \in Nat
      <4>1. c[i] = b[i] /\ b[i][2] \in Nat /\ b[i][2] <= p
        BY <1>3, <2>2 DEF UpTo
      <4> QED
        BY <4>1
    <3> QED
      BY <3>1, <3>2, <3>3
  <2>3. CASE j \notin 1 .. Len(b) /\ i \notin 1 .. Len(b)
    <3>1. /\ c[j] = <<k, p + (j - Len(b))>> /\ j - Len(b) \in 1 .. n
          /\ c[i] = <<k, p + (i - Len(b))>> /\ i - Len(b) \in 1 .. n
      BY <1>2, <1>4, <2>3
    <3>2. c[j][2] = p + (j - Len(b)) /\ c[i][2] = p + (i - Len(b))
      BY <3>1
    <3> QED
      BY <1>1, <1>6, <3>1, <3>2
  <2> QED
    BY <2>1, <2>2, <2>3
<1>7. c # << >> => c[1] = <<k, 1>>
  <2>1. CASE b # << >>
    <3>1. 1 \in 1 .. Len(b)
      BY <2>1, <1>1, EmptySeq
    <3> QED
      BY <1>3, <2>1, <3>1 DEF UpTo, OfOneMessage
  <2>2. CASE b = << >>
    <3>1. c = Bytes(k, p, n) /\ p = 0
      BY <2>2, ConcatEmptySeq DEF c
    <3>2. n # 0 => Bytes(k, p, n)[1] = <<k, p + 1>>
      BY DEF Bytes
    <3>3. Bytes(k, p, n) # << >> => n # 0
      BY DEF Bytes
    <3>4. p + 1 = 1
      BY <3>1
    <3> QED
      BY <3>1, <3>2, <3>3, <3>4
  <2> QED
    BY <2>1, <2>2
<1>8. UpTo(c, k, p + n)
  BY <1>5, <1>6, <1>7 DEF UpTo, OfOneMessage
<1> QED
  BY <1>8 DEF c

(* With nothing in it, a body is of any message.                           *)
LEMMA NothingYet == \A k, p : UpTo(<< >>, k, p)
<1>1. 1 .. Len(<< >>) = {}
  BY EmptySeq
<1> QED
  BY <1>1 DEF UpTo, OfOneMessage

(* A report of message k, the first or after its bytes up to p.            *)
LEMMA FeedKeepsOrder ==
  ASSUME ReassemblerTypeOK, NEW g, NEW k, NEW p \in Nat, g.len \in Nat, g.cells = Bytes(k, p, g.len),
         g.cells \in Seq(Cells), IsFirst(g) <=> p = 0, p > 0 => UpTo(asm.buffer, k, p)
  PROVE  UpTo(Feed(asm, g).asm.buffer, k, p + g.len)
<1> DEFINE base == Start(asm, g)
           b == Feed(asm, g).asm.buffer
<1>1. CASE g.len > MaxPayload \/ g.flag = "bad" \/ NoBeginning(asm, g)
  <2>1. b = << >>
    BY <1>1 DEF Feed, Fail, Idle
  <2> HIDE DEF b
  <2>2. UpTo(b, k, p + g.len)
    BY <2>1, NothingYet
  <2> QED
    BY <2>2 DEF b
<1>2. CASE ~(g.len > MaxPayload \/ g.flag = "bad" \/ NoBeginning(asm, g)) /\ ~Fits(base, g)
  <2>1. b = << >>
    BY <1>2 DEF Feed, Overflow
  <2> HIDE DEF b
  <2>2. UpTo(b, k, p + g.len)
    BY <2>1, NothingYet
  <2> QED
    BY <2>2 DEF b
<1>3. CASE ~(g.len > MaxPayload \/ g.flag = "bad" \/ NoBeginning(asm, g)) /\ Fits(base, g)
  <2>1. base \in [buffer : Seq(Cells), overflowing : BOOLEAN, overflowSize : Nat]
    BY EmptySeq DEF Start, Idle, ReassemblerTypeOK
  <2>2. Feed(asm, g).asm = [base EXCEPT !.buffer = @ \o g.cells]
    BY <1>3 DEF Feed
  <2>3. b = base.buffer \o g.cells
    <3> HIDE DEF base
    <3> QED
      BY <2>1, <2>2
  <2>4. UpTo(base.buffer, k, p) /\ (base.buffer # << >> \/ p = 0)
    <3>1. CASE IsFirst(g)
      <4>1. base.buffer = << >>
        BY <3>1 DEF Start, Idle
      <4> HIDE DEF base
      <4> QED
        BY <3>1, <4>1, NothingYet
    <3>2. CASE ~IsFirst(g)
      <4>1. base = asm /\ ~asm.overflowing
        BY <1>3, <3>2 DEF Start, Fits
      <4>2. asm.buffer # << >>
        BY <1>3, <3>2, <4>1 DEF NoBeginning
      <4>3. p > 0
        BY <3>2
      <4> HIDE DEF base
      <4> QED
        BY <4>1, <4>2, <4>3
    <3> QED
      BY <3>1, <3>2
  <2>5. base.buffer \in Seq(Cells)
    BY <2>1
  <2> HIDE DEF base, b
  <2>6. UpTo(base.buffer \o g.cells, k, p + g.len)
    BY <2>4, <2>5, GrowsInOrder
  <2>7. UpTo(b, k, p + g.len)
    BY <2>3, <2>6
  <2> QED
    BY <2>7 DEF b
<1> QED
  BY <1>1, <1>2, <1>3


---------------------------------------------------------------------------
(* The steps                                                               *)

(* Results that follow one another still do when one of a later message is *)
(* added.                                                                  *)
LEMMA AddResult ==
  ASSUME BridgeTypeOK, NEW x, results' = Append(results, x), NEW k, x.by = k,
         \A n \in 1 .. Len(results) : results[n].by < k,
         \A m, n \in 1 .. Len(results) : m < n => results[m].by < results[n].by
  PROVE  /\ Len(results') = Len(results) + 1 /\ results'[Len(results')] = x
         /\ \A n \in 1 .. Len(results) : results'[n] = results[n]
         /\ \A m, n \in 1 .. Len(results') : m < n => results'[m].by < results'[n].by
<1>1. results \in Seq(Result \cup {x}) /\ x \in Result \cup {x} /\ Len(results) \in Nat
  BY SeqMonotonic, LenProperties DEF BridgeTypeOK
<1>2. /\ Len(results') = Len(results) + 1 /\ results'[Len(results')] = x
      /\ \A n \in 1 .. Len(results) : results'[n] = results[n]
  BY <1>1, AppendProperties
<1>3. ASSUME NEW m \in 1 .. Len(results'), NEW n \in 1 .. Len(results'), m < n
      PROVE  results'[m].by < results'[n].by
  <2>1. m \in 1 .. Len(results)
    BY <1>1, <1>2, <1>3
  <2>2. CASE n \in 1 .. Len(results)
    BY <1>2, <1>3, <2>1, <2>2
  <2>3. CASE n \notin 1 .. Len(results)
    <3>1. n = Len(results')
      BY <1>1, <1>2, <2>3
    <3> QED
      BY <1>2, <2>1, <3>1
  <2> QED
    BY <2>2, <2>3
<1> QED
  BY <1>2, <1>3

(* The last packet of a report: the report is fed.                         *)
LEMMA ReportTaken ==
  ASSUME IInv, NEW r \in Report, Latest(r), Head(wire).report = r, emitted, wire # << >>,
         wire' = << >>, partial' = << >>, Given(r),
         UNCHANGED <<chunkerVars, connected, lost, damaged, beheaded, unplugs>>
  PROVE  WireInv' /\ PrefixInv' /\ AllArrive' /\ OncePerMessage' /\ StartInv' /\ CostInv'
<1> USE DEF IInv
<1>0. /\ r.len \in Nat /\ r.off \in Nat /\ r.flag # "bad"
      /\ IsFirst(AsSent(r)) <=> r.off = 0
      /\ IsLast(AsSent(r)) <=> offset >= CurrentSize
      /\ Done <=> offset >= CurrentSize
      /\ Current \in 1 .. Len(sizes) /\ offset \in Nat
      /\ AsSent(r).len = r.len /\ AsSent(r).cells = Bytes(Current, r.off, r.len)
      /\ r.msg = Current
  BY LatestReport
<1>1. /\ UNCHANGED <<split, sizes, offset, emitted, sent, connected, lost, damaged, beheaded>>
      /\ Current' = Current /\ CurrentSize' = CurrentSize /\ (Done' <=> Done)
  BY DEF chunkerVars, Current, CurrentSize, Done
<1>2. WireInv'
  BY DEF WireInv
<1>3. ~Over /\ (Over' <=> Done) /\ Fed = r.off /\ Fed' = offset
  BY <1>1 DEF Over, Fed
<1>4. \A n \in 1 .. Len(results) : results[n].by < Current
  <2>1. \A n \in 1 .. Len(results) : results[n].by <= Current /\ results[n].by # Current
    BY <1>3 DEF OncePerMessage
  <2>2. \A n \in 1 .. Len(results) : results[n].by \in Nat
    <3>1. \A n \in 1 .. Len(results) : results[n] \in Result
      BY ElementOfSeq DEF TypeOK, BridgeTypeOK
    <3> QED
      BY <3>1 DEF Result
  <2>3. Current \in Nat
    BY SizeType DEF TypeOK
  <2> QED
    BY <2>1, <2>2, <2>3
<1>5. \A m, n \in 1 .. Len(results) : m < n => results[m].by < results[n].by
  BY DEF OncePerMessage
<1>6. Len(results) \in Nat /\ Current \in Nat
  BY SizeType, LenProperties DEF TypeOK, BridgeTypeOK
<1>7. \/ results' = results
      \/ /\ Done /\ Len(results') = Len(results) + 1 /\ results'[Len(results')].by = Current
         /\ \A n \in 1 .. Len(results) : results'[n] = results[n]
         /\ \A m, n \in 1 .. Len(results') : m < n => results'[m].by < results'[n].by
  <2>1. ASSUME IsLast(AsSent(r)), NEW x, x.by = r.msg, results' = Append(results, x)
        PROVE  /\ Len(results') = Len(results) + 1 /\ results'[Len(results')].by = Current
               /\ \A n \in 1 .. Len(results) : results'[n] = results[n]
               /\ \A m, n \in 1 .. Len(results') : m < n => results'[m].by < results'[n].by
    BY <1>0, <1>4, <1>5, <2>1, AddResult DEF TypeOK
  <2> QED
    BY <1>0, <2>1, OnlyTheLast
<1>8. OncePerMessage'
  <2>1. CASE results' = results
    BY <1>1, <1>4, <1>5, <1>6, <2>1 DEF OncePerMessage
  <2>2. CASE results' # results
    <3>1. \A n \in 1 .. Len(results') : n = Len(results') \/ n \in 1 .. Len(results)
      BY <1>6, <1>7, <2>2
    <3>2. \A n \in 1 .. Len(results') : results'[n].by <= Current
      <4>1. results'[Len(results')].by <= Current
        BY <1>6, <1>7, <2>2
      <4>2. \A n \in 1 .. Len(results) : results'[n].by <= Current
        BY <1>7, <2>2 DEF OncePerMessage
      <4> QED
        BY <3>1, <4>1, <4>2
    <3> QED
      BY <1>1, <1>3, <1>7, <2>2, <3>2 DEF OncePerMessage
  <2> QED
    BY <2>1, <2>2
<1>9. \A n \in 1 .. Len(results) : n \in 1 .. Len(results') /\ results'[n] = results[n]
  BY <1>6, <1>7
<1>10. Current \notin damaged =>
         /\ ~Done => Held(Current, offset)'
         /\ Done => results' = Append(results, Expected(Current))
  <2>1. Current \notin damaged /\ r.off > 0 => Held(Current, r.off)
    BY <1>0, <1>3, <1>6 DEF PrefixInv
  <2> QED
    BY <1>1, <2>1, FeedContinues
<1>11. PrefixInv'
  BY <1>1, <1>3, <1>10 DEF PrefixInv
<1>12. \A k : Expected(k)' = Expected(k)
  BY <1>1 DEF Expected, Body
<1>13. AllArrive'
  <2> SUFFICES ASSUME NEW k \in 1 .. Current, k \notin damaged, k < Current \/ Done
               PROVE  \E n \in 1 .. Len(results') : results'[n] = Expected(k)
    BY <1>1, <1>3, <1>12 DEF AllArrive
  <2>1. CASE k < Current
    <3>1. PICK n \in 1 .. Len(results) : results[n] = Expected(k)
      BY <2>1 DEF AllArrive
    <3> QED
      BY <1>9, <3>1
  <2>2. CASE ~(k < Current)
    <3>1. k = Current
      BY <1>6, <2>2
    <3>2. results' = Append(results, Expected(Current))
      BY <1>10, <2>2, <3>1
    <3>3. Len(results') = Len(results) + 1 /\ results'[Len(results')] = Expected(Current)
      <4>1. results \in Seq(Result \cup {Expected(Current)})
        BY SeqMonotonic DEF TypeOK, BridgeTypeOK
      <4> QED
        BY <3>2, <4>1, AppendProperties
    <3>4. Len(results') \in 1 .. Len(results')
      BY <1>6, <3>3
    <3> QED
      BY <3>1, <3>3, <3>4
  <2> QED
    BY <2>1, <2>2
<1>14. Current \notin beheaded => UpTo(asm'.buffer, Current, offset)
  <2> DEFINE g == AsSent(r)
  <2>1. g.cells \in Seq(Cells)
    <3>1. Current <= MaxMessages /\ MaxMessages \in Nat
      BY HidAssumption DEF TypeOK, ChunkerTypeOK, Current
    <3>2. \A i \in 1 .. r.len : <<Current, r.off + i>> \in Cells
      BY <1>0, <1>6, <3>1 DEF Cells
    <3> DEFINE f == [i \in 1 .. r.len |-> <<Current, r.off + i>>]
    <3>3. f \in [1 .. r.len -> Cells]
      BY <3>2
    <3>4. g.cells = f
      BY <1>0 DEF Bytes
    <3> HIDE DEF f, g
    <3> QED
      BY <1>0, <3>3, <3>4, SeqDef
  <2>2. Current \notin beheaded /\ r.off > 0 => UpTo(asm.buffer, Current, r.off)
    BY <1>0, <1>3, <1>6 DEF StartInv, BufferInv
  <2>3. Current \notin beheaded => UpTo(Feed(asm, g).asm.buffer, Current, r.off + g.len)
    <3>1. g.len \in Nat /\ g.cells = Bytes(Current, r.off, g.len) /\ (IsFirst(g) <=> r.off = 0)
      BY <1>0 DEF g
    <3> HIDE DEF g
    <3> QED
      BY <1>0, <2>1, <2>2, <3>1, FeedKeepsOrder DEF TypeOK
  <2>4. r.off + g.len = offset
    BY <1>0 DEF Latest
  <2> QED
    BY <2>3, <2>4 DEF Given
<1>15. StartInv'
  <2>1. \/ results' = results
        \/ results' = Append(results, [kind |-> "message", by |-> r.msg, body |-> asm'.buffer])
        \/ results' = Append(results, [kind |-> "overflow", by |-> r.msg, body |-> asm'.overflowSize])
    BY DEF Given
  <2> DEFINE begins(x) == (x.kind = "message" /\ x.by \notin beheaded) => OfOneMessage(x.body, x.by)
  <2>2. \A n \in 1 .. Len(results) : begins(results[n])
    BY DEF StartInv, BeginsWithItsFirst
  <2>3. ASSUME NEW x, results' = Append(results, x), begins(x)
        PROVE  \A n \in 1 .. Len(results') : begins(results'[n])
    <3>1. results \in Seq(Result \cup {x})
      BY SeqMonotonic DEF TypeOK, BridgeTypeOK
    <3>2. /\ Len(results') = Len(results) + 1 /\ results'[Len(results')] = x
          /\ \A n \in 1 .. Len(results) : results'[n] = results[n]
      BY <2>3, <3>1, AppendProperties
    <3>3. \A n \in 1 .. Len(results') : n = Len(results') \/ n \in 1 .. Len(results)
      BY <1>6, <3>2
    <3> HIDE DEF begins
    <3> QED
      BY <2>2, <2>3, <3>2, <3>3
  <2>4. /\ begins([kind |-> "message", by |-> r.msg, body |-> asm'.buffer])
        /\ begins([kind |-> "overflow", by |-> r.msg, body |-> asm'.overflowSize])
    BY <1>0, <1>14 DEF UpTo
  <2>5. \A n \in 1 .. Len(results') : begins(results'[n])
    <3> HIDE DEF begins
    <3> QED
      BY <2>1, <2>2, <2>3, <2>4
  <2>6. BufferInv'
    BY <1>1, <1>3, <1>14 DEF BufferInv
  <2> QED
    BY <1>1, <2>5, <2>6 DEF StartInv, BeginsWithItsFirst
<1>16. CostInv'
  <2>1. intact' = intact + 1 /\ sent' = sent /\ lost' = lost
    BY <1>1 DEF Given
  <2>2. sent \in Nat /\ intact \in Nat /\ lost \in Nat /\ sent <= intact + lost + 1
    BY DEF TypeOK, ChunkerTypeOK, BridgeTypeOK, CostInv
  <2> QED
    BY <2>1, <2>2 DEF CostInv
<1> QED
  BY <1>2, <1>8, <1>11, <1>13, <1>15, <1>16

Framed == WireInv /\ PrefixInv /\ AllArrive /\ OncePerMessage /\ StartInv /\ CostInv

(* A new message: what was expected of those before stays, and of this one *)
(* nothing was sent.                                                       *)
LEMMA StartStep ==
  ASSUME IInv, NEW size \in Sizes, StartMessage(size)
  PROVE  Framed'
<1> USE DEF IInv
<1>1. /\ Len(sizes') = Len(sizes) + 1 /\ \A k \in 1 .. Len(sizes) : sizes'[k] = sizes[k]
  BY StartTypes DEF TypeOK
<1>2. /\ Done /\ wire = << >> /\ offset' = 0 /\ emitted' = FALSE
      /\ UNCHANGED <<split, connected, wire, bridgeVars, sent, lost, damaged, beheaded, unplugs>>
  BY DEF StartMessage
<1>3. UNCHANGED <<partial, asm, results, intact>>
  BY <1>2 DEF bridgeVars
<1>4. Current \in Nat /\ Current' = Current + 1 /\ Current = Len(sizes)
  BY <1>1, SizeType DEF Current, TypeOK
<1>5. ~Over' /\ Over /\ Fed' = 0
  BY <1>2 DEF Over, Done, Fed
<1>6. WireInv'
  BY <1>2, <1>3 DEF WireInv
<1>7. PrefixInv'
  BY <1>5 DEF PrefixInv
<1>8. AllArrive'
  <2> SUFFICES ASSUME NEW k \in 1 .. Current', k \notin damaged, k < Current'
               PROVE  \E n \in 1 .. Len(results) : results[n] = Expected(k)'
    BY <1>2, <1>3, <1>5 DEF AllArrive
  <2>1. k \in 1 .. Current /\ (k < Current \/ Over)
    BY <1>4, <1>5
  <2>2. sizes'[k] = sizes[k]
    BY <1>1, <1>4, <2>1
  <2>3. Expected(k)' = Expected(k)
    BY <2>2 DEF Expected, Body
  <2> QED
    BY <2>1, <2>3 DEF AllArrive
<1>9. OncePerMessage'
  <2>1. \A n \in 1 .. Len(results) : results[n].by \in Nat /\ results[n].by <= Current
    <3>1. \A n \in 1 .. Len(results) : results[n] \in Result
      BY ElementOfSeq DEF TypeOK, BridgeTypeOK
    <3> QED
      BY <3>1 DEF Result, OncePerMessage
  <2>2. \A n \in 1 .. Len(results) : results[n].by <= Current' /\ results[n].by # Current'
    BY <1>4, <2>1
  <2> QED
    BY <1>3, <2>2 DEF OncePerMessage
<1>10. StartInv' /\ CostInv'
  BY <1>2, <1>3, <1>5 DEF StartInv, BufferInv, BeginsWithItsFirst, CostInv
<1> QED
  BY <1>6, <1>7, <1>8, <1>9, <1>10 DEF Framed

(* The next report is what is on the wire.                                 *)
LEMMA EmitStep ==
  ASSUME IInv, EmitReport
  PROVE  Framed'
<1> USE DEF IInv
<1> DEFINE len == Least(CurrentSize - offset, MaxPayload)
           r == [msg |-> Current, off |-> offset, len |-> len, flag |-> FlagOf(offset, len)]
<1>1. ~Done /\ connected /\ wire = << >>
  BY DEF EmitReport
<1>2. /\ offset' = offset + len /\ emitted' = TRUE /\ sent' = sent + 1
      /\ wire' = IF split THEN <<Piece("head", r), Piece("tail", r)>> ELSE <<Piece("whole", r)>>
      /\ UNCHANGED <<split, sizes, connected, bridgeVars, lost, damaged, beheaded, unplugs>>
  BY DEF EmitReport, Piece
<1>3. /\ r \in Report /\ Current > 0
      /\ offset + len <= CurrentSize /\ (offset < CurrentSize => len > 0)
  BY <1>1, NextReport DEF TypeOK
<1>4. UNCHANGED <<partial, asm, results, intact>> /\ Current' = Current /\ CurrentSize' = CurrentSize
  BY <1>2 DEF bridgeVars, Current, CurrentSize
<1>5. r.msg = Current /\ r.off = offset /\ r.len = len /\ r.flag = Flag(offset = 0, offset + len >= CurrentSize)
  BY DEF FlagOf
<1>6. offset \in Nat /\ len \in Nat /\ CurrentSize \in Nat
  <2>1. r.len \in Nat
    BY <1>3, HidAssumption DEF Report
  <2> QED
    BY <1>5, <2>1, SizeType DEF TypeOK, ChunkerTypeOK
<1> HIDE DEF r, len
<1>7. WireInv'
  <2>0. PICK q \in Report : q = r
    BY <1>3
  <2>1. Latest(q)'
    BY <1>2, <1>4, <1>5, <2>0 DEF Latest
  <2>2. OnTheWire(q)'
    BY <1>2, <2>0 DEF OnTheWire
  <2>3. partial' = << >> \/ (split' /\ \E p \in Report : partial' = <<Piece("head", p)>>)
    BY <1>2, <1>4 DEF WireInv
  <2> QED
    BY <1>1, <1>2, <1>3, <2>1, <2>2, <2>3 DEF WireInv
<1>8. wire' # << >> /\ Head(wire').report = r
  BY <1>2 DEF Piece
<1>9. Fed' = Fed /\ ~Over' /\ ~Over
  BY <1>1, <1>5, <1>8 DEF Fed, Over
<1>10. PrefixInv'
  <2>1. Held(Current, Fed)' <=> Held(Current, Fed)
    BY <1>4, <1>9 DEF Held
  <2> QED
    BY <1>2, <1>4, <1>9, <2>1 DEF PrefixInv
<1>11. \A k : Expected(k)' = Expected(k)
  BY <1>2 DEF Expected, Body
<1>12. AllArrive' /\ OncePerMessage'
  BY <1>2, <1>4, <1>9, <1>11 DEF AllArrive, OncePerMessage
<1>13. StartInv'
  BY <1>2, <1>4, <1>9 DEF StartInv, BufferInv, BeginsWithItsFirst
<1>14. CostInv'
  <2>1. sent \in Nat /\ intact \in Nat /\ lost \in Nat
    BY DEF TypeOK, ChunkerTypeOK, BridgeTypeOK
  <2> QED
    BY <1>1, <1>2, <1>4, <1>8, <2>1 DEF CostInv
<1> QED
  BY <1>7, <1>10, <1>12, <1>13, <1>14 DEF Framed

(* A lost report, or a lost tail, costs one report of its own message.     *)
LEMMA LoseStep ==
  ASSUME IInv, "head" \notin Droppable, Lose
  PROVE  Framed'
<1> USE DEF IInv
<1>1. /\ wire # << >> /\ Head(wire).part \in Droppable /\ lost' = lost + 1 /\ wire' = Tail(wire)
      /\ damaged' = damaged \cup {Head(wire).report.msg}
      /\ beheaded' = beheaded \cup (IF Head(wire).report.off = 0 THEN {Head(wire).report.msg} ELSE {})
      /\ UNCHANGED <<chunkerVars, connected, bridgeVars, unplugs>>
  BY DEF Lose
<1>2. /\ UNCHANGED <<split, sizes, offset, emitted, sent, partial, asm, results, intact>>
      /\ Current' = Current
  BY <1>1 DEF chunkerVars, bridgeVars, Current
<1>3. PICK r \in Report : Latest(r) /\ OnTheWire(r)
  BY <1>1 DEF WireInv
<1>4. wire' = << >> /\ Head(wire).report = r
  <2>1. wire' = Tail(wire) /\ Head(wire).part # "head"
    BY <1>1
  <2>2. CASE wire = <<Piece("head", r), Piece("tail", r)>>
    BY <2>1, <2>2 DEF Piece
  <2>3. ASSUME NEW part, wire = <<Piece(part, r)>> PROVE wire' = << >> /\ Head(wire).report = r
    BY <2>1, <2>3 DEF Piece
  <2> QED
    BY <1>3, <2>2, <2>3 DEF OnTheWire
<1>5. Current \in damaged'
  BY <1>1, <1>3, <1>4 DEF Latest
<1>6. WireInv'
  BY <1>2, <1>4 DEF WireInv
<1>7. PrefixInv'
  BY <1>2, <1>5 DEF PrefixInv
<1>8. Current \in Nat
  BY SizeType DEF TypeOK
<1>9. \A k : Expected(k)' = Expected(k)
  BY <1>2 DEF Expected, Body
<1>10. AllArrive'
  <2> SUFFICES ASSUME NEW k \in 1 .. Current, k \notin damaged'
               PROVE  \E n \in 1 .. Len(results) : results[n] = Expected(k)
    BY <1>2, <1>9 DEF AllArrive
  <2>1. k < Current /\ k \notin damaged
    BY <1>1, <1>5, <1>8
  <2> QED
    BY <2>1 DEF AllArrive
<1>11. OncePerMessage'
  <2>1. ~Over
    BY <1>1 DEF Over
  <2> QED
    BY <1>2, <2>1 DEF OncePerMessage
<1>12. StartInv'
  <2>1. beheaded \subseteq beheaded'
    BY <1>1
  <2>2. BeginsWithItsFirst'
    BY <1>2, <2>1 DEF StartInv, BeginsWithItsFirst
  <2>3. ASSUME Current \notin beheaded' PROVE UpTo(asm.buffer, Current, Fed')
    <3>1. r.off # 0
      BY <1>1, <1>3, <1>4, <2>3 DEF Latest
    <3>2. Fed = r.off /\ ~Over /\ Fed' = offset
      BY <1>1, <1>2, <1>4 DEF Fed, Over
    <3>3. r.off \in Nat /\ r.len \in Nat /\ r.off + r.len = offset /\ r.msg = Current
      BY <1>3, HidAssumption DEF Latest, Report
    <3>4. Current # 0
      BY <1>3, <3>3 DEF Report
    <3>5. UpTo(asm.buffer, Current, r.off)
      BY <2>1, <2>3, <3>1, <3>2, <3>3, <3>4 DEF StartInv, BufferInv
    <3>6. \A i \in 1 .. Len(asm.buffer) : asm.buffer[i][2] <= offset
      <4>1. \A i \in 1 .. Len(asm.buffer) : asm.buffer[i][2] \in Nat
        <5>1. \A i \in 1 .. Len(asm.buffer) : asm.buffer[i] \in Cells
          BY ElementOfSeq DEF TypeOK, ReassemblerTypeOK
        <5> QED
          BY <5>1 DEF Cells
      <4>2. \A i \in 1 .. Len(asm.buffer) : asm.buffer[i][2] <= r.off
        BY <3>5 DEF UpTo
      <4> QED
        BY <3>3, <4>1, <4>2
    <3> QED
      BY <3>2, <3>5, <3>6 DEF UpTo
  <2>4. BufferInv'
    BY <1>2, <2>3 DEF BufferInv
  <2> QED
    BY <2>2, <2>4 DEF StartInv
<1>13. CostInv'
  <2>1. sent \in Nat /\ intact \in Nat /\ lost \in Nat
    BY DEF TypeOK, ChunkerTypeOK, BridgeTypeOK
  <2> QED
    BY <1>1, <1>2, <1>4, <2>1 DEF CostInv
<1> QED
  BY <1>6, <1>7, <1>10, <1>11, <1>12, <1>13 DEF Framed

(* A head waits for its tail, or a report is taken.                        *)
LEMMA ReportInStep ==
  ASSUME IInv, OnReportIn
  PROVE  Framed'
<1> USE DEF IInv
<1>1. PICK r \in Report :
        /\ Latest(r) /\ Head(wire).report = r /\ emitted
        /\ \/ /\ split /\ wire' = <<Piece("tail", r)>> /\ partial' = <<Piece("head", r)>>
              /\ UNCHANGED <<asm, results, intact>>
           \/ wire' = << >> /\ partial' = << >> /\ Given(r)
  BY Delivery
<1>2. wire # << >> /\ connected /\ UNCHANGED <<chunkerVars, connected, lost, damaged, beheaded, unplugs>>
  BY DEF OnReportIn
<1>3. CASE wire' = << >> /\ partial' = << >> /\ Given(r)
  BY <1>1, <1>2, <1>3, ReportTaken DEF Framed
<1>4. CASE /\ split /\ wire' = <<Piece("tail", r)>> /\ partial' = <<Piece("head", r)>>
           /\ UNCHANGED <<asm, results, intact>>
  <2>1. UNCHANGED <<split, sizes, offset, emitted, sent>> /\ Current' = Current /\ CurrentSize' = CurrentSize
    BY <1>2 DEF chunkerVars, Current, CurrentSize
  <2>2. Latest(r)' /\ OnTheWire(r)'
    BY <1>1, <1>4, <2>1 DEF Latest, OnTheWire
  <2>3. WireInv'
    BY <1>1, <1>2, <1>4, <2>1, <2>2 DEF WireInv
  <2>4. wire' # << >> /\ Fed' = Fed /\ ~Over' /\ ~Over
    BY <1>1, <1>2, <1>4 DEF Fed, Over, Piece
  <2>5. Held(Current, Fed)' <=> Held(Current, Fed)
    BY <1>4, <2>1, <2>4 DEF Held
  <2>6. PrefixInv'
    BY <1>2, <2>1, <2>4, <2>5 DEF PrefixInv
  <2>7. \A k : Expected(k)' = Expected(k)
    BY <2>1 DEF Expected, Body
  <2>8. AllArrive' /\ OncePerMessage'
    BY <1>2, <1>4, <2>1, <2>4, <2>7 DEF AllArrive, OncePerMessage
  <2>9. StartInv' /\ CostInv'
    BY <1>2, <1>4, <2>1, <2>4 DEF StartInv, BufferInv, BeginsWithItsFirst, CostInv
  <2> QED
    BY <2>3, <2>6, <2>8, <2>9 DEF Framed
<1> QED
  BY <1>1, <1>3, <1>4

(* A device is claimed with nothing on the wire.                           *)
LEMMA ProbeStep ==
  ASSUME IInv, OnProbe
  PROVE  Framed'
<1> USE DEF IInv
<1>1. /\ ~connected /\ partial' = << >>
      /\ UNCHANGED <<chunkerVars, wire, asm, transfers, malformed, results, intact, lost, damaged, beheaded, unplugs>>
  BY DEF OnProbe
<1>2. UNCHANGED <<split, sizes, offset, emitted, sent>> /\ wire = << >>
  BY <1>1 DEF chunkerVars, WireInv
<1>3. Current' = Current /\ (Over' <=> Over) /\ Fed' = Fed
  BY <1>1, <1>2 DEF Current, CurrentSize, Over, Done, Fed
<1>4. WireInv'
  BY <1>1, <1>2 DEF WireInv
<1>5. PrefixInv'
  <2>1. Held(Current, Fed)' <=> Held(Current, Fed)
    BY <1>1, <1>3 DEF Held
  <2> QED
    BY <1>1, <1>3, <2>1 DEF PrefixInv
<1>6. \A k : Expected(k)' = Expected(k)
  BY <1>2 DEF Expected, Body
<1>7. AllArrive' /\ OncePerMessage'
  BY <1>1, <1>3, <1>6 DEF AllArrive, OncePerMessage
<1>8. StartInv' /\ CostInv'
  BY <1>1, <1>2, <1>3 DEF StartInv, BufferInv, BeginsWithItsFirst, CostInv
<1> QED
  BY <1>4, <1>5, <1>7, <1>8 DEF Framed

(* A disconnect damages the message under way, if it was not over, and     *)
(* counts the report on the wire as lost.                                  *)
LEMMA RemovedStep ==
  ASSUME IInv, OnRemoved
  PROVE  Framed'
<1> USE DEF IInv
<1> DEFINE cut == Reports(wire) \cup Reports(partial)
<1>1. /\ partial' = << >> /\ wire' = << >> /\ offset' = CurrentSize /\ emitted' = TRUE
      /\ lost' = lost + Cardinality(cut)
      /\ damaged' = damaged \cup {r.msg : r \in cut} \cup (IF Done THEN {} ELSE {Current})
      /\ UNCHANGED <<split, sizes, sent, asm, results, intact, beheaded>>
  BY DEF OnRemoved
<1>2. Current' = Current /\ CurrentSize' = CurrentSize /\ Current \in Nat /\ CurrentSize \in Nat
  BY <1>1, SizeType DEF Current, CurrentSize, TypeOK
<1>3. Over'
  BY <1>1, <1>2 DEF Over, Done
<1>4. ASSUME wire # << >>
      PROVE  \E r \in cut : r.msg = Current
  <2>1. PICK r \in Report : Latest(r) /\ OnTheWire(r)
    BY <1>4 DEF WireInv
  <2>2. 1 \in 1 .. Len(wire) /\ wire[1].report = r
    BY <2>1 DEF OnTheWire, Piece
  <2>3. r \in cut
    BY <2>2 DEF Reports
  <2> QED
    BY <2>1, <2>3 DEF Latest
<1>5. Current \in damaged' \/ Over
  BY <1>1, <1>4 DEF Over
<1>6. WireInv'
  BY <1>1 DEF WireInv
<1>7. PrefixInv'
  BY <1>3 DEF PrefixInv
<1>8. \A k : Expected(k)' = Expected(k)
  BY <1>1 DEF Expected, Body
<1>9. AllArrive'
  <2> SUFFICES ASSUME NEW k \in 1 .. Current, k \notin damaged'
               PROVE  \E n \in 1 .. Len(results) : results[n] = Expected(k)
    BY <1>1, <1>2, <1>8 DEF AllArrive
  <2>1. k \notin damaged /\ (k < Current \/ Over)
    BY <1>1, <1>2, <1>5
  <2> QED
    BY <2>1 DEF AllArrive
<1>10. OncePerMessage'
  BY <1>1, <1>2, <1>3 DEF OncePerMessage
<1>11. StartInv'
  BY <1>1, <1>2, <1>3 DEF StartInv, BufferInv, BeginsWithItsFirst
<1>12. CostInv'
  <2>1. IsFiniteSet(cut) /\ Cardinality(cut) \in Nat
    <3>1. IsFiniteSet(Reports(wire)) /\ IsFiniteSet(Reports(partial))
      BY ReportsTypes DEF TypeOK, BridgeTypeOK
    <3> QED
      BY <3>1, FS_Union, FS_CardinalityType
  <2>2. wire # << >> => Cardinality(cut) >= 1
    <3>1. wire # << >> => cut # {}
      BY <1>4
    <3>2. cut # {} => Cardinality(cut) # 0
      BY <2>1, FS_EmptySet
    <3> HIDE DEF cut
    <3> QED
      BY <2>1, <3>1, <3>2
  <2>3. sent \in Nat /\ intact \in Nat /\ lost \in Nat
    BY DEF TypeOK, ChunkerTypeOK, BridgeTypeOK
  <2> HIDE DEF cut
  <2> QED
    BY <1>1, <2>1, <2>2, <2>3 DEF CostInv
<1> QED
  BY <1>6, <1>7, <1>9, <1>10, <1>11, <1>12 DEF Framed

(* While a split report never loses its first packet, the framing          *)
(* invariant holds in every reachable state.                               *)
LEMMA FramingInvariant == ASSUME "head" \notin Droppable PROVE Spec => []IInv
<1>1. Init => IInv
  <2> SUFFICES ASSUME Init PROVE IInv
    OBVIOUS
  <2>1. /\ wire = << >> /\ partial = << >> /\ results = << >> /\ asm.buffer = << >>
        /\ sent = 0 /\ intact = 0 /\ lost = 0 /\ Current = 0
    <3>1. Len(<< >>) = 0
      BY EmptySeq
    <3> QED
      BY <3>1 DEF Init, Idle, Current
  <2>2. WireInv /\ PrefixInv /\ CostInv
    BY <2>1 DEF WireInv, PrefixInv, CostInv
  <2>3. 1 .. Len(results) = {} /\ 1 .. Current = {}
    BY <2>1
  <2>4. AllArrive /\ OncePerMessage
    BY <2>3 DEF AllArrive, OncePerMessage
  <2>5. StartInv
    BY <2>1, <2>3 DEF StartInv, BufferInv, BeginsWithItsFirst
  <2> QED
    BY <2>2, <2>4, <2>5, InitTypes DEF IInv
<1>2. ASSUME IInv, [Next]_vars PROVE IInv'
  <2>1. TypeOK' /\ ChunkInv'
    BY <1>2, StepTypes DEF IInv
  <2>2. ASSUME UNCHANGED vars PROVE Framed'
    BY <1>2, <2>2 DEF IInv, Framed, vars, chunkerVars, bridgeVars, WireInv, PrefixInv, AllArrive,
         OncePerMessage, StartInv, BufferInv, BeginsWithItsFirst, CostInv, Latest, OnTheWire, Held, Fed, Over,
         Done, Current, CurrentSize, Expected, Body
  <2>3. Framed'
    BY <1>2, <2>2, StartStep, EmitStep, LoseStep, ReportInStep, ProbeStep, RemovedStep DEF Next
  <2> QED
    BY <2>1, <2>3 DEF IInv, Framed
<1> QED
  BY <1>1, <1>2, PTL DEF Spec

(* An undamaged message arrives once, byte for byte, or as an overflow of  *)
(* its true size, whatever was lost of those before it, for any sizes and  *)
(* any reassembly buffer.  "head" \notin Droppable is what finding 1 asks  *)
(* for: it holds of a controller that takes a report in one transfer.      *)
THEOREM UndamagedArrives == ASSUME "head" \notin Droppable PROVE Spec => []UndamagedArrive
<1>1. IInv => UndamagedArrive
  BY DEF IInv, UndamagedArrive, AllArrive, OncePerMessage, Arrived, Over
<1> QED
  BY <1>1, FramingInvariant, PTL

(* A message whose own FIRST was taken is handed over from its first byte  *)
(* on and with nothing of another message, whatever of it and of those     *)
(* before it was lost: also where feed() has continued a completed message *)
(* or has failed, and for any sizes and any reassembly buffer.             *)
THEOREM BeginningFirst == ASSUME "head" \notin Droppable PROVE Spec => []BeginsWithItsFirst
<1>1. IInv => BeginsWithItsFirst
  BY DEF IInv, StartInv
<1> QED
  BY <1>1, FramingInvariant, PTL

(* "One missing packet costs one report": onReportIn() falls into step     *)
(* again with the next head.                                               *)
THEOREM PacketCostsOneReport == ASSUME "head" \notin Droppable PROVE Spec => []OnePacketCostsOneReport
<1>1. ASSUME IInv PROVE OnePacketCostsOneReport
  <2> DEFINE pending == Reports(wire) \cup Reports(partial)
  <2>1. wire \in Seq(Packet) /\ partial \in Seq(Packet)
    BY <1>1 DEF IInv, TypeOK, BridgeTypeOK
  <2>2. IsFiniteSet(pending) /\ Cardinality(pending) \in Nat
    <3>1. IsFiniteSet(Reports(wire)) /\ IsFiniteSet(Reports(partial))
      BY <2>1, ReportsTypes
    <3> QED
      BY <3>1, FS_Union, FS_CardinalityType
  <2>3. wire # << >> => pending # {}
    <3>1. wire # << >> => 1 \in 1 .. Len(wire)
      BY <2>1, EmptySeq
    <3> QED
      BY <3>1 DEF Reports
  <2>4. wire # << >> => Cardinality(pending) >= 1
    <3>1. pending # {} => Cardinality(pending) # 0
      BY <2>2, FS_EmptySet
    <3> HIDE DEF pending
    <3> QED
      BY <2>2, <2>3, <3>1
  <2>5. sent \in Nat /\ intact \in Nat /\ lost \in Nat /\ CostInv
    BY <1>1 DEF IInv, TypeOK, ChunkerTypeOK, BridgeTypeOK
  <2>6. sent <= intact + lost + Cardinality(pending)
    <3> HIDE DEF pending
    <3> QED
      BY <2>2, <2>4, <2>5 DEF CostInv
  <2> QED
    BY <2>6 DEF OnePacketCostsOneReport
<1> QED
  BY <1>1, FramingInvariant, PTL
=============================================================================
