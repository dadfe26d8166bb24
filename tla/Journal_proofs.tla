----------------------------- MODULE Journal_proofs -----------------------------
(***************************************************************************)
(* Proofs about Journal: whatever the disk refuses and whenever the        *)
(* process is killed, nothing comes behind a block that was cut short but, *)
(* once, the same block again, and a record that is lost has been counted; *)
(* and while the clock does not go back, what can be read of a compressed  *)
(* journal is a log that only grows, but for a last line without its end.  *)
(***************************************************************************)
EXTENDS Journal, Recursion, FiniteSetTheorems, SequenceTheorems

-----------------------------------------------------------------------------
(***************************************************************************)
(* The invariant, of a writer to which w records have been given.          *)
(***************************************************************************)
BlockSet(w) == [of : Seq(1 .. w), records : Seq(1 .. w), end : BlockEnds]

SegmentSet(w) == [stamp : Int, suffix : 0 .. SuffixLimit - 1, blocks : Seq(BlockSet(w))]

Writers(w) ==
  [directory       : Seq(SegmentSet(w)),
   running         : BOOLEAN,
   pending         : Seq(1 .. w),
   held            : Seq(1 .. w),
   failed          : BOOLEAN,
   current         : Nat,
   opened          : Int,
   in_segment      : Nat,
   write_failures  : Nat,
   dropped_records : Nat,
   problem         : BOOLEAN,
   first           : Nat,
   faults          : 0 .. MaxFaults]

\* Every second has a name that no segment has taken, so that none is reopened.
NamesLeft(directory) ==
  \A now \in Int : \E n \in 0 .. SuffixLimit - 1 :
     \A i \in 1 .. Len(directory) : ~(directory[i].stamp = now /\ directory[i].suffix = n)

CutLast(blocks) ==
  \A a, b \in 1 .. Len(blocks) :
     Cut(blocks[a]) /\ a < b => b = Len(blocks) /\ blocks[b].of = blocks[a].of

Unbroken(blocks) == \A b \in 1 .. Len(blocks) : ~Cut(blocks[b])

\* No block is cut short but for the last, and that one is of these records.
Awaits(blocks, records) ==
  \A b \in 1 .. Len(blocks) : Cut(blocks[b]) => b = Len(blocks) /\ blocks[b].of = records

InBlock(block, n) == \E k \in 1 .. Len(block.records) : block.records[k] = n

InSegments(directory, n) ==
  \E i \in 1 .. Len(directory) :
    \E b \in 1 .. Len(directory[i].blocks) : InBlock(directory[i].blocks[b], n)

\* What a stream may still write to: while it has not failed, a segment without
\* a tear; and one whose tear, if there is one, is of what the stream holds.
TearsAreLast(s) ==
  /\ \A i \in 1 .. Len(s.directory) : CutLast(s.directory[i].blocks)
  /\ s.current > 0 =>
       /\ ~s.failed => Unbroken(s.directory[s.current].blocks)
       /\ s.held # <<>> => Awaits(s.directory[s.current].blocks, s.held)

DropsAreBounded(s, w) ==
  /\ s.first \in 1 .. w + 1
  /\ s.dropped_records + Len(s.pending) + s.first <= w + 1

FailuresAreCounted(s, w) ==
  /\ s.held # <<>> => (s.failed /\ s.write_failures > 0)
  /\ s.write_failures = 0 =>
       \A n \in s.first .. w :
          InSegments(s.directory, n) \/ \E k \in 1 .. Len(s.pending) : s.pending[k] = n

Good(s, w) ==
  /\ s \in Writers(w)
  /\ s.current <= Len(s.directory)
  /\ DropsAreBounded(s, w)
  /\ FailuresAreCounted(s, w)
  /\ NamesLeft(s.directory) => TearsAreLast(s)

IInv ==
  /\ written \in 0 .. MaxRecords
  /\ clock \in Int
  /\ kills \in 0 .. MaxKills
  /\ Good(journal, written)
  /\ Len(journal.pending) < flush_every
  /\ journal.running => journal.current > 0

-----------------------------------------------------------------------------
(***************************************************************************)
(* A block that is added to a segment.                                     *)
(***************************************************************************)
Put(directory, i, block) == [directory EXCEPT ![i].blocks = Append(@, block)]

LEMMA PutAppends ==
  ASSUME NEW w \in Nat, NEW directory \in Seq(SegmentSet(w)),
         NEW i \in 1 .. Len(directory), NEW block \in BlockSet(w)
  PROVE  LET d == Put(directory, i, block)
         IN  /\ d \in Seq(SegmentSet(w))
             /\ Len(d) = Len(directory)
             /\ \A j \in 1 .. Len(directory) :
                  /\ d[j].stamp = directory[j].stamp
                  /\ d[j].suffix = directory[j].suffix
                  /\ j # i => d[j].blocks = directory[j].blocks
             /\ d[i].blocks = Append(directory[i].blocks, block)
<1> DEFINE new == [directory[i] EXCEPT !.blocks = Append(directory[i].blocks, block)]
           d == [directory EXCEPT ![i] = new]
<1>1. Put(directory, i, block) = d
  BY DEF Put
<1>2. directory[i] \in SegmentSet(w)
  OBVIOUS
<1>3. /\ new \in SegmentSet(w)
      /\ new.stamp = directory[i].stamp
      /\ new.suffix = directory[i].suffix
      /\ new.blocks = Append(directory[i].blocks, block)
  <2> DEFINE blocks == Append(directory[i].blocks, block)
  <2>1. directory[i].blocks \in Seq(BlockSet(w))
    BY <1>2 DEF SegmentSet
  <2>2. blocks \in Seq(BlockSet(w))
    BY <2>1
  <2> HIDE DEF blocks
  <2>3. new = [directory[i] EXCEPT !.blocks = blocks]
    BY DEF blocks
  <2> HIDE DEF new
  <2>4. new \in SegmentSet(w) /\ new.stamp = directory[i].stamp
          /\ new.suffix = directory[i].suffix /\ new.blocks = blocks
    BY <1>2, <2>2, <2>3 DEF SegmentSet
  <2> QED BY <2>4 DEF blocks
<1> HIDE DEF new
<1>4. /\ d \in Seq(SegmentSet(w))
      /\ Len(d) = Len(directory)
      /\ \A j \in 1 .. Len(directory) : d[j] = IF j = i THEN new ELSE directory[j]
  BY <1>3, ExceptSeq
<1> HIDE DEF d
<1> QED BY <1>1, <1>3, <1>4

\* Nothing that is there is lost, and nothing but a retry comes behind a tear.
LEMMA PutKeeps ==
  ASSUME NEW w \in Nat, NEW directory \in Seq(SegmentSet(w)),
         NEW i \in 1 .. Len(directory), NEW block \in BlockSet(w)
  PROVE  LET d == Put(directory, i, block)
         IN  /\ NamesLeft(d) => NamesLeft(directory)
             /\ \A n : InSegments(directory, n) \/ InBlock(block, n) => InSegments(d, n)
             /\ (\A j \in 1 .. Len(directory) : CutLast(directory[j].blocks))
                  /\ Awaits(directory[i].blocks, block.of)
                => \A j \in 1 .. Len(d) : CutLast(d[j].blocks)
             /\ Unbroken(directory[i].blocks) =>
                  Awaits(d[i].blocks, block.of) /\ (~Cut(block) => Unbroken(d[i].blocks))
<1> DEFINE d == Put(directory, i, block)
           old == directory[i].blocks
<1>1. /\ d \in Seq(SegmentSet(w))
      /\ Len(d) = Len(directory)
      /\ \A j \in 1 .. Len(directory) :
           /\ d[j].stamp = directory[j].stamp
           /\ d[j].suffix = directory[j].suffix
           /\ j # i => d[j].blocks = directory[j].blocks
      /\ d[i].blocks = Append(old, block)
  BY PutAppends
<1> HIDE DEF d, old
<1>2. old \in Seq(BlockSet(w))
  <2>1. directory[i] \in SegmentSet(w)
    OBVIOUS
  <2> QED BY <2>1 DEF SegmentSet, old
<1>3. /\ Len(Append(old, block)) = Len(old) + 1
      /\ \A b \in 1 .. Len(old) : Append(old, block)[b] = old[b]
      /\ Append(old, block)[Len(old) + 1] = block
      /\ Len(old) \in Nat
  BY <1>2
<1>4. NamesLeft(d) => NamesLeft(directory)
  <2> SUFFICES ASSUME NamesLeft(d), NEW now \in Int
               PROVE  \E n \in 0 .. SuffixLimit - 1 :
                        \A j \in 1 .. Len(directory) :
                          ~(directory[j].stamp = now /\ directory[j].suffix = n)
    BY DEF NamesLeft
  <2>1. PICK n \in 0 .. SuffixLimit - 1 :
          \A j \in 1 .. Len(d) : ~(d[j].stamp = now /\ d[j].suffix = n)
    BY DEF NamesLeft
  <2> QED BY <2>1, <1>1
<1>5. ASSUME NEW n, InSegments(directory, n)
      PROVE  InSegments(d, n)
  <2>1. PICK j \in 1 .. Len(directory) :
               \E b \in 1 .. Len(directory[j].blocks) : InBlock(directory[j].blocks[b], n)
    BY <1>5 DEF InSegments
  <2>2. PICK b \in 1 .. Len(directory[j].blocks) : InBlock(directory[j].blocks[b], n)
    BY <2>1
  <2>3. b \in 1 .. Len(d[j].blocks) /\ d[j].blocks[b] = directory[j].blocks[b]
    <3>1. CASE j = i
      <4>1. b \in 1 .. Len(old)
        BY <3>1 DEF old
      <4> QED BY <4>1, <3>1, <1>1, <1>3 DEF old
    <3>2. CASE j # i
      BY <3>2, <1>1
    <3> QED BY <3>1, <3>2
  <2> QED BY <2>2, <2>3, <1>1 DEF InSegments
<1>6. ASSUME NEW n, InBlock(block, n)
      PROVE  InSegments(d, n)
  <2>1. Len(old) + 1 \in 1 .. Len(d[i].blocks) /\ d[i].blocks[Len(old) + 1] = block
    BY <1>1, <1>3
  <2> QED BY <2>1, <1>6, <1>1 DEF InSegments
<1>7. ASSUME \A j \in 1 .. Len(directory) : CutLast(directory[j].blocks),
             Awaits(old, block.of)
      PROVE  \A j \in 1 .. Len(d) : CutLast(d[j].blocks)
  <2>1. CutLast(old)
    BY <1>7 DEF old
  <2>2. ASSUME NEW a \in 1 .. Len(Append(old, block)),
               NEW b \in 1 .. Len(Append(old, block)),
               Cut(Append(old, block)[a]), a < b
        PROVE  b = Len(Append(old, block)) /\ Append(old, block)[b].of = Append(old, block)[a].of
    <3>1. a \in 1 .. Len(old) /\ Cut(old[a])
      BY <2>2, <1>3
    <3>2. a = Len(old) /\ old[a].of = block.of
      BY <3>1, <1>7 DEF Awaits
    <3> QED BY <3>1, <3>2, <2>2, <1>3
  <2>3. CutLast(Append(old, block))
    BY <2>2 DEF CutLast
  <2> QED BY <2>3, <1>7, <1>1
<1>8. ASSUME Unbroken(old)
      PROVE  Awaits(d[i].blocks, block.of) /\ (~Cut(block) => Unbroken(d[i].blocks))
  <2>1. \A b \in 1 .. Len(Append(old, block)) :
          Cut(Append(old, block)[b]) => b = Len(old) + 1
    BY <1>8, <1>3 DEF Unbroken
  <2>2. Awaits(Append(old, block), block.of)
    BY <2>1, <1>3 DEF Awaits
  <2>3. ~Cut(block) => Unbroken(Append(old, block))
    BY <1>8, <1>3 DEF Unbroken
  <2> QED BY <2>2, <2>3, <1>1
<1> QED BY <1>4, <1>5, <1>6, <1>7, <1>8 DEF d, old

\* A segment without a tear awaits anything.
LEMMA UnbrokenAwaits ==
  ASSUME NEW blocks, NEW records, Unbroken(blocks)
  PROVE  Awaits(blocks, records)
BY DEF Unbroken, Awaits

LEMMA TearsAre ==
  ASSUME NEW records, NEW tear \in Tears(records), Len(records) \in Nat
  PROVE  \E n \in 0 .. Len(records), end \in BlockEnds :
           /\ tear = [of |-> records, records |-> SubSeq(records, 1, n), end |-> end]
           /\ compress => end # "whole"
<1> DEFINE torn(n, end) == [of |-> records, records |-> SubSeq(records, 1, n), end |-> end]
<1>1. \/ \E n \in 0 .. Len(records) - 1 : tear = torn(n, "ragged")
      \/ \E n \in 1 .. Len(records) : tear = torn(n, "unended")
      \/ compress /\ \E n \in 0 .. Len(records) - 1 : tear = torn(n, "clean")
      \/ ~compress /\ \E n \in (0 .. Len(records) - 1) \ {0} : tear = torn(n, "whole")
  BY Zenon DEF Tears
<1> HIDE DEF torn
<1>2. \E n \in 0 .. Len(records), end \in BlockEnds :
        tear = torn(n, end) /\ (compress => end # "whole")
  BY <1>1, SMTT(60) DEF BlockEnds
<1> QED BY <1>2 DEF torn

LEMMA TearsAreBlocks ==
  ASSUME NEW w \in Nat, NEW records \in Seq(1 .. w)
  PROVE  /\ Tears(records) \subseteq BlockSet(w) /\ Whole(records) \in BlockSet(w)
         /\ \A tear \in Tears(records) : tear.of = records
         /\ Whole(records).of = records /\ ~Cut(Whole(records))
<1>1. /\ Whole(records) \in BlockSet(w)
      /\ Whole(records).of = records /\ ~Cut(Whole(records))
  BY DEF Whole, BlockSet, BlockEnds, Cut
<1>2. \A n \in 0 .. Len(records) : SubSeq(records, 1, n) \in Seq(1 .. w)
  BY SubSeqProperties
<1>3. ASSUME NEW tear \in Tears(records)
      PROVE  tear \in BlockSet(w) /\ tear.of = records
  <2>1. PICK n \in 0 .. Len(records), end \in BlockEnds :
          tear = [of |-> records, records |-> SubSeq(records, 1, n), end |-> end]
    BY TearsAre
  <2> QED BY <2>1, <1>2 DEF BlockSet
<1> QED BY <1>1, <1>3

LEMMA PiecesAreBlocks ==
  ASSUME NEW w \in Nat, NEW records \in Seq(1 .. w), NEW piece \in Pieces(records)
  PROVE  piece \in BlockSet(w) /\ piece.of = records /\ records # <<>>
BY TearsAreBlocks DEF Pieces

LEMMA StoredPuts ==
  ASSUME NEW w \in Nat, NEW s \in Writers(w), s.current \in 1 .. Len(s.directory),
         NEW block \in BlockSet(w)
  PROVE  LET t == Stored(s, block)
             d == Put(s.directory, s.current, block)
         IN  t = [s EXCEPT !.directory = d] /\ t \in Writers(w) /\ t.directory = d
<1> DEFINE t == Stored(s, block)
           d == Put(s.directory, s.current, block)
<1>1. t = [s EXCEPT !.directory = d]
  BY DEF Stored, Put
<1>2. s.directory \in Seq(SegmentSet(w))
  BY DEF Writers
<1>3. d \in Seq(SegmentSet(w))
  BY <1>2, PutAppends
<1> HIDE DEF d, t
<1> QED BY <1>1, <1>3 DEF Writers, d, t

\* What a stream may write is added to its segment, and its tear is the last.
LEMMA StoredKeeps ==
  ASSUME NEW w \in Nat, NEW s, Good(s, w), s.current > 0, NEW block \in BlockSet(w)
  PROVE  LET t == Stored(s, block)
         IN  /\ t \in Writers(w) /\ t = [s EXCEPT !.directory = t.directory]
             /\ s.current \in 1 .. Len(s.directory)
             /\ Len(t.directory) = Len(s.directory)
             /\ NamesLeft(t.directory) => NamesLeft(s.directory)
             /\ \A n : InSegments(s.directory, n) \/ InBlock(block, n) =>
                        InSegments(t.directory, n)
             /\ NamesLeft(t.directory)
                  /\ (~s.failed \/ (s.held # <<>> /\ s.held = block.of)) =>
                  \A j \in 1 .. Len(t.directory) : CutLast(t.directory[j].blocks)
             /\ NamesLeft(t.directory) /\ ~s.failed =>
                  /\ Awaits(t.directory[s.current].blocks, block.of)
                  /\ ~Cut(block) => Unbroken(t.directory[s.current].blocks)
<1> DEFINE t == Stored(s, block)
           d == Put(s.directory, s.current, block)
<1>1. s \in Writers(w) /\ s.directory \in Seq(SegmentSet(w))
        /\ s.current \in 1 .. Len(s.directory)
  BY DEF Good, Writers
<1>2. t = [s EXCEPT !.directory = d] /\ t \in Writers(w) /\ t.directory = d
  BY <1>1, StoredPuts
<1>3. Len(d) = Len(s.directory)
  BY <1>1, PutAppends
<1>4. /\ NamesLeft(d) => NamesLeft(s.directory)
      /\ \A n : InSegments(s.directory, n) \/ InBlock(block, n) => InSegments(d, n)
      /\ (\A j \in 1 .. Len(s.directory) : CutLast(s.directory[j].blocks))
           /\ Awaits(s.directory[s.current].blocks, block.of)
         => \A j \in 1 .. Len(d) : CutLast(d[j].blocks)
      /\ Unbroken(s.directory[s.current].blocks) =>
           Awaits(d[s.current].blocks, block.of) /\ (~Cut(block) => Unbroken(d[s.current].blocks))
  BY <1>1, PutKeeps
<1> HIDE DEF d, t
<1>5. NamesLeft(d) => TearsAreLast(s)
  BY <1>4 DEF Good
<1>6. NamesLeft(d) /\ ~s.failed => Unbroken(s.directory[s.current].blocks)
  BY <1>5 DEF TearsAreLast
<1>7. NamesLeft(d) /\ (~s.failed \/ (s.held # <<>> /\ s.held = block.of)) =>
        Awaits(s.directory[s.current].blocks, block.of)
  BY <1>5, <1>6, UnbrokenAwaits DEF TearsAreLast
<1>8. NamesLeft(d) => \A j \in 1 .. Len(s.directory) : CutLast(s.directory[j].blocks)
  BY <1>5 DEF TearsAreLast
<1> QED BY <1>1, <1>2, <1>3, <1>4, <1>6, <1>7, <1>8 DEF t

-----------------------------------------------------------------------------
(***************************************************************************)
(* The primitives keep the invariant.                                      *)
(***************************************************************************)
LEMMA FaultKeeps ==
  ASSUME NEW w \in Nat, NEW s, Good(s, w), MayFault(s)
  PROVE  LET t == Fault(s)
         IN  Good(t, w) /\ t = [s EXCEPT !.failed = TRUE, !.faults = @ + 1]
<1> DEFINE t == Fault(s)
<1>1. s \in Writers(w)
  BY DEF Good
<1>2. MaxFaults \in Nat
  BY JournalAssumption
<1>3. t = [s EXCEPT !.failed = TRUE, !.faults = @ + 1]
  BY <1>1 DEF Fault, Writers
<1> HIDE DEF t
<1>4. /\ t.directory = s.directory /\ t.current = s.current /\ t.first = s.first
      /\ t.dropped_records = s.dropped_records /\ t.pending = s.pending
      /\ t.held = s.held /\ t.write_failures = s.write_failures /\ t.failed = TRUE
  BY <1>1, <1>3 DEF Writers
<1>9. t \in Writers(w)
  <2>1. s.faults + 1 \in 0 .. MaxFaults
    BY <1>1, <1>2 DEF Writers, MayFault
  <2> QED BY <1>1, <1>3, <2>1 DEF Writers
<1>5. DropsAreBounded(t, w) /\ FailuresAreCounted(t, w)
  BY <1>4 DEF Good, DropsAreBounded, FailuresAreCounted
<1>6. TearsAreLast(s) => TearsAreLast(t)
  BY <1>4 DEF TearsAreLast
<1> QED BY <1>3, <1>4, <1>9, <1>5, <1>6 DEF Good, t

\* A block that is refused leaves nothing pending, and is counted.
LEMMA RefusedKeeps ==
  ASSUME NEW w \in Nat, NEW s, Good(s, w)
  PROVE  LET t == Refused(s)
         IN  /\ Good(t, w)
             /\ t.running = s.running /\ t.current = s.current /\ t.pending = <<>>
<1> DEFINE t == Refused(s)
<1>1. s \in Writers(w)
  BY DEF Good
<1>2. t = [s EXCEPT !.pending = <<>>, !.dropped_records = @ + Len(s.pending),
                    !.write_failures = @ + 1, !.problem = TRUE]
  BY <1>1 DEF Refused, Reported, Writers
<1> HIDE DEF t
<1>3. s.pending \in Seq(1 .. w) /\ <<>> \in Seq(1 .. w)
  BY <1>1 DEF Writers
<1>4. /\ t.running = s.running
      /\ t.directory = s.directory /\ t.current = s.current /\ t.first = s.first
      /\ t.dropped_records = s.dropped_records + Len(s.pending) /\ t.pending = <<>>
      /\ t.held = s.held /\ t.write_failures = s.write_failures + 1 /\ t.failed = s.failed
  BY <1>1, <1>2 DEF Writers
<1>9. t \in Writers(w)
  <2>1. s.dropped_records + Len(s.pending) \in Nat /\ s.write_failures + 1 \in Nat
    BY <1>1, <1>3 DEF Writers
  <2> QED BY <1>1, <1>2, <1>3, <2>1 DEF Writers
<1>5. s.write_failures \in Nat /\ Len(s.pending) \in Nat /\ s.dropped_records \in Nat
  BY <1>1, <1>3 DEF Writers
<1>6. DropsAreBounded(t, w)
  BY <1>4, <1>5 DEF Good, DropsAreBounded
<1>7. FailuresAreCounted(t, w)
  BY <1>4, <1>5 DEF Good, FailuresAreCounted
<1>8. TearsAreLast(s) => TearsAreLast(t)
  BY <1>4 DEF TearsAreLast
<1> QED BY <1>4, <1>9, <1>6, <1>7, <1>8 DEF Good, t

\* What a disk keeps of a block that it refuses is the last thing in its segment.
LEMMA TornKeeps ==
  ASSUME NEW w \in Nat, NEW s, Good(s, w), MayFault(s), ~s.failed, s.current > 0,
         NEW block \in BlockSet(w)
  PROVE  LET t == Fault(Stored(s, block))
         IN  Good(t, w) /\ t.running = s.running /\ t.current = s.current
<1> DEFINE u == Stored(s, block)
           d == u.directory
           t == Fault(u)
<1>1. s \in Writers(w) /\ MaxFaults \in Nat
  BY JournalAssumption DEF Good
<1>2. u \in Writers(w) /\ u = [s EXCEPT !.directory = d]
  BY StoredKeeps
<1>3. /\ Len(d) = Len(s.directory)
      /\ s.current \in 1 .. Len(s.directory)
      /\ \A n : InSegments(s.directory, n) => InSegments(d, n)
      /\ NamesLeft(d) => \A j \in 1 .. Len(d) : CutLast(d[j].blocks)
  BY StoredKeeps
<1> HIDE DEF d, u
<1>4. t = [u EXCEPT !.failed = TRUE, !.faults = @ + 1]
  BY <1>2 DEF Fault, Writers
<1> HIDE DEF t
<1>5. s.faults + 1 \in 0 .. MaxFaults
  BY <1>1 DEF Writers, MayFault
<1>6. /\ u.running = s.running /\ u.current = s.current /\ u.first = s.first
      /\ u.dropped_records = s.dropped_records /\ u.pending = s.pending
      /\ u.held = s.held /\ u.write_failures = s.write_failures /\ u.faults = s.faults
      /\ u.directory = d
  BY <1>1, <1>2 DEF Writers
<1>7. /\ t.running = s.running /\ t.directory = d /\ t.current = s.current
      /\ t.first = s.first
      /\ t.dropped_records = s.dropped_records /\ t.pending = s.pending
      /\ t.held = s.held /\ t.write_failures = s.write_failures /\ t.failed = TRUE
  BY <1>2, <1>4, <1>6 DEF Writers
<1>8. t \in Writers(w)
  BY <1>2, <1>4, <1>5, <1>6 DEF Writers
<1>9. s.held = <<>>
  BY DEF Good, FailuresAreCounted
<1>10. DropsAreBounded(t, w)
  BY <1>7 DEF Good, DropsAreBounded
<1>11. FailuresAreCounted(t, w)
  BY <1>7, <1>3, <1>9 DEF Good, FailuresAreCounted
<1>12. NamesLeft(d) => TearsAreLast(t)
  BY <1>3, <1>7, <1>9 DEF TearsAreLast
<1>13. t.current <= Len(t.directory)
  BY <1>7, <1>3
<1> QED BY <1>7, <1>8, <1>10, <1>11, <1>12, <1>13 DEF Good, t, u

\* A block that is written is on the disk, and its segment stays readable.
LEMMA WrittenKeeps ==
  ASSUME NEW w \in Nat, NEW s, Good(s, w), ~s.failed, s.current > 0
  PROVE  LET t == Stored([s EXCEPT !.pending = <<>>], Whole(s.pending))
         IN  /\ Good(t, w)
             /\ t.running = s.running /\ t.current = s.current /\ t.pending = <<>>
<1> DEFINE u == [s EXCEPT !.pending = <<>>]
           block == Whole(s.pending)
           d == Put(s.directory, s.current, block)
           t == Stored(u, block)
<1>1. s \in Writers(w) /\ s.directory \in Seq(SegmentSet(w))
        /\ s.current \in 1 .. Len(s.directory)
        /\ s.pending \in Seq(1 .. w) /\ <<>> \in Seq(1 .. w)
  BY DEF Good, Writers
<1>2. block \in BlockSet(w) /\ ~Cut(block) /\ block.records = s.pending
  BY <1>1, TearsAreBlocks DEF Whole
<1>5. Stored(s, block).directory = d
  BY <1>1, <1>2, StoredPuts
<1> HIDE DEF block
<1>12. /\ Len(d) = Len(s.directory)
       /\ \A n : InSegments(s.directory, n) \/ InBlock(block, n) => InSegments(d, n)
       /\ NamesLeft(d) => /\ \A j \in 1 .. Len(d) : CutLast(d[j].blocks)
                          /\ Unbroken(d[s.current].blocks)
  <2> DEFINE e == Stored(s, block).directory
  <2>1. /\ Len(e) = Len(s.directory)
        /\ \A n : InSegments(s.directory, n) \/ InBlock(block, n) => InSegments(e, n)
    BY <1>2, StoredKeeps
  <2>2. NamesLeft(e) => \A j \in 1 .. Len(e) : CutLast(e[j].blocks)
    BY <1>2, StoredKeeps
  <2>3. NamesLeft(e) => Unbroken(e[s.current].blocks)
    BY <1>2, StoredKeeps
  <2> HIDE DEF e
  <2>4. d = e
    BY <1>5 DEF e
  <2> HIDE DEF d
  <2> QED BY <2>1, <2>2, <2>3, <2>4
<1>3. /\ u \in Writers(w) /\ u.running = s.running /\ u.directory = s.directory
      /\ u.current = s.current /\ u.first = s.first
      /\ u.dropped_records = s.dropped_records /\ u.pending = <<>>
      /\ u.held = s.held /\ u.write_failures = s.write_failures /\ u.failed = s.failed
  BY <1>1 DEF Writers
<1> HIDE DEF u
<1>4. t = [u EXCEPT !.directory = d] /\ t \in Writers(w) /\ t.directory = d
  BY <1>1, <1>2, <1>3, StoredPuts
<1> HIDE DEF d, t
<1>6. /\ t.running = s.running /\ t.current = s.current /\ t.first = s.first
      /\ t.dropped_records = s.dropped_records /\ t.pending = <<>>
      /\ t.held = s.held /\ t.write_failures = s.write_failures /\ t.failed = s.failed
  BY <1>3, <1>4 DEF Writers
<1>7. \A k \in 1 .. Len(s.pending) : InBlock(block, s.pending[k])
  BY <1>2 DEF InBlock
<1>8. DropsAreBounded(t, w)
  <2>1. Len(s.pending) \in Nat /\ Len(t.pending) = 0
    BY <1>1, <1>6
  <2>2. s.dropped_records \in Nat /\ s.first \in Nat
    BY <1>1 DEF Writers
  <2> QED BY <2>1, <2>2, <1>6 DEF Good, DropsAreBounded
<1>9. FailuresAreCounted(t, w)
  BY <1>4, <1>12, <1>6, <1>7 DEF Good, FailuresAreCounted
<1>10. NamesLeft(d) => TearsAreLast(t)
  <2>1. s.held = <<>>
    BY DEF Good, FailuresAreCounted
  <2> QED BY <2>1, <1>4, <1>12, <1>6 DEF TearsAreLast
<1>11. t.current <= Len(t.directory)
  BY <1>1, <1>4, <1>12, <1>6
<1> QED BY <1>4, <1>6, <1>8, <1>9, <1>10, <1>11 DEF Good, t, u, block

\* A block that a flush could not write waits in the stream, and is counted.
LEMMA HeldKeeps ==
  ASSUME NEW w \in Nat, NEW s, Good(s, w), MayFault(s), ~s.failed, s.current > 0,
         NEW u \in {s} \cup {Stored(s, tear) : tear \in Tears(s.pending)}
  PROVE  LET t == Reported(Fault([u EXCEPT !.pending = <<>>, !.held = s.pending]))
         IN  /\ Good(t, w)
             /\ t.running = s.running /\ t.current = s.current /\ t.pending = <<>>
<1> DEFINE t == Reported(Fault([u EXCEPT !.pending = <<>>, !.held = s.pending]))
           d == u.directory
<1>1. /\ s \in Writers(w) /\ s.pending \in Seq(1 .. w) /\ <<>> \in Seq(1 .. w)
      /\ MaxFaults \in Nat /\ Len(s.pending) \in Nat
      /\ s.current \in 1 .. Len(s.directory)
  BY JournalAssumption DEF Good, Writers
<1>9. /\ u \in Writers(w) /\ u = [s EXCEPT !.directory = d]
      /\ Len(d) = Len(s.directory)
      /\ \A n : InSegments(s.directory, n) => InSegments(d, n)
      /\ NamesLeft(d) => /\ \A j \in 1 .. Len(d) : CutLast(d[j].blocks)
                         /\ Awaits(d[s.current].blocks, s.pending)
  <2>1. CASE u = s
    <3>1. NamesLeft(d) => TearsAreLast(s)
      BY <2>1 DEF Good
    <3>2. NamesLeft(d) => Unbroken(d[s.current].blocks)
      BY <3>1, <2>1 DEF TearsAreLast
    <3>3. u = [s EXCEPT !.directory = d]
      BY <2>1, <1>1 DEF Writers
    <3> QED BY <3>1, <3>2, <3>3, <2>1, <1>1, UnbrokenAwaits DEF TearsAreLast
  <2>2. ASSUME NEW tear \in Tears(s.pending), u = Stored(s, tear)
        PROVE  <1>9
    <3>1. tear \in BlockSet(w) /\ tear.of = s.pending
      BY <1>1, TearsAreBlocks
    <3> QED BY <3>1, <2>2, StoredKeeps
  <2> QED BY <2>1, <2>2
<1> HIDE DEF d
<1>10. /\ u.running = s.running /\ u.current = s.current /\ u.first = s.first
       /\ u.dropped_records = s.dropped_records /\ u.faults = s.faults
       /\ u.write_failures = s.write_failures /\ u.directory = d
  BY <1>1, <1>9 DEF Writers
<1>2. t = [u EXCEPT !.pending = <<>>, !.held = s.pending, !.faults = @ + 1,
                    !.failed = TRUE, !.write_failures = @ + 1, !.problem = TRUE]
  BY <1>1, <1>9 DEF Fault, Reported, Writers
<1> HIDE DEF t
<1>3. /\ t.running = s.running /\ t.directory = d
      /\ t.current = s.current /\ t.first = s.first
      /\ t.dropped_records = s.dropped_records /\ t.pending = <<>>
      /\ t.held = s.pending
      /\ t.write_failures = s.write_failures + 1 /\ t.failed = TRUE
  BY <1>1, <1>2, <1>9, <1>10 DEF Writers
<1>4. s.faults + 1 \in 0 .. MaxFaults /\ s.write_failures + 1 \in Nat
        /\ s.write_failures \in Nat
  BY <1>1 DEF Writers, MayFault
<1>5. t \in Writers(w)
  BY <1>1, <1>2, <1>4, <1>9, <1>10 DEF Writers
<1>6. DropsAreBounded(t, w)
  <2>1. Len(t.pending) = 0
    BY <1>3
  <2>2. s.dropped_records \in Nat /\ s.first \in Nat
    BY <1>1 DEF Writers
  <2> QED BY <2>1, <2>2, <1>1, <1>3 DEF Good, DropsAreBounded
<1>7. FailuresAreCounted(t, w)
  BY <1>3, <1>4 DEF Good, FailuresAreCounted
<1>8. NamesLeft(d) => TearsAreLast(t)
  BY <1>3, <1>9 DEF TearsAreLast
<1>11. t.current <= Len(t.directory)
  BY <1>1, <1>3, <1>9
<1> QED BY <1>3, <1>5, <1>6, <1>7, <1>8, <1>11 DEF Good, t

LEMMA ReportedKeeps ==
  ASSUME NEW w \in Nat, NEW s, Good(s, w)
  PROVE  LET t == Reported(s)
         IN  /\ Good(t, w)
             /\ t.running = s.running /\ t.current = s.current /\ t.pending = s.pending
<1> DEFINE t == Reported(s)
<1>1. s \in Writers(w)
  BY DEF Good
<1>2. t = [s EXCEPT !.write_failures = @ + 1, !.problem = TRUE]
  BY <1>1 DEF Reported, Writers
<1> HIDE DEF t
<1>3. /\ t \in Writers(w) /\ t.running = s.running
      /\ t.directory = s.directory /\ t.current = s.current /\ t.first = s.first
      /\ t.dropped_records = s.dropped_records /\ t.pending = s.pending
      /\ t.held = s.held /\ t.write_failures = s.write_failures + 1 /\ t.failed = s.failed
  <2>1. s.write_failures + 1 \in Nat
    BY <1>1 DEF Writers
  <2>2. t \in Writers(w)
    BY <1>1, <1>2, <2>1 DEF Writers
  <2> QED BY <1>1, <1>2, <2>2 DEF Writers
<1>4. s.write_failures \in Nat
  BY <1>1 DEF Writers
<1>5. DropsAreBounded(t, w) /\ FailuresAreCounted(t, w)
  <2>1. DropsAreBounded(t, w)
    BY <1>3 DEF Good, DropsAreBounded
  <2>2. FailuresAreCounted(t, w)
    BY <1>3, <1>4 DEF Good, FailuresAreCounted
  <2> QED BY <2>1, <2>2
<1>6. TearsAreLast(s) => TearsAreLast(t)
  BY <1>3 DEF TearsAreLast
<1> QED BY <1>3, <1>5, <1>6 DEF Good, t

LEMMA AttemptKeeps ==
  ASSUME NEW w \in Nat, NEW s, Good(s, w), ~s.failed, s.current > 0,
         NEW t \in Attempt(s)
  PROVE  /\ Good(t, w)
         /\ t.running = s.running /\ t.current = s.current /\ t.pending = <<>>
<1>1. CASE s.pending = <<>>
  BY <1>1 DEF Attempt
<1>2. CASE t = Stored([s EXCEPT !.pending = <<>>], Whole(s.pending))
  BY <1>2, WrittenKeeps
<1>3. CASE t = Refused(Fault(s)) /\ MayFault(s)
  <2> DEFINE u == Fault(s)
  <2>1. Good(u, w) /\ u.running = s.running /\ u.current = s.current
    <3>1. s \in Writers(w)
      BY DEF Good
    <3>2. Good(u, w) /\ u = [s EXCEPT !.failed = TRUE, !.faults = @ + 1]
      BY <1>3, FaultKeeps
    <3> HIDE DEF u
    <3> QED BY <3>1, <3>2 DEF Writers
  <2> HIDE DEF u
  <2>2. t = Refused(u)
    BY <1>3 DEF u
  <2> QED BY <2>1, <2>2, RefusedKeeps
<1>4. CASE MayFault(s) /\ \E tear \in Tears(s.pending) : t = Refused(Fault(Stored(s, tear)))
  <2>1. PICK tear \in Tears(s.pending) : t = Refused(Fault(Stored(s, tear)))
    BY <1>4
  <2> DEFINE u == Fault(Stored(s, tear))
  <2>2. tear \in BlockSet(w)
    <3>1. s.pending \in Seq(1 .. w)
      BY DEF Good, Writers
    <3> QED BY <3>1, TearsAreBlocks
  <2>3. Good(u, w) /\ u.running = s.running /\ u.current = s.current
    BY <1>4, <2>2, TornKeeps
  <2>4. t = Refused(u)
    BY <2>1
  <2> HIDE DEF u
  <2> QED BY <2>3, <2>4, RefusedKeeps
<1>5. CASE MayFault(s) /\ \E u \in {s} \cup {Stored(s, tear) : tear \in Tears(s.pending)} :
              t = Reported(Fault([u EXCEPT !.pending = <<>>, !.held = s.pending]))
  <2>1. PICK u \in {s} \cup {Stored(s, tear) : tear \in Tears(s.pending)} :
               t = Reported(Fault([u EXCEPT !.pending = <<>>, !.held = s.pending]))
    BY <1>5
  <2>2. MayFault(s)
    BY <1>5
  <2> QED BY <2>1, <2>2, HeldKeeps
<1>6. CASE s.pending # <<>>
  <2> DEFINE left == {s} \cup {Stored(s, tear) : tear \in Tears(s.pending)}
             kept(u) == Reported(Fault([u EXCEPT !.pending = <<>>, !.held = s.pending]))
  <2>1. \/ t = Stored([s EXCEPT !.pending = <<>>], Whole(s.pending))
        \/ MayFault(s) /\ \E u \in left : t = Refused(Fault(u)) \/ t = kept(u)
    BY <1>6, Zenon DEF Attempt
  <2>2. ASSUME NEW u \in left
        PROVE  u = s \/ \E tear \in Tears(s.pending) : u = Stored(s, tear)
    OBVIOUS
  <2> QED BY <1>2, <1>3, <1>4, <1>5, <2>1, <2>2
<1> QED BY <1>1, <1>6

\* After a flush nothing is pending, whatever became of it.
LEMMA FlushKeeps ==
  ASSUME NEW w \in Nat, NEW s, Good(s, w), s.current > 0, NEW t \in flush(s)
  PROVE  /\ Good(t, w)
         /\ t.running = s.running /\ t.current = s.current /\ t.pending = <<>>
<1>1. CASE ~s.failed
  BY <1>1, AttemptKeeps DEF flush
<1>2. CASE s.failed /\ s.pending = <<>>
  BY <1>2, ReportedKeeps DEF flush
<1>3. CASE s.failed /\ s.pending # <<>>
  BY <1>3, RefusedKeeps DEF flush
<1> QED BY <1>1, <1>2, <1>3

LEMMA HeldNothing ==
  ASSUME NEW w \in Nat, NEW s, Good(s, w)
  PROVE  LET t == [s EXCEPT !.held = <<>>]
         IN  /\ Good(t, w) /\ t.held = <<>>
             /\ t.running = s.running /\ t.current = s.current /\ t.pending = s.pending
<1> DEFINE t == [s EXCEPT !.held = <<>>]
<1>1. s \in Writers(w) /\ <<>> \in Seq(1 .. w)
  BY DEF Good
<1>2. /\ t \in Writers(w) /\ t.running = s.running
      /\ t.directory = s.directory /\ t.current = s.current /\ t.first = s.first
      /\ t.dropped_records = s.dropped_records /\ t.pending = s.pending
      /\ t.held = <<>> /\ t.write_failures = s.write_failures /\ t.failed = s.failed
  BY <1>1 DEF Writers
<1> HIDE DEF t
<1>3. DropsAreBounded(t, w) /\ FailuresAreCounted(t, w)
  BY <1>2 DEF Good, DropsAreBounded, FailuresAreCounted
<1>4. TearsAreLast(s) => TearsAreLast(t)
  BY <1>2 DEF TearsAreLast
<1> QED BY <1>2, <1>3, <1>4 DEF Good, t

\* A segment takes what its stream holds as it is closed.
LEMMA ReleasedKeeps ==
  ASSUME NEW w \in Nat, NEW s, Good(s, w), s.current > 0, NEW piece \in Pieces(s.held)
  PROVE  LET t == [Stored(s, piece) EXCEPT !.held = <<>>]
         IN  /\ Good(t, w) /\ t.held = <<>>
             /\ t.running = s.running /\ t.current = s.current /\ t.pending = s.pending
<1> DEFINE u == Stored(s, piece)
           d == u.directory
           t == [u EXCEPT !.held = <<>>]
<1>1. s \in Writers(w) /\ s.held \in Seq(1 .. w) /\ <<>> \in Seq(1 .. w)
  BY DEF Good, Writers
<1>2. piece \in BlockSet(w) /\ piece.of = s.held /\ s.held # <<>>
  BY <1>1, PiecesAreBlocks
<1>4. u \in Writers(w) /\ u = [s EXCEPT !.directory = d]
  BY <1>2, StoredKeeps
<1>5. /\ Len(d) = Len(s.directory)
      /\ s.current \in 1 .. Len(s.directory)
      /\ \A n : InSegments(s.directory, n) => InSegments(d, n)
      /\ NamesLeft(d) => \A j \in 1 .. Len(d) : CutLast(d[j].blocks)
  BY <1>2, StoredKeeps
<1> HIDE DEF d, u
<1>6. /\ t \in Writers(w) /\ t.directory = d /\ t.held = <<>>
      /\ t.running = s.running /\ t.current = s.current /\ t.first = s.first
      /\ t.dropped_records = s.dropped_records /\ t.pending = s.pending
      /\ t.write_failures = s.write_failures /\ t.failed = s.failed
  BY <1>1, <1>4 DEF Writers
<1> HIDE DEF t
<1>3. s.failed
  BY <1>2 DEF Good, FailuresAreCounted
<1>7. DropsAreBounded(t, w)
  BY <1>6 DEF Good, DropsAreBounded
<1>8. FailuresAreCounted(t, w)
  BY <1>5, <1>6 DEF Good, FailuresAreCounted
<1>9. NamesLeft(d) => TearsAreLast(t)
  BY <1>3, <1>5, <1>6 DEF TearsAreLast
<1>10. t.current <= Len(t.directory)
  BY <1>5, <1>6
<1> QED BY <1>6, <1>7, <1>8, <1>9, <1>10 DEF Good, t, u

LEMMA ClosedKeeps ==
  ASSUME NEW w \in Nat, NEW s, Good(s, w), s.current > 0, NEW t \in closed(s)
  PROVE  /\ Good(t, w) /\ t.held = <<>>
         /\ t.running = s.running /\ t.current = s.current /\ t.pending = s.pending
<1>1. \/ t = [s EXCEPT !.held = <<>>]
      \/ \E piece \in Pieces(s.held) : t = [Stored(s, piece) EXCEPT !.held = <<>>]
  BY Zenon DEF closed
<1>2. CASE t = [s EXCEPT !.held = <<>>]
  BY <1>2, HeldNothing
<1>3. ASSUME NEW piece \in Pieces(s.held), t = [Stored(s, piece) EXCEPT !.held = <<>>]
      PROVE  /\ Good(t, w) /\ t.held = <<>>
             /\ t.running = s.running /\ t.current = s.current /\ t.pending = s.pending
  BY <1>3, ReleasedKeeps
<1> QED BY <1>1, <1>2, <1>3

-----------------------------------------------------------------------------
(***************************************************************************)
(* Opening a segment.                                                      *)
(***************************************************************************)
LEMMA SuffixIsOne ==
  ASSUME NEW s, NEW now
  PROVE  /\ SegmentSuffix(s, now) \in 0 .. SuffixLimit - 1
         /\ (\E n \in 0 .. SuffixLimit - 1 : Named(s, now, n) = {})
              => Named(s, now, SegmentSuffix(s, now)) = {}
<1> DEFINE free == {n \in 0 .. SuffixLimit - 1 : Named(s, now, n) = {}}
<1>1. SuffixLimit \in Nat \ {0}
  BY JournalAssumption
<1>2. CASE free = {}
  BY <1>1, <1>2 DEF SegmentSuffix
<1>3. CASE free # {}
  <2>1. free \subseteq Nat
    OBVIOUS
  <2>2. \E x \in free : \A y \in free : x <= y
    <3> HIDE DEF free
    <3> QED BY <1>3, <2>1, LeastExists
  <2>3. SegmentSuffix(s, now) = CHOOSE n \in free : \A m \in free : n <= m
    BY <1>3 DEF SegmentSuffix
  <2>4. SegmentSuffix(s, now) \in free
    <3> HIDE DEF free
    <3> QED BY <2>2, <2>3
  <2> QED BY <2>4
<1> QED BY <1>2, <1>3

\* A name that is left is one that Named finds no segment for.
LEMMA LeftIsFree ==
  ASSUME NEW w \in Nat, NEW s \in Writers(w), NEW now \in Int, NamesLeft(s.directory)
  PROVE  \E n \in 0 .. SuffixLimit - 1 : Named(s, now, n) = {}
<1>1. DOMAIN s.directory = 1 .. Len(s.directory)
  BY DEF Writers
<1>2. PICK n \in 0 .. SuffixLimit - 1 :
        \A i \in 1 .. Len(s.directory) :
          ~(s.directory[i].stamp = now /\ s.directory[i].suffix = n)
  BY DEF NamesLeft
<1>3. Named(s, now, n) = {}
  BY <1>1, <1>2 DEF Named
<1> QED BY <1>3

\* A new segment at the end of a directory.
LEMMA SegmentAdded ==
  ASSUME NEW w \in Nat, NEW directory \in Seq(SegmentSet(w)), NEW now \in Int,
         NEW suffix \in 0 .. SuffixLimit - 1
  PROVE  LET d == Append(directory, [stamp |-> now, suffix |-> suffix, blocks |-> <<>>])
         IN  /\ d \in Seq(SegmentSet(w))
             /\ Len(d) = Len(directory) + 1
             /\ \A i \in 1 .. Len(directory) : d[i] = directory[i]
             /\ d[Len(directory) + 1].blocks = <<>>
             /\ NamesLeft(d) => NamesLeft(directory)
             /\ \A n : InSegments(directory, n) => InSegments(d, n)
<1> DEFINE new == [stamp |-> now, suffix |-> suffix, blocks |-> <<>>]
           d == Append(directory, new)
<1>1. new \in SegmentSet(w) /\ new.blocks = <<>>
  <2>1. <<>> \in Seq(BlockSet(w))
    OBVIOUS
  <2> QED BY <2>1 DEF SegmentSet
<1> HIDE DEF new
<1>2. /\ d \in Seq(SegmentSet(w))
      /\ Len(d) = Len(directory) + 1
      /\ \A i \in 1 .. Len(directory) : d[i] = directory[i]
      /\ d[Len(directory) + 1] = new
      /\ Len(directory) \in Nat
  BY <1>1
<1> HIDE DEF d
<1>3. NamesLeft(d) => NamesLeft(directory)
  <2> SUFFICES ASSUME NamesLeft(d), NEW at \in Int
               PROVE  \E n \in 0 .. SuffixLimit - 1 :
                        \A i \in 1 .. Len(directory) :
                          ~(directory[i].stamp = at /\ directory[i].suffix = n)
    BY DEF NamesLeft
  <2>1. PICK n \in 0 .. SuffixLimit - 1 :
          \A i \in 1 .. Len(d) : ~(d[i].stamp = at /\ d[i].suffix = n)
    BY DEF NamesLeft
  <2>2. \A i \in 1 .. Len(directory) : i \in 1 .. Len(d)
    BY <1>2
  <2> QED BY <2>1, <2>2, <1>2
<1>4. ASSUME NEW n, InSegments(directory, n)
      PROVE  InSegments(d, n)
  <2>1. \A i \in 1 .. Len(directory) : i \in 1 .. Len(d)
    BY <1>2
  <2> QED BY <2>1, <1>2, <1>4 DEF InSegments
<1> QED BY <1>1, <1>2, <1>3, <1>4 DEF d, new

LEMMA OpenedKeeps ==
  ASSUME NEW w \in Nat, NEW s, Good(s, w), s.held = <<>>, NEW now \in Int
  PROVE  LET t == OpenedSegment(s, now)
         IN  /\ Good(t, w) /\ t.current > 0
             /\ t.running = s.running /\ t.pending = s.pending /\ t.problem = s.problem
<1> DEFINE suffix == SegmentSuffix(s, now)
           named  == Named(s, now, suffix)
           opened == [s EXCEPT !.failed = FALSE, !.opened = now, !.in_segment = 0]
           t == OpenedSegment(s, now)
<1>1. s \in Writers(w) /\ s.directory \in Seq(SegmentSet(w))
  BY DEF Good, Writers
<1>2. /\ opened \in Writers(w)
      /\ opened.running = s.running /\ opened.problem = s.problem
      /\ opened.directory = s.directory /\ opened.first = s.first
      /\ opened.dropped_records = s.dropped_records /\ opened.pending = s.pending
      /\ opened.held = <<>> /\ opened.write_failures = s.write_failures
      /\ opened.failed = FALSE
  BY <1>1 DEF Writers
<1>3. suffix \in 0 .. SuffixLimit - 1
  BY SuffixIsOne
<1>4. NamesLeft(s.directory) => named = {}
  BY <1>1, LeftIsFree, SuffixIsOne
<1>5. CASE named # {}
  <2> DEFINE i == CHOOSE i \in named : TRUE
  <2>1. i \in 1 .. Len(s.directory)
    <3>1. i \in named
      BY <1>5
    <3> QED BY <3>1, <1>1 DEF Named
  <2>2. t = [opened EXCEPT !.current = i]
    BY <1>5 DEF OpenedSegment
  <2> HIDE DEF opened, t, i
  <2>3. /\ t \in Writers(w) /\ t.current = i
        /\ t.running = s.running /\ t.problem = s.problem
        /\ t.directory = s.directory /\ t.first = s.first
        /\ t.dropped_records = s.dropped_records /\ t.pending = s.pending
        /\ t.held = <<>> /\ t.write_failures = s.write_failures /\ t.failed = FALSE
    <3>1. i \in Nat
      BY <2>1
    <3>2. t \in Writers(w)
      BY <1>2, <3>1, <2>2 DEF Writers
    <3> QED BY <1>2, <2>2, <3>2 DEF Writers
  <2>4. DropsAreBounded(t, w)
    BY <2>3 DEF Good, DropsAreBounded
  <2>5. FailuresAreCounted(t, w)
    BY <2>3 DEF Good, FailuresAreCounted
  <2>6. ~NamesLeft(t.directory)
    BY <2>3, <1>4, <1>5
  <2>7. t.current \in 1 .. Len(t.directory)
    BY <2>1, <2>3
  <2> QED BY <2>3, <2>4, <2>5, <2>6, <2>7, <1>1 DEF Good, t
<1>6. CASE named = {}
  <2> DEFINE d == Append(s.directory, [stamp |-> now, suffix |-> suffix, blocks |-> <<>>])
  <2>1. /\ d \in Seq(SegmentSet(w))
        /\ Len(d) = Len(s.directory) + 1
        /\ \A i \in 1 .. Len(s.directory) : d[i] = s.directory[i]
        /\ d[Len(s.directory) + 1].blocks = <<>>
        /\ NamesLeft(d) => NamesLeft(s.directory)
        /\ \A n : InSegments(s.directory, n) => InSegments(d, n)
    <3> HIDE DEF suffix
    <3> QED BY <1>1, <1>3, SegmentAdded
  <2>2. t = [opened EXCEPT !.current = Len(s.directory) + 1, !.directory = d]
    BY <1>6, <1>2 DEF OpenedSegment
  <2>3. Len(s.directory) \in Nat
    BY <1>1
  <2> HIDE DEF opened, t, d
  <2>4. /\ t \in Writers(w) /\ t.current = Len(s.directory) + 1
        /\ t.running = s.running /\ t.problem = s.problem
        /\ t.directory = d /\ t.first = s.first
        /\ t.dropped_records = s.dropped_records /\ t.pending = s.pending
        /\ t.held = <<>> /\ t.write_failures = s.write_failures /\ t.failed = FALSE
    <3>1. t \in Writers(w)
      <4>1. Len(s.directory) + 1 \in Nat /\ d \in Seq(SegmentSet(w))
        BY <2>1, <2>3
      <4> QED BY <1>2, <2>2, <4>1 DEF Writers
    <3>2. /\ t.current = Len(s.directory) + 1 /\ t.directory = d
          /\ t.running = opened.running /\ t.problem = opened.problem
          /\ t.first = opened.first /\ t.dropped_records = opened.dropped_records
          /\ t.pending = opened.pending /\ t.held = opened.held
          /\ t.write_failures = opened.write_failures /\ t.failed = opened.failed
      BY <1>2, <2>2 DEF Writers
    <3> QED BY <1>2, <3>1, <3>2
  <2>5. DropsAreBounded(t, w)
    BY <2>4 DEF Good, DropsAreBounded
  <2>6. FailuresAreCounted(t, w)
    BY <2>1, <2>4 DEF Good, FailuresAreCounted
  <2>7. CutLast(<<>>) /\ Unbroken(<<>>)
    BY DEF CutLast, Unbroken
  <2>8. NamesLeft(d) => TearsAreLast(t)
    <3>1. SUFFICES ASSUME NamesLeft(d)
                   PROVE  TearsAreLast(t)
      OBVIOUS
    <3>2. \A i \in 1 .. Len(s.directory) : CutLast(s.directory[i].blocks)
      BY <3>1, <2>1 DEF Good, TearsAreLast
    <3>3. \A i \in 1 .. Len(d) : i \in 1 .. Len(s.directory) \/ i = Len(s.directory) + 1
      BY <2>1, <2>3
    <3>4. \A i \in 1 .. Len(d) : CutLast(d[i].blocks)
      BY <2>1, <2>7, <3>2, <3>3
    <3> QED BY <2>1, <2>4, <2>7, <3>4 DEF TearsAreLast
  <2>9. t.current > 0 /\ t.current <= Len(t.directory)
    BY <2>1, <2>3, <2>4
  <2> QED BY <2>4, <2>5, <2>6, <2>8, <2>9 DEF Good, t
<1> QED BY <1>5, <1>6

\* A segment that cannot be opened leaves the stream as it is, and failed.
LEMMA OpenKeeps ==
  ASSUME NEW w \in Nat, NEW s, Good(s, w), s.held = <<>>, NEW now \in Int,
         NEW t \in open_segment(s, now)
  PROVE  /\ Good(t, w) /\ t.running = s.running /\ t.pending = s.pending
         /\ t.current > 0 \/ (t.current = s.current /\ t.problem)
<1>1. CASE t = OpenedSegment(s, now)
  BY <1>1, OpenedKeeps
<1>2. CASE t = [Fault(s) EXCEPT !.problem = TRUE] /\ MayFault(s)
  <2> DEFINE u == Fault(s)
  <2>1. Good(u, w) /\ u = [s EXCEPT !.failed = TRUE, !.faults = @ + 1]
    BY <1>2, FaultKeeps
  <2>2. t = [u EXCEPT !.problem = TRUE]
    BY <1>2
  <2> HIDE DEF u
  <2>3. s \in Writers(w) /\ u \in Writers(w)
    BY <2>1 DEF Good
  <2>4. u.running = s.running /\ u.pending = s.pending /\ u.current = s.current
    BY <2>1, <2>3 DEF Writers
  <2>5. /\ t \in Writers(w) /\ t.problem = TRUE /\ t.running = u.running
        /\ t.directory = u.directory /\ t.current = u.current /\ t.first = u.first
        /\ t.dropped_records = u.dropped_records /\ t.pending = u.pending
        /\ t.held = u.held /\ t.write_failures = u.write_failures /\ t.failed = u.failed
    BY <2>2, <2>3 DEF Writers
  <2>6. DropsAreBounded(t, w)
    BY <2>1, <2>5 DEF Good, DropsAreBounded
  <2>7. FailuresAreCounted(t, w)
    BY <2>1, <2>5 DEF Good, FailuresAreCounted
  <2>8. TearsAreLast(u) => TearsAreLast(t)
    BY <2>5 DEF TearsAreLast
  <2> QED BY <2>1, <2>4, <2>5, <2>6, <2>7, <2>8 DEF Good
<1> QED BY <1>1, <1>2 DEF open_segment

LEMMA RotateKeeps ==
  ASSUME NEW w \in Nat, NEW s, Good(s, w), s.current > 0, NEW now \in Int,
         NEW t \in rotate(s, now)
  PROVE  Good(t, w) /\ t.running = s.running /\ t.current > 0 /\ t.pending = <<>>
<1>1. PICK f \in flush(s) : \E c \in closed(f) : t \in open_segment(c, now)
  BY DEF rotate
<1>2. Good(f, w) /\ f.running = s.running /\ f.current > 0 /\ f.pending = <<>>
  BY <1>1, FlushKeeps
<1>3. PICK c \in closed(f) : t \in open_segment(c, now)
  BY <1>1
<1>4. Good(c, w) /\ c.held = <<>> /\ c.running = s.running /\ c.current > 0
        /\ c.pending = <<>>
  BY <1>2, <1>3, ClosedKeeps
<1> QED BY <1>3, <1>4, OpenKeeps

-----------------------------------------------------------------------------
(***************************************************************************)
(* The actions.                                                            *)
(***************************************************************************)
LEMMA CalledIsGood ==
  ASSUME NEW w \in Nat, Good(journal, w)
  PROVE  /\ Good(Called, w)
         /\ Called.running = journal.running /\ Called.current = journal.current
         /\ Called.pending = journal.pending
<1> DEFINE s == journal
           t == Called
<1>1. s \in Writers(w)
  BY DEF Good
<1>2. /\ t \in Writers(w) /\ t.running = s.running
      /\ t.directory = s.directory /\ t.current = s.current /\ t.first = s.first
      /\ t.dropped_records = s.dropped_records /\ t.pending = s.pending
      /\ t.held = s.held /\ t.write_failures = s.write_failures /\ t.failed = s.failed
  BY <1>1 DEF Writers, Called
<1> HIDE DEF t
<1>3. DropsAreBounded(t, w)
  BY <1>2 DEF Good, DropsAreBounded
<1>4. FailuresAreCounted(t, w)
  BY <1>2 DEF Good, FailuresAreCounted
<1>5. TearsAreLast(s) => TearsAreLast(t)
  BY <1>2 DEF TearsAreLast
<1> QED BY <1>2, <1>3, <1>4, <1>5 DEF Good, t

LEMMA WritersGrow ==
  ASSUME NEW w \in Nat
  PROVE  Seq(1 .. w) \subseteq Seq(1 .. w + 1) /\ Writers(w) \subseteq Writers(w + 1)
<1>1. 1 .. w \subseteq 1 .. w + 1
  OBVIOUS
<1>2. Seq(1 .. w) \subseteq Seq(1 .. w + 1)
  BY <1>1, SeqMonotonic
<1>3. BlockSet(w) \subseteq BlockSet(w + 1)
  BY <1>2 DEF BlockSet
<1>4. Seq(BlockSet(w)) \subseteq Seq(BlockSet(w + 1))
  BY <1>3, SeqMonotonic
<1>5. SegmentSet(w) \subseteq SegmentSet(w + 1)
  BY <1>4 DEF SegmentSet
<1>6. Seq(SegmentSet(w)) \subseteq Seq(SegmentSet(w + 1))
  BY <1>5, SeqMonotonic
<1> QED BY <1>2, <1>6 DEF Writers

\* One more record is given to the writer, and is pending.
LEMMA TakenIsGood ==
  ASSUME NEW w \in Nat, NEW s, Good(s, w)
  PROVE  LET t == [s EXCEPT !.pending = Append(@, w + 1), !.in_segment = @ + 1]
         IN  /\ Good(t, w + 1)
             /\ t.running = s.running /\ t.current = s.current
             /\ Len(t.pending) = Len(s.pending) + 1
<1> DEFINE pending == Append(s.pending, w + 1)
           t == [s EXCEPT !.pending = pending, !.in_segment = @ + 1]
<1>1. s \in Writers(w)
  BY DEF Good
<1>3. s \in Writers(w + 1)
  BY <1>1, WritersGrow
<1>4. /\ s.pending \in Seq(1 .. w + 1) /\ w + 1 \in 1 .. w + 1
      /\ s.dropped_records \in Nat /\ s.first \in Nat /\ Len(s.pending) \in Nat
  BY <1>3 DEF Writers
<1>5. /\ pending \in Seq(1 .. w + 1)
      /\ Len(pending) = Len(s.pending) + 1
      /\ \A k \in 1 .. Len(s.pending) : pending[k] = s.pending[k]
      /\ pending[Len(s.pending) + 1] = w + 1
  BY <1>4
<1> HIDE DEF pending
<1>6. /\ t \in Writers(w + 1) /\ t.running = s.running
      /\ t.directory = s.directory /\ t.current = s.current /\ t.first = s.first
      /\ t.dropped_records = s.dropped_records /\ t.pending = pending
      /\ t.held = s.held /\ t.write_failures = s.write_failures /\ t.failed = s.failed
  <2>1. s.in_segment + 1 \in Nat
    BY <1>3 DEF Writers
  <2>2. t \in Writers(w + 1)
    BY <1>3, <1>5, <2>1 DEF Writers
  <2> QED BY <1>3, <2>2 DEF Writers
<1> HIDE DEF t
<1>7. DropsAreBounded(t, w + 1)
  BY <1>4, <1>5, <1>6, SMTT(60) DEF Good, DropsAreBounded
<1>8. FailuresAreCounted(t, w + 1)
  <2> SUFFICES ASSUME s.write_failures = 0, NEW n \in s.first .. w + 1,
                      ~InSegments(s.directory, n)
               PROVE  \E k \in 1 .. Len(pending) : pending[k] = n
    BY <1>6 DEF Good, FailuresAreCounted
  <2>1. CASE n = w + 1
    BY <2>1, <1>4, <1>5
  <2>2. CASE n # w + 1
    <3>1. n \in s.first .. w
      BY <2>2, <1>4
    <3>2. PICK k \in 1 .. Len(s.pending) : s.pending[k] = n
      BY <3>1 DEF Good, FailuresAreCounted
    <3>3. k \in 1 .. Len(pending)
      BY <1>4, <1>5
    <3>4. pending[k] = n
      BY <1>5, <3>2
    <3> QED BY <3>3, <3>4
  <2> QED BY <2>1, <2>2
<1>9. TearsAreLast(s) => TearsAreLast(t)
  BY <1>6 DEF TearsAreLast
<1> QED BY <1>5, <1>6, <1>7, <1>8, <1>9 DEF Good, t, pending

LEMMA WriteKeeps ==
  ASSUME NEW w \in Nat, NEW s, Good(s, w), s.current > 0, NEW now \in Int,
         Len(s.pending) < flush_every, NEW t \in write(s, w + 1, now)
  PROVE  /\ Good(t, w + 1) /\ t.running = s.running /\ t.current > 0
         /\ Len(t.pending) < flush_every
<1> DEFINE taken == [s EXCEPT !.pending = Append(@, w + 1), !.in_segment = @ + 1]
<1>1. /\ Good(taken, w + 1) /\ taken.running = s.running /\ taken.current = s.current
      /\ Len(taken.pending) = Len(s.pending) + 1
  BY TakenIsGood
<1>2. PICK f : /\ IF Len(taken.pending) >= flush_every THEN f \in flush(taken) ELSE f = taken
               /\ t = f \/ t \in rotate(f, now)
  <2>1. PICK f \in (IF Len(taken.pending) >= flush_every THEN flush(taken) ELSE {taken}) :
          t \in (IF ~f.problem /\ RotationDue(f, now) THEN rotate(f, now) ELSE {f})
    BY DEF write
  <2> HIDE DEF taken
  <2> QED BY <2>1
<1> HIDE DEF taken
<1>3. flush_every \in Nat \ {0} /\ w + 1 \in Nat /\ Len(<<>>) = 0
  BY JournalAssumption
<1>4. Good(f, w + 1) /\ f.running = s.running /\ f.current > 0 /\ Len(f.pending) < flush_every
  <2>1. CASE Len(taken.pending) >= flush_every
    <3>1. f \in flush(taken)
      BY <1>2, <2>1
    <3> QED BY <3>1, <1>1, <1>3, FlushKeeps
  <2>2. CASE ~(Len(taken.pending) >= flush_every)
    <3>1. f = taken
      BY <1>2, <2>2
    <3>2. Len(taken.pending) \in Nat
      BY <1>1 DEF Good, Writers
    <3> QED BY <3>1, <3>2, <2>2, <1>1, <1>3
  <2> QED BY <2>1, <2>2
<1>5. CASE t = f
  BY <1>4, <1>5
<1>6. CASE t \in rotate(f, now)
  BY <1>3, <1>4, <1>6, RotateKeeps
<1> QED BY <1>2, <1>5, <1>6

LEMMA NewWriterIsGood ==
  ASSUME NEW w \in Nat, NEW directory \in Seq(SegmentSet(w)), NEW faults \in 0 .. MaxFaults,
         NamesLeft(directory) => \A i \in 1 .. Len(directory) : CutLast(directory[i].blocks)
  PROVE  LET t == NewWriter(directory, w + 1, faults)
         IN  /\ Good(t, w) /\ t.running = FALSE /\ t.current = 0
             /\ t.pending = <<>> /\ t.held = <<>> /\ t.problem = FALSE
<1> DEFINE t == NewWriter(directory, w + 1, faults)
<1>1. <<>> \in Seq(1 .. w) /\ Len(<<>>) = 0 /\ w + 1 \in Nat /\ 0 \in Nat
        /\ Len(directory) \in Nat
  OBVIOUS
<1>2. t \in Writers(w)
  BY <1>1 DEF Writers, NewWriter
<1>3. /\ t.running = FALSE /\ t.directory = directory /\ t.current = 0
      /\ t.first = w + 1 /\ t.dropped_records = 0 /\ t.pending = <<>>
      /\ t.held = <<>> /\ t.write_failures = 0 /\ t.problem = FALSE
  BY DEF NewWriter
<1> HIDE DEF t
<1>4. DropsAreBounded(t, w)
  BY <1>1, <1>3 DEF DropsAreBounded
<1>5. FailuresAreCounted(t, w)
  BY <1>3 DEF FailuresAreCounted
<1>6. NamesLeft(directory) => TearsAreLast(t)
  BY <1>3 DEF TearsAreLast
<1> QED BY <1>1, <1>2, <1>3, <1>4, <1>5, <1>6 DEF Good, t

LEMMA InitIsSound == Init => IInv
<1> SUFFICES ASSUME Init PROVE IInv
  OBVIOUS
<1>1. MaxRecords \in Nat /\ MaxKills \in Nat /\ MaxFaults \in Nat /\ flush_every \in Nat \ {0}
  BY JournalAssumption
<1>2. 0 \in 0 .. MaxFaults /\ <<>> \in Seq(SegmentSet(0)) /\ 0 + 1 = 1
        /\ \A i \in 1 .. Len(<<>>) : CutLast(<<>>[i].blocks)
  BY <1>1
<1>3. journal = NewWriter(<<>>, 0 + 1, 0) /\ written = 0 /\ clock = 0 /\ kills = 0
  BY <1>2 DEF Init
<1>4. Good(journal, 0) /\ journal.running = FALSE /\ journal.pending = <<>>
  BY <1>2, <1>3, NewWriterIsGood
<1> QED BY <1>1, <1>3, <1>4 DEF IInv

LEMMA StepIsSound == IInv /\ [Next]_vars => IInv'
<1> SUFFICES ASSUME IInv, [Next]_vars
             PROVE  IInv'
  OBVIOUS
<1> USE DEF IInv
<1>1. /\ written \in Nat /\ MaxRecords \in Nat /\ MaxKills \in Nat
      /\ flush_every \in Nat \ {0} /\ Len(<<>>) = 0
  BY JournalAssumption
<1>2. \A now \in Readings : now \in Int
  BY JournalAssumption DEF Readings
<1>3. /\ Good(Called, written)
      /\ Called.running = journal.running /\ Called.current = journal.current
      /\ Called.pending = journal.pending
  BY <1>1, CalledIsGood
<1>4. /\ journal \in Writers(written)
      /\ journal.directory \in Seq(SegmentSet(written)) /\ journal.faults \in 0 .. MaxFaults
  BY DEF Good, Writers
<1>5. NamesLeft(journal.directory) =>
        \A i \in 1 .. Len(journal.directory) : CutLast(journal.directory[i].blocks)
  BY DEF Good, TearsAreLast
<1>6. ASSUME Create
      PROVE  IInv'
  <2>1. PICK now \in Readings :
          /\ clock' = now
          /\ \E s \in open_segment(NewWriter(journal.directory, written + 1, journal.faults), now) :
                journal' = [s EXCEPT !.running = ~s.problem]
    BY <1>6 DEF Create
  <2> DEFINE new == NewWriter(journal.directory, written + 1, journal.faults)
  <2>2. PICK s \in open_segment(new, now) : journal' = [s EXCEPT !.running = ~s.problem]
    BY <2>1
  <2>3. Good(new, written) /\ new.pending = <<>> /\ new.held = <<>> /\ new.current = 0
    BY <1>1, <1>4, <1>5, NewWriterIsGood
  <2> HIDE DEF new
  <2>4. /\ Good(s, written) /\ s.pending = <<>>
        /\ s.current > 0 \/ s.problem
    <3>1. now \in Int
      BY <1>2
    <3> QED BY <1>1, <2>2, <2>3, <3>1, OpenKeeps
  <2> DEFINE t == journal'
  <2>5. s \in Writers(written)
    BY <2>4 DEF Good
  <2>6. /\ t \in Writers(written) /\ t.running = (~s.problem)
        /\ t.directory = s.directory /\ t.current = s.current /\ t.first = s.first
        /\ t.dropped_records = s.dropped_records /\ t.pending = s.pending
        /\ t.held = s.held /\ t.write_failures = s.write_failures /\ t.failed = s.failed
    BY <2>2, <2>5 DEF Writers
  <2> HIDE DEF t
  <2>7. DropsAreBounded(t, written)
    BY <2>4, <2>6 DEF Good, DropsAreBounded
  <2>8. FailuresAreCounted(t, written)
    BY <2>4, <2>6 DEF Good, FailuresAreCounted
  <2>9. TearsAreLast(s) => TearsAreLast(t)
    BY <2>6 DEF TearsAreLast
  <2>10. Good(t, written)
    BY <2>4, <2>6, <2>7, <2>8, <2>9 DEF Good
  <2>11. written' = written /\ kills' = kills /\ clock' \in Int
    BY <1>2, <1>6, <2>1 DEF Create
  <2>12. t.running => t.current > 0
    BY <2>4, <2>6
  <2>13. Len(t.pending) < flush_every
    BY <1>1, <2>4, <2>6
  <2> QED BY <2>10, <2>11, <2>12, <2>13 DEF t
<1>7. ASSUME Write
      PROVE  IInv'
  <2>1. PICK now \in Readings : clock' = now /\ journal' \in write(Called, written + 1, now)
    BY <1>7 DEF Write
  <2>2. /\ Good(journal', written + 1) /\ journal'.current > 0
        /\ Len(journal'.pending) < flush_every
    BY <1>1, <1>2, <1>3, <1>7, <2>1, WriteKeeps DEF Write
  <2>3. written' = written + 1 /\ written < MaxRecords /\ kills' = kills /\ clock' \in Int
    BY <1>2, <1>7, <2>1 DEF Write
  <2> QED BY <1>1, <2>2, <2>3
<1>8. ASSUME Flush
      PROVE  IInv'
  <2>1. /\ Good(journal', written) /\ journal'.current > 0 /\ journal'.pending = <<>>
    BY <1>1, <1>3, <1>8, FlushKeeps DEF Flush
  <2>2. written' = written /\ kills' = kills /\ clock' = clock
    BY <1>8 DEF Flush
  <2> QED BY <1>1, <2>1, <2>2
<1>9. ASSUME Rotate
      PROVE  IInv'
  <2>1. PICK now \in Readings : clock' = now /\ journal' \in rotate(Called, now)
    BY <1>9 DEF Rotate
  <2>2. /\ Good(journal', written) /\ journal'.current > 0 /\ journal'.pending = <<>>
    BY <1>1, <1>2, <1>3, <1>9, <2>1, RotateKeeps DEF Rotate
  <2>3. written' = written /\ kills' = kills /\ clock' \in Int
    BY <1>2, <1>9, <2>1 DEF Rotate
  <2> QED BY <1>1, <2>2, <2>3
<1>10. ASSUME End
       PROVE  IInv'
  <2>1. PICK f \in flush(Called) :
          \E c \in closed(f) : journal' = [c EXCEPT !.running = FALSE]
    BY <1>10 DEF End
  <2>2. PICK c \in closed(f) : journal' = [c EXCEPT !.running = FALSE]
    BY <2>1
  <2>3. Good(f, written) /\ f.current > 0 /\ f.pending = <<>>
    BY <1>1, <1>3, <1>10, <2>1, FlushKeeps DEF End
  <2>4. Good(c, written) /\ c.pending = <<>>
    BY <1>1, <2>2, <2>3, ClosedKeeps
  <2> DEFINE t == journal'
  <2>5. c \in Writers(written)
    BY <2>4 DEF Good
  <2>6. /\ t \in Writers(written) /\ t.running = FALSE
        /\ t.directory = c.directory /\ t.current = c.current /\ t.first = c.first
        /\ t.dropped_records = c.dropped_records /\ t.pending = c.pending
        /\ t.held = c.held /\ t.write_failures = c.write_failures /\ t.failed = c.failed
    BY <2>2, <2>5 DEF Writers
  <2> HIDE DEF t
  <2>7. DropsAreBounded(t, written)
    BY <2>4, <2>6 DEF Good, DropsAreBounded
  <2>8. FailuresAreCounted(t, written)
    BY <2>4, <2>6 DEF Good, FailuresAreCounted
  <2>9. TearsAreLast(c) => TearsAreLast(t)
    BY <2>6 DEF TearsAreLast
  <2>10. Good(t, written)
    BY <2>4, <2>6, <2>7, <2>8, <2>9 DEF Good
  <2>11. written' = written /\ kills' = kills /\ clock' = clock
    BY <1>10 DEF End
  <2> QED BY <1>1, <2>4, <2>6, <2>10, <2>11 DEF t
<1>11. ASSUME Kill
       PROVE  IInv'
  <2> DEFINE buffered == IF journal.failed THEN journal.held ELSE journal.pending
  <2>1. PICK s : /\ journal' = NewWriter(s.directory, written + 1, s.faults)
                 /\ \/ s = journal
                    \/ \E piece \in Pieces(buffered) : s = Stored(journal, piece)
    BY <1>11 DEF Kill
  <2>2. /\ s.directory \in Seq(SegmentSet(written)) /\ s.faults \in 0 .. MaxFaults
        /\ NamesLeft(s.directory) =>
             \A i \in 1 .. Len(s.directory) : CutLast(s.directory[i].blocks)
    <3>1. CASE s = journal
      BY <3>1, <1>4, <1>5
    <3>2. CASE s # journal
      <4>1. PICK piece \in Pieces(buffered) : s = Stored(journal, piece)
        BY <2>1, <3>2
      <4>2. buffered \in Seq(1 .. written) /\ journal.current > 0
        BY <1>4, <1>11 DEF Writers, Kill
      <4>3. piece \in BlockSet(written) /\ piece.of = buffered /\ buffered # <<>>
        BY <1>1, <4>1, <4>2, PiecesAreBlocks
      <4>4. ~journal.failed \/ (journal.held # <<>> /\ journal.held = piece.of)
        BY <4>3
      <4>5. /\ s \in Writers(written) /\ s = [journal EXCEPT !.directory = s.directory]
            /\ NamesLeft(s.directory) =>
                 \A j \in 1 .. Len(s.directory) : CutLast(s.directory[j].blocks)
        BY <1>1, <4>1, <4>2, <4>3, <4>4, StoredKeeps
      <4> QED BY <4>5 DEF Writers
    <3> QED BY <3>1, <3>2
  <2>3. Good(journal', written) /\ journal'.running = FALSE /\ journal'.pending = <<>>
    BY <1>1, <2>1, <2>2, NewWriterIsGood
  <2>4. written' = written /\ clock' = clock /\ kills' = kills + 1 /\ kills < MaxKills
    BY <1>11 DEF Kill
  <2> QED BY <1>1, <2>3, <2>4
<1>12. CASE Read \/ UNCHANGED vars
  BY <1>12 DEF Read, vars
<1> QED BY <1>6, <1>7, <1>8, <1>9, <1>10, <1>11, <1>12 DEF Next

\* The invariant of the writer and its directory holds in every state, however the disk
\* refuses, wherever the process is killed and however often one is started again
\* (journal.cpp).
THEOREM JournalIsSound == Spec => []IInv
<1> QED BY InitIsSound, StepIsSound, PTL DEF Spec

-----------------------------------------------------------------------------
(***************************************************************************)
(* Flattening a sequence of sequences.                                     *)
(***************************************************************************)
Flattens(f, seqs) ==
  f = [i \in 1 .. Len(seqs) |-> IF i = 1 THEN seqs[i] ELSE f[i - 1] \o seqs[i]]

LEMMA FlattenExists ==
  ASSUME NEW R, NEW seqs \in Seq(Seq(R))
  PROVE  \E f \in [1 .. Len(seqs) -> Seq(R)] : Flattens(f, seqs)
<1> DEFINE S == {n \in Nat : \A ss \in Seq(Seq(R)) : Len(ss) = n =>
                               \E f \in [1 .. n -> Seq(R)] : Flattens(f, ss)}
<1>1. 0 \in S
  <2> SUFFICES ASSUME NEW ss \in Seq(Seq(R)), Len(ss) = 0
               PROVE  \E f \in [1 .. 0 -> Seq(R)] : Flattens(f, ss)
    OBVIOUS
  <2> DEFINE f == [i \in 1 .. 0 |-> <<>>]
  <2>1. f \in [1 .. 0 -> Seq(R)]
    OBVIOUS
  <2>2. Flattens(f, ss)
    BY DEF Flattens
  <2> QED BY <2>1, <2>2
<1>2. \A n \in Nat : n \in S => n + 1 \in S
  <2> SUFFICES ASSUME NEW n \in Nat, n \in S
               PROVE  n + 1 \in S
    OBVIOUS
  <2> SUFFICES ASSUME NEW ss \in Seq(Seq(R)), Len(ss) = n + 1
               PROVE  \E g \in [1 .. n + 1 -> Seq(R)] : Flattens(g, ss)
    <3>1. n + 1 \in Nat
      OBVIOUS
    <3> QED BY <3>1, Zenon
  <2> DEFINE front == [i \in 1 .. n |-> ss[i]]
  <2>1. \A i \in 1 .. n + 1 : ss[i] \in Seq(R)
    <3> DEFINE T == Seq(R)
    <3>1. ss \in Seq(T) /\ Len(ss) = n + 1
      OBVIOUS
    <3> HIDE DEF T
    <3>2. \A i \in 1 .. n + 1 : ss[i] \in T
      BY <3>1
    <3> QED BY <3>2 DEF T
  <2>2. front \in Seq(Seq(R)) /\ Len(front) = n /\ \A i \in 1 .. n : front[i] = ss[i]
    <3>1. \A i \in 1 .. n : ss[i] \in Seq(R)
      BY <2>1
    <3> DEFINE T == Seq(R)
    <3> HIDE DEF T
    <3>2. front \in Seq(T) /\ Len(front) = n /\ \A i \in 1 .. n : front[i] = ss[i]
      BY <3>1 DEF T
    <3> QED BY <3>2 DEF T
  <2> HIDE DEF front
  <2>3. PICK f \in [1 .. n -> Seq(R)] : Flattens(f, front)
    BY <2>2
  <2> DEFINE last == IF n = 0 THEN ss[1] ELSE f[n] \o ss[n + 1]
             g == [i \in 1 .. n + 1 |-> IF i = n + 1 THEN last ELSE f[i]]
  <2>4. last \in Seq(R)
    <3>1. CASE n = 0
      BY <3>1, <2>1
    <3>2. CASE n # 0
      <4>1. f[n] \in Seq(R) /\ ss[n + 1] \in Seq(R)
        BY <3>2, <2>1
      <4> QED BY <4>1, <3>2, ConcatProperties
    <3> QED BY <3>1, <3>2
  <2>5. \A i \in 1 .. n : f[i] = IF i = 1 THEN ss[i] ELSE f[i - 1] \o ss[i]
    BY <2>2, <2>3, ZenonT(60) DEF Flattens
  <2>6. \A i \in 1 .. n + 1 : g[i] = IF i = 1 THEN ss[i] ELSE g[i - 1] \o ss[i]
    <3> SUFFICES ASSUME NEW i \in 1 .. n + 1
                 PROVE  g[i] = IF i = 1 THEN ss[i] ELSE g[i - 1] \o ss[i]
      OBVIOUS
    <3>1. CASE i = n + 1
      <4>1. CASE n = 0
        BY <3>1, <4>1
      <4>2. CASE n # 0
        <5>1. n \in 1 .. n + 1 /\ n + 1 \in 1 .. n + 1 /\ n # n + 1
                /\ (n + 1) - 1 = n /\ n + 1 # 1
          BY <4>2
        <5>2. g[n] = f[n] /\ g[n + 1] = last
          <6> HIDE DEF last
          <6> QED BY <5>1
        <5> QED BY <3>1, <4>2, <5>1, <5>2
      <4> QED BY <4>1, <4>2
    <3>2. CASE i # n + 1
      <4>1. i \in 1 .. n /\ g[i] = f[i] /\ (i # 1 => g[i - 1] = f[i - 1])
        BY <3>2
      <4> HIDE DEF g
      <4> QED BY <2>5, <4>1
    <3> QED BY <3>1, <3>2
  <2>7. g \in [1 .. n + 1 -> Seq(R)]
    <3> HIDE DEF last
    <3> QED BY <2>4
  <2> HIDE DEF g
  <2>8. Flattens(g, ss)
    BY <2>6, <2>7 DEF Flattens
  <2> QED BY <2>7, <2>8
<1>3. Len(seqs) \in S
  <2> HIDE DEF S
  <2>1. Nat \subseteq S
    BY <1>1, <1>2, NatsByInduction
  <2> QED BY <2>1
<1> QED BY <1>3

LEMMA FlattenValue ==
  ASSUME NEW R, NEW seqs \in Seq(Seq(R)), seqs # <<>>
  PROVE  \E f \in [1 .. Len(seqs) -> Seq(R)] :
            Flattens(f, seqs) /\ FlattenSeq(seqs) = f[Len(seqs)]
<1>1. Len(seqs) # 0 /\ Len(seqs) \in Nat
  OBVIOUS
<1> DEFINE F == CHOOSE f : Flattens(f, seqs)
<1>2. Flattens(F, seqs)
  BY FlattenExists
<1>3. FlattenSeq(seqs) = F[Len(seqs)]
  BY <1>1 DEF FlattenSeq, Flattens
<1> HIDE DEF F
<1>4. PICK f \in [1 .. Len(seqs) -> Seq(R)] : Flattens(f, seqs)
  BY FlattenExists
<1> DEFINE S == {i \in 0 .. Len(seqs) : i = 0 \/ F[i] = f[i]}
<1>5. \A i \in 1 .. Len(seqs) : /\ F[i] = IF i = 1 THEN seqs[i] ELSE F[i - 1] \o seqs[i]
                                /\ f[i] = IF i = 1 THEN seqs[i] ELSE f[i - 1] \o seqs[i]
  BY <1>2, <1>4 DEF Flattens
<1>6. 0 \in S /\ \A i \in 0 .. Len(seqs) - 1 : i \in S => i + 1 \in S
  <2> SUFFICES ASSUME NEW i \in 0 .. Len(seqs) - 1, i \in S
               PROVE  F[i + 1] = f[i + 1]
    BY <1>1
  <2>1. i + 1 \in 1 .. Len(seqs) /\ (i + 1) - 1 = i
    OBVIOUS
  <2>2. i + 1 = 1 \/ F[i] = f[i]
    OBVIOUS
  <2> HIDE DEF S
  <2>3. \A k \in 1 .. Len(seqs) : k - 1 = i =>
          /\ F[k] = IF k = 1 THEN seqs[k] ELSE F[i] \o seqs[k]
          /\ f[k] = IF k = 1 THEN seqs[k] ELSE f[i] \o seqs[k]
    BY <1>5
  <2> QED BY <2>1, <2>2, <2>3
<1>7. Len(seqs) \in S
  <2> HIDE DEF S
  <2>1. 0 .. Len(seqs) \subseteq S
    BY <1>1, <1>6, IntervalByInduction
  <2> QED BY <1>1, <2>1, SMTT(60)
<1> QED BY <1>1, <1>3, <1>4, <1>7

LEMMA FlattenTypes ==
  ASSUME NEW R, NEW seqs \in Seq(Seq(R))
  PROVE  FlattenSeq(seqs) \in Seq(R)
<1>1. CASE seqs = <<>>
  BY <1>1 DEF FlattenSeq
<1>2. CASE seqs # <<>>
  <2>1. Len(seqs) \in 1 .. Len(seqs)
    BY <1>2
  <2>2. PICK f \in [1 .. Len(seqs) -> Seq(R)] : FlattenSeq(seqs) = f[Len(seqs)]
    BY <1>2, FlattenValue, ZenonT(60)
  <2> QED BY <2>1, <2>2, ZenonT(60)
<1> QED BY <1>1, <1>2

\* One more sequence comes behind what the others give.
LEMMA FlattenMore ==
  ASSUME NEW R, NEW seqs \in Seq(Seq(R)), NEW more \in Seq(Seq(R)),
         Len(more) = Len(seqs) + 1, \A i \in 1 .. Len(seqs) : more[i] = seqs[i]
  PROVE  FlattenSeq(more) = FlattenSeq(seqs) \o more[Len(more)]
<1> DEFINE n == Len(seqs)
<1>1. n \in Nat /\ more # <<>> /\ more[n + 1] \in Seq(R)
  OBVIOUS
<1>2. PICK g \in [1 .. Len(more) -> Seq(R)] :
              Flattens(g, more) /\ FlattenSeq(more) = g[Len(more)]
  BY <1>1, FlattenValue
<1>3. \A i \in 1 .. n + 1 : g[i] = IF i = 1 THEN more[i] ELSE g[i - 1] \o more[i]
  BY <1>2 DEF Flattens
<1>4. CASE n = 0
  <2>1. seqs = <<>> /\ FlattenSeq(<<>>) = <<>>
    BY <1>4 DEF FlattenSeq
  <2>2. FlattenSeq(more) = more[1]
    BY <1>2, <1>3, <1>4
  <2>3. <<>> \o more[1] = more[1]
    BY <1>1, <1>4, ConcatEmptySeq
  <2> QED BY <2>1, <2>2, <2>3, <1>4
<1>5. CASE n # 0
  <2>1. seqs # <<>>
    BY <1>5
  <2>2. PICK f \in [1 .. n -> Seq(R)] : Flattens(f, seqs) /\ FlattenSeq(seqs) = f[n]
    BY <2>1, FlattenValue
  <2>3. \A i \in 1 .. n : f[i] = IF i = 1 THEN more[i] ELSE f[i - 1] \o more[i]
    BY <2>2 DEF Flattens
  <2> DEFINE S == {i \in 0 .. n : i = 0 \/ f[i] = g[i]}
  <2>4. 0 \in S /\ \A i \in 0 .. n - 1 : i \in S => i + 1 \in S
    <3> SUFFICES ASSUME NEW i \in 0 .. n - 1, i \in S
                 PROVE  f[i + 1] = g[i + 1]
      BY <1>1
    <3>1. i + 1 \in 1 .. n /\ i + 1 \in 1 .. n + 1 /\ (i + 1) - 1 = i
      BY <1>1
    <3>2. i + 1 = 1 \/ f[i] = g[i]
      OBVIOUS
    <3> HIDE DEF S
    <3>3. \A k \in 1 .. n : k - 1 = i =>
            f[k] = IF k = 1 THEN more[k] ELSE f[i] \o more[k]
      BY <2>3
    <3>4. \A k \in 1 .. n + 1 : k - 1 = i =>
            g[k] = IF k = 1 THEN more[k] ELSE g[i] \o more[k]
      BY <1>3
    <3> QED BY <3>1, <3>2, <3>3, <3>4, ZenonT(60)
  <2>5. n \in S
    <3> HIDE DEF S
    <3>1. 0 \in S /\ \A i \in 0 .. n - 1 : i \in S => i + 1 \in S
      BY <2>4
    <3> DEFINE m == n
    <3>2. m \in Nat /\ \A i \in 0 .. m - 1 : i \in S => i + 1 \in S
      BY <1>1, <3>1
    <3> HIDE DEF m
    <3>3. 0 .. m \subseteq S
      BY <3>1, <3>2, IntervalByInduction
    <3>4. m \in S
      BY <3>2, <3>3
    <3> QED BY <3>4 DEF m
  <2>6. f[n] = g[n] /\ n + 1 \in 1 .. n + 1 /\ n + 1 # 1 /\ (n + 1) - 1 = n
    BY <1>1, <1>5, <2>5
  <2> QED BY <1>2, <1>3, <2>2, <2>6
<1> QED BY <1>4, <1>5

-----------------------------------------------------------------------------
(***************************************************************************)
(* Reading on.                                                             *)
(***************************************************************************)
PartSet(R) == [records : Seq(R), error : BOOLEAN]

Reached(parts, i) == \A j \in DOMAIN parts : j < i => ~parts[j].error

Gives(parts) ==
  [i \in DOMAIN parts |-> IF Reached(parts, i) THEN parts[i].records ELSE <<>>]

LEMMA GivesTyped ==
  ASSUME NEW R, NEW parts \in Seq(PartSet(R))
  PROVE  /\ Gives(parts) \in Seq(Seq(R))
         /\ Len(Gives(parts)) = Len(parts)
         /\ \A i \in 1 .. Len(parts) :
              /\ parts[i].records \in Seq(R)
              /\ Gives(parts)[i] = IF Reached(parts, i) THEN parts[i].records ELSE <<>>
<1> DEFINE n == Len(parts)
           T == Seq(R)
<1>1. n \in Nat /\ DOMAIN parts = 1 .. n /\ <<>> \in T
  OBVIOUS
<1>2. \A i \in 1 .. n : parts[i] \in PartSet(R)
  OBVIOUS
<1>3. \A i \in 1 .. n : parts[i].records \in T
  BY <1>2 DEF PartSet
<1> HIDE DEF T, n
<1>4. /\ Gives(parts) = [i \in 1 .. n |-> IF Reached(parts, i) THEN parts[i].records ELSE <<>>]
  BY <1>1 DEF Gives
<1>5. Gives(parts) \in [1 .. n -> T]
  BY <1>1, <1>3, <1>4
<1>6. Gives(parts) \in Seq(T) /\ Len(Gives(parts)) = n
  BY <1>1, <1>5
<1> QED BY <1>3, <1>4, <1>6 DEF T, n

LEMMA ReadOnIs ==
  ASSUME NEW R, NEW parts \in Seq(PartSet(R))
  PROVE  /\ ReadOn(parts) \in PartSet(R)
         /\ ReadOn(parts).records = FlattenSeq(Gives(parts))
         /\ ReadOn(parts).error = \E i \in 1 .. Len(parts) : parts[i].error
<1>1. DOMAIN parts = 1 .. Len(parts)
  OBVIOUS
<1>2. ReadOn(parts) = [records |-> FlattenSeq(Gives(parts)),
                       error   |-> \E i \in 1 .. Len(parts) : parts[i].error]
  BY <1>1 DEF ReadOn, Gives, Reached
<1>3. FlattenSeq(Gives(parts)) \in Seq(R)
  BY GivesTyped, FlattenTypes
<1> QED BY <1>2, <1>3 DEF PartSet

\* One more part is read if none before it ended in an error.
LEMMA ReadOnMore ==
  ASSUME NEW R, NEW parts \in Seq(PartSet(R)), NEW more \in Seq(PartSet(R)),
         Len(more) = Len(parts) + 1, \A i \in 1 .. Len(parts) : more[i] = parts[i]
  PROVE  /\ ReadOn(more).records =
              IF ReadOn(parts).error THEN ReadOn(parts).records
              ELSE ReadOn(parts).records \o more[Len(more)].records
         /\ ReadOn(more).error <=> ReadOn(parts).error \/ more[Len(more)].error
<1> DEFINE n == Len(parts)
<1>1. n \in Nat /\ DOMAIN parts = 1 .. n /\ DOMAIN more = 1 .. n + 1
  OBVIOUS
<1>2. /\ Gives(parts) \in Seq(Seq(R)) /\ Len(Gives(parts)) = n
      /\ \A i \in 1 .. n :
            Gives(parts)[i] = IF Reached(parts, i) THEN parts[i].records ELSE <<>>
  BY GivesTyped
<1>3. /\ Gives(more) \in Seq(Seq(R)) /\ Len(Gives(more)) = n + 1
      /\ \A i \in 1 .. n + 1 :
           /\ more[i].records \in Seq(R)
           /\ Gives(more)[i] = IF Reached(more, i) THEN more[i].records ELSE <<>>
  BY GivesTyped
<1>4. /\ ReadOn(parts).records = FlattenSeq(Gives(parts)) /\ ReadOn(parts).records \in Seq(R)
      /\ ReadOn(parts).error = \E i \in 1 .. n : parts[i].error
      /\ ReadOn(more).records = FlattenSeq(Gives(more))
      /\ ReadOn(more).error = \E i \in 1 .. n + 1 : more[i].error
  BY ReadOnIs DEF PartSet
<1> HIDE DEF n
<1>5. \A i \in 1 .. n : more[i] = parts[i]
  BY DEF n
<1>6. \A i \in 1 .. n : Reached(more, i) <=> Reached(parts, i)
  BY <1>1, <1>5 DEF Reached
<1>7. \A i \in 1 .. n : Gives(more)[i] = Gives(parts)[i]
  <2> TAKE i \in 1 .. n
  <2>1. i \in 1 .. n + 1
    BY <1>1
  <2>2. more[i].records = parts[i].records
    BY <1>5
  <2>3. Gives(more)[i] = IF Reached(more, i) THEN more[i].records ELSE <<>>
    BY <2>1, <1>3
  <2>4. Gives(parts)[i] = IF Reached(parts, i) THEN parts[i].records ELSE <<>>
    BY <1>2
  <2> QED BY <1>6, <2>2, <2>3, <2>4
<1>8. FlattenSeq(Gives(more)) = FlattenSeq(Gives(parts)) \o Gives(more)[n + 1]
  <2> DEFINE a == Gives(parts)
             b == Gives(more)
  <2>1. a \in Seq(Seq(R)) /\ b \in Seq(Seq(R)) /\ Len(b) = n + 1 /\ Len(a) = n
          /\ Len(b) = Len(a) + 1 /\ \A i \in 1 .. Len(a) : b[i] = a[i]
    BY <1>2, <1>3, <1>7
  <2> HIDE DEF a, b
  <2>2. FlattenSeq(b) = FlattenSeq(a) \o b[Len(b)]
    BY <2>1, FlattenMore
  <2> QED BY <2>1, <2>2 DEF a, b
<1>9. Reached(more, n + 1) <=> ~ \E i \in 1 .. n : parts[i].error
  BY <1>1, <1>5 DEF Reached
<1>10. FlattenSeq(Gives(parts)) \o <<>> = FlattenSeq(Gives(parts))
  BY <1>4, ConcatEmptySeq
<1>11. n + 1 \in 1 .. n + 1 /\ Len(more) = n + 1
  BY <1>1 DEF n
<1>12. ReadOn(more).error <=> ReadOn(parts).error \/ more[n + 1].error
  BY <1>1, <1>4, <1>5, <1>11
<1> QED BY <1>3, <1>4, <1>8, <1>9, <1>10, <1>11, <1>12

-----------------------------------------------------------------------------
(***************************************************************************)
(* Reading a segment.                                                      *)
(***************************************************************************)
BlockPart(blocks, i) == [records |-> Readable(blocks, i), error |-> Malformed(blocks, i)]

BlockParts(blocks) == [i \in DOMAIN blocks |-> BlockPart(blocks, i)]

LEMMA FrontIs ==
  ASSUME NEW R, NEW q \in Seq(R)
  PROVE  /\ Front(q) \in Seq(R)
         /\ q # <<>> => /\ Len(Front(q)) = Len(q) - 1
                        /\ \A i \in 1 .. Len(q) - 1 : Front(q)[i] = q[i]
<1>1. CASE q = <<>>
  <2>1. Front(<<>>) = <<>>
    BY DEF Front
  <2> QED BY <1>1, <2>1
<1>2. CASE q # <<>>
  <2>1. Len(q) \in Nat /\ Len(q) > 0 /\ Len(q) - 1 \in Nat
    BY <1>2
  <2>2. \A i \in 1 .. Len(q) - 1 : q[i] \in R /\ 1 + i - 1 = i
    BY <2>1
  <2> DEFINE front == Front(q)
  <2>3. front = SubSeq(q, 1, Len(q) - 1)
    BY DEF Front
  <2> HIDE DEF front
  <2>4. 1 \in Int /\ Len(q) - 1 \in Int /\ Len(q) - 1 - 1 + 1 = Len(q) - 1
    BY <2>1
  <2>5. /\ front \in Seq(R) /\ Len(front) = Len(q) - 1
        /\ \A i \in 1 .. Len(q) - 1 : front[i] = q[i]
    BY <2>1, <2>2, <2>3, <2>4, SubSeqProperties
  <2> QED BY <2>5 DEF front
<1> QED BY <1>1, <1>2

LEMMA FrontOfConcat ==
  ASSUME NEW R, NEW a \in Seq(R), NEW b \in Seq(R), b # <<>>
  PROVE  a \o b # <<>> /\ Front(a \o b) = a \o Front(b)
<1> DEFINE c == a \o b
           f == Front(b)
           g == Front(c)
           h == a \o f
<1>1. Len(a) \in Nat /\ Len(b) \in Nat /\ Len(b) > 0
  OBVIOUS
<1>2. /\ c \in Seq(R) /\ Len(c) = Len(a) + Len(b)
      /\ \A i \in 1 .. Len(a) + Len(b) : c[i] = IF i <= Len(a) THEN a[i] ELSE b[i - Len(a)]
  OBVIOUS
<1>3. /\ f \in Seq(R) /\ Len(f) = Len(b) - 1
      /\ \A i \in 1 .. Len(b) - 1 : f[i] = b[i]
  BY FrontIs
<1> HIDE DEF c, f
<1>4. c # <<>>
  BY <1>1, <1>2
<1>5. /\ g \in Seq(R) /\ Len(g) = Len(c) - 1
      /\ \A i \in 1 .. Len(c) - 1 : g[i] = c[i]
  BY <1>2, <1>4, FrontIs
<1>6. /\ h \in Seq(R) /\ Len(h) = Len(a) + Len(f)
      /\ \A i \in 1 .. Len(a) + Len(f) : h[i] = IF i <= Len(a) THEN a[i] ELSE f[i - Len(a)]
  <2>1. \A p \in Seq(R), q \in Seq(R) :
          /\ p \o q \in Seq(R) /\ Len(p \o q) = Len(p) + Len(q)
          /\ \A i \in 1 .. Len(p) + Len(q) :
               (p \o q)[i] = IF i <= Len(p) THEN p[i] ELSE q[i - Len(p)]
    OBVIOUS
  <2> QED BY <2>1, <1>3
<1> HIDE DEF g, h
<1>7. Len(g) = Len(h) /\ \A i \in 1 .. Len(g) : g[i] = h[i]
  <2>1. Len(g) = Len(h)
    BY <1>1, <1>2, <1>3, <1>5, <1>6
  <2>2. ASSUME NEW i \in 1 .. Len(g)
        PROVE  g[i] = h[i]
    <3>1. CASE i <= Len(a)
      <4>1. i \in 1 .. Len(c) - 1 /\ i \in 1 .. Len(a) + Len(b) /\ i \in 1 .. Len(a) + Len(f)
        BY <3>1, <1>1, <1>2, <1>3, <1>5
      <4> QED BY <3>1, <4>1, <1>2, <1>5, <1>6
    <3>2. CASE i > Len(a)
      <4>1. i - Len(a) \in 1 .. Len(b) - 1
        BY <3>2, <1>1, <1>2, <1>5
      <4> QED BY <3>2, <4>1, <1>1, <1>2, <1>3, <1>5, <1>6, SMTT(60)
    <3> QED BY <3>1, <3>2, <1>1
  <2> QED BY <2>1, <2>2
<1>8. g = h
  BY <1>5, <1>6, <1>7
<1> QED BY <1>4, <1>8 DEF c, f, g, h

LEMMA BlockPartsTyped ==
  ASSUME NEW w \in Nat, NEW blocks \in Seq(BlockSet(w))
  PROVE  /\ BlockParts(blocks) \in Seq(PartSet(1 .. w))
         /\ Len(BlockParts(blocks)) = Len(blocks)
         /\ \A i \in 1 .. Len(blocks) :
              /\ blocks[i].records \in Seq(1 .. w)
              /\ BlockParts(blocks)[i] = BlockPart(blocks, i)
         /\ ReadSegment(blocks) = ReadOn(BlockParts(blocks))
         /\ ReadSegment(blocks) \in PartSet(1 .. w)
<1> DEFINE T == PartSet(1 .. w)
           n == Len(blocks)
<1>1. n \in Nat /\ DOMAIN blocks = 1 .. n
  OBVIOUS
<1>2. \A i \in 1 .. n : blocks[i] \in BlockSet(w)
  OBVIOUS
<1>3. \A i \in 1 .. n : blocks[i].records \in Seq(1 .. w)
  BY <1>2 DEF BlockSet
<1>10. \A i \in 1 .. n : Readable(blocks, i) \in Seq(1 .. w)
  BY <1>3, FrontIs DEF Readable
<1>4. \A i \in 1 .. n : BlockPart(blocks, i) \in T
  BY <1>10 DEF PartSet, Malformed, BlockPart
<1> HIDE DEF n, T
<1>5. BlockParts(blocks) = [i \in 1 .. n |-> BlockPart(blocks, i)]
  BY <1>1 DEF BlockParts
<1>6. BlockParts(blocks) \in Seq(T) /\ Len(BlockParts(blocks)) = n
  <2>1. BlockParts(blocks) \in [1 .. n -> T]
    BY <1>4, <1>5
  <2> QED BY <1>1, <2>1
<1>7. ReadSegment(blocks) = ReadOn(BlockParts(blocks))
  BY DEF ReadSegment, BlockParts, BlockPart
<1>8. ReadOn(BlockParts(blocks)) \in PartSet(1 .. w)
  BY <1>6, ReadOnIs DEF T
<1>9. \A i \in 1 .. n : BlockParts(blocks)[i] = BlockPart(blocks, i)
  BY <1>5
<1> QED BY <1>3, <1>6, <1>7, <1>8, <1>9 DEF n, T

LEMMA NothingToRead == ReadSegment(<<>>) = [records |-> <<>>, error |-> FALSE]
<1> DEFINE parts == BlockParts(<<>>)
<1>1. <<>> \in Seq(BlockSet(0)) /\ 0 \in Nat /\ Len(<<>>) = 0
  OBVIOUS
<1>2. parts \in Seq(PartSet(1 .. 0)) /\ Len(parts) = 0 /\ ReadSegment(<<>>) = ReadOn(parts)
        /\ ReadSegment(<<>>) \in PartSet(1 .. 0)
  BY <1>1, BlockPartsTyped
<1> HIDE DEF parts
<1>3. /\ ReadOn(parts).records = FlattenSeq(Gives(parts))
      /\ ReadOn(parts).error = \E i \in 1 .. 0 : parts[i].error
      /\ Gives(parts) \in Seq(Seq(1 .. 0)) /\ Len(Gives(parts)) = 0
  BY <1>2, ReadOnIs, GivesTyped
<1>4. Gives(parts) = <<>>
  BY <1>3
<1>5. FlattenSeq(<<>>) = <<>>
  BY DEF FlattenSeq
<1>6. ReadOn(parts).records = <<>> /\ ReadOn(parts).error = FALSE
  BY <1>3, <1>4, <1>5
<1> QED BY <1>2, <1>6 DEF PartSet

\* A segment that ends where a line and a frame end.
Ended(blocks) == blocks # <<>> => blocks[Len(blocks)].end = "whole"

\* What a reader may make of a line without its end once something follows it.
Shortened(old, new) == new = old \/ (old # <<>> /\ new = Front(old))

\* A block that is written at the end of a segment is read behind what was read before,
\* when that ended well; otherwise nothing more is ever read of the segment, and what
\* was read stays, but for a last line without its end.
LEMMA SegmentGrows ==
  ASSUME NEW w \in Nat, NEW blocks \in Seq(BlockSet(w)), NEW block \in BlockSet(w)
  PROVE  LET old == ReadSegment(blocks)
             new == ReadSegment(Append(blocks, block))
         IN  /\ old.error => new.error /\ new.records = old.records
             /\ ~old.error /\ Ended(blocks) => new.records = old.records \o block.records
             /\ ~old.error /\ ~Ended(blocks) =>
                  new.error /\ Shortened(old.records, new.records)
<1> DEFINE n == Len(blocks)
           all == Append(blocks, block)
           parts == BlockParts(blocks)
           more == BlockParts(all)
           mid == SubSeq(more, 1, n)
<1>1. n \in Nat
  OBVIOUS
<1>2. /\ all \in Seq(BlockSet(w)) /\ Len(all) = n + 1 /\ all[n + 1] = block
      /\ \A i \in 1 .. n : all[i] = blocks[i]
  OBVIOUS
<1> HIDE DEF all
<1>3. /\ parts \in Seq(PartSet(1 .. w)) /\ Len(parts) = n /\ ReadSegment(blocks) = ReadOn(parts)
      /\ \A i \in 1 .. n : parts[i] = BlockPart(blocks, i)
      /\ \A i \in 1 .. n : blocks[i].records \in Seq(1 .. w)
  BY BlockPartsTyped
<1>4. /\ more \in Seq(PartSet(1 .. w)) /\ Len(more) = n + 1 /\ ReadSegment(all) = ReadOn(more)
      /\ \A i \in 1 .. n + 1 : more[i] = BlockPart(all, i)
  BY <1>2, BlockPartsTyped
<1>9. n = Len(blocks)
  OBVIOUS
<1> HIDE DEF parts, more, n
<1>5. /\ mid \in Seq(PartSet(1 .. w)) /\ Len(mid) = n
      /\ \A i \in 1 .. n : mid[i] = more[i]
  <2>1. \A i \in 1 .. n : more[i] \in PartSet(1 .. w) /\ 1 + i - 1 = i
    BY <1>1, <1>4
  <2> HIDE DEF mid
  <2>2. mid = SubSeq(more, 1, n)
    BY DEF mid
  <2>3. 1 \in Int /\ n \in Int /\ n - 1 + 1 = n
    BY <1>1
  <2> QED BY <1>1, <2>1, <2>2, <2>3, SubSeqProperties
<1> HIDE DEF mid
<1> DEFINE o == ReadOn(parts)
           m == ReadOn(mid)
<1>6. /\ o.error \in BOOLEAN /\ m.error \in BOOLEAN
      /\ o.error => m.error /\ m.records = o.records
      /\ ~o.error /\ Ended(blocks) => ~m.error /\ m.records = o.records
      /\ ~o.error /\ ~Ended(blocks) => m.error /\ Shortened(o.records, m.records)
  <2>0. /\ o \in PartSet(1 .. w) /\ m \in PartSet(1 .. w)
    BY <1>3, <1>5, ReadOnIs
  <2>1. CASE n = 0
    <3>1. mid = <<>> /\ parts = <<>> /\ blocks = <<>>
      BY <2>1, <1>3, <1>5, <1>9
    <3> QED BY <3>1, <2>0 DEF Ended, PartSet
  <2>2. CASE n # 0
    <3> DEFINE front == SubSeq(parts, 1, n - 1)
    <3>1. n - 1 \in Nat /\ n - 1 \in Int /\ 1 \in Int /\ (n - 1) - 1 + 1 = n - 1
            /\ n \in 1 .. n /\ n = (n - 1) + 1 /\ n \in 1 .. n + 1
      BY <1>1, <2>2
    <3>2. \A i \in 1 .. n - 1 : parts[i] \in PartSet(1 .. w) /\ 1 + i - 1 = i
      BY <1>1, <1>3
    <3>3. /\ front \in Seq(PartSet(1 .. w)) /\ Len(front) = n - 1
          /\ \A i \in 1 .. n - 1 : front[i] = parts[i]
      <4> HIDE DEF front
      <4>1. front = SubSeq(parts, 1, n - 1)
        BY DEF front
      <4> QED BY <3>1, <3>2, <4>1, SubSeqProperties
    <3> HIDE DEF front
    <3>4. \A i \in 1 .. n - 1 : mid[i] = parts[i]
      <4> TAKE i \in 1 .. n - 1
      <4>1. i \in 1 .. n /\ i \in 1 .. n + 1 /\ i < Len(blocks) /\ i < Len(all)
        BY <1>1, <1>2, <1>9
      <4>2. Malformed(all, i) = Malformed(blocks, i) /\ Readable(all, i) = Readable(blocks, i)
        BY <4>1, <1>2 DEF Malformed, Readable
      <4> QED BY <4>1, <4>2, <1>3, <1>4, <1>5 DEF BlockPart
    <3> DEFINE last == blocks[n]
               f == ReadOn(front)
    <3>5. /\ parts[n].records = last.records /\ parts[n].error = (last.end = "ragged")
      <4>1. parts[n] = BlockPart(blocks, n) /\ ~(n < Len(blocks))
        BY <3>1, <1>1, <1>3, <1>9
      <4> QED BY <4>1 DEF BlockPart, Malformed, Readable
    <3>6. /\ mid[n].records = IF last.end = "unended" THEN Front(last.records) ELSE last.records
          /\ mid[n].error = (last.end # "whole")
      <4>1. mid[n] = BlockPart(all, n) /\ n < Len(all) /\ all[n] = last
        BY <3>1, <1>1, <1>2, <1>4, <1>5
      <4>2. Readable(all, n) = IF last.end = "unended" THEN Front(last.records) ELSE last.records
        BY <4>1 DEF Readable
      <4>3. Malformed(all, n) = (last.end # "whole")
        BY <4>1 DEF Malformed
      <4> QED BY <4>1, <4>2, <4>3 DEF BlockPart
    <3>7. Ended(blocks) <=> last.end = "whole"
      <4>1. blocks # <<>>
        BY <2>2, <1>9
      <4> QED BY <4>1, <1>9 DEF Ended
    <3>8. /\ Len(mid) = n /\ Len(parts) = n
          /\ Len(mid) = Len(front) + 1 /\ Len(parts) = Len(front) + 1
          /\ \A i \in 1 .. Len(front) : mid[i] = front[i] /\ parts[i] = front[i]
      BY <3>1, <3>3, <3>4, <1>3, <1>5
    <3>9. /\ m.records = IF f.error THEN f.records ELSE f.records \o mid[n].records
          /\ m.error <=> f.error \/ mid[n].error
      BY <3>3, <3>8, <1>5, ReadOnMore
    <3>10. /\ o.records = IF f.error THEN f.records ELSE f.records \o parts[n].records
           /\ o.error <=> f.error \/ parts[n].error
      <4>1. /\ Len(parts) = Len(front) + 1 /\ \A i \in 1 .. Len(front) : parts[i] = front[i]
            /\ parts \in Seq(PartSet(1 .. w)) /\ front \in Seq(PartSet(1 .. w)) /\ Len(parts) = n
        BY <3>3, <3>8, <1>3
      <4> QED BY <4>1, ReadOnMore
    <3>11. /\ f \in PartSet(1 .. w) /\ last.records \in Seq(1 .. w)
      BY <3>1, <3>3, <1>3, ReadOnIs
    <3> HIDE DEF last, f, o, m
    <3>12. f.records \in Seq(1 .. w) /\ f.error \in BOOLEAN
           /\ o.error \in BOOLEAN /\ m.error \in BOOLEAN
      BY <3>11, <2>0 DEF PartSet
    <3>13. ASSUME ~f.error, last.end = "unended"
           PROVE  Shortened(o.records, m.records)
      <4>1. o.records = f.records \o last.records /\ m.records = f.records \o Front(last.records)
        BY <3>13, <3>5, <3>6, <3>9, <3>10
      <4>2. CASE last.records = <<>>
        <5>1. Front(<<>>) = <<>>
          BY DEF Front
        <5> QED BY <4>1, <4>2, <5>1 DEF Shortened
      <4>3. CASE last.records # <<>>
        BY <4>1, <4>3, <3>11, <3>12, FrontOfConcat, ZenonT(60) DEF Shortened
      <4> QED BY <4>2, <4>3
    <3>14. ASSUME last.end # "unended"
           PROVE  m.records = o.records
      BY <3>14, <3>5, <3>6, <3>9, <3>10
    <3>15. f.error => m.records = o.records
      BY <3>9, <3>10
    <3>16. m.error <=> f.error \/ last.end # "whole"
      BY <3>6, <3>9
    <3>17. o.error <=> f.error \/ last.end = "ragged"
      BY <3>5, <3>10
    <3> QED BY <3>7, <3>12, <3>13, <3>14, <3>15, <3>16, <3>17 DEF Shortened
  <2> QED BY <2>1, <2>2
<1>7. /\ ReadOn(more).records = IF m.error THEN m.records
                               ELSE m.records \o more[n + 1].records
      /\ ReadOn(more).error <=> m.error \/ more[n + 1].error
  BY <1>4, <1>5, ReadOnMore
<1>8. more[n + 1].records = block.records
  <2>1. more[n + 1] = BlockPart(all, n + 1) /\ ~(n + 1 < Len(all)) /\ all[n + 1] = block
    BY <1>1, <1>2, <1>4
  <2> QED BY <2>1 DEF BlockPart, Readable
<1> HIDE DEF o, m
<1> QED BY <1>3, <1>4, <1>6, <1>7, <1>8 DEF all, o

-----------------------------------------------------------------------------
(***************************************************************************)
(* The order of the names.                                                 *)
(***************************************************************************)
SameName(a, b) == a.stamp = b.stamp /\ a.suffix = b.suffix

OneOfAName(directory) ==
  \A i, j \in 1 .. Len(directory) : SameName(directory[i], directory[j]) => i = j

Ascending(directory) ==
  \A i, j \in 1 .. Len(directory) : i < j => Earlier(directory[i], directory[j])

LEMMA NamesAreOrdered ==
  ASSUME NEW w \in Nat, NEW a \in SegmentSet(w), NEW b \in SegmentSet(w)
  PROVE  /\ Earlier(a, b) \/ Earlier(b, a) \/ SameName(a, b)
         /\ ~(Earlier(a, b) /\ Earlier(b, a))
         /\ ~(Earlier(a, b) /\ SameName(a, b))
         /\ \A c \in SegmentSet(w) : Earlier(a, b) /\ Earlier(b, c) => Earlier(a, c)
<1>1. /\ a.stamp \in Int /\ a.suffix \in Int /\ b.stamp \in Int /\ b.suffix \in Int
      /\ \A c \in SegmentSet(w) : c.stamp \in Int /\ c.suffix \in Int
  BY JournalAssumption DEF SegmentSet
<1> QED BY <1>1 DEF Earlier, SameName

\* A segment finds its place among others that are in order.
LEMMA PlaceFound ==
  ASSUME NEW w \in Nat, NEW n \in Nat, NEW l \in [1 .. n -> SegmentSet(w)],
         NEW new \in SegmentSet(w),
         \A i, j \in 1 .. n : i < j => Earlier(l[i], l[j]),
         \A i \in 1 .. n : ~SameName(l[i], new)
  PROVE  \E p \in 1 .. n + 1 :
           /\ \A i \in 1 .. n : i < p => Earlier(l[i], new)
           /\ \A i \in 1 .. n : p <= i => Earlier(new, l[i])
<1> DEFINE later == {i \in 1 .. n : Earlier(new, l[i])}
<1>1. CASE later = {}
  <2>1. \A i \in 1 .. n : Earlier(l[i], new)
    <3> TAKE i \in 1 .. n
    <3>1. l[i] \in SegmentSet(w) /\ ~Earlier(new, l[i]) /\ ~SameName(l[i], new)
      BY <1>1
    <3> QED BY <3>1, NamesAreOrdered
  <2>2. n + 1 \in 1 .. n + 1 /\ \A i \in 1 .. n : ~(n + 1 <= i)
    OBVIOUS
  <2> HIDE DEF later
  <2> QED BY <2>1, <2>2
<1>2. CASE later # {}
  <2>1. later \subseteq Nat
    OBVIOUS
  <2>2. PICK p \in later : \A i \in later : p <= i
    <3> HIDE DEF later
    <3> QED BY <1>2, <2>1, LeastExists
  <2>3. p \in 1 .. n /\ p \in 1 .. n + 1 /\ Earlier(new, l[p])
    OBVIOUS
  <2>4. \A i \in 1 .. n : i < p => Earlier(l[i], new)
    <3> TAKE i \in 1 .. n
    <3> HAVE i < p
    <3>1. i \notin later
      BY <2>2, <2>3
    <3>2. l[i] \in SegmentSet(w) /\ ~Earlier(new, l[i]) /\ ~SameName(l[i], new)
      BY <3>1
    <3> QED BY <3>2, NamesAreOrdered
  <2>5. \A i \in 1 .. n : p <= i => Earlier(new, l[i])
    <3> TAKE i \in 1 .. n
    <3> HAVE p <= i
    <3>1. p = i \/ Earlier(l[p], l[i])
      BY <2>3
    <3>2. l[p] \in SegmentSet(w) /\ l[i] \in SegmentSet(w)
      BY <2>3
    <3> QED BY <2>3, <3>1, <3>2, NamesAreOrdered
  <2> QED BY <2>3, <2>4, <2>5
<1> QED BY <1>1, <1>2

\* One segment more can be listed.
LEMMA PlaceTaken ==
  ASSUME NEW w \in Nat, NEW n \in Nat, NEW l \in [1 .. n -> SegmentSet(w)],
         NEW new \in SegmentSet(w),
         \A i, j \in 1 .. n : i < j => Earlier(l[i], l[j]),
         \A i \in 1 .. n : ~SameName(l[i], new)
  PROVE  \E g : /\ g \in [1 .. n + 1 -> {l[i] : i \in 1 .. n} \cup {new}]
                /\ \A i, j \in 1 .. n + 1 : i < j => Earlier(g[i], g[j])
<1>1. PICK p \in 1 .. n + 1 :
           /\ \A i \in 1 .. n : i < p => Earlier(l[i], new)
           /\ \A i \in 1 .. n : p <= i => Earlier(new, l[i])
  BY PlaceFound
<1> DEFINE g == [i \in 1 .. n + 1 |-> IF i < p THEN l[i] ELSE IF i = p THEN new ELSE l[i - 1]]
<1>2. \A i \in 1 .. n + 1 : /\ i < p => i \in 1 .. n /\ g[i] = l[i]
                            /\ i = p => g[i] = new
                            /\ p < i => i - 1 \in 1 .. n /\ p <= i - 1 /\ g[i] = l[i - 1]
  OBVIOUS
<1>3. g \in [1 .. n + 1 -> {l[i] : i \in 1 .. n} \cup {new}]
  <2>1. \A i \in 1 .. n + 1 : g[i] \in {l[k] : k \in 1 .. n} \cup {new}
    <3> TAKE i \in 1 .. n + 1
    <3>1. i < p \/ i = p \/ p < i
      OBVIOUS
    <3> HIDE DEF g
    <3> QED BY <3>1, <1>2
  <2> QED BY <2>1
<1> HIDE DEF g
<1>4. \A i, j \in 1 .. n + 1 : i < j => Earlier(g[i], g[j])
  <2> TAKE i, j \in 1 .. n + 1
  <2> HAVE i < j
  <2>1. CASE j < p
    BY <2>1, <1>2
  <2>2. CASE j = p
    BY <2>2, <1>1, <1>2
  <2>3. CASE p < j /\ i < p
    <3>1. i <= j - 1 /\ i # j - 1 /\ i \in 1 .. n /\ j - 1 \in 1 .. n
      BY <2>3, <1>2
    <3>2. g[i] = l[i] /\ g[j] = l[j - 1] /\ i < j - 1
      BY <3>1, <2>3, <1>2
    <3> QED BY <3>1, <3>2
  <2>4. CASE i = p
    <3>1. j - 1 \in 1 .. n /\ p <= j - 1 /\ g[j] = l[j - 1] /\ g[i] = new
      BY <2>4, <1>2
    <3> QED BY <3>1, <1>1
  <2>5. CASE p < i
    <3>1. /\ j - 1 \in 1 .. n /\ g[j] = l[j - 1] /\ i - 1 \in 1 .. n /\ g[i] = l[i - 1]
          /\ i - 1 < j - 1
      BY <2>5, <1>2
    <3> QED BY <3>1
  <2> QED BY <2>1, <2>2, <2>3, <2>4, <2>5
<1> QED BY <1>3, <1>4

Lists(l, directory) ==
  /\ l \in [DOMAIN directory -> ToSet(directory)]
  /\ \A i, j \in DOMAIN directory : i < j => Earlier(l[i], l[j])

\* Segments of different names can be listed.
LEMMA ListingExists ==
  ASSUME NEW w \in Nat, NEW directory \in Seq(SegmentSet(w)), OneOfAName(directory)
  PROVE  Lists(list_journal_segments(directory), directory)
<1> DEFINE m == Len(directory)
           Among(n) == {directory[k] : k \in 1 .. n}
           S == {n \in 0 .. m : \E l : /\ l \in [1 .. n -> Among(n)]
                                       /\ \A i, j \in 1 .. n : i < j => Earlier(l[i], l[j])}
<1>1. m \in Nat /\ DOMAIN directory = 1 .. m /\ \A k \in 1 .. m : directory[k] \in SegmentSet(w)
  OBVIOUS
<1> HIDE DEF m
<1>2. 0 \in S
  <2> DEFINE l == [i \in 1 .. 0 |-> 0]
  <2>1. l \in [1 .. 0 -> Among(0)] /\ 0 \in 0 .. m
    BY <1>1
  <2>2. \A i, j \in 1 .. 0 : i < j => Earlier(l[i], l[j])
    OBVIOUS
  <2> HIDE DEF l
  <2> QED BY <2>1, <2>2
<1>3. \A n \in 0 .. m - 1 : n \in S => n + 1 \in S
  <2> SUFFICES ASSUME NEW n \in 0 .. m - 1, n \in S
               PROVE  n + 1 \in S
    OBVIOUS
  <2>1. PICK l : /\ l \in [1 .. n -> Among(n)]
                 /\ \A i, j \in 1 .. n : i < j => Earlier(l[i], l[j])
    OBVIOUS
  <2>2. n \in Nat /\ n + 1 \in 1 .. m /\ n + 1 \in 0 .. m
    BY <1>1
  <2>3. \A i \in 1 .. n : l[i] \in SegmentSet(w) /\ ~SameName(l[i], directory[n + 1])
    <3> TAKE i \in 1 .. n
    <3>1. l[i] \in Among(n)
      BY <2>1
    <3>2. PICK k \in 1 .. n : l[i] = directory[k]
      BY <3>1
    <3>3. k \in 1 .. m /\ k # n + 1
      BY <2>2, <1>1
    <3> QED BY <3>2, <3>3, <2>2, <1>1 DEF OneOfAName, m
  <2>4. l \in [1 .. n -> SegmentSet(w)] /\ directory[n + 1] \in SegmentSet(w)
    <3>1. l = [i \in 1 .. n |-> l[i]]
      BY <2>1
    <3> QED BY <3>1, <2>2, <2>3, <1>1
  <2>5. PICK g : /\ g \in [1 .. n + 1 -> {l[i] : i \in 1 .. n} \cup {directory[n + 1]}]
                 /\ \A i, j \in 1 .. n + 1 : i < j => Earlier(g[i], g[j])
    BY <2>1, <2>2, <2>3, <2>4, PlaceTaken, ZenonT(60)
  <2>6. {l[i] : i \in 1 .. n} \cup {directory[n + 1]} \subseteq Among(n + 1)
    <3>1. \A i \in 1 .. n : \E k \in 1 .. n : l[i] = directory[k]
      BY <2>1
    <3>2. \A k \in 1 .. n + 1 : directory[k] \in Among(n + 1)
      OBVIOUS
    <3>3. n + 1 \in 1 .. n + 1 /\ \A k \in 1 .. n : k \in 1 .. n + 1
      BY <2>2
    <3> HIDE DEF Among
    <3> QED BY <3>1, <3>2, <3>3
  <2>7. g \in [1 .. n + 1 -> Among(n + 1)]
    <3> HIDE DEF Among
    <3> QED BY <2>5, <2>6
  <2> QED BY <2>2, <2>5, <2>7
<1>4. m \in S
  <2> HIDE DEF S
  <2>1. 0 .. m \subseteq S
    BY <1>1, <1>2, <1>3, IntervalByInduction
  <2> QED BY <1>1, <2>1
<1>5. Among(m) = ToSet(directory)
  BY <1>1 DEF ToSet
<1>6. \E l : Lists(l, directory)
  BY <1>1, <1>4, <1>5 DEF Lists
<1>7. list_journal_segments(directory) = CHOOSE l : Lists(l, directory)
  BY DEF list_journal_segments, Lists
<1> QED BY <1>6, <1>7

\* What is in the order of its names already is listed as it is.
LEMMA ListedInOrder ==
  ASSUME NEW w \in Nat, NEW directory \in Seq(SegmentSet(w)), Ascending(directory)
  PROVE  OneOfAName(directory) /\ list_journal_segments(directory) = directory
<1> DEFINE n == Len(directory)
           l == list_journal_segments(directory)
<1>1. n \in Nat /\ DOMAIN directory = 1 .. n /\ \A k \in 1 .. n : directory[k] \in SegmentSet(w)
  OBVIOUS
<1>2. \A i, j \in 1 .. n : /\ SameName(directory[i], directory[j]) => i = j
                           /\ Earlier(directory[i], directory[j]) => i < j
  <2> TAKE i, j \in 1 .. n
  <2>1. i < j \/ i = j \/ j < i
    OBVIOUS
  <2>2. /\ i < j => Earlier(directory[i], directory[j])
        /\ j < i => Earlier(directory[j], directory[i])
    BY DEF Ascending
  <2>3. directory[i] \in SegmentSet(w) /\ directory[j] \in SegmentSet(w)
    OBVIOUS
  <2>4. SameName(directory[j], directory[i]) <=> SameName(directory[i], directory[j])
    BY DEF SameName
  <2>5. ~Earlier(directory[i], directory[i])
    BY <2>3, NamesAreOrdered
  <2> QED BY <2>1, <2>2, <2>3, <2>4, <2>5, NamesAreOrdered
<1>3. OneOfAName(directory)
  BY <1>2 DEF OneOfAName
<1>4. Lists(l, directory)
  BY <1>3, ListingExists
<1> HIDE DEF n, l
<1>5. l \in [1 .. n -> ToSet(directory)]
  BY <1>1, <1>4 DEF Lists
<1> DEFINE p == [i \in 1 .. n |-> CHOOSE k \in 1 .. n : l[i] = directory[k]]
<1>6. \A i \in 1 .. n : p[i] \in 1 .. n /\ l[i] = directory[p[i]]
  <2> TAKE i \in 1 .. n
  <2>1. l[i] \in ToSet(directory)
    BY <1>5
  <2>2. \E k \in 1 .. n : l[i] = directory[k]
    BY <1>1, <2>1 DEF ToSet
  <2> QED BY <2>2
<1> HIDE DEF p
<1>7. \A i, j \in 1 .. n : i < j => p[i] < p[j]
  BY <1>1, <1>2, <1>4, <1>6 DEF Lists
<1>8. \A i \in 1 .. n : p[i] >= i
  <2> DEFINE S == {i \in 0 .. n : i = 0 \/ p[i] >= i}
  <2>1. 0 \in S
    BY <1>1
  <2>2. \A i \in 0 .. n - 1 : i \in S => i + 1 \in S
    <3> SUFFICES ASSUME NEW i \in 0 .. n - 1, i \in S
                 PROVE  p[i + 1] >= i + 1
      BY <1>1
    <3>1. i + 1 \in 1 .. n /\ (i # 0 => i \in 1 .. n /\ i < i + 1)
      BY <1>1
    <3>2. p[i + 1] \in 1 .. n /\ (i # 0 => p[i] \in 1 .. n /\ p[i] < p[i + 1])
      BY <3>1, <1>6, <1>7
    <3> QED BY <3>2
  <2>3. 0 .. n \subseteq S
    <3> HIDE DEF S
    <3> QED BY <1>1, <2>1, <2>2, IntervalByInduction
  <2> QED BY <1>1, <2>3
<1>9. \A i \in 1 .. n : p[i] <= i
  <2> DEFINE S == {k \in 0 .. n : k = n \/ p[n - k] <= n - k}
  <2>1. 0 \in S
    <3>1. n # 0 => n \in 1 .. n
      BY <1>1
    <3>2. n # 0 => p[n - 0] <= n - 0
      BY <1>1, <1>6, <3>1
    <3> QED BY <1>1, <3>2
  <2>2. \A k \in 0 .. n - 1 : k \in S => k + 1 \in S
    <3> SUFFICES ASSUME NEW k \in 0 .. n - 1, k \in S, k + 1 # n
                 PROVE  p[n - (k + 1)] <= n - (k + 1)
      BY <1>1
    <3> DEFINE i == n - (k + 1)
    <3>1. i \in 1 .. n /\ i + 1 \in 1 .. n /\ i < i + 1 /\ n - k = i + 1 /\ k # n
      BY <1>1
    <3>2. p[i + 1] <= i + 1
      BY <3>1
    <3> HIDE DEF i
    <3>3. p[i] \in 1 .. n /\ p[i + 1] \in 1 .. n /\ p[i] < p[i + 1]
      BY <3>1, <1>6, <1>7
    <3>4. p[i] <= i
      BY <1>1, <3>1, <3>2, <3>3
    <3> QED BY <3>4 DEF i
  <2>3. 0 .. n \subseteq S
    <3> HIDE DEF S
    <3> QED BY <1>1, <2>1, <2>2, IntervalByInduction
  <2>4. \A i \in 1 .. n : n - i \in 0 .. n /\ n - i # n /\ n - (n - i) = i
    BY <1>1
  <2> TAKE i \in 1 .. n
  <2>5. n - i \in S
    <3> HIDE DEF S
    <3> QED BY <2>3, <2>4
  <2> QED BY <2>4, <2>5
<1>10. \A i \in 1 .. n : l[i] = directory[i]
  <2> TAKE i \in 1 .. n
  <2>1. p[i] = i
    BY <1>6, <1>8, <1>9
  <2> QED BY <2>1, <1>6
<1>11. directory = [i \in 1 .. n |-> directory[i]]
  BY <1>1
<1>12. l = directory
  BY <1>5, <1>10, <1>11
<1> QED BY <1>3, <1>12 DEF l

-----------------------------------------------------------------------------
(***************************************************************************)
(* Reading a directory.                                                    *)
(***************************************************************************)
SegmentParts(listed) == [i \in DOMAIN listed |-> ReadSegment(listed[i].blocks)]

LEMMA SegmentPartsTyped ==
  ASSUME NEW w \in Nat, NEW listed \in Seq(SegmentSet(w))
  PROVE  /\ SegmentParts(listed) \in Seq(PartSet(1 .. w))
         /\ Len(SegmentParts(listed)) = Len(listed)
         /\ \A i \in 1 .. Len(listed) :
              /\ listed[i].blocks \in Seq(BlockSet(w))
              /\ SegmentParts(listed)[i] = ReadSegment(listed[i].blocks)
<1> DEFINE n == Len(listed)
           T == PartSet(1 .. w)
<1>1. n \in Nat /\ DOMAIN listed = 1 .. n
  OBVIOUS
<1>2. \A i \in 1 .. n : listed[i] \in SegmentSet(w)
  OBVIOUS
<1>3. \A i \in 1 .. n : listed[i].blocks \in Seq(BlockSet(w))
  BY <1>2 DEF SegmentSet
<1>4. \A i \in 1 .. n : ReadSegment(listed[i].blocks) \in T
  BY <1>3, BlockPartsTyped
<1> HIDE DEF n, T
<1>5. SegmentParts(listed) = [i \in 1 .. n |-> ReadSegment(listed[i].blocks)]
  BY <1>1 DEF SegmentParts
<1>6. SegmentParts(listed) \in [1 .. n -> T]
  BY <1>4, <1>5
<1>7. SegmentParts(listed) \in Seq(T) /\ Len(SegmentParts(listed)) = n
  BY <1>1, <1>6
<1> QED BY <1>3, <1>5, <1>7 DEF n, T

LEMMA ReadingTyped ==
  ASSUME NEW w \in Nat, NEW directory \in Seq(SegmentSet(w)), OneOfAName(directory)
  PROVE  ReadDirectory(directory) \in PartSet(1 .. w)
<1> DEFINE listed == list_journal_segments(directory)
           n == Len(directory)
<1>1. n \in Nat /\ DOMAIN directory = 1 .. n /\ \A k \in 1 .. n : directory[k] \in SegmentSet(w)
  OBVIOUS
<1>2. Lists(listed, directory)
  BY ListingExists
<1> HIDE DEF listed, n
<1>3. ToSet(directory) \subseteq SegmentSet(w)
  BY <1>1 DEF ToSet
<1>4. listed \in [1 .. n -> SegmentSet(w)]
  BY <1>1, <1>2, <1>3 DEF Lists
<1>5. listed \in Seq(SegmentSet(w)) /\ DOMAIN listed = DOMAIN directory
  BY <1>1, <1>4
<1>6. ReadDirectory(directory) = ReadOn(SegmentParts(listed))
  BY <1>5 DEF ReadDirectory, SegmentParts, listed
<1>7. SegmentParts(listed) \in Seq(PartSet(1 .. w))
  BY <1>5, SegmentPartsTyped
<1> QED BY <1>6, <1>7, ReadOnIs

LEMMA ReadInOrder ==
  ASSUME NEW w \in Nat, NEW directory \in Seq(SegmentSet(w)), Ascending(directory)
  PROVE  ReadDirectory(directory) = ReadOn(SegmentParts(directory))
<1>1. list_journal_segments(directory) = directory
  BY ListedInOrder
<1> QED BY <1>1 DEF ReadDirectory, SegmentParts

\* A directory whose last segment can be written on.
TailEnded(directory) == Len(directory) > 0 => Ended(directory[Len(directory)].blocks)

\* The same of the last segment of a directory.
LEMMA LastSegmentGrows ==
  ASSUME NEW w \in Nat, NEW directory \in Seq(SegmentSet(w)), Ascending(directory),
         Len(directory) > 0, NEW block \in BlockSet(w)
  PROVE  LET d == Put(directory, Len(directory), block)
             old == ReadDirectory(directory)
             new == ReadDirectory(d)
         IN  /\ Ascending(d)
             /\ old.error => new.error /\ new.records = old.records
             /\ ~old.error /\ TailEnded(directory) => new.records = old.records \o block.records
             /\ ~old.error /\ ~TailEnded(directory) =>
                  new.error /\ Shortened(old.records, new.records)
             /\ block.end # "whole" => ~TailEnded(d)
<1> DEFINE n == Len(directory)
           d == Put(directory, n, block)
           parts == SegmentParts(directory)
           more == SegmentParts(d)
           front == SubSeq(parts, 1, n - 1)
           T == PartSet(1 .. w)
<1>1. n \in Nat /\ n > 0 /\ n \in 1 .. n /\ n - 1 \in Nat /\ n = (n - 1) + 1
        /\ 1 \in Int /\ n - 1 \in Int /\ (n - 1) - 1 + 1 = n - 1
  OBVIOUS
<1>2. /\ d \in Seq(SegmentSet(w)) /\ Len(d) = n
      /\ \A j \in 1 .. n : /\ d[j].stamp = directory[j].stamp
                           /\ d[j].suffix = directory[j].suffix
                           /\ j # n => d[j].blocks = directory[j].blocks
      /\ d[n].blocks = Append(directory[n].blocks, block)
  BY <1>1, PutAppends
<1>3. /\ parts \in Seq(T) /\ Len(parts) = n
      /\ \A i \in 1 .. n : /\ directory[i].blocks \in Seq(BlockSet(w))
                           /\ parts[i] = ReadSegment(directory[i].blocks)
  BY SegmentPartsTyped
<1> HIDE DEF d
<1>4. /\ more \in Seq(T) /\ Len(more) = n /\ \A i \in 1 .. n : more[i] = ReadSegment(d[i].blocks)
  BY <1>2, SegmentPartsTyped
<1>5. Ascending(d)
  BY <1>2 DEF Ascending, Earlier
<1>6. /\ ReadDirectory(directory) = ReadOn(parts)
      /\ ReadDirectory(d) = ReadOn(more)
  BY <1>2, <1>5, ReadInOrder
<1> HIDE DEF n, parts, more, T
<1>7. /\ front \in Seq(T) /\ Len(front) = n - 1
      /\ \A i \in 1 .. n - 1 : front[i] = parts[i]
  <2>1. \A i \in 1 .. n - 1 : parts[i] \in T /\ 1 + i - 1 = i
    BY <1>1, <1>3
  <2> HIDE DEF front
  <2>2. front = SubSeq(parts, 1, n - 1)
    BY DEF front
  <2> QED BY <1>1, <2>1, <2>2, SubSeqProperties
<1> HIDE DEF front
<1>8. \A i \in 1 .. n - 1 : more[i] = parts[i]
  <2> TAKE i \in 1 .. n - 1
  <2>1. i \in 1 .. n /\ i # n
    BY <1>1
  <2> QED BY <2>1, <1>2, <1>3, <1>4
<1>9. /\ Len(more) = Len(front) + 1 /\ Len(parts) = Len(front) + 1
      /\ Len(more) = n /\ Len(parts) = n
      /\ \A i \in 1 .. Len(front) : more[i] = front[i] /\ parts[i] = front[i]
  BY <1>1, <1>3, <1>4, <1>7, <1>8
<1> DEFINE f == ReadOn(front)
           blocks == directory[n].blocks
<1>10. /\ ReadOn(more).records = IF f.error THEN f.records ELSE f.records \o more[n].records
       /\ ReadOn(more).error <=> f.error \/ more[n].error
  <2>1. /\ front \in Seq(PartSet(1 .. w)) /\ more \in Seq(PartSet(1 .. w))
        /\ Len(more) = Len(front) + 1 /\ \A i \in 1 .. Len(front) : more[i] = front[i]
        /\ Len(more) = n
    BY <1>4, <1>7, <1>9 DEF T
  <2> QED BY <2>1, ReadOnMore
<1>11. /\ ReadOn(parts).records = IF f.error THEN f.records ELSE f.records \o parts[n].records
       /\ ReadOn(parts).error <=> f.error \/ parts[n].error
  <2>1. /\ front \in Seq(PartSet(1 .. w)) /\ parts \in Seq(PartSet(1 .. w))
        /\ Len(parts) = Len(front) + 1 /\ \A i \in 1 .. Len(front) : parts[i] = front[i]
        /\ Len(parts) = n
    BY <1>3, <1>7, <1>9 DEF T
  <2> QED BY <2>1, ReadOnMore
<1>12. blocks \in Seq(BlockSet(w))
  BY <1>1, <1>3
<1>13. /\ parts[n].error => more[n].error /\ more[n].records = parts[n].records
       /\ ~parts[n].error /\ Ended(blocks) => more[n].records = parts[n].records \o block.records
       /\ ~parts[n].error /\ ~Ended(blocks) =>
            more[n].error /\ Shortened(parts[n].records, more[n].records)
  <2>1. /\ parts[n] = ReadSegment(blocks)
        /\ more[n] = ReadSegment(Append(blocks, block))
    BY <1>1, <1>2, <1>3, <1>4, ZenonT(60)
  <2> HIDE DEF blocks
  <2> DEFINE old == ReadSegment(blocks)
             new == ReadSegment(Append(blocks, block))
  <2>2. old.error => new.error /\ new.records = old.records
    BY <1>12, SegmentGrows
  <2>3. ~old.error /\ Ended(blocks) => new.records = old.records \o block.records
    BY <1>12, SegmentGrows
  <2>4. ~old.error /\ ~Ended(blocks) => new.error /\ Shortened(old.records, new.records)
    BY <1>12, SegmentGrows
  <2> HIDE DEF old, new
  <2>5. parts[n] = old /\ more[n] = new
    BY <2>1 DEF old, new
  <2> QED BY <2>2, <2>3, <2>4, <2>5
<1>16. /\ f.records \in Seq(1 .. w) /\ f.error \in BOOLEAN
       /\ parts[n].records \in Seq(1 .. w) /\ parts[n].error \in BOOLEAN
       /\ block.records \in Seq(1 .. w)
  <2>1. f \in PartSet(1 .. w)
    BY <1>7, ReadOnIs DEF T
  <2>2. parts[n] \in PartSet(1 .. w)
    BY <1>1, <1>3 DEF T
  <2> HIDE DEF f
  <2> QED BY <2>1, <2>2 DEF PartSet, BlockSet
<1>17. TailEnded(directory) <=> Ended(blocks)
  BY <1>1 DEF TailEnded, n
<1>18. block.end # "whole" => ~TailEnded(d)
  <2>2. \A q \in Seq(BlockSet(w)) :
          Append(q, block) # <<>> /\ Append(q, block)[Len(Append(q, block))] = block
    OBVIOUS
  <2>1. /\ d[n].blocks # <<>> /\ d[n].blocks[Len(d[n].blocks)] = block
    BY <1>2, <1>12, <2>2
  <2> QED BY <2>1, <1>1, <1>2 DEF TailEnded, Ended
<1> HIDE DEF f, blocks
<1> DEFINE a == f.records
           b == parts[n].records
           c == block.records
<1>14. (a \o b) \o c = a \o (b \o c)
  <2> DEFINE S == 1 .. w
  <2>1. a \in Seq(S) /\ b \in Seq(S) /\ c \in Seq(S)
    BY <1>16
  <2> HIDE DEF S, a, b, c
  <2> QED BY <2>1, ConcatAssociative, SMTT(60)
<1>15. ASSUME Shortened(b, more[n].records)
       PROVE  Shortened(a \o b, a \o more[n].records)
  <2>1. CASE more[n].records = b
    BY <2>1 DEF Shortened
  <2>2. CASE b # <<>> /\ more[n].records = Front(b)
    <3>1. a \in Seq(1 .. w) /\ b \in Seq(1 .. w)
      BY <1>16
    <3> HIDE DEF a, b
    <3>2. a \o b # <<>> /\ Front(a \o b) = a \o Front(b)
      BY <3>1, <2>2, FrontOfConcat
    <3> QED BY <2>2, <3>2 DEF Shortened
  <2> QED BY <1>15, <2>1, <2>2 DEF Shortened
<1>19. /\ ReadOn(parts).error => ReadOn(more).error /\ ReadOn(more).records = ReadOn(parts).records
       /\ ~ReadOn(parts).error /\ Ended(blocks) =>
            ReadOn(more).records = ReadOn(parts).records \o c
       /\ ~ReadOn(parts).error /\ ~Ended(blocks) =>
            ReadOn(more).error /\ Shortened(ReadOn(parts).records, ReadOn(more).records)
  <2>1. CASE f.error
    BY <2>1, <1>10, <1>11
  <2>2. CASE ~f.error
    <3>1. /\ ReadOn(parts).error <=> parts[n].error
          /\ ReadOn(more).error <=> more[n].error
          /\ ReadOn(parts).records = a \o b
          /\ ReadOn(more).records = a \o more[n].records
      BY <2>2, <1>10, <1>11
    <3> HIDE DEF a, b, c
    <3> QED BY <3>1, <1>13, <1>14, <1>15 DEF b, c
  <2> QED BY <2>1, <2>2
<1> HIDE DEF c
<1> QED BY <1>5, <1>6, <1>17, <1>18, <1>19 DEF d, n, c

\* A segment without blocks adds nothing.
LEMMA EmptySegmentIsUnread ==
  ASSUME NEW w \in Nat, NEW directory \in Seq(SegmentSet(w)),
         NEW segment \in SegmentSet(w), segment.blocks = <<>>,
         Ascending(Append(directory, segment))
  PROVE  /\ Ascending(directory)
         /\ ReadDirectory(Append(directory, segment)).records
              = ReadDirectory(directory).records
         /\ ReadDirectory(Append(directory, segment)).error
              <=> ReadDirectory(directory).error
<1> DEFINE n == Len(directory)
           d == Append(directory, segment)
           parts == SegmentParts(directory)
           more == SegmentParts(d)
           T == PartSet(1 .. w)
<1>1. /\ n \in Nat /\ d \in Seq(SegmentSet(w)) /\ Len(d) = n + 1 /\ d[n + 1] = segment
      /\ \A i \in 1 .. n : d[i] = directory[i]
  OBVIOUS
<1> HIDE DEF d
<1>2. Ascending(directory)
  <2> SUFFICES ASSUME NEW i \in 1 .. n, NEW j \in 1 .. n, i < j
               PROVE  Earlier(directory[i], directory[j])
    BY DEF Ascending
  <2>1. i \in 1 .. Len(d) /\ j \in 1 .. Len(d)
    BY <1>1
  <2>2. Earlier(d[i], d[j])
    BY <2>1 DEF Ascending, d
  <2> QED BY <1>1, <2>2
<1>3. /\ parts \in Seq(T) /\ Len(parts) = n
      /\ \A i \in 1 .. n : parts[i] = ReadSegment(directory[i].blocks)
  BY SegmentPartsTyped
<1>4. /\ more \in Seq(T) /\ Len(more) = n + 1
      /\ \A i \in 1 .. n + 1 : more[i] = ReadSegment(d[i].blocks)
  BY <1>1, SegmentPartsTyped
<1>5. ReadDirectory(directory) = ReadOn(parts) /\ ReadDirectory(d) = ReadOn(more)
  <2>1. Ascending(d)
    BY DEF d
  <2> QED BY <1>1, <1>2, <2>1, ReadInOrder
<1> HIDE DEF n, parts, more, T
<1>6. /\ Len(more) = Len(parts) + 1 /\ Len(more) = n + 1
      /\ \A i \in 1 .. Len(parts) : more[i] = parts[i]
  <2>1. \A i \in 1 .. n : i \in 1 .. n + 1
    BY <1>1
  <2>2. \A i \in 1 .. n : more[i] = parts[i]
    BY <2>1, <1>1, <1>3, <1>4
  <2> QED BY <2>2, <1>3, <1>4
<1>7. ReadOn(more).records =
         IF ReadOn(parts).error THEN ReadOn(parts).records
         ELSE ReadOn(parts).records \o more[n + 1].records
  BY <1>3, <1>4, <1>6, ReadOnMore DEF T
<1>10. ReadOn(more).error <=> ReadOn(parts).error \/ more[n + 1].error
  BY <1>3, <1>4, <1>6, ReadOnMore DEF T
<1>8. more[n + 1].records = <<>> /\ ~more[n + 1].error
  BY <1>1, <1>4, NothingToRead
<1>9. ReadOn(parts).records \o <<>> = ReadOn(parts).records
  <2>1. ReadOn(parts).records \in Seq(1 .. w)
    BY <1>3, ReadOnIs DEF T, PartSet
  <2> QED BY <2>1, ConcatEmptySeq
<1> QED BY <1>2, <1>5, <1>7, <1>8, <1>9, <1>10 DEF d

-----------------------------------------------------------------------------
(***************************************************************************)
(* The history that a writer keeps, when its clock does not go back.       *)
(***************************************************************************)
Rises(q) == \A i, j \in 1 .. Len(q) : i < j => q[i] < q[j]

Begins(q, longer) ==
  Len(q) <= Len(longer) /\ \A i \in 1 .. Len(q) : longer[i] = q[i]

LogOf(directory) == ReadDirectory(directory).records

Errs(directory) == ReadDirectory(directory).error

\* A new segment comes after all others: no second is later than now, and a second's
\* counters are taken one after the other.
InTime(directory, now) ==
  /\ Ascending(directory)
  /\ \A i \in 1 .. Len(directory) :
       /\ directory[i].stamp <= now
       /\ \A n \in 0 .. directory[i].suffix - 1 :
            \E j \in 1 .. Len(directory) :
               directory[j].stamp = directory[i].stamp /\ directory[j].suffix = n

\* The writer writes to the last segment, and what it still has goes on where the log
\* ends, or, behind a tear, is not read.
Chained(s, now) ==
  /\ InTime(s.directory, now)
  /\ s.current \in {0, Len(s.directory)}
  /\ Rises(LogOf(s.directory) \o s.pending)
  /\ TailEnded(s.directory) => Rises(LogOf(s.directory) \o s.held)

\* A reading behind an earlier one: it goes on, or takes back a last line without its
\* end, and then it ends in an error.
Continues(old, new, error) ==
  Begins(old, new) \/ (old # <<>> /\ new = Front(old) /\ error)

Follows(d, e) ==
  /\ Continues(LogOf(d), LogOf(e), Errs(e))
  /\ Errs(d) => Errs(e) /\ LogOf(e) = LogOf(d)

Kept(s, t, now) ==
  OneOfAName(s.directory) =>
    /\ OneOfAName(t.directory)
    /\ compress /\ Chained(s, now) => Chained(t, now) /\ Follows(s.directory, t.directory)

-----------------------------------------------------------------------------
(***************************************************************************)
(* Rising sequences, and what follows them.                                *)
(***************************************************************************)
LEMMA ConcatIs ==
  ASSUME NEW R, NEW a \in Seq(R), NEW b \in Seq(R)
  PROVE  /\ a \o b \in Seq(R)
         /\ Len(a) \in Nat /\ Len(b) \in Nat
         /\ Len(a \o b) = Len(a) + Len(b)
         /\ \A i \in 1 .. Len(a) : (a \o b)[i] = a[i]
         /\ \A i \in 1 .. Len(b) : (a \o b)[Len(a) + i] = b[i]
OBVIOUS

\* As much of it as is written rises behind it too, and nothing less.
LEMMA RisesPart ==
  ASSUME NEW w \in Nat, NEW a \in Seq(1 .. w), NEW q \in Seq(1 .. w), Rises(a \o q),
         NEW p \in Seq(1 .. w), Begins(p, q)
  PROVE  Rises(a \o p)
<1> DEFINE x == a \o q
           y == a \o p
<1>1. /\ Len(a) \in Nat /\ Len(q) \in Nat /\ Len(p) \in Nat
      /\ Len(x) = Len(a) + Len(q) /\ Len(y) = Len(a) + Len(p)
      /\ \A i \in 1 .. Len(a) : x[i] = a[i] /\ y[i] = a[i]
      /\ \A i \in 1 .. Len(q) : x[Len(a) + i] = q[i]
      /\ \A i \in 1 .. Len(p) : y[Len(a) + i] = p[i]
  BY ConcatIs
<1>2. Rises(x)
  OBVIOUS
<1> HIDE DEF x, y
<1>3. \A i \in 1 .. Len(y) : i \in 1 .. Len(x) /\ x[i] = y[i]
  <2> TAKE i \in 1 .. Len(y)
  <2>1. CASE i \in 1 .. Len(a)
    BY <2>1, <1>1
  <2>2. CASE i \notin 1 .. Len(a)
    <3>1. /\ i - Len(a) \in 1 .. Len(p) /\ i - Len(a) \in 1 .. Len(q)
          /\ Len(a) + (i - Len(a)) = i /\ i \in 1 .. Len(x)
      BY <2>2, <1>1 DEF Begins
    <3>2. y[i] = p[i - Len(a)] /\ x[i] = q[i - Len(a)]
      BY <3>1, <1>1
    <3> QED BY <3>1, <3>2 DEF Begins
  <2> QED BY <2>1, <2>2
<1>4. Rises(y)
  BY <1>2, <1>3 DEF Rises
<1> QED BY <1>4 DEF y

LEMMA NothingFollows ==
  ASSUME NEW w \in Nat, NEW a \in Seq(1 .. w), NEW q \in Seq(1 .. w), Rises(a \o q)
  PROVE  Rises(a \o <<>>) /\ a \o <<>> = a
<1>1. <<>> \in Seq(1 .. w) /\ Begins(<<>>, q)
  BY DEF Begins
<1> QED BY <1>1, RisesPart, ConcatEmptySeq

\* The next record is later than all.
LEMMA NextRises ==
  ASSUME NEW w \in Nat, NEW a \in Seq(1 .. w), NEW q \in Seq(1 .. w), Rises(a \o q)
  PROVE  Rises(a \o Append(q, w + 1))
<1> DEFINE x == a \o q
           r == Append(q, w + 1)
           y == a \o r
<1>1. Seq(1 .. w) \subseteq Seq(1 .. w + 1)
  <2>1. 1 .. w \subseteq 1 .. w + 1
    OBVIOUS
  <2> QED BY <2>1, SeqMonotonic
<1>2. /\ r \in Seq(1 .. w + 1) /\ Len(r) = Len(q) + 1 /\ r[Len(q) + 1] = w + 1
      /\ \A i \in 1 .. Len(q) : r[i] = q[i]
  <2>1. q \in Seq(1 .. w + 1) /\ w + 1 \in 1 .. w + 1
    BY <1>1
  <2> QED BY <2>1
<1> HIDE DEF r
<1>3. /\ Len(a) \in Nat /\ Len(q) \in Nat
      /\ Len(x) = Len(a) + Len(q) /\ x \in Seq(1 .. w)
      /\ \A i \in 1 .. Len(a) : x[i] = a[i]
      /\ \A i \in 1 .. Len(q) : x[Len(a) + i] = q[i]
  BY ConcatIs
<1>4. /\ Len(y) = Len(a) + Len(r)
      /\ \A i \in 1 .. Len(a) : y[i] = a[i]
      /\ \A i \in 1 .. Len(r) : y[Len(a) + i] = r[i]
  <2>1. a \in Seq(1 .. w + 1) /\ r \in Seq(1 .. w + 1)
    BY <1>1, <1>2
  <2>2. /\ Len(a \o r) = Len(a) + Len(r)
        /\ \A i \in 1 .. Len(a) : (a \o r)[i] = a[i]
        /\ \A i \in 1 .. Len(r) : (a \o r)[Len(a) + i] = r[i]
    BY <2>1, ConcatIs
  <2> QED BY <2>2
<1>5. Rises(x)
  OBVIOUS
<1> HIDE DEF x, y
<1>6. \A i \in 1 .. Len(x) : y[i] = x[i] /\ x[i] < w + 1
  <2> TAKE i \in 1 .. Len(x)
  <2>1. x[i] \in 1 .. w
    BY <1>3
  <2>2. CASE i \in 1 .. Len(a)
    BY <2>1, <2>2, <1>3, <1>4
  <2>3. CASE i \notin 1 .. Len(a)
    <3>1. /\ i - Len(a) \in 1 .. Len(q) /\ i - Len(a) \in 1 .. Len(r)
          /\ Len(a) + (i - Len(a)) = i
      BY <2>3, <1>2, <1>3
    <3>2. y[i] = r[i - Len(a)] /\ x[i] = q[i - Len(a)]
      BY <3>1, <1>3, <1>4
    <3>3. r[i - Len(a)] = q[i - Len(a)]
      BY <3>1, <1>2
    <3> QED BY <2>1, <3>2, <3>3
  <2> QED BY <2>2, <2>3
<1>7. Len(y) = Len(x) + 1 /\ Len(x) \in Nat /\ y[Len(x) + 1] = w + 1
  <2>1. Len(y) = Len(x) + 1 /\ Len(x) \in Nat
    BY <1>2, <1>3, <1>4
  <2>2. Len(q) + 1 \in 1 .. Len(r) /\ Len(a) + (Len(q) + 1) = Len(x) + 1
    BY <1>2, <1>3
  <2>3. y[Len(a) + (Len(q) + 1)] = r[Len(q) + 1]
    BY <2>2, <1>4
  <2> QED BY <2>1, <2>2, <2>3, <1>2
<1>8. Rises(y)
  <2> SUFFICES ASSUME NEW i \in 1 .. Len(y), NEW j \in 1 .. Len(y), i < j
               PROVE  y[i] < y[j]
    BY DEF Rises
  <2>1. i \in 1 .. Len(x)
    BY <1>7
  <2>2. CASE j \in 1 .. Len(x)
    BY <2>1, <2>2, <1>5, <1>6 DEF Rises
  <2>3. CASE j \notin 1 .. Len(x)
    <3>1. j = Len(x) + 1
      BY <2>3, <1>7
    <3> QED BY <3>1, <2>1, <1>6, <1>7
  <2> QED BY <2>2, <2>3
<1> QED BY <1>8 DEF y, r

LEMMA BeginsItself ==
  ASSUME NEW R, NEW a \in Seq(R)
  PROVE  Begins(a, a)
BY DEF Begins

LEMMA BeginsConcat ==
  ASSUME NEW R, NEW a \in Seq(R), NEW b \in Seq(R)
  PROVE  Begins(a, a \o b)
<1> DEFINE x == a \o b
<1>1. /\ Len(a) \in Nat /\ Len(b) \in Nat /\ Len(x) = Len(a) + Len(b)
      /\ \A i \in 1 .. Len(a) : x[i] = a[i]
  BY ConcatIs
<1> HIDE DEF x
<1>2. Begins(a, x)
  BY <1>1 DEF Begins
<1> QED BY <1>2 DEF x

LEMMA BeginsOn ==
  ASSUME NEW R, NEW a \in Seq(R), NEW b \in Seq(R), NEW c \in Seq(R),
         Begins(a, b), Begins(b, c)
  PROVE  Begins(a, c)
<1>1. Len(a) \in Nat /\ Len(b) \in Nat /\ Len(c) \in Nat
  OBVIOUS
<1> QED BY <1>1 DEF Begins

\* A part of what rises rises.
LEMMA FrontRises ==
  ASSUME NEW w \in Nat, NEW a \in Seq(1 .. w), Rises(a)
  PROVE  Rises(Front(a))
<1>1. CASE a = <<>>
  <2>1. Front(<<>>) = <<>>
    BY DEF Front
  <2> QED BY <1>1, <2>1
<1>2. CASE a # <<>>
  <2> DEFINE f == Front(a)
  <2>1. Len(f) = Len(a) - 1 /\ Len(a) \in Nat /\ \A i \in 1 .. Len(a) - 1 : f[i] = a[i]
    BY <1>2, FrontIs
  <2> HIDE DEF f
  <2>2. ASSUME NEW i \in 1 .. Len(f), NEW j \in 1 .. Len(f), i < j
        PROVE  f[i] < f[j]
    <3>1. i \in 1 .. Len(a) /\ j \in 1 .. Len(a) /\ f[i] = a[i] /\ f[j] = a[j]
      BY <2>1, SMTT(60)
    <3> QED BY <2>2, <3>1 DEF Rises
  <2>3. Rises(f)
    BY <2>2 DEF Rises
  <2> QED BY <2>3 DEF f
<1> QED BY <1>1, <1>2

LEMMA ContinuesOn ==
  ASSUME NEW R, NEW a \in Seq(R), NEW b \in Seq(R), NEW c \in Seq(R),
         NEW x, NEW y, Continues(a, b, x), Continues(b, c, y), x => y /\ c = b
  PROVE  Continues(a, c, y)
<1>1. CASE Begins(a, b) /\ Begins(b, c)
  BY <1>1, BeginsOn DEF Continues
<1>2. CASE Begins(a, b) /\ b # <<>> /\ c = Front(b) /\ y
  <2>1. /\ Len(c) = Len(b) - 1 /\ Len(a) \in Nat /\ Len(b) \in Nat
        /\ \A i \in 1 .. Len(b) - 1 : c[i] = b[i]
    BY <1>2, FrontIs
  <2>2. CASE Len(a) = Len(b)
    <3>1. a = b
      BY <1>2, <2>2 DEF Begins
    <3> QED BY <1>2, <3>1 DEF Continues
  <2>3. CASE Len(a) # Len(b)
    <3>1. Begins(a, c)
      BY <1>2, <2>1, <2>3 DEF Begins
    <3> QED BY <3>1 DEF Continues
  <2> QED BY <2>2, <2>3
<1>3. CASE a # <<>> /\ b = Front(a) /\ x
  BY <1>3 DEF Continues
<1> QED BY <1>1, <1>2, <1>3 DEF Continues

LEMMA FollowsItself ==
  ASSUME NEW w \in Nat, NEW d, LogOf(d) \in Seq(1 .. w)
  PROVE  Follows(d, d)
BY BeginsItself DEF Follows, Continues

-----------------------------------------------------------------------------
(***************************************************************************)
(* The writer's steps keep it.                                             *)
(***************************************************************************)
LEMMA LogTyped ==
  ASSUME NEW w \in Nat, NEW s \in Writers(w), OneOfAName(s.directory)
  PROVE  /\ s.directory \in Seq(SegmentSet(w))
         /\ LogOf(s.directory) \in Seq(1 .. w)
         /\ s.pending \in Seq(1 .. w) /\ s.held \in Seq(1 .. w)
<1>1. s.directory \in Seq(SegmentSet(w)) /\ s.pending \in Seq(1 .. w) /\ s.held \in Seq(1 .. w)
  BY DEF Writers
<1>2. ReadDirectory(s.directory) \in PartSet(1 .. w)
  BY <1>1, ReadingTyped
<1> QED BY <1>1, <1>2 DEF PartSet, LogOf

LEMMA KeptOn ==
  ASSUME NEW w \in Nat, NEW s \in Writers(w), NEW t \in Writers(w), NEW u \in Writers(w),
         NEW now, Kept(s, t, now), Kept(t, u, now)
  PROVE  Kept(s, u, now)
<1> SUFFICES ASSUME OneOfAName(s.directory)
             PROVE  /\ OneOfAName(u.directory)
                    /\ compress /\ Chained(s, now) =>
                         Chained(u, now) /\ Follows(s.directory, u.directory)
  BY DEF Kept
<1>1. OneOfAName(t.directory) /\ OneOfAName(u.directory)
  BY DEF Kept
<1>2. /\ LogOf(s.directory) \in Seq(1 .. w) /\ LogOf(t.directory) \in Seq(1 .. w)
      /\ LogOf(u.directory) \in Seq(1 .. w)
  BY <1>1, LogTyped
<1>3. ASSUME compress, Chained(s, now)
      PROVE  Chained(u, now) /\ Follows(s.directory, u.directory)
  <2>1. /\ Chained(u, now)
        /\ Follows(s.directory, t.directory) /\ Follows(t.directory, u.directory)
    BY <1>1, <1>3 DEF Kept
  <2>2. Continues(LogOf(s.directory), LogOf(u.directory), Errs(u.directory))
    BY <1>2, <2>1, ContinuesOn DEF Follows
  <2>3. Errs(s.directory) => Errs(u.directory) /\ LogOf(u.directory) = LogOf(s.directory)
    BY <2>1 DEF Follows
  <2> QED BY <2>1, <2>2, <2>3 DEF Follows
<1> QED BY <1>1, <1>3

\* A step that writes nothing: what was pending or held may be dropped, or held.
LEMMA UnwrittenIsKept ==
  ASSUME NEW w \in Nat, NEW s \in Writers(w), NEW t, NEW now,
         t.directory = s.directory, t.current \in {0, s.current},
         t.pending \in {<<>>, s.pending}, t.held \in {<<>>, s.held, s.pending}
  PROVE  Kept(s, t, now)
<1> SUFFICES ASSUME OneOfAName(s.directory), Chained(s, now)
             PROVE  Chained(t, now) /\ Follows(s.directory, t.directory)
  BY DEF Kept
<1> DEFINE log == LogOf(s.directory)
<1>1. log \in Seq(1 .. w) /\ s.pending \in Seq(1 .. w) /\ s.held \in Seq(1 .. w)
  BY LogTyped
<1>2. /\ Rises(log \o s.pending) /\ LogOf(t.directory) = log
      /\ TailEnded(t.directory) => Rises(log \o s.held)
  BY DEF Chained
<1>3. InTime(t.directory, now) /\ t.current \in {0, Len(t.directory)}
  BY DEF Chained
<1>6. Follows(s.directory, t.directory)
  BY <1>1, FollowsItself
<1> HIDE DEF log
<1>4. Rises(log \o <<>>)
  BY <1>1, <1>2, NothingFollows
<1>5. Rises(log \o t.pending) /\ (TailEnded(t.directory) => Rises(log \o t.held))
  BY <1>2, <1>4
<1> QED BY <1>2, <1>3, <1>5, <1>6 DEF Chained, log

\* A block is written, of what was pending or held; nothing more is held but the same
\* block, when it is cut short.
LEMMA PutIsKept ==
  ASSUME NEW w \in Nat, NEW s \in Writers(w), NEW t, NEW now,
         s.current \in 1 .. Len(s.directory), NEW block \in BlockSet(w),
         t.directory = Put(s.directory, s.current, block),
         t.current \in {0, s.current}, t.pending = <<>>,
         compress => t.held = <<>> \/ block.end # "whole",
         Begins(block.records, s.pending) \/ Begins(block.records, s.held)
  PROVE  Kept(s, t, now)
<1> SUFFICES ASSUME OneOfAName(s.directory)
             PROVE  /\ OneOfAName(t.directory)
                    /\ compress /\ Chained(s, now) =>
                         Chained(t, now) /\ Follows(s.directory, t.directory)
  BY DEF Kept
<1> DEFINE log == LogOf(s.directory)
           d == t.directory
<1>1. /\ log \in Seq(1 .. w) /\ s.pending \in Seq(1 .. w) /\ s.held \in Seq(1 .. w)
      /\ s.directory \in Seq(SegmentSet(w)) /\ block.records \in Seq(1 .. w)
  BY LogTyped DEF BlockSet
<1>2. /\ d \in Seq(SegmentSet(w)) /\ Len(d) = Len(s.directory)
      /\ \A j \in 1 .. Len(s.directory) : /\ d[j].stamp = s.directory[j].stamp
                                          /\ d[j].suffix = s.directory[j].suffix
  BY <1>1, PutAppends, SMTT(60)
<1>3. OneOfAName(d)
  BY <1>2 DEF OneOfAName, SameName
<1>4. ASSUME compress, Chained(s, now)
      PROVE  Chained(t, now) /\ Follows(s.directory, d)
  <2>1. /\ InTime(s.directory, now) /\ s.current = Len(s.directory)
        /\ Rises(log \o s.pending)
        /\ TailEnded(s.directory) => Rises(log \o s.held)
    BY <1>4 DEF Chained
  <2>2. Ascending(s.directory) /\ Len(s.directory) > 0
    BY <2>1 DEF InTime
  <2>3. /\ Ascending(d)
        /\ Errs(s.directory) => Errs(d) /\ LogOf(d) = log
        /\ ~Errs(s.directory) /\ TailEnded(s.directory) => LogOf(d) = log \o block.records
        /\ ~Errs(s.directory) /\ ~TailEnded(s.directory) => Errs(d) /\ Shortened(log, LogOf(d))
        /\ block.end # "whole" => ~TailEnded(d)
    <3> DEFINE old == ReadDirectory(s.directory)
               n == Len(s.directory)
               new == ReadDirectory(Put(s.directory, n, block))
    <3>1. /\ Ascending(Put(s.directory, n, block))
          /\ old.error => new.error /\ new.records = old.records
          /\ ~old.error /\ TailEnded(s.directory) => new.records = old.records \o block.records
          /\ ~old.error /\ ~TailEnded(s.directory) =>
               new.error /\ Shortened(old.records, new.records)
          /\ block.end # "whole" => ~TailEnded(Put(s.directory, n, block))
      BY <2>2, <1>1, LastSegmentGrows, ZenonT(60)
    <3>2. d = Put(s.directory, n, block)
      BY <2>1
    <3> HIDE DEF d
    <3> QED BY <3>1, <3>2, ZenonT(60) DEF LogOf, Errs
  <2>4. InTime(d, now)
    <3>1. SUFFICES ASSUME NEW i \in 1 .. Len(d)
                   PROVE  /\ d[i].stamp <= now
                          /\ \A n \in 0 .. d[i].suffix - 1 :
                               \E j \in 1 .. Len(d) : d[j].stamp = d[i].stamp /\ d[j].suffix = n
      BY <2>3 DEF InTime
    <3>2. /\ s.directory[i].stamp <= now
          /\ \A n \in 0 .. s.directory[i].suffix - 1 :
               \E j \in 1 .. Len(s.directory) :
                  s.directory[j].stamp = s.directory[i].stamp /\ s.directory[j].suffix = n
      BY <2>1, <1>2 DEF InTime
    <3> HIDE DEF d
    <3> QED BY <3>2, <1>2
  <2>8. t.current \in {0, Len(d)}
    BY <2>1, <1>2
  <2> HIDE DEF log, d
  <2>5. /\ TailEnded(s.directory) => Rises(log \o block.records)
        /\ Rises(log \o <<>>) /\ log \o <<>> = log
    <3>1. Rises(log \o <<>>) /\ log \o <<>> = log
      BY <1>1, <2>1, NothingFollows
    <3>2. CASE Begins(block.records, s.pending)
      BY <1>1, <2>1, <3>1, <3>2, RisesPart
    <3>3. CASE Begins(block.records, s.held)
      BY <1>1, <2>1, <3>1, <3>3, RisesPart
    <3> QED BY <3>1, <3>2, <3>3
  <2>6. /\ (log \o block.records) \o <<>> = log \o block.records
        /\ Begins(log, log \o block.records) /\ Begins(log, log)
        /\ Front(log) \in Seq(1 .. w) /\ Front(log) \o <<>> = Front(log)
    <3>1. log \o block.records \in Seq(1 .. w) /\ Front(log) \in Seq(1 .. w)
      BY <1>1, ConcatIs, FrontIs
    <3> QED BY <1>1, <3>1, ConcatEmptySeq, BeginsConcat, BeginsItself
  <2>7. Rises(LogOf(d) \o <<>>) /\ Continues(log, LogOf(d), Errs(d))
    <3>1. CASE Errs(s.directory)
      BY <3>1, <2>3, <2>5, <2>6 DEF Continues
    <3>2. CASE ~Errs(s.directory) /\ TailEnded(s.directory)
      BY <3>2, <2>3, <2>5, <2>6 DEF Continues
    <3>3. CASE ~Errs(s.directory) /\ ~TailEnded(s.directory)
      <4>1. Rises(Front(log) \o <<>>)
        BY <1>1, <2>5, <2>6, FrontRises
      <4> QED BY <4>1, <3>3, <2>3, <2>5, <2>6 DEF Continues, Shortened
    <3> QED BY <3>1, <3>2, <3>3
  <2>9. TailEnded(d) => Rises(LogOf(d) \o t.held)
    BY <1>4, <2>3, <2>7
  <2>10. Follows(s.directory, d)
    BY <2>3, <2>7 DEF Follows, log
  <2> QED BY <2>4, <2>7, <2>8, <2>9, <2>10 DEF Chained, d
<1> QED BY <1>3, <1>4

\* The counter is the first that is free, or the last there is.
LEMMA SuffixIsFirst ==
  ASSUME NEW w \in Nat, NEW s \in Writers(w), NEW now \in Int
  PROVE  LET suffix == SegmentSuffix(s, now)
             taken(n) == \E i \in 1 .. Len(s.directory) :
                           s.directory[i].stamp = now /\ s.directory[i].suffix = n
         IN  /\ suffix \in 0 .. SuffixLimit - 1
             /\ Named(s, now, suffix) # {} <=> taken(suffix)
             /\ \A n \in 0 .. suffix - 1 : taken(n)
             /\ taken(suffix) => suffix = SuffixLimit - 1
<1> DEFINE suffix == SegmentSuffix(s, now)
           taken(n) == \E i \in 1 .. Len(s.directory) :
                         s.directory[i].stamp = now /\ s.directory[i].suffix = n
           free == {n \in 0 .. SuffixLimit - 1 : Named(s, now, n) = {}}
<1>1. SuffixLimit \in Nat \ {0}
  BY JournalAssumption
<1>2. \A n : Named(s, now, n) # {} <=> taken(n)
  <2>1. DOMAIN s.directory = 1 .. Len(s.directory)
    BY DEF Writers
  <2> QED BY <2>1 DEF Named
<1>3. suffix \in 0 .. SuffixLimit - 1
  BY SuffixIsOne
<1> HIDE DEF taken
<1>4. CASE free = {}
  <2>1. \A n \in 0 .. SuffixLimit - 1 : taken(n)
    BY <1>2, <1>4
  <2>2. suffix = SuffixLimit - 1
    BY <1>4 DEF SegmentSuffix
  <2>3. \A n \in 0 .. suffix - 1 : n \in 0 .. SuffixLimit - 1
    BY <1>1, <2>2
  <2> HIDE DEF suffix
  <2>4. \A n \in 0 .. suffix - 1 : taken(n)
    BY <2>1, <2>3
  <2> QED BY <1>2, <1>3, <2>2, <2>4 DEF taken, suffix
<1>5. CASE free # {}
  <2>1. free \subseteq Nat
    OBVIOUS
  <2>2. suffix = CHOOSE n \in free : \A m \in free : n <= m
    BY <1>5 DEF SegmentSuffix
  <2> HIDE DEF suffix
  <2>3. suffix \in free /\ \A m \in free : suffix <= m
    <3> HIDE DEF free
    <3> QED BY <1>5, <2>1, <2>2, LeastExists
  <2>4. ~taken(suffix)
    BY <1>2, <2>3
  <2>5. \A n \in 0 .. suffix - 1 : taken(n)
    <3> TAKE n \in 0 .. suffix - 1
    <3>1. n \in 0 .. SuffixLimit - 1 /\ n \notin free
      BY <1>1, <1>3, <2>3
    <3> QED BY <1>2, <3>1
  <2> QED BY <1>2, <1>3, <2>4, <2>5 DEF taken, suffix
<1> QED BY <1>4, <1>5

\* The last name of a second is opened again only where it is the last segment.
LEMMA ReopenedIsLast ==
  ASSUME NEW w \in Nat, NEW directory \in Seq(SegmentSet(w)), NEW now \in Int,
         InTime(directory, now), NEW i \in 1 .. Len(directory),
         directory[i].stamp = now, directory[i].suffix = SuffixLimit - 1
  PROVE  i = Len(directory)
<1> DEFINE n == Len(directory)
<1> SUFFICES ASSUME i # n PROVE FALSE
  OBVIOUS
<1>1. n \in 1 .. n /\ i < n
  OBVIOUS
<1>2. Earlier(directory[i], directory[n]) /\ directory[n].stamp <= now
  BY <1>1 DEF InTime, Ascending
<1>3. directory[n] \in SegmentSet(w)
  BY <1>1
<1>4. directory[n].stamp \in Int /\ directory[n].suffix \in 0 .. SuffixLimit - 1
  BY <1>3 DEF SegmentSet
<1> HIDE DEF n
<1> QED BY <1>2, <1>4, JournalAssumption DEF Earlier

LEMMA AddedIsLast ==
  ASSUME NEW w \in Nat, NEW directory \in Seq(SegmentSet(w)), NEW now \in Int,
         InTime(directory, now), NEW suffix \in 0 .. SuffixLimit - 1,
         ~\E i \in 1 .. Len(directory) : directory[i].stamp = now /\ directory[i].suffix = suffix,
         \A n \in 0 .. suffix - 1 :
           \E i \in 1 .. Len(directory) : directory[i].stamp = now /\ directory[i].suffix = n
  PROVE  InTime(Append(directory, [stamp |-> now, suffix |-> suffix, blocks |-> <<>>]), now)
<1> DEFINE n == Len(directory)
           new == [stamp |-> now, suffix |-> suffix, blocks |-> <<>>]
           d == Append(directory, new)
<1>1. \A i \in 1 .. n : directory[i] \in SegmentSet(w)
  OBVIOUS
<1>2. \A i \in 1 .. n : directory[i].stamp \in Int /\ directory[i].suffix \in 0 .. SuffixLimit - 1
  BY <1>1 DEF SegmentSet
<1>3. new.stamp = now /\ new.suffix = suffix
  OBVIOUS
<1> HIDE DEF new
<1>4. /\ n \in Nat /\ Len(d) = n + 1 /\ d[n + 1] = new
      /\ \A i \in 1 .. n : d[i] = directory[i]
      /\ \A i \in 1 .. n + 1 : i \in 1 .. n \/ i = n + 1
      /\ \A i \in 1 .. n : i \in 1 .. n + 1
  OBVIOUS
<1> HIDE DEF d
<1>5. /\ \A i, j \in 1 .. n : i < j => Earlier(directory[i], directory[j])
      /\ \A i \in 1 .. n :
           /\ directory[i].stamp <= now
           /\ \A k \in 0 .. directory[i].suffix - 1 :
                \E j \in 1 .. n :
                  directory[j].stamp = directory[i].stamp /\ directory[j].suffix = k
  BY DEF InTime, Ascending
<1>6. \A i \in 1 .. n : Earlier(directory[i], new)
  <2> SUFFICES ASSUME NEW i \in 1 .. n, ~Earlier(directory[i], new)
               PROVE  FALSE
    OBVIOUS
  <2>1. directory[i].stamp = now /\ directory[i].suffix >= suffix
    BY <1>2, <1>3, <1>5 DEF Earlier
  <2>2. directory[i].suffix # suffix
    BY <2>1
  <2>3. suffix \in 0 .. directory[i].suffix - 1
    BY <1>2, <2>1, <2>2
  <2>4. \E j \in 1 .. n : directory[j].stamp = now /\ directory[j].suffix = suffix
    BY <1>5, <2>1, <2>3
  <2> QED BY <2>4
<1>7. Ascending(d)
  <2> SUFFICES ASSUME NEW i \in 1 .. n + 1, NEW j \in 1 .. n + 1, i < j
               PROVE  Earlier(d[i], d[j])
    BY <1>4 DEF Ascending
  <2>1. i \in 1 .. n
    BY <1>4
  <2>2. CASE j \in 1 .. n
    BY <2>1, <2>2, <1>4, <1>5
  <2>3. CASE j = n + 1
    BY <2>1, <2>3, <1>4, <1>6
  <2> QED BY <2>2, <2>3, <1>4
<1>8. ASSUME NEW i \in 1 .. n + 1
      PROVE  /\ d[i].stamp <= now
             /\ \A k \in 0 .. d[i].suffix - 1 :
                  \E j \in 1 .. n + 1 : d[j].stamp = d[i].stamp /\ d[j].suffix = k
  <2>1. CASE i \in 1 .. n
    <3>1. d[i] = directory[i] /\ d[i].stamp <= now
      BY <2>1, <1>4, <1>5
    <3>2. ASSUME NEW k \in 0 .. d[i].suffix - 1
          PROVE  \E j \in 1 .. n + 1 : d[j].stamp = d[i].stamp /\ d[j].suffix = k
      <4>1. PICK j \in 1 .. n : directory[j].stamp = directory[i].stamp /\ directory[j].suffix = k
        BY <2>1, <3>1, <3>2, <1>5
      <4> QED BY <4>1, <3>1, <1>4
    <3> QED BY <3>1, <3>2
  <2>2. CASE i = n + 1
    <3>1. d[i].stamp = now /\ d[i].suffix = suffix /\ now <= now
      BY <2>2, <1>3, <1>4
    <3>2. ASSUME NEW k \in 0 .. suffix - 1
          PROVE  \E j \in 1 .. n + 1 : d[j].stamp = now /\ d[j].suffix = k
      <4>1. PICK j \in 1 .. n : directory[j].stamp = now /\ directory[j].suffix = k
        OBVIOUS
      <4> QED BY <4>1, <1>4
    <3> QED BY <3>1, <3>2
  <2> QED BY <2>1, <2>2, <1>4
<1>9. InTime(d, now)
  BY <1>4, <1>7, <1>8 DEF InTime
<1> QED BY <1>9 DEF d, new

LEMMA OpenedIsKept ==
  ASSUME NEW w \in Nat, NEW s \in Writers(w), s.held = <<>>, NEW now \in Int
  PROVE  Kept(s, OpenedSegment(s, now), now)
<1> DEFINE suffix == SegmentSuffix(s, now)
           named  == Named(s, now, suffix)
           opened == [s EXCEPT !.failed = FALSE, !.opened = now, !.in_segment = 0]
           t == OpenedSegment(s, now)
           taken(n) == \E i \in 1 .. Len(s.directory) :
                         s.directory[i].stamp = now /\ s.directory[i].suffix = n
<1> SUFFICES ASSUME OneOfAName(s.directory)
             PROVE  /\ OneOfAName(t.directory)
                    /\ compress /\ Chained(s, now) =>
                         Chained(t, now) /\ Follows(s.directory, t.directory)
  BY DEF Kept
<1>1. /\ suffix \in 0 .. SuffixLimit - 1
      /\ named # {} <=> taken(suffix)
      /\ \A n \in 0 .. suffix - 1 : taken(n)
      /\ taken(suffix) => suffix = SuffixLimit - 1
  BY SuffixIsFirst, ZenonT(60)
<1>2. /\ s.directory \in Seq(SegmentSet(w)) /\ LogOf(s.directory) \in Seq(1 .. w)
  BY LogTyped
<1>3. /\ opened \in Writers(w) /\ opened.directory = s.directory
      /\ opened.pending = s.pending /\ opened.held = s.held
  BY DEF Writers
<1>4. CASE named # {}
  <2> DEFINE i == CHOOSE i \in named : TRUE
  <2>1. i \in 1 .. Len(s.directory) /\ s.directory[i].stamp = now /\ s.directory[i].suffix = suffix
    <3>1. i \in named
      BY <1>4
    <3> HIDE DEF i, suffix
    <3> QED BY <3>1, <1>2 DEF Named
  <2>2. t = [opened EXCEPT !.current = i]
    BY <1>4 DEF OpenedSegment
  <2> HIDE DEF opened, t, i, suffix, named
  <2>3. /\ t.current = i /\ t.directory = s.directory
        /\ t.pending = s.pending /\ t.held = s.held
    BY <1>3, <2>2 DEF Writers
  <2>4. ASSUME Chained(s, now) PROVE i = Len(s.directory)
    <3>1. InTime(s.directory, now) /\ suffix = SuffixLimit - 1
      BY <1>1, <1>4, <2>4 DEF Chained
    <3> QED BY <3>1, <1>2, <2>1, ReopenedIsLast
  <2>5. Follows(s.directory, s.directory)
    BY <1>2, FollowsItself
  <2>6. ASSUME Chained(s, now) PROVE Chained(t, now)
    BY <2>3, <2>4, <2>6 DEF Chained
  <2> QED BY <2>3, <2>5, <2>6 DEF t
<1>5. CASE named = {}
  <2> DEFINE new == [stamp |-> now, suffix |-> suffix, blocks |-> <<>>]
             d == Append(s.directory, new)
  <2>1. t = [opened EXCEPT !.current = Len(s.directory) + 1, !.directory = d]
    BY <1>5, <1>3 DEF OpenedSegment
  <2>2. ~taken(suffix)
    BY <1>1, <1>5
  <2> HIDE DEF suffix, named, opened, t
  <2>3. new \in SegmentSet(w) /\ new.stamp = now /\ new.suffix = suffix /\ new.blocks = <<>>
    <3>1. <<>> \in Seq(BlockSet(w))
      OBVIOUS
    <3> QED BY <3>1, <1>1 DEF SegmentSet
  <2>4. Chained(s, now) => InTime(d, now)
    <3>1. Chained(s, now) => InTime(s.directory, now)
      BY DEF Chained
    <3> QED BY <3>1, <1>1, <1>2, <2>2, AddedIsLast
  <2> HIDE DEF new
  <2>5. /\ Len(s.directory) \in Nat /\ Len(d) = Len(s.directory) + 1
        /\ d[Len(s.directory) + 1] = new
        /\ \A i \in 1 .. Len(s.directory) : d[i] = s.directory[i]
        /\ \A i \in 1 .. Len(d) : i \in 1 .. Len(s.directory) \/ i = Len(s.directory) + 1
    BY <1>2, <2>3
  <2>6. Chained(s, now) =>
          LogOf(d) = LogOf(s.directory) /\ (Errs(d) <=> Errs(s.directory))
    <3>1. Chained(s, now) => Ascending(d)
      BY <2>4 DEF InTime
    <3> HIDE DEF d
    <3>2. d = Append(s.directory, new)
      BY DEF d
    <3> QED BY <3>1, <3>2, <1>2, <2>3, EmptySegmentIsUnread DEF LogOf, Errs
  <2> HIDE DEF d
  <2>7. /\ t.current = Len(s.directory) + 1 /\ t.directory = d
        /\ t.pending = s.pending /\ t.held = s.held
    BY <1>3, <2>1 DEF Writers
  <2>8. OneOfAName(d)
    <3> SUFFICES ASSUME NEW i \in 1 .. Len(d), NEW j \in 1 .. Len(d), SameName(d[i], d[j])
                 PROVE  i = j
      BY DEF OneOfAName
    <3>1. CASE i \in 1 .. Len(s.directory) /\ j \in 1 .. Len(s.directory)
      BY <3>1, <2>5 DEF OneOfAName
    <3>2. CASE i \in 1 .. Len(s.directory) /\ j = Len(s.directory) + 1
      BY <3>2, <2>2, <2>3, <2>5 DEF SameName
    <3>3. CASE j \in 1 .. Len(s.directory) /\ i = Len(s.directory) + 1
      BY <3>3, <2>2, <2>3, <2>5 DEF SameName
    <3> QED BY <3>1, <3>2, <3>3, <2>5
  <2>9. ASSUME Chained(s, now)
        PROVE  Chained(t, now) /\ Follows(s.directory, t.directory)
    <3>1. Follows(s.directory, t.directory)
      BY <1>2, <2>6, <2>7, <2>9, BeginsItself DEF Follows, Continues
    <3>2. s.pending \in Seq(1 .. w) /\ Rises(LogOf(s.directory) \o s.pending)
      BY <2>9, LogTyped DEF Chained
    <3>3. Rises(LogOf(s.directory) \o <<>>)
      BY <3>2, <1>2, NothingFollows
    <3>4. Chained(t, now)
      BY <2>4, <2>5, <2>6, <2>7, <2>9, <3>2, <3>3 DEF Chained
    <3> QED BY <3>1, <3>4
  <2> QED BY <2>7, <2>8, <2>9 DEF t
<1> QED BY <1>4, <1>5

\* What is left of a block is the beginning of it.
LEMMA TearsBegin ==
  ASSUME NEW w \in Nat, NEW records \in Seq(1 .. w),
         NEW block \in Tears(records) \cup {Whole(records)}
  PROVE  /\ block \in BlockSet(w) /\ Begins(block.records, records)
         /\ block \in Tears(records) => (compress => block.end # "whole")
<1>1. block \in BlockSet(w)
  BY TearsAreBlocks
<1>2. CASE block \in Tears(records)
  <2>1. Len(records) \in Nat
    OBVIOUS
  <2>2. PICK n \in 0 .. Len(records), end \in BlockEnds :
          /\ block = [of |-> records, records |-> SubSeq(records, 1, n), end |-> end]
          /\ compress => end # "whole"
    BY <1>2, <2>1, TearsAre
  <2>3. \A i \in 1 .. n : records[i] \in 1 .. w /\ 1 + i - 1 = i
    OBVIOUS
  <2>4. 1 \in Int /\ n \in Int /\ n - 1 + 1 = n /\ Len(records) \in Nat
    OBVIOUS
  <2> DEFINE p == SubSeq(records, 1, n)
  <2>5. Len(p) = n /\ \A i \in 1 .. n : p[i] = records[i]
    BY <2>3, <2>4, SubSeqProperties
  <2>6. block.records = p /\ block.end = end
    BY <2>2
  <2> HIDE DEF p
  <2>7. Begins(p, records)
    BY <2>4, <2>5 DEF Begins
  <2> QED BY <1>1, <2>2, <2>6, <2>7
<1>3. CASE block = Whole(records) /\ block \notin Tears(records)
  <2>1. block.records = records
    BY <1>3 DEF Whole
  <2> QED BY <1>1, <1>3, <2>1, BeginsItself
<1> QED BY <1>2, <1>3

\* A part of what is pending is written, or nothing, and all of it dropped, or held.
LEMMA RefusalIsKept ==
  ASSUME NEW w \in Nat, NEW s, Good(s, w), ~s.failed, s.current > 0,
         NEW u \in {s} \cup {Stored(s, tear) : tear \in Tears(s.pending)},
         NEW t, t.directory = u.directory, t.current = u.current,
         t.pending = <<>>, t.held \in {<<>>, s.pending}, NEW now
  PROVE  Kept(s, t, now)
<1>1. /\ s \in Writers(w) /\ s.directory \in Seq(SegmentSet(w)) /\ s.pending \in Seq(1 .. w)
      /\ s.current \in 1 .. Len(s.directory)
  BY DEF Good, Writers
<1>2. CASE u = s
  BY <1>1, <1>2, UnwrittenIsKept
<1>3. CASE \E tear \in Tears(s.pending) : u = Stored(s, tear)
  <2>1. PICK tear \in Tears(s.pending) : u = Stored(s, tear)
    BY <1>3
  <2>2. /\ tear \in BlockSet(w) /\ Begins(tear.records, s.pending)
        /\ compress => tear.end # "whole"
    BY <1>1, TearsBegin
  <2> DEFINE d == Put(s.directory, s.current, tear)
  <2>3. u = [s EXCEPT !.directory = d] /\ u \in Writers(w) /\ u.directory = d
    BY <1>1, <2>1, <2>2, StoredPuts
  <2> HIDE DEF d
  <2>4. u.current = s.current
    BY <1>1, <2>3 DEF Writers
  <2>5. t.directory = d /\ t.current = s.current
    BY <2>3, <2>4
  <2> QED BY <1>1, <2>2, <2>5, PutIsKept DEF d
<1> QED BY <1>2, <1>3

LEMMA AttemptIsKept ==
  ASSUME NEW w \in Nat, NEW s, Good(s, w), ~s.failed, s.current > 0,
         NEW t \in Attempt(s), NEW now
  PROVE  Kept(s, t, now)
<1>1. /\ s \in Writers(w) /\ s.directory \in Seq(SegmentSet(w)) /\ s.pending \in Seq(1 .. w)
      /\ s.current \in 1 .. Len(s.directory) /\ s.held = <<>> /\ <<>> \in Seq(1 .. w)
  BY DEF Good, Writers, FailuresAreCounted
<1>2. CASE s.pending = <<>>
  <2>1. t = s
    BY <1>2, Zenon DEF Attempt
  <2> QED BY <1>1, <2>1, UnwrittenIsKept
<1>3. CASE t = Stored([s EXCEPT !.pending = <<>>], Whole(s.pending))
  <2> DEFINE u == [s EXCEPT !.pending = <<>>]
             block == Whole(s.pending)
             d == Put(s.directory, s.current, block)
  <2>1. block \in BlockSet(w) /\ Begins(block.records, s.pending)
    BY <1>1, TearsBegin
  <2>2. /\ u \in Writers(w) /\ u.directory = s.directory /\ u.current = s.current
        /\ u.pending = <<>> /\ u.held = <<>>
    BY <1>1 DEF Writers
  <2> HIDE DEF u, block
  <2>3. Stored(u, block) = [u EXCEPT !.directory = d]
    BY <1>1, <2>1, <2>2, StoredPuts
  <2> HIDE DEF d
  <2>4. /\ t.directory = d /\ t.current = s.current /\ t.pending = <<>> /\ t.held = <<>>
    BY <1>3, <2>2, <2>3 DEF Writers, u, block
  <2> QED BY <1>1, <2>1, <2>4, PutIsKept DEF d
<1> DEFINE left == {s} \cup {Stored(s, tear) : tear \in Tears(s.pending)}
           kept(u) == [u EXCEPT !.pending = <<>>, !.held = s.pending]
<1>4. ASSUME NEW u \in left
      PROVE  u \in Writers(w) /\ u.held = <<>>
  <2>1. CASE u = s
    BY <1>1, <2>1
  <2>2. CASE \E tear \in Tears(s.pending) : u = Stored(s, tear)
    <3>1. PICK tear \in Tears(s.pending) : u = Stored(s, tear)
      BY <2>2
    <3>2. tear \in BlockSet(w)
      BY <1>1, TearsBegin
    <3> DEFINE d == Put(s.directory, s.current, tear)
    <3>3. u = [s EXCEPT !.directory = d] /\ u \in Writers(w)
      BY <1>1, <3>1, <3>2, StoredPuts
    <3> HIDE DEF d
    <3> QED BY <1>1, <3>3 DEF Writers
  <2> QED BY <1>4, <2>1, <2>2
<1>5. ASSUME NEW u \in left, t = Refused(Fault(u)) PROVE Kept(s, t, now)
  <2> HIDE DEF left
  <2>1. u \in Writers(w) /\ u.held = <<>>
    BY <1>4, <1>5
  <2>2. /\ t.directory = u.directory /\ t.current = u.current
        /\ t.pending = <<>> /\ t.held = <<>>
    BY <1>5, <2>1 DEF Refused, Reported, Fault, Writers
  <2> QED BY <1>5, <2>2, RefusalIsKept DEF left
<1>6. ASSUME NEW u \in left, t = Reported(Fault(kept(u))) PROVE Kept(s, t, now)
  <2> HIDE DEF left
  <2>1. u \in Writers(w)
    BY <1>4, <1>6
  <2>2. /\ t.directory = u.directory /\ t.current = u.current
        /\ t.pending = <<>> /\ t.held = s.pending
    BY <1>6, <2>1 DEF Reported, Fault, Writers
  <2> QED BY <1>6, <2>2, RefusalIsKept DEF left
<1>7. \/ s.pending = <<>>
      \/ t = Stored([s EXCEPT !.pending = <<>>], Whole(s.pending))
      \/ \E u \in left : t = Refused(Fault(u)) \/ t = Reported(Fault(kept(u)))
  BY ZenonT(60) DEF Attempt
<1> QED BY <1>2, <1>3, <1>5, <1>6, <1>7

LEMMA FlushIsKept ==
  ASSUME NEW w \in Nat, NEW s, Good(s, w), s.current > 0, NEW t \in flush(s), NEW now
  PROVE  Kept(s, t, now)
<1>1. s \in Writers(w)
  BY DEF Good
<1>2. CASE ~s.failed
  BY <1>2, AttemptIsKept DEF flush
<1>3. CASE s.failed
  <2>1. t = Reported(s) \/ t = Refused(s)
    BY <1>3 DEF flush
  <2>2. /\ t.directory = s.directory /\ t.current = s.current
        /\ t.pending \in {<<>>, s.pending} /\ t.held = s.held
    BY <1>1, <2>1 DEF Reported, Refused, Writers
  <2> QED BY <1>1, <2>2, UnwrittenIsKept
<1> QED BY <1>2, <1>3

\* A piece of what is pending or held is written, and nothing else is kept.
LEMMA PieceIsKept ==
  ASSUME NEW w \in Nat, NEW s, Good(s, w), s.current > 0,
         NEW records \in {s.pending, s.held}, NEW piece \in Pieces(records),
         NEW t, t.directory = Stored(s, piece).directory, t.current \in {0, s.current},
         t.pending = <<>>, t.held = <<>>, NEW now
  PROVE  Kept(s, t, now)
<1>1. /\ s \in Writers(w) /\ records \in Seq(1 .. w) /\ s.current \in 1 .. Len(s.directory)
  BY DEF Good, Writers
<1>2. piece \in BlockSet(w) /\ Begins(piece.records, records)
  <2>1. piece \in Tears(records) \cup {Whole(records)}
    BY DEF Pieces
  <2> QED BY <1>1, <2>1, TearsBegin
<1>3. t.directory = Put(s.directory, s.current, piece)
  BY <1>1, <1>2, StoredPuts
<1> QED BY <1>1, <1>2, <1>3, PutIsKept

LEMMA ClosedIsKept ==
  ASSUME NEW w \in Nat, NEW s, Good(s, w), s.current > 0, s.pending = <<>>,
         NEW t \in closed(s), NEW now
  PROVE  Kept(s, t, now)
<1>1. /\ s \in Writers(w) /\ s.held \in Seq(1 .. w) /\ s.current \in 1 .. Len(s.directory)
  BY DEF Good, Writers
<1>2. PICK u \in {s} \cup {Stored(s, piece) : piece \in Pieces(s.held)} :
        t = [u EXCEPT !.held = <<>>]
  BY Zenon DEF closed
<1>3. CASE u = s
  <2>1. /\ t.directory = s.directory /\ t.current = s.current
        /\ t.pending = s.pending /\ t.held = <<>>
    BY <1>1, <1>2, <1>3 DEF Writers
  <2> QED BY <1>1, <2>1, UnwrittenIsKept
<1>4. CASE \E piece \in Pieces(s.held) : u = Stored(s, piece)
  <2>1. PICK piece \in Pieces(s.held) : u = Stored(s, piece)
    BY <1>4
  <2>2. piece \in BlockSet(w)
    BY <1>1, PiecesAreBlocks
  <2> DEFINE d == Put(s.directory, s.current, piece)
  <2>3. u = [s EXCEPT !.directory = d] /\ u \in Writers(w) /\ u.directory = d
    BY <1>1, <2>1, <2>2, StoredPuts
  <2> HIDE DEF d
  <2>4. u.current = s.current /\ u.pending = <<>>
    BY <1>1, <2>3 DEF Writers
  <2>5. /\ t.directory = u.directory /\ t.current = s.current
        /\ t.pending = <<>> /\ t.held = <<>>
    BY <1>2, <2>3, <2>4 DEF Writers
  <2> QED BY <2>1, <2>5, PieceIsKept
<1> QED BY <1>2, <1>3, <1>4

LEMMA OpenIsKept ==
  ASSUME NEW w \in Nat, NEW s, Good(s, w), s.held = <<>>, NEW now \in Int, NEW t \in open_segment(s, now)
  PROVE  Kept(s, t, now)
<1>1. s \in Writers(w)
  BY DEF Good
<1>2. CASE t = OpenedSegment(s, now)
  BY <1>1, <1>2, OpenedIsKept
<1>3. CASE t = [Fault(s) EXCEPT !.problem = TRUE]
  <2>1. /\ t.directory = s.directory /\ t.current = s.current
        /\ t.pending = s.pending /\ t.held = s.held
    BY <1>1, <1>3 DEF Fault, Writers
  <2> QED BY <1>1, <2>1, UnwrittenIsKept
<1> QED BY <1>2, <1>3 DEF open_segment

LEMMA RotateIsKept ==
  ASSUME NEW w \in Nat, NEW s, Good(s, w), s.current > 0, NEW now \in Int,
         NEW t \in rotate(s, now)
  PROVE  Kept(s, t, now)
<1>1. PICK f \in flush(s) : \E c \in closed(f) : t \in open_segment(c, now)
  BY DEF rotate
<1>2. Good(f, w) /\ f.current > 0 /\ f.pending = <<>>
  BY <1>1, FlushKeeps
<1>3. PICK c \in closed(f) : t \in open_segment(c, now)
  BY <1>1
<1>4. Good(c, w) /\ c.held = <<>>
  BY <1>2, <1>3, ClosedKeeps
<1>5. Good(t, w)
  BY <1>3, <1>4, OpenKeeps
<1>6. Kept(s, f, now) /\ Kept(f, c, now) /\ Kept(c, t, now)
  BY <1>1, <1>2, <1>3, <1>4, FlushIsKept, ClosedIsKept, OpenIsKept
<1>7. s \in Writers(w) /\ f \in Writers(w) /\ c \in Writers(w) /\ t \in Writers(w)
  BY <1>2, <1>4, <1>5 DEF Good
<1>8. Kept(s, c, now)
  BY <1>6, <1>7, KeptOn
<1> QED BY <1>6, <1>7, <1>8, KeptOn

LEMMA WriteIsKept ==
  ASSUME NEW w \in Nat, NEW s, Good(s, w), s.current > 0, NEW now \in Int,
         NEW t \in write(s, w + 1, now)
  PROVE  Kept(s, t, now)
<1> DEFINE taken == [s EXCEPT !.pending = Append(@, w + 1), !.in_segment = @ + 1]
<1>1. Good(taken, w + 1) /\ taken.current = s.current
  BY TakenIsGood
<1>2. s \in Writers(w) /\ s \in Writers(w + 1)
  BY WritersGrow DEF Good
<1>3. /\ taken.directory = s.directory /\ taken.current = s.current
      /\ taken.pending = Append(s.pending, w + 1) /\ taken.held = s.held
  BY <1>2 DEF Writers
<1>4. PICK f : /\ f \in flush(taken) \/ f = taken
               /\ t = f \/ t \in rotate(f, now)
  <2>1. PICK f \in (IF Len(taken.pending) >= flush_every THEN flush(taken) ELSE {taken}) :
          t \in (IF ~f.problem /\ RotationDue(f, now) THEN rotate(f, now) ELSE {f})
    BY DEF write
  <2> HIDE DEF taken
  <2> QED BY <2>1
<1> HIDE DEF taken
<1>5. Kept(s, taken, now)
  <2> SUFFICES ASSUME OneOfAName(s.directory), Chained(s, now)
               PROVE  Chained(taken, now) /\ Follows(s.directory, taken.directory)
    BY <1>3 DEF Kept
  <2> DEFINE log == LogOf(s.directory)
  <2>1. log \in Seq(1 .. w) /\ s.pending \in Seq(1 .. w)
    BY <1>2, LogTyped
  <2>2. Rises(log \o s.pending)
    BY DEF Chained
  <2> HIDE DEF log
  <2>3. Rises(log \o taken.pending)
    BY <1>3, <2>1, <2>2, NextRises
  <2>4. Chained(taken, now)
    BY <1>3, <2>3 DEF Chained, log
  <2>5. Follows(s.directory, taken.directory)
    BY <1>3, <2>1, FollowsItself DEF log
  <2> QED BY <2>4, <2>5
<1>6. w + 1 \in Nat
  OBVIOUS
<1>7. Good(f, w + 1) /\ f.current > 0 /\ Kept(s, f, now)
  <2>1. CASE f \in flush(taken)
    <3>1. Good(f, w + 1) /\ f.current > 0 /\ Kept(taken, f, now)
      BY <1>1, <1>6, <2>1, FlushKeeps, FlushIsKept
    <3>2. taken \in Writers(w + 1) /\ f \in Writers(w + 1)
      BY <1>1, <3>1 DEF Good
    <3> QED BY <1>2, <1>5, <1>6, <3>1, <3>2, KeptOn
  <2>2. CASE f = taken
    BY <1>1, <1>5, <2>2
  <2> QED BY <1>4, <2>1, <2>2
<1>8. CASE t = f
  BY <1>7, <1>8
<1>9. CASE t \in rotate(f, now)
  <2>1. Good(t, w + 1) /\ Kept(f, t, now)
    BY <1>6, <1>7, <1>9, RotateKeeps, RotateIsKept
  <2>2. f \in Writers(w + 1) /\ t \in Writers(w + 1)
    BY <1>7, <2>1 DEF Good
  <2> QED BY <1>2, <1>6, <1>7, <2>1, <2>2, KeptOn
<1> QED BY <1>4, <1>8, <1>9

-----------------------------------------------------------------------------
(***************************************************************************)
(* The states.                                                             *)
(***************************************************************************)
ReadIsLog ==
  /\ read \in Seq(1 .. written)
  /\ OneOfAName(journal.directory)
  /\ compress /\ Ticks \subseteq Nat =>
       /\ Chained(journal, clock)
       /\ Continues(read, LogOf(journal.directory), Errs(journal.directory))

LEMMA NothingIsRead == ReadDirectory(<<>>) = [records |-> <<>>, error |-> FALSE]
<1> DEFINE parts == SegmentParts(<<>>)
<1>1. /\ <<>> \in Seq(SegmentSet(0)) /\ 0 \in Nat /\ Len(<<>>) = 0 /\ Ascending(<<>>)
  BY DEF Ascending
<1>2. parts \in Seq(PartSet(1 .. 0)) /\ Len(parts) = 0
  BY <1>1, SegmentPartsTyped
<1>3. ReadDirectory(<<>>) = ReadOn(parts)
  BY <1>1, ReadInOrder
<1> HIDE DEF parts
<1>4. parts = <<>>
  BY <1>2
<1>5. BlockParts(<<>>) = <<>>
  <2>1. <<>> \in Seq(BlockSet(0))
    OBVIOUS
  <2>2. BlockParts(<<>>) \in Seq(PartSet(1 .. 0)) /\ Len(BlockParts(<<>>)) = 0
    BY <1>1, <2>1, BlockPartsTyped
  <2> QED BY <2>2
<1>6. ReadSegment(<<>>) = ReadOn(<<>>)
  <2>1. <<>> \in Seq(BlockSet(0))
    OBVIOUS
  <2>2. ReadSegment(<<>>) = ReadOn(BlockParts(<<>>))
    BY <1>1, <2>1, BlockPartsTyped
  <2> QED BY <1>5, <2>2
<1> QED BY <1>3, <1>4, <1>6, NothingToRead

LEMMA InitReads == Init => ReadIsLog
<1> SUFFICES ASSUME Init PROVE ReadIsLog
  OBVIOUS
<1>1. /\ journal.directory = <<>> /\ journal.current = 0
      /\ journal.pending = <<>> /\ journal.held = <<>>
      /\ written = 0 /\ clock = 0 /\ read = <<>>
  BY DEF Init, NewWriter
<1>2. LogOf(<<>>) = <<>> /\ Len(<<>>) = 0 /\ <<>> \o <<>> = <<>> /\ <<>> \in Seq(1 .. 0)
  BY NothingIsRead DEF LogOf
<1>3. /\ OneOfAName(<<>>) /\ InTime(<<>>, 0) /\ Rises(<<>>)
      /\ Continues(<<>>, <<>>, Errs(<<>>))
  BY DEF OneOfAName, InTime, Ascending, Rises, Begins, Continues
<1> QED BY <1>1, <1>2, <1>3 DEF ReadIsLog, Chained

\* Later is as good.
LEMMA LaterIsInTime ==
  ASSUME NEW w \in Nat, NEW s \in Writers(w), NEW c \in Int, NEW now \in Int, c <= now,
         Chained(s, c)
  PROVE  Chained(s, now)
<1>1. \A i \in 1 .. Len(s.directory) : s.directory[i] \in SegmentSet(w)
  BY DEF Writers
<1>2. \A i \in 1 .. Len(s.directory) : s.directory[i].stamp \in Int
  BY <1>1 DEF SegmentSet
<1>3. InTime(s.directory, now)
  <2>1. InTime(s.directory, c)
    BY DEF Chained
  <2>2. \A i \in 1 .. Len(s.directory) : s.directory[i].stamp <= now
    <3> TAKE i \in 1 .. Len(s.directory)
    <3>1. s.directory[i].stamp \in Int /\ s.directory[i].stamp <= c
      BY <1>2, <2>1 DEF InTime
    <3> QED BY <3>1
  <2> QED BY <2>1, <2>2, ZenonT(60) DEF InTime
<1> QED BY <1>3, ZenonT(60) DEF Chained

LEMMA CalledIsKept ==
  ASSUME NEW w \in Nat, Good(journal, w), NEW now
  PROVE  Kept(journal, Called, now)
<1>1. journal \in Writers(w)
  BY DEF Good
<1>2. /\ Called.directory = journal.directory /\ Called.current = journal.current
      /\ Called.pending = journal.pending /\ Called.held = journal.held
  BY <1>1 DEF Called, Writers
<1> QED BY <1>1, <1>2, UnwrittenIsKept

\* What a step keeps of its writer, it keeps of the reader's log.
LEMMA KeptIsRead ==
  ASSUME NEW w \in Nat, journal \in Writers(w), journal' \in Writers(w),
         clock \in Int, clock' \in Int, Ticks \subseteq Nat => clock <= clock',
         written \in 0 .. written', written' = w, ReadIsLog, read' = read,
         Kept(journal, journal', clock')
  PROVE  ReadIsLog'
<1>1. read \in Seq(1 .. w)
  <2>1. 1 .. written \subseteq 1 .. w
    OBVIOUS
  <2>2. Seq(1 .. written) \subseteq Seq(1 .. w)
    BY <2>1, SeqMonotonic
  <2> QED BY <2>2 DEF ReadIsLog
<1>2. OneOfAName(journal'.directory)
  BY DEF Kept, ReadIsLog
<1>3. ASSUME compress, Ticks \subseteq Nat
      PROVE  /\ Chained(journal', clock')
             /\ Continues(read, LogOf(journal'.directory), Errs(journal'.directory))
  <2> DEFINE old == journal.directory
             new == journal'.directory
  <2>1. Chained(journal, clock') /\ Continues(read, LogOf(old), Errs(old))
    BY <1>3, LaterIsInTime DEF ReadIsLog
  <2>2. Chained(journal', clock') /\ Follows(old, new)
    BY <1>3, <2>1 DEF Kept, ReadIsLog
  <2>3. LogOf(old) \in Seq(1 .. w) /\ LogOf(new) \in Seq(1 .. w)
    BY <1>2, LogTyped DEF ReadIsLog
  <2>4. /\ Continues(LogOf(old), LogOf(new), Errs(new))
        /\ Errs(old) => Errs(new) /\ LogOf(new) = LogOf(old)
    BY <2>2 DEF Follows
  <2> HIDE DEF old, new
  <2>5. Continues(read, LogOf(new), Errs(new))
    BY <1>1, <2>1, <2>3, <2>4, ContinuesOn
  <2> QED BY <2>2, <2>5 DEF new
<1> QED BY <1>1, <1>2, <1>3 DEF ReadIsLog

LEMMA StepIsRead == IInv /\ IInv' /\ ReadIsLog /\ [Next]_vars => ReadIsLog'
<1> SUFFICES ASSUME IInv, IInv', ReadIsLog, [Next]_vars
             PROVE  ReadIsLog'
  OBVIOUS
<1>1. /\ written \in Nat /\ written' \in Nat /\ clock \in Int /\ clock' \in Int
      /\ Good(journal, written) /\ journal \in Writers(written)
      /\ Good(journal', written') /\ journal' \in Writers(written')
  BY JournalAssumption DEF IInv, Good
<1>2. \A now \in Readings : now \in Int /\ (Ticks \subseteq Nat => clock <= now)
  BY <1>1, JournalAssumption DEF Readings
<1>3. /\ Good(Called, written) /\ Called \in Writers(written)
      /\ Called.running = journal.running /\ Called.current = journal.current
  BY <1>1, CalledIsGood DEF Good
<1>4. journal.running => journal.current > 0
  BY DEF IInv
<1>5. \A now : Kept(journal, Called, now)
  BY <1>1, CalledIsKept
<1>6. ASSUME NEW now, journal' \in Writers(written), Kept(Called, journal', now)
      PROVE  Kept(journal, journal', now)
  BY <1>1, <1>3, <1>5, <1>6, KeptOn
<1>7. CASE Create
  <2>1. PICK now \in Readings :
          /\ clock' = now
          /\ \E s \in open_segment(NewWriter(journal.directory, written + 1, journal.faults), now) :
                journal' = [s EXCEPT !.running = ~s.problem]
    BY <1>7 DEF Create
  <2> DEFINE new == NewWriter(journal.directory, written + 1, journal.faults)
  <2>2. PICK s \in open_segment(new, now) : journal' = [s EXCEPT !.running = ~s.problem]
    BY <2>1
  <2>3. written' = written /\ read' = read /\ now \in Int /\ (Ticks \subseteq Nat => clock <= now)
    BY <1>2, <1>7 DEF Create
  <2>4. /\ Good(new, written) /\ new \in Writers(written) /\ new.directory = journal.directory
        /\ new.current = 0 /\ new.pending = <<>> /\ new.held = <<>>
    <3>1. /\ journal.directory \in Seq(SegmentSet(written)) /\ journal.faults \in 0 .. MaxFaults
          /\ NamesLeft(journal.directory) =>
               \A i \in 1 .. Len(journal.directory) : CutLast(journal.directory[i].blocks)
      BY <1>1 DEF Good, Writers, TearsAreLast
    <3>2. Good(new, written)
      BY <1>1, <3>1, NewWriterIsGood
    <3> QED BY <3>2 DEF Good, NewWriter
  <2> HIDE DEF new
  <2>5. Kept(journal, new, now)
    BY <1>1, <2>4, UnwrittenIsKept
  <2>6. Kept(new, s, now)
    BY <1>1, <2>2, <2>3, <2>4, OpenIsKept
  <2>7. s \in Writers(written)
    BY <1>1, <2>2, <2>3, <2>4, OpenKeeps DEF Good
  <2>8. Kept(s, journal', now)
    <3>1. /\ journal'.directory = s.directory /\ journal'.current = s.current
          /\ journal'.pending = s.pending /\ journal'.held = s.held
      BY <2>2, <2>7 DEF Writers
    <3> QED BY <1>1, <2>7, <3>1, UnwrittenIsKept
  <2>9. Kept(journal, s, now)
    BY <1>1, <2>4, <2>5, <2>6, <2>7, KeptOn
  <2>10. Kept(journal, journal', now)
    BY <1>1, <2>3, <2>7, <2>8, <2>9, KeptOn
  <2> QED BY <1>1, <2>1, <2>3, <2>10, KeptIsRead
<1>8. CASE Write
  <2>1. PICK now \in Readings : clock' = now /\ journal' \in write(Called, written + 1, now)
    BY <1>8 DEF Write
  <2>2. written' = written + 1 /\ read' = read /\ journal.running
          /\ now \in Int /\ (Ticks \subseteq Nat => clock <= now)
    BY <1>2, <1>8 DEF Write
  <2>3. Kept(Called, journal', now)
    BY <1>1, <1>3, <1>4, <2>1, <2>2, WriteIsKept
  <2>4. journal \in Writers(written + 1) /\ Called \in Writers(written + 1) /\ written + 1 \in Nat
    BY <1>1, <1>3, WritersGrow
  <2>5. Kept(journal, journal', now)
    BY <1>1, <1>5, <2>2, <2>3, <2>4, KeptOn
  <2> QED BY <1>1, <2>1, <2>2, <2>4, <2>5, KeptIsRead
<1>9. CASE Flush
  <2>1. /\ written' = written /\ read' = read /\ clock' = clock
        /\ journal.running /\ journal' \in flush(Called)
    BY <1>9 DEF Flush
  <2>2. Kept(Called, journal', clock')
    BY <1>1, <1>3, <1>4, <2>1, FlushIsKept
  <2> QED BY <1>1, <1>6, <2>1, <2>2, KeptIsRead
<1>10. CASE Rotate
  <2>1. PICK now \in Readings : clock' = now /\ journal' \in rotate(Called, now)
    BY <1>10 DEF Rotate
  <2>2. written' = written /\ read' = read /\ journal.running
          /\ now \in Int /\ (Ticks \subseteq Nat => clock <= now)
    BY <1>2, <1>10 DEF Rotate
  <2>3. Kept(Called, journal', now)
    BY <1>1, <1>3, <1>4, <2>1, <2>2, RotateIsKept
  <2> QED BY <1>1, <1>6, <2>1, <2>2, <2>3, KeptIsRead
<1>11. CASE End
  <2>1. PICK f \in flush(Called) :
          \E c \in closed(f) : journal' = [c EXCEPT !.running = FALSE]
    BY <1>11 DEF End
  <2>2. PICK c \in closed(f) : journal' = [c EXCEPT !.running = FALSE]
    BY <2>1
  <2>3. written' = written /\ read' = read /\ clock' = clock /\ journal.running
    BY <1>11 DEF End
  <2>4. Good(f, written) /\ f.current > 0 /\ f.pending = <<>>
    BY <1>1, <1>3, <1>4, <2>1, <2>3, FlushKeeps
  <2>5. f \in Writers(written) /\ c \in Writers(written)
    BY <1>1, <2>2, <2>4, ClosedKeeps DEF Good
  <2>6. Kept(Called, f, clock) /\ Kept(f, c, clock)
    BY <1>1, <1>3, <1>4, <2>1, <2>2, <2>3, <2>4, FlushIsKept, ClosedIsKept
  <2>7. Kept(c, journal', clock)
    <3>1. /\ journal'.directory = c.directory /\ journal'.current = c.current
          /\ journal'.pending = c.pending /\ journal'.held = c.held
      BY <2>2, <2>5 DEF Writers
    <3> QED BY <1>1, <2>5, <3>1, UnwrittenIsKept
  <2>8. Kept(Called, c, clock)
    BY <1>1, <1>3, <2>5, <2>6, KeptOn
  <2>9. Kept(Called, journal', clock)
    BY <1>1, <1>3, <2>3, <2>5, <2>7, <2>8, KeptOn
  <2> QED BY <1>1, <1>6, <2>3, <2>9, KeptIsRead
<1>12. CASE Kill
  <2> DEFINE buffered == IF journal.failed THEN journal.held ELSE journal.pending
  <2>1. PICK s \in {journal} \cup {Stored(journal, piece) : piece \in Pieces(buffered)} :
          journal' = NewWriter(s.directory, written + 1, s.faults)
    BY <1>12, Zenon DEF Kill
  <2>2. written' = written /\ read' = read /\ clock' = clock /\ journal.running
    BY <1>12 DEF Kill
  <2>3. /\ journal'.directory = s.directory /\ journal'.current = 0
        /\ journal'.pending = <<>> /\ journal'.held = <<>>
    BY <2>1 DEF NewWriter
  <2>4. CASE s = journal
    <3>1. Kept(journal, journal', clock)
      BY <1>1, <2>3, <2>4, UnwrittenIsKept
    <3> QED BY <1>1, <2>2, <3>1, KeptIsRead
  <2>5. CASE \E piece \in Pieces(buffered) : s = Stored(journal, piece)
    <3>1. PICK piece \in Pieces(buffered) : s = Stored(journal, piece)
      BY <2>5
    <3>2. buffered \in {journal.pending, journal.held}
      OBVIOUS
    <3> HIDE DEF buffered
    <3>3. Kept(journal, journal', clock)
      BY <1>1, <1>4, <2>2, <2>3, <3>1, <3>2, PieceIsKept
    <3> QED BY <1>1, <2>2, <3>3, KeptIsRead
  <2> QED BY <2>4, <2>5
<1>13. CASE Read
  <2>1. read' = LogOf(journal.directory) /\ UNCHANGED <<journal, written, clock>>
    BY <1>13 DEF Read, LogOf
  <2>2. LogOf(journal.directory) \in Seq(1 .. written)
    BY <1>1, LogTyped DEF ReadIsLog
  <2>3. Begins(LogOf(journal.directory), LogOf(journal.directory))
    BY <2>2, BeginsItself
  <2> QED BY <2>1, <2>2, <2>3 DEF ReadIsLog, Continues
<1>14. CASE UNCHANGED vars
  BY <1>14 DEF vars, ReadIsLog
<1> QED BY <1>7, <1>8, <1>9, <1>10, <1>11, <1>12, <1>13, <1>14 DEF Next

\* What a reader was given by the last reading is the beginning of what can be read
\* of the directory, or has one record more, which was then the end of it.
THEOREM ReadingIsSound == Spec => []ReadIsLog
<1> QED BY InitReads, StepIsRead, JournalIsSound, PTL DEF Spec

LEMMA PrefixIs ==
  ASSUME NEW w \in Nat, NEW a \in Seq(1 .. w), NEW b \in Seq(1 .. w), Begins(a, b)
  PROVE  IsPrefix(a, b)
<1>1. /\ Len(a) \in Nat /\ Len(a) \in Int /\ 1 \in Int /\ Len(a) <= Len(b)
      /\ Len(a) - 1 + 1 = Len(a)
      /\ \A i \in 1 .. Len(a) : b[i] = a[i] /\ a[i] \in 1 .. w
           /\ b[i] \in 1 .. w /\ 1 + i - 1 = i
  BY DEF Begins
<1> DEFINE p == SubSeq(a, 1, Len(a))
           q == SubSeq(b, 1, Len(a))
<1>2. /\ p \in Seq(1 .. w) /\ Len(p) = Len(a)
      /\ \A i \in 1 .. Len(a) : p[i] = a[i]
  BY <1>1, SubSeqProperties
<1>3. /\ q \in Seq(1 .. w) /\ Len(q) = Len(a)
      /\ \A i \in 1 .. Len(a) : q[i] = b[i]
  BY <1>1, SubSeqProperties
<1> HIDE DEF p, q
<1>4. p = q
  <2>1. \A i \in 1 .. Len(a) : p[i] = q[i]
    BY <1>1, <1>2, <1>3
  <2> QED BY <1>2, <1>3, <2>1, SeqEqual
<1> QED BY <1>1, <1>4 DEF IsPrefix, p, q

\* The writer of frames implements EventLog: rotations, refusals, kills and later
\* processes never reorder or repeat what replay_directory has read, nor retract more
\* of it than a last line without its end (open_segment names what
\* list_journal_segments sorts).
THEOREM JournalIsALog == ASSUME compress, Ticks \subseteq Nat PROVE Spec => HistoryIsKept
<1>1. Init => Log!Init
  BY DEF Init, Log!Init
<1>2. IInv /\ ReadIsLog /\ [Next]_vars => [Log!Next]_read
  <2> SUFFICES ASSUME IInv, ReadIsLog, [Next]_vars, read' # read
               PROVE  Log!Next
    OBVIOUS
  <2> DEFINE new == LogOf(journal.directory)
  <2>1. read' = new
    BY DEF Next, Create, Write, Flush, Rotate, End, Kill, Read, vars, LogOf
  <2>2. /\ written \in Nat /\ journal \in Writers(written)
        /\ Chained(journal, clock) /\ read \in Seq(1 .. written)
        /\ Begins(read, new) \/ (read # <<>> /\ new = Front(read))
    BY DEF IInv, Good, ReadIsLog, Continues
  <2>3. new \in Seq(1 .. written) /\ journal.pending \in Seq(1 .. written)
    BY <2>2, LogTyped DEF ReadIsLog
  <2>4. Rises(new \o journal.pending)
    BY <2>2 DEF Chained
  <2> HIDE DEF new
  <2>5. Rises(new)
    BY <2>2, <2>3, <2>4, NothingFollows
  <2>6. Log!Increasing(new)
    BY <2>3, <2>5 DEF Log!Increasing, Rises
  <2>7. CASE Begins(read, new)
    <3>1. IsPrefix(read, new)
      BY <2>2, <2>3, <2>7, PrefixIs
    <3>2. Log!Extend
      BY <2>1, <2>6, <3>1 DEF Log!Extend, IsStrictPrefix, Log!IsStrictPrefix, IsPrefix, Log!IsPrefix
    <3> QED BY <3>2 DEF Log!Next
  <2>8. CASE read # <<>> /\ new = Front(read)
    BY <2>1, <2>8 DEF Log!Next, Log!Withdraw, Front, Log!Front
  <2> QED BY <2>2, <2>7, <2>8
<1> QED BY <1>1, <1>2, JournalIsSound, ReadingIsSound, PTL DEF Spec, HistoryIsKept, Log!Spec

-----------------------------------------------------------------------------
(***************************************************************************)
(* What the runs check.                                                    *)
(***************************************************************************)
\* Type correctness, and with it the bounds that the code keeps: less is pending
\* than a flush takes, and no more is counted as dropped than was written.
THEOREM TypeCorrect == Spec => []TypeOK
<1>1. IInv /\ ReadIsLog => TypeOK
  <2> SUFFICES ASSUME IInv, ReadIsLog PROVE TypeOK
    OBVIOUS
  <2> USE DEF IInv
  <2>1. /\ journal \in Writers(written) /\ written \in Nat
        /\ journal.directory \in Seq(SegmentSet(written))
        /\ journal.pending \in Seq(1 .. written)
        /\ journal.dropped_records \in Nat /\ journal.current \in Nat
        /\ flush_every \in Nat \ {0}
    BY JournalAssumption DEF Good, Writers
  <2>2. journal.dropped_records \in 0 .. written /\ journal.first \in 1 .. written + 1
    <3>1. Len(journal.pending) \in Nat
      BY <2>1
    <3> QED BY <2>1, <3>1 DEF Good, DropsAreBounded
  <2>3. journal.current \in 0 .. Len(journal.directory)
    BY <2>1 DEF Good
  <2>4. journal.pending \in BoundedSeq(1 .. written, flush_every - 1)
    <3>1. /\ DOMAIN journal.pending = 1 .. Len(journal.pending)
          /\ Len(journal.pending) \in 0 .. flush_every - 1
          /\ journal.pending \in [1 .. Len(journal.pending) -> 1 .. written]
      BY <2>1
    <3> QED BY <3>1 DEF BoundedSeq, SeqOf
  <2>5. journal.directory \in Seq([stamp  : Int,
                                   suffix : 0 .. SuffixLimit - 1,
                                   blocks : Seq([of      : Seq(1 .. written),
                                                 records : Seq(1 .. written),
                                                 end     : BlockEnds])])
    BY <2>1 DEF SegmentSet, BlockSet
  <2> QED BY <2>1, <2>2, <2>3, <2>4, <2>5 DEF TypeOK, Writers, ReadIsLog
<1> QED BY <1>1, JournalIsSound, ReadingIsSound, PTL

\* While every second has a name left, nothing is written after a block that was cut
\* short but, once and last, the same block again, however much of it the first refusal
\* left (write_block, open_segment, the stream's close, and a kill at any step).
THEOREM TearsStayLast == Spec => [](NamesLeft(journal.directory) => OnlyItsRetryFollowsATear)
<1>1. IInv /\ NamesLeft(journal.directory) => OnlyItsRetryFollowsATear
  <2> SUFFICES ASSUME IInv, NamesLeft(journal.directory)
               PROVE  OnlyItsRetryFollowsATear
    OBVIOUS
  <2>1. journal.directory \in Seq(SegmentSet(written))
    BY DEF IInv, Good, Writers
  <2>2. \A i \in DOMAIN journal.directory :
          i \in 1 .. Len(journal.directory) /\ journal.directory[i].blocks \in Seq(BlockSet(written))
    <3> TAKE i \in DOMAIN journal.directory
    <3>1. i \in 1 .. Len(journal.directory)
      BY <2>1
    <3>2. journal.directory[i] \in SegmentSet(written)
      BY <2>1, <3>1
    <3> QED BY <3>1, <3>2 DEF SegmentSet
  <2>3. \A i \in 1 .. Len(journal.directory) : CutLast(journal.directory[i].blocks)
    BY DEF IInv, Good, TearsAreLast
  <2>4. \A i \in DOMAIN journal.directory : DOMAIN Blocks(i) = 1 .. Len(Blocks(i))
    BY <2>2 DEF Blocks
  <2> QED BY <2>2, <2>3, <2>4 DEF OnlyItsRetryFollowsATear, CutLast, Blocks
<1> QED BY <1>1, JournalIsSound, PTL

\* Fewer segments than a second has names cannot have taken all of them.
LEMMA FewLeaveNames ==
  ASSUME NEW directory, Len(directory) \in Nat, Len(directory) < SuffixLimit
  PROVE  NamesLeft(directory)
<1> DEFINE segments == 1 .. Len(directory)
           suffixes == 0 .. SuffixLimit - 1
<1> SUFFICES ASSUME NEW now \in Int,
                    \A n \in suffixes : \E i \in segments :
                      directory[i].stamp = now /\ directory[i].suffix = n
             PROVE  FALSE
  BY DEF NamesLeft
<1> DEFINE of == [n \in suffixes |-> CHOOSE i \in segments : directory[i].suffix = n]
<1>1. of \in [suffixes -> segments] /\ \A n \in suffixes : directory[of[n]].suffix = n
  OBVIOUS
<1>2. SuffixLimit \in Nat \ {0}
  BY JournalAssumption
<1>3. IsFiniteSet(segments) /\ Cardinality(segments) = Len(directory)
  <2>1. Len(directory) \in Int
    OBVIOUS
  <2>2. Cardinality(1 .. Len(directory)) = IF 1 > Len(directory) THEN 0 ELSE Len(directory) - 1 + 1
    BY <2>1, FS_Interval
  <2> QED BY <2>1, <2>2, FS_Interval, SMTT(60)
<1>4. IsFiniteSet(suffixes) /\ Cardinality(suffixes) = SuffixLimit
  BY <1>2, FS_Interval, SMTT(60)
<1> HIDE DEF segments, suffixes, of
<1>5. \E m, n \in suffixes : m # n /\ of[m] = of[n]
  BY <1>1, <1>3, <1>4, FS_PigeonHole
<1> QED BY <1>1, <1>5

\* So it is in every directory of fewer segments than a second has names.
COROLLARY TearsStayLastInShort ==
  Spec => [](Len(journal.directory) < SuffixLimit => OnlyItsRetryFollowsATear)
<1>1. IInv => Len(journal.directory) \in Nat
  BY DEF IInv, Good, Writers
<1>2. IInv /\ Len(journal.directory) < SuffixLimit => NamesLeft(journal.directory)
  BY <1>1, FewLeaveNames
<1> QED BY <1>2, JournalIsSound, TearsStayLast, PTL

\* However the disk fails, a process that has counted no failure (write_failures)
\* has lost nothing: what it was given is on the disk or is still pending.
THEOREM LossesAreCounted == Spec => []LossIsCounted
<1>1. IInv => LossIsCounted
  <2>0. ASSUME IInv
        PROVE  journal.write_failures \in Nat
    BY <2>0 DEF IInv, Good, Writers
  <2> SUFFICES ASSUME IInv, journal.write_failures = 0, NEW n \in Lost
               PROVE  FALSE
    BY <2>0 DEF LossIsCounted
  <2> SUFFICES n \in OnDisk \cup ToSet(journal.pending) \cup ToSet(journal.held)
    BY DEF Lost
  <2>1. /\ journal.directory \in Seq(SegmentSet(written))
        /\ journal.pending \in Seq(1 .. written)
    BY DEF IInv, Good, Writers
  <2>2. CASE InSegments(journal.directory, n)
    <3>1. PICK i \in 1 .. Len(journal.directory) :
                 \E b \in 1 .. Len(Blocks(i)) : InBlock(Blocks(i)[b], n)
      BY <2>2 DEF InSegments, Blocks
    <3>2. PICK b \in 1 .. Len(Blocks(i)) : InBlock(Blocks(i)[b], n)
      BY <3>1
    <3>3. journal.directory[i] \in SegmentSet(written)
      BY <2>1
    <3>4. Blocks(i) \in Seq(BlockSet(written))
      BY <3>3 DEF Blocks, SegmentSet
    <3>5. Blocks(i)[b] \in BlockSet(written)
      BY <3>4
    <3>6. Blocks(i)[b].records \in Seq(1 .. written)
      BY <3>5 DEF BlockSet
    <3>7. n \in ToSet(Blocks(i)[b].records)
      BY <3>2, <3>6 DEF InBlock, ToSet
    <3>8. i \in DOMAIN journal.directory /\ b \in DOMAIN Blocks(i)
      BY <2>1, <3>4
    <3> QED BY <3>7, <3>8 DEF OnDisk
  <2>3. CASE \E k \in 1 .. Len(journal.pending) : journal.pending[k] = n
    BY <2>1, <2>3 DEF ToSet
  <2>4. n \in journal.first .. written
    BY DEF Lost
  <2> QED BY <2>2, <2>3, <2>4 DEF IInv, Good, FailuresAreCounted
<1> QED BY <1>1, JournalIsSound, PTL
=============================================================================
