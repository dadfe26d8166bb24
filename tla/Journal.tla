-------------------------------- MODULE Journal --------------------------------
(***************************************************************************)
(* The journal (src/data/journal.cpp): a writer that buffers records,      *)
(* flushes them in blocks and rotates segments, over a disk that may       *)
(* refuse anything and a process that may be killed; and what a reader of  *)
(* the directory makes of what is left there.                              *)
(*                                                                         *)
(* A record is the number of the write() that brought it.  A segment is a  *)
(* sequence of blocks: what one flush wrote, a zstd frame when compressed. *)
(* A disk that is full may keep part of it.  A large block goes through    *)
(* the stream at once.  A small one waits in the stream's buffer, so that  *)
(* the disk can refuse it only when the stream is flushed; the stream      *)
(* (libstdc++'s) then keeps the WHOLE block, whatever part of it is in the *)
(* file, and tries once more when it is closed, behind that part.          *)
(***************************************************************************)
EXTENDS Integers, Sequences, FiniteSets, SequencesExt

CONSTANTS
  flush_every,
  rotate_records,   \* a segment's records, 0 for no limit (rotate_bytes)
  rotate_interval,  \* a segment's age, 0 for no limit
  compress,
  SuffixLimit,      \* segments that one second may have: 1000 in the code
  Ticks,            \* how far the clock may have moved between readings
  MaxRecords,       \* bound: records written
  MaxClock,         \* bound: the clock's readings
  MaxSegments,      \* bound: segments in the directory
  MaxFailures,      \* bound: failures counted by one process
  MaxFaults,        \* bound: writes and opens that the disk refuses
  MaxKills          \* bound: times that the process is killed

ASSUME JournalAssumption ==
  /\ flush_every \in Nat \ {0}
  /\ rotate_records \in Nat
  /\ rotate_interval \in Nat
  /\ compress \in BOOLEAN
  /\ SuffixLimit \in Nat \ {0}
  /\ Ticks \subseteq Int
  /\ MaxRecords \in Nat
  /\ MaxFaults \in Nat
  /\ MaxKills \in Nat

VARIABLES
  journal,  \* the writer and its directory
  written,  \* records given to write() so far, by every process
  clock,    \* the last reading of the system clock
  kills,
  read      \* the records that the last reading of the directory gave

vars == <<journal, written, clock, kills, read>>

-----------------------------------------------------------------------------
(***************************************************************************)
(* Blocks and segments.                                                    *)
(***************************************************************************)
\* The records that a flush took, the lines of them that can be read, and what
\* comes behind those lines.
Whole(records) == [of |-> records, records |-> records, end |-> "whole"]

\* What may be left of a block cut short.  It breaks off inside a line (ragged);
\* or before a line's end, which can be read as long as nothing follows it
\* (unended); or behind a line, which for a frame is an end as long as nothing
\* follows it (clean), and for lines no different from an end (whole).
Tears(records) ==
  LET torn(n, end) == [of |-> records, records |-> SubSeq(records, 1, n), end |-> end]
      fewer == 0 .. Len(records) - 1
  IN  {torn(n, "ragged") : n \in fewer}
        \cup {torn(n, "unended") : n \in 1 .. Len(records)}
        \cup IF compress THEN {torn(n, "clean") : n \in fewer}
             ELSE {torn(n, "whole") : n \in fewer \ {0}}

BlockEnds == {"whole", "ragged", "unended", "clean"}

Cut(block) == block.records # block.of \/ block.end # "whole"

\* What writing them may leave behind, when it leaves anything.
Pieces(records) == IF records = <<>> THEN {} ELSE {Whole(records)} \cup Tears(records)

\* Faulty: the first segment of a second has no counter, and "-1" sorts before it.
EarlierUnsuffixed(a, b) ==
  \/ a.stamp < b.stamp
  \/ a.stamp = b.stamp /\ a.suffix # 0 /\ (b.suffix = 0 \/ a.suffix < b.suffix)

\* Segments by name: the stamp, then the counter every name carries.
Earlier(a, b) == a.stamp < b.stamp \/ (a.stamp = b.stamp /\ a.suffix < b.suffix)

Named(s, stamp, suffix) ==
  {i \in DOMAIN s.directory : s.directory[i].stamp = stamp /\ s.directory[i].suffix = suffix}

\* The block goes to the segment that is open.
Stored(s, block) == [s EXCEPT !.directory[s.current].blocks = Append(@, block)]

-----------------------------------------------------------------------------
(***************************************************************************)
(* The writer: each operation is the set of its outcomes.                  *)
(***************************************************************************)
NewWriter(directory, first, faults) ==
  [directory       |-> directory,
   running         |-> FALSE,
   pending         |-> <<>>,
   held            |-> <<>>,    \* refused by a flush, still in the stream's buffer
   failed          |-> FALSE,   \* the state of the stream
   current         |-> 0,       \* the segment last opened
   opened          |-> 0,
   in_segment      |-> 0,
   write_failures  |-> 0,
   dropped_records |-> 0,
   problem         |-> FALSE,   \* what the last operation returned
   first           |-> first,   \* the first record that is this process's
   faults          |-> faults]

MayFault(s) == s.faults < MaxFaults

Fault(s) == [s EXCEPT !.faults = @ + 1, !.failed = TRUE]

Reported(s) == [s EXCEPT !.write_failures = @ + 1, !.problem = TRUE]

\* Faulty: a dropped block is returned as a problem and not counted.
RefusedUncounted(s) == [s EXCEPT !.pending = <<>>, !.problem = TRUE]

\* Faulty: what was refused is kept for the next flush.
RefusedKept(s) == Reported([s EXCEPT !.dropped_records = @ + Len(s.pending)])

\* write_block has failed: what was pending is dropped, and counted.
Refused(s) ==
  Reported([s EXCEPT !.pending = <<>>, !.dropped_records = @ + Len(s.pending)])

\* A flush of a stream that has not failed: the block is written; or part of it
\* is, and the rest refused, by out.write() or by out.flush().
Attempt(s) ==
  LET left     == {s} \cup {Stored(s, tear) : tear \in Tears(s.pending)}
      kept(u)  == [u EXCEPT !.pending = <<>>, !.held = s.pending]
      failures == {Refused(Fault(u)) : u \in left} \cup {Reported(Fault(kept(u))) : u \in left}
  IN  IF s.pending = <<>> THEN {s}
      ELSE {Stored([s EXCEPT !.pending = <<>>], Whole(s.pending))}
             \cup {t \in failures : MayFault(s)}

\* Faulty: the stream's failure is cleared, and the block written after it.
flushCleared(s) == Attempt([s EXCEPT !.failed = FALSE])

\* A stream that has failed takes nothing until a segment is opened.
flush(s) ==
  IF ~s.failed THEN Attempt(s)
  ELSE IF s.pending = <<>> THEN {Reported(s)}
  ELSE {Refused(s)}

\* out.close() tries to write what the stream still holds, from its beginning,
\* and is not checked.
closed(s) ==
  {[t EXCEPT !.held = <<>>] : t \in {s} \cup {Stored(s, piece) : piece \in Pieces(s.held)}}

\* The first name of this second that is free, or the last one there is.
SegmentSuffix(s, now) ==
  LET free == {n \in 0 .. SuffixLimit - 1 : Named(s, now, n) = {}}
  IN  IF free = {} THEN SuffixLimit - 1
      ELSE CHOOSE n \in free : \A m \in free : n <= m

OpenedSegment(s, now) ==
  LET suffix == SegmentSuffix(s, now)
      named  == Named(s, now, suffix)
      opened == [s EXCEPT !.failed = FALSE, !.opened = now, !.in_segment = 0]
  IN  IF named # {}
      THEN [opened EXCEPT !.current = CHOOSE i \in named : TRUE]
      ELSE [opened EXCEPT
              !.current = Len(s.directory) + 1,
              !.directory = Append(@, [stamp |-> now, suffix |-> suffix, blocks |-> <<>>])]

open_segment(s, now) ==
  {OpenedSegment(s, now)} \cup {t \in {[Fault(s) EXCEPT !.problem = TRUE]} : MayFault(s)}

rotate(s, now) ==
  UNION {UNION {open_segment(c, now) : c \in closed(f)} : f \in flush(s)}

RotationDue(s, now) ==
  \/ rotate_records > 0 /\ s.in_segment >= rotate_records
  \/ rotate_interval > 0 /\ now - s.opened >= rotate_interval

\* A problem with the flush returns before rotation is considered.
write(s, record, now) ==
  LET taken   == [s EXCEPT !.pending = Append(@, record), !.in_segment = @ + 1]
      flushed == IF Len(taken.pending) >= flush_every THEN flush(taken) ELSE {taken}
  IN  UNION {IF ~f.problem /\ RotationDue(f, now) THEN rotate(f, now) ELSE {f}
               : f \in flushed}

-----------------------------------------------------------------------------
(***************************************************************************)
(* What a reader finds: replay_directory reads the segments in the order   *)
(* of their names, and stops at the first record it cannot read.           *)
(***************************************************************************)
list_journal_segments(directory) ==
  CHOOSE listing \in [DOMAIN directory -> ToSet(directory)] :
     \A i, j \in DOMAIN directory : i < j => Earlier(listing[i], listing[j])

\* What is read of some parts: each as far as it goes, until one ends in an error.
ReadOn(parts) ==
  LET reached(i) == \A j \in DOMAIN parts : j < i => ~parts[j].error
  IN  [records |-> FlattenSeq([i \in DOMAIN parts |->
                                 IF reached(i) THEN parts[i].records ELSE <<>>]),
       error   |-> \E i \in DOMAIN parts : parts[i].error]

\* Whether reading on from this block is an error: half a line, or what comes
\* next does not begin a line or a frame.
Malformed(blocks, i) ==
  blocks[i].end = "ragged" \/ (blocks[i].end # "whole" /\ i < Len(blocks))

\* A line without an end is read unless something follows it.
Readable(blocks, i) ==
  IF blocks[i].end = "unended" /\ i < Len(blocks) THEN Front(blocks[i].records)
  ELSE blocks[i].records

\* What next() returns of a segment.
ReadSegment(blocks) ==
  ReadOn([i \in DOMAIN blocks |->
            [records |-> Readable(blocks, i), error |-> Malformed(blocks, i)]])

ReadDirectory(directory) ==
  LET listed == list_journal_segments(directory)
  IN  ReadOn([i \in DOMAIN directory |-> ReadSegment(listed[i].blocks)])

-----------------------------------------------------------------------------
(***************************************************************************)
(* Processes and what they call.                                           *)
(***************************************************************************)
Readings == {now \in {clock + tick : tick \in Ticks} : now \in -MaxClock .. MaxClock}

Bounded ==
  /\ Len(journal'.directory) <= MaxSegments
  /\ journal'.write_failures <= MaxFailures

Called == [journal EXCEPT !.problem = FALSE]

Init ==
  /\ journal = NewWriter(<<>>, 1, 0)
  /\ written = 0
  /\ clock = 0
  /\ kills = 0
  /\ read = <<>>

\* A process whose first segment cannot be opened has no writer.
Create ==
  /\ ~journal.running
  /\ \E now \in Readings :
        LET new == NewWriter(journal.directory, written + 1, journal.faults)
        IN  /\ clock' = now
            /\ journal' \in {[s EXCEPT !.running = ~s.problem] : s \in open_segment(new, now)}
  /\ Bounded
  /\ UNCHANGED <<written, kills, read>>

Write ==
  /\ journal.running
  /\ written < MaxRecords
  /\ written' = written + 1
  /\ \E now \in Readings :
        /\ clock' = now
        /\ journal' \in write(Called, written', now)
  /\ Bounded
  /\ UNCHANGED <<kills, read>>

Flush ==
  /\ journal.running
  /\ journal' \in flush(Called)
  /\ Bounded
  /\ UNCHANGED <<written, clock, kills, read>>

Rotate ==
  /\ journal.running
  /\ \E now \in Readings :
        /\ clock' = now
        /\ journal' \in rotate(Called, now)
  /\ Bounded
  /\ UNCHANGED <<written, kills, read>>

\* collect flushes before it destroys its writer, which closes the stream.
End ==
  /\ journal.running
  /\ \E f \in flush(Called) :
        journal' \in {[c EXCEPT !.running = FALSE] : c \in closed(f)}
  /\ Bounded
  /\ UNCHANGED <<written, clock, kills, read>>

\* Nothing that was buffered survives but what a flush in progress, or the close
\* of a stream that has failed, had written.
Kill ==
  /\ journal.running
  /\ kills < MaxKills
  /\ kills' = kills + 1
  /\ LET buffered == IF journal.failed THEN journal.held ELSE journal.pending
     IN  \E s \in {journal} \cup {Stored(journal, piece) : piece \in Pieces(buffered)} :
            journal' = NewWriter(s.directory, written + 1, s.faults)
  /\ UNCHANGED <<written, clock, read>>

\* A replay of the directory, at any moment of its writer's life.
Read ==
  /\ read' = ReadDirectory(journal.directory).records
  /\ UNCHANGED <<journal, written, clock, kills>>

Next == Create \/ Write \/ Flush \/ Rotate \/ End \/ Kill \/ Read

Spec == Init /\ [][Next]_vars

-----------------------------------------------------------------------------
Blocks(i) == journal.directory[i].blocks

OnDisk ==
  UNION {UNION {ToSet(Blocks(i)[b].records) : b \in DOMAIN Blocks(i)}
           : i \in DOMAIN journal.directory}

TypeOK ==
  /\ journal \in
       [directory       : Seq([stamp  : Int,
                               suffix : 0 .. SuffixLimit - 1,
                               blocks : Seq([of      : Seq(1 .. written),
                                             records : Seq(1 .. written),
                                             end     : BlockEnds])]),
        running         : BOOLEAN,
        pending         : BoundedSeq(1 .. written, flush_every - 1),
        held            : Seq(1 .. written),
        failed          : BOOLEAN,
        current         : 0 .. Len(journal.directory),
        opened          : Int,
        in_segment      : Nat,
        write_failures  : Nat,
        dropped_records : 0 .. written,
        problem         : BOOLEAN,
        first           : 1 .. written + 1,
        faults          : 0 .. MaxFaults]
  /\ journal.running => journal.current > 0
  /\ written \in 0 .. MaxRecords
  /\ clock \in Int
  /\ kills \in 0 .. MaxKills
  /\ read \in Seq(1 .. written)

\* "A crash costs at most the final incomplete frame rather than corrupting
\* everything after the failure point" (journal.hpp:149).  Behind a block cut
\* short there is nothing but, once and last, that same block as the stream is
\* closed: what cannot be read of a segment is its last flush, and never a later
\* one, whichever refusals, rotations and kills came in between.
OnlyItsRetryFollowsATear ==
  \A i \in DOMAIN journal.directory : \A a, b \in DOMAIN Blocks(i) :
     Cut(Blocks(i)[a]) /\ a < b =>
       b = Len(Blocks(i)) /\ Blocks(i)[b].of = Blocks(i)[a].of

Lost ==
  {n \in journal.first .. written :
     n \notin OnDisk \cup ToSet(journal.pending) \cup ToSet(journal.held)}

\* However a disk fails, a process that has lost a record has counted a failure;
\* one that counts none has lost nothing but what is pending when it is killed.
LossIsCounted == Lost # {} => journal.write_failures > 0

\* The directory, read in the order of its names, is a log that only grows, but
\* for a last line without an end: rotations, failures, kills and later processes
\* never reorder, repeat or retract what a reader has seen.  (Of frames: without
\* compression, lines that a stream writes again as it is closed are read twice.)
Log == INSTANCE EventLog WITH log <- read

HistoryIsKept == Log!Spec

\* "Drops are counted rather than logged and forgotten" (journal.hpp:98).
DropsAreCounted == Cardinality(Lost) <= journal.dropped_records

\* "A malformed FINAL line specifically means the writer died mid-record, which
\* is an expected outcome of a crash and does not invalidate what came before"
\* (journal.hpp:202): such a line does not make the directory unreadable.
FinalLineMayBeTorn ==
  ReadDirectory(journal.directory).error =>
    \E i \in DOMAIN journal.directory :
       /\ i < Len(journal.directory)
       /\ \E b \in DOMAIN Blocks(i) : Blocks(i)[b].end # "whole"
=============================================================================
