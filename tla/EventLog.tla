------------------------------- MODULE EventLog -------------------------------
(***************************************************************************)
(* What a journal promises to whoever reads it: the events come in the     *)
(* order they were written, each at most once, and what has been read once *)
(* is read again at the start of every later reading, except that the last *)
(* event is taken back when its line was still being written.              *)
(***************************************************************************)
EXTENDS Integers, SequencesExt

VARIABLE log  \* the events read, each the number it had when it was written

Increasing(events) ==
  \A i, j \in DOMAIN events : i < j => events[i] < events[j]

Init == log = <<>>

Extend == IsStrictPrefix(log, log') /\ Increasing(log')

Withdraw == log # <<>> /\ log' = Front(log)

Next == Extend \/ Withdraw

Spec == Init /\ [][Next]_log
=============================================================================
