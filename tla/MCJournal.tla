------------------------------- MODULE MCJournal -------------------------------
(***************************************************************************)
(* Instances of Journal for TLC: how the system clock may move.            *)
(***************************************************************************)
EXTENDS Journal

\* A clock that is only ever slewed: two readings may fall in one second.
Forward == {0, 1}
=============================================================================
