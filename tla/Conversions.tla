------------------------------ MODULE Conversions ------------------------------
(***************************************************************************)
(* Where text becomes a value or a value text: decimal numbers, times, and *)
(* the documents of the venue and of the journal.  One conversion is made  *)
(* at a time; none of them keeps anything.                                 *)
(***************************************************************************)
EXTENDS Decimals, Times, Documents

VARIABLE converting

conversions == <<decimal, clock, documents, converting>>

\* There is something to convert of each kind.
ASSUME ConversionsAssumption ==
  Texts # {} /\ Forms # {} /\ Midnights # {} /\ Sources # {}

\* What the conversions that are not made would be of.
IdleText == {CHOOSE t \in Texts : TRUE}
IdleForm == {CHOOSE f \in Forms : TRUE}
IdleMidnight == {CHOOSE m \in Midnights : TRUE}
IdleSource == {CHOOSE s \in Sources : TRUE}

Init ==
  \/ /\ converting = "decimal"
     /\ DecimalInit(Texts, Forms)
     /\ TimeInit(IdleMidnight)
     /\ DocumentInit(IdleSource)
  \/ /\ converting = "time"
     /\ DecimalInit(IdleText, IdleForm)
     /\ TimeInit(Midnights)
     /\ DocumentInit(IdleSource)
  \/ /\ converting = "document"
     /\ DecimalInit(IdleText, IdleForm)
     /\ TimeInit(IdleMidnight)
     /\ DocumentInit(Sources)

Next ==
  /\ \/ converting = "decimal" /\ DecimalNext /\ UNCHANGED <<clock, documents>>
     \/ converting = "time" /\ Tick /\ UNCHANGED <<decimal, documents>>
     \/ converting = "document" /\ Spoil /\ UNCHANGED <<decimal, clock>>
  /\ UNCHANGED converting

Spec == Init /\ [][Next]_conversions
=============================================================================
