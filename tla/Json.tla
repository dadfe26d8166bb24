--------------------------------- MODULE Json ---------------------------------
(***************************************************************************)
(* A JSON object as its readers see it: a function from the fields that    *)
(* are present to their values.  A value of another JSON type than the     *)
(* reader asks for is WrongType, and a string that is not the price, size, *)
(* time or name it ought to be is Unparsable.                              *)
(*                                                                         *)
(* The two FieldReaders (src/api/ws_protocol.cpp, src/api/market.cpp) read *)
(* every field and then ask once for the first problem.  Here a read is    *)
(* the sequence of its problems, so that reads are concatenated.           *)
(***************************************************************************)
EXTENDS Sequences

CONSTANTS WrongType, Unparsable

Has(object, field) == field \in DOMAIN object

\* The problem of a field that must be there.  `kind` is that of a string that
\* cannot be parsed.
Required(object, field, kind) ==
  IF ~Has(object, field) THEN <<[kind |-> "MissingField", field |-> field]>>
  ELSE IF object[field] = WrongType THEN <<[kind |-> "WrongFieldType", field |-> field]>>
  ELSE IF object[field] = Unparsable THEN <<[kind |-> kind, field |-> field]>>
  ELSE <<>>

\* Absence is no problem; nonsense is.
Permitted(object, field, kind) ==
  IF Has(object, field) THEN Required(object, field, kind) ELSE <<>>

Sound(object, field) == Has(object, field) /\ object[field] \notin {WrongType, Unparsable}

\* A field that is taken when it is sound, and otherwise is as if it were absent.
Otherwise(object, field, fallback) ==
  IF Sound(object, field) THEN object[field] ELSE fallback

Failure(problem) == [type |-> "failure", kind |-> problem.kind, field |-> problem.field]

NoField == ""

Refuse(kind, field) == Failure([kind |-> kind, field |-> field])

\* What was read, unless there was a problem: the first is the one reported.
Unless(problems, read) == IF problems = <<>> THEN read ELSE Failure(Head(problems))
=============================================================================
