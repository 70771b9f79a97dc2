------------------------------ MODULE SampleIds ------------------------------
(***************************************************************************)
(* Sample ids: strings of digits, compared as strings and counted as       *)
(* 64-bit numbers (sample_id.hpp, log_catalog_service.cpp).  An id is the  *)
(* number it spells and the zeros written in front of it, so "1" and       *)
(* "0001" are two ids of one number.  MaxId is the largest number the code *)
(* can hold, 2^64 - 1; a catalog is a sequence of items with an id field.  *)
(***************************************************************************)
EXTENDS Integers, Sequences, SequencesExt, FiniteSetsExt

CONSTANT MaxId

ASSUME MaxIdAssumption == MaxId \in Nat \ {0}

Item == [id : [zeros : Nat, value : Int]]

Id(zeros, value) == [zeros |-> zeros, value |-> value]

\* A string that is not made of digits only.
BadId == Id(0, -1)

valid_sample_id(id) == id.value >= 0

\* What validate_ids and the catalog's own loops ask: digits, no string twice.
validate_ids(items) ==
  /\ \A i \in DOMAIN items : valid_sample_id(items[i].id)
  /\ \A i, j \in DOMAIN items : items[i].id = items[j].id => i = j

\* Four digits at least.
padded(value) ==
  Id(IF value < 10 THEN 3 ELSE IF value < 100 THEN 2 ELSE IF value < 1000 THEN 1 ELSE 0, value)

\* next_id throws for an id that does not fit, or when the last one is taken.
id_available(items) ==
  /\ validate_ids(items)
  /\ \A i \in DOMAIN items : items[i].id.value < MaxId

largest_id(items) == Max({0} \cup {items[i].id.value : i \in DOMAIN items})

\* Mutant: the number of items instead of the largest id.
next_id_by_count(items) == padded(Len(items) + 1)

next_id(items) == padded(largest_id(items) + 1)
=============================================================================
