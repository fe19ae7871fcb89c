--------------------------- MODULE SchemaHistory ---------------------------
(***************************************************************************)
(* What a database that is migrated may rely on, whoever migrates it: its  *)
(* migrations are applied in their order, each when those before it are on *)
(* record, and a record is made of nothing but what has been applied.      *)
(* Nothing is undone and no record is lost.                                *)
(***************************************************************************)
EXTENDS Integers

CONSTANT Last   \* the last migration; the first is 1

VARIABLES
  applied,   \* the migration applied last, 0 for none
  recorded   \* the migrations on record

Init ==
  /\ applied \in 0 .. Last
  /\ recorded = 1 .. applied

Apply ==
  /\ applied < Last
  /\ recorded = 1 .. applied
  /\ applied' = applied + 1
  /\ UNCHANGED recorded

Record ==
  /\ recorded' = 1 .. applied
  /\ UNCHANGED applied

Next == Apply \/ Record

Spec == Init /\ [][Next]_<<applied, recorded>>
=============================================================================
