----------------------------- MODULE MCMoneyDto -----------------------------
(***************************************************************************)
(* Instance of MoneyDto for TLC: amounts from nothing to two units of the  *)
(* lowest denomination, around the halves at which toFixed and MySQL round *)
(***************************************************************************)
EXTENDS MoneyDto

MCInputs == {-10000, 0, 1, 49, 50, 4949, 4950, 4999, 5000, 9950, 10000, 14999, 15000, 20000}
=============================================================================
