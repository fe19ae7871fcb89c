----------------------- MODULE MCDatewiseTransactions -----------------------
(***************************************************************************)
(* Instance of DatewiseTransactions, and with it of TransactionPaging, for *)
(* TLC.                                                                    *)
(***************************************************************************)
EXTENDS DatewiseTransactions, TLC

CONSTANTS r1, r2, r3, r4, r5

MCSymmetry == Permutations(RowIds)
=============================================================================
