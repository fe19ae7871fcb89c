-------------------------- MODULE MCWalletService --------------------------
(***************************************************************************)
(* Instances of WalletService for TLC.                                     *)
(***************************************************************************)
EXTENDS WalletService, TLC

CONSTANTS a1, a2, a3, a4, p1, p2, k1, k2, k3, w1, w2, none

Request(op, k, w, amount) == [op |-> op, key |-> k, wallet |-> w, amount |-> amount]

\* A recharge and two charges that each need all of it; the key of one of the
\* charges is also that of a recharge of another wallet.
MCRequests ==
  {Request("recharge", k1, w1, 2),
   Request("charge",   k2, w1, 2),
   Request("charge",   k3, w1, 2),
   Request("recharge", k3, w2, 1)}

\* Each key stands for one request, retried at will.
MCDisciplined ==
  {Request("recharge", k1, w1, 2),
   Request("charge",   k2, w1, 1),
   Request("charge",   k3, w1, 2)}

MCSymmetry == Permutations(Attempts) \cup Permutations(Pods)
=============================================================================
