-------------------------- MODULE MCWalletAmounts --------------------------
(***************************************************************************)
(* Instance of WalletAmounts for TLC: each key stands for one request,     *)
(* retried at will.  The recharge and one charge round up; the other       *)
(* charge is of a whole balance or just above it, by which way toFixed     *)
(* goes, and rounds down to it.                                            *)
(***************************************************************************)
EXTENDS WalletAmounts

CONSTANTS k1, k2, k3, w1

Body(op, k, value) == [op |-> op, key |-> k, wallet |-> w1, value |-> value]

MCBodies == {Body("recharge", k1, 16000), Body("charge", k2, 7000), Body("charge", k3, 20050)}

MCCurrencyOf == [w \in Wallets |-> "PKR"]

MCRecorded == UNION {{Recorded(b, m) : m \in ValidAmounts(b)} : b \in Bodies}
=============================================================================
