--------------------------- MODULE WalletAmounts ---------------------------
(***************************************************************************)
(* Charges and recharges with the amounts of MoneyDto, so that rounding    *)
(* and races meet: a charge compares the amount as validated, decimals and *)
(* all, with a balance that other calls are about to change, and the       *)
(* column rounds the amount when the row is inserted.                      *)
(*                                                                         *)
(* Everything but the amounts is that of WalletService, whose requests     *)
(* have the amounts of their rows.                                         *)
(***************************************************************************)
EXTENDS WalletService

CONSTANTS
  Bodies,      \* what clients send; the value is in parts of the lowest denomination
  CurrencyOf   \* the currency of each wallet

VARIABLE amount  \* of each attempt, as validated: req has it rounded

amountsVars == <<vars, amount>>

Values == {b.value : b \in Bodies}

\* The sum of the amounts as validated over the rows of a wallet.
Validated ==
  [a \in Attempts |->
     IF req[a] = None THEN 0 ELSE IF req[a].op = "recharge" THEN amount[a] ELSE 0 - amount[a]]

Asked(w) == SumFunctionOnSet(Validated, RowsOf(w))

\* The amounts of one wallet.
Money(w) == INSTANCE MoneyDto WITH
  Inputs   <- Values,
  MaxRows  <- Cardinality(Attempts),
  currency <- CurrencyOf[w],
  balance  <- Balance(w),
  asked    <- Asked(w),
  rowCount <- Cardinality(RowsOf(w))

\* The row of a request is inserted with the amount as the column keeps it.
Recorded(b, m) ==
  [op |-> b.op, key |-> b.key, wallet |-> b.wallet, amount |-> Money(b.wallet)!Stored(m)]

\* The numbers that toFixed may make of the value, if they are positive.
ValidAmounts(b) ==
  {m \in Money(b.wallet)!Amounts(b.value, CurrencyOf[b.wallet]) : m > 0}

ASSUME AmountsAssumption ==
  /\ CurrencyOf \in [Wallets -> {"PKR", "SAR", "AED"}]
  /\ Bodies \subseteq [op : {"charge", "recharge"}, key : Keys, wallet : Wallets, value : Int]
  /\ \A b \in Bodies : \A m \in ValidAmounts(b) : Recorded(b, m) \in Requests

AmountsInit == Init /\ amount = [a \in Attempts |-> 0]

-----------------------------------------------------------------------------
ArriveWith(a, p, b) ==
  \E m \in ValidAmounts(b) :
    /\ Arrive(a, p, Recorded(b, m))
    /\ amount' = [amount EXCEPT ![a] = m]

ExceedsBalance(a) == Money(req[a].wallet)!GreaterThan(amount[a], Balance(req[a].wallet))

RejectAmount(a) ==
  /\ pc[a] = "balance"
  /\ ExceedsBalance(a)
  /\ Answer(a, Failed("insufficient"))
  /\ UNCHANGED amount

\* Variant: the decimals are cut off before the amount is compared.
ApproveWithoutDecimals(a) ==
  /\ pc[a] = "balance"
  /\ amount[a] \div Money(req[a].wallet)!Parts <= Balance(req[a].wallet)
  /\ Goto(a, "lookup")
  /\ UNCHANGED <<host, req, walletTransaction, resp, rows, amount>>

ApproveAmount(a) ==
  /\ pc[a] = "balance"
  /\ ~ExceedsBalance(a)
  /\ Goto(a, "lookup")
  /\ UNCHANGED <<host, req, walletTransaction, resp, rows, amount>>

-----------------------------------------------------------------------------
AmountsStep(a) ==
  \/ RejectAmount(a)
  \/ ApproveAmount(a)
  \/ Proceed(a) /\ UNCHANGED amount

AmountsNext ==
  \/ \E a \in Attempts :
       \/ \E p \in Pods, b \in Bodies : ArriveWith(a, p, b)
       \/ AmountsStep(a)
       \/ DbError(a) /\ UNCHANGED amount
  \/ \E p \in Pods : Crash(p) /\ UNCHANGED amount
  \/ Terminating /\ UNCHANGED amount

AmountsSpec == AmountsInit /\ [][AmountsNext]_amountsVars

\* As in WalletService.
AmountsFairSpec == AmountsSpec /\ \A a \in Attempts : WF_amountsVars(AmountsStep(a))

-----------------------------------------------------------------------------
(***************************************************************************)
(* Properties.                                                             *)
(***************************************************************************)
\* Amounts with decimals change nothing of what WalletService says: in
\* particular, an amount that is approved does not round above the balance it
\* was approved against, whatever the other calls do.
WalletServiceSpec == Spec

\* Races do not add to what rounding does: every wallet differs from what was
\* validated by at most half of the lowest denomination for every row.
DriftOfEachWallet == \A w \in Wallets : Money(w)!DriftIsBounded

\* The amounts of each wallet are those of MoneyDto, unless two of its charges
\* race: recharges, and the calls of other wallets, may interleave as they like.
MoneyOfEachWallet == \A w \in Wallets : Money(w)!Spec \/ <>Racing(w)
=============================================================================
