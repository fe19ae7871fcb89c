------------------------------ MODULE MoneyDto ------------------------------
(***************************************************************************)
(* The amounts of one wallet, from the decimal number in a request to the  *)
(* bigint column and back to the number a client is shown.                 *)
(*                                                                         *)
(* A request gives an amount in the main currency.  MoneyDto multiplies it *)
(* by LOWEST_DENOMINATION and keeps PRECISION decimals of the result; the  *)
(* balance check compares that number; the column keeps a whole number.    *)
(* All of them are integers here, in parts of the lowest denomination:     *)
(* Parts to a paisa, 100 * Parts to a rupee.  Calls follow one another:    *)
(* their races are the subject of WalletService.                           *)
(***************************************************************************)
EXTENDS Integers

CONSTANTS
  Inputs,   \* amounts of requests, in parts
  MaxRows   \* bound on the rows of the wallet

Parts == 10000

ASSUME MoneyAssumption ==
  /\ Inputs \subseteq Int
  /\ MaxRows \in Nat

VARIABLES
  currency,
  balance,   \* SUM over the rows, in the lowest denomination
  asked,     \* the same sum over the amounts as validated, in parts
  rowCount

vars == <<currency, balance, asked, rowCount>>

PRECISION == [PKR |-> 2, SAR |-> 4, AED |-> 2]

Currencies == DOMAIN PRECISION

\* The parts in one unit of the last decimal kept.
Grain(c) == IF PRECISION[c] = 2 THEN 100 ELSE 1

\* Number(value * 100).toFixed(PRECISION): a nearest number with so many
\* decimals.  Which one of two depends on the binary form of the product.
Amounts(value, c) ==
  {a \in {Grain(c) * (value \div Grain(c)), Grain(c) * (value \div Grain(c) + 1)} :
     2 * (a - value) \in (0 - Grain(c)) .. Grain(c)}

\* Variant: MySQL cuts the decimals off.
Truncated(a) == a \div Parts

\* A decimal inserted into a bigint column is rounded, half away from zero.
Stored(a) == (2 * a + Parts) \div (2 * Parts)

\* Variant: a decimal less is shown.
ShownInTens(b, c) ==
  LET unit == 1000 * Grain(c) IN unit * ((2 * Parts * b + unit) \div (2 * unit))

\* getAmountInDouble: (amount / 100).toFixed(PRECISION), and 0 for a negative
\* amount.
Shown(b, c) ==
  LET unit == 100 * Grain(c)
      amt  == IF b < 0 THEN 0 ELSE b
  IN unit * ((2 * Parts * amt + unit) \div (2 * unit))

\* money.greaterThan(balance)
GreaterThan(a, b) == a > Parts * b

\* Variant: a currency is not looked up in CurrencyCodeEnum.
InitAnyCurrency ==
  /\ currency \in Currencies \cup {"USD"}
  /\ balance = 0
  /\ asked = 0
  /\ rowCount = 0

Init ==
  /\ currency \in Currencies
  /\ balance = 0
  /\ asked = 0
  /\ rowCount = 0

Recharge(value) ==
  /\ rowCount < MaxRows
  /\ \E a \in Amounts(value, currency) :
       /\ a > 0
       /\ balance' = balance + Stored(a)
       /\ asked' = asked + a
  /\ rowCount' = rowCount + 1
  /\ UNCHANGED currency

\* Variant: the stored amount is compared with the balance, less the decimals.
ChargeBelowNextWhole(value) ==
  /\ rowCount < MaxRows
  /\ \E a \in Amounts(value, currency) :
       /\ a > 0
       /\ ~ (a \div Parts > balance)
       /\ balance' = balance - Stored(a)
       /\ asked' = asked - a
  /\ rowCount' = rowCount + 1
  /\ UNCHANGED currency

Charge(value) ==
  /\ rowCount < MaxRows
  /\ \E a \in Amounts(value, currency) :
       /\ a > 0
       /\ ~GreaterThan(a, balance)
       /\ balance' = balance - Stored(a)
       /\ asked' = asked - a
  /\ rowCount' = rowCount + 1
  /\ UNCHANGED currency

\* @IsPositive, or the balance check, refuses the amount.
Refuse(value) ==
  /\ \E a \in Amounts(value, currency) : a <= 0 \/ GreaterThan(a, balance)
  /\ UNCHANGED vars

Next == \E value \in Inputs : Recharge(value) \/ Charge(value) \/ Refuse(value)

Spec == Init /\ [][Next]_vars

-----------------------------------------------------------------------------
(***************************************************************************)
(* Properties.                                                             *)
(***************************************************************************)
\* Every variable has its type.
TypeOK ==
  /\ currency \in Currencies
  /\ balance \in Int
  /\ asked \in Int
  /\ rowCount \in 0 .. MaxRows

\* The balance check compares an amount that the column has yet to round, and
\* still calls that follow one another never overdraw the wallet.
RoundingNeverOverdraws == balance >= 0

\* However long the wallet is used, the table differs from what was asked by at
\* most half of the lowest denomination for every row.
DriftIsBounded ==
  2 * (Parts * balance - asked) \in (0 - Parts * rowCount) .. (Parts * rowCount)

\* What a client is shown it can spend: a charge of the balance as shown is
\* accepted, and empties the wallet.
ShownBalanceCanBeCharged ==
  balance > 0 =>
    \A a \in Amounts(Shown(balance, currency), currency) :
      a > 0 /\ ~GreaterThan(a, balance) /\ Stored(a) = balance
=============================================================================
