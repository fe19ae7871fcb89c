--------------------------- MODULE MoneyDtoProofs ---------------------------
(***************************************************************************)
(* Proofs about MoneyDto, for any amounts and any number of rows.          *)
(*                                                                         *)
(* The argument: rounding a number that is not above a whole number does   *)
(* not take it above it (StoredFits), and moves it by at most a half       *)
(* (StoredIsNear); each step of a wallet is one of these.                  *)
(***************************************************************************)
EXTENDS MoneyDto, TLAPS

MoneyInv == TypeOK /\ RoundingNeverOverdraws /\ DriftIsBounded

-----------------------------------------------------------------------------
(* What the column stores is a whole number.                               *)
LEMMA StoredType == ASSUME NEW a \in Int PROVE Stored(a) \in Int
BY DEF Stored, Parts

(* Rounding at the column moves an amount by at most a half.               *)
LEMMA StoredIsNear ==
  ASSUME NEW a \in Int
  PROVE  2 * (Parts * Stored(a) - a) \in (0 - Parts) .. Parts
BY DEF Stored, Parts

(* Rounding at the column does not take an amount above a balance that it  *)
(* is not above.                                                           *)
LEMMA StoredFits ==
  ASSUME NEW a \in Int, NEW b \in Int, a <= Parts * b
  PROVE  Stored(a) <= b
BY DEF Stored, Parts

(* A positive amount is not stored as a negative one.                      *)
LEMMA StoredIsNatural ==
  ASSUME NEW a \in Int, a > 0
  PROVE  Stored(a) >= 0
BY DEF Stored, Parts

(* An amount that is a whole number is stored as it is.                    *)
LEMMA StoredIsExact ==
  ASSUME NEW b \in Int
  PROVE  Stored(Parts * b) = b
BY DEF Stored, Parts

(* A row adds at most a half to the drift, whichever way its amount goes.   *)
LEMMA DriftOfARow ==
  ASSUME NEW b \in Int, NEW k \in Int, NEW n \in Int, NEW s \in Int, NEW a \in Int,
         2 * (Parts * b - k) \in (0 - Parts * n) .. (Parts * n),
         2 * (Parts * s - a) \in (0 - Parts) .. Parts
  PROVE  /\ 2 * (Parts * (b + s) - (k + a)) \in (0 - Parts * (n + 1)) .. (Parts * (n + 1))
         /\ 2 * (Parts * (b - s) - (k - a)) \in (0 - Parts * (n + 1)) .. (Parts * (n + 1))
<1>1. 0 - 10000 * n <= 2 * (10000 * b - k) /\ 2 * (10000 * b - k) <= 10000 * n
  BY DEF Parts
<1>2. 0 - 10000 <= 2 * (10000 * s - a) /\ 2 * (10000 * s - a) <= 10000
  BY DEF Parts
<1>3. /\ 0 - 10000 * (n + 1) <= 2 * (10000 * (b + s) - (k + a))
      /\ 2 * (10000 * (b + s) - (k + a)) <= 10000 * (n + 1)
  BY <1>1, <1>2
<1>4. /\ 0 - 10000 * (n + 1) <= 2 * (10000 * (b - s) - (k - a))
      /\ 2 * (10000 * (b - s) - (k - a)) <= 10000 * (n + 1)
  BY <1>1, <1>2
<1>5. QED  BY <1>3, <1>4 DEF Parts

(* The decimals kept of an amount are those of a whole number of parts.    *)
LEMMA AmountsType ==
  ASSUME NEW value \in Int, NEW c, NEW a \in Amounts(value, c)
  PROVE  a \in Int
BY DEF Amounts, Grain

(* A balance is shown, and read back from the number shown, exactly.       *)
LEMMA ShownIsExact ==
  ASSUME NEW b \in Int, b > 0, NEW c, NEW a \in Amounts(Shown(b, c), c)
  PROVE  a = Parts * b
<1>1. CASE PRECISION[c] = 2
  <2>1. Grain(c) = 100  BY <1>1 DEF Grain
  <2>2. Shown(b, c) = Parts * b  BY <2>1 DEF Shown, Parts
  <2>3. QED  BY <2>1, <2>2 DEF Amounts, Parts
<1>2. CASE PRECISION[c] # 2
  <2>1. Grain(c) = 1  BY <1>2 DEF Grain
  <2>2. Shown(b, c) = Parts * b  BY <2>1 DEF Shown, Parts
  <2>3. QED  BY <2>1, <2>2 DEF Amounts, Parts
<1>3. QED  BY <1>1, <1>2

-----------------------------------------------------------------------------
LEMMA MoneyInvInit == ASSUME Init PROVE MoneyInv
BY MoneyAssumption DEF Init, MoneyInv, TypeOK, RoundingNeverOverdraws, DriftIsBounded, Parts

LEMMA MoneyInvNext == ASSUME MoneyInv, [Next]_vars PROVE MoneyInv'
<1> USE DEF MoneyInv
<1>1. ASSUME NEW value \in Inputs, Recharge(value) PROVE MoneyInv'
  <2>1. PICK a \in Amounts(value, currency) :
          a > 0 /\ balance' = balance + Stored(a) /\ asked' = asked + a
    BY <1>1 DEF Recharge
  <2>2. a \in Int  BY <2>1, AmountsType, MoneyAssumption
  <2>3. /\ Stored(a) \in Int /\ Stored(a) >= 0
        /\ 2 * (Parts * Stored(a) - a) \in (0 - Parts) .. Parts
    BY <2>1, <2>2, StoredType, StoredIsNatural, StoredIsNear
  <2>4. rowCount' = rowCount + 1 /\ rowCount < MaxRows /\ currency' = currency
    BY <1>1 DEF Recharge
  <2>5. TypeOK'
    BY <2>1, <2>2, <2>3, <2>4, MoneyAssumption DEF TypeOK
  <2>6. RoundingNeverOverdraws'
    BY <2>1, <2>3 DEF TypeOK, RoundingNeverOverdraws
  <2>7. DriftIsBounded'
    <3>1. balance \in Int /\ asked \in Int /\ rowCount \in Int  BY MoneyAssumption DEF TypeOK
    <3>2. QED  BY <2>1, <2>2, <2>3, <2>4, <3>1, DriftOfARow DEF DriftIsBounded
  <2>8. QED  BY <2>5, <2>6, <2>7
<1>2. ASSUME NEW value \in Inputs, Charge(value) PROVE MoneyInv'
  <2>1. PICK a \in Amounts(value, currency) :
          /\ a > 0 /\ ~GreaterThan(a, balance)
          /\ balance' = balance - Stored(a) /\ asked' = asked - a
    BY <1>2 DEF Charge
  <2>2. a \in Int /\ balance \in Int  BY <2>1, AmountsType, MoneyAssumption DEF TypeOK
  <2>3. a <= Parts * balance  BY <2>1, <2>2 DEF GreaterThan, Parts
  <2>4. /\ Stored(a) \in Int /\ Stored(a) <= balance
        /\ 2 * (Parts * Stored(a) - a) \in (0 - Parts) .. Parts
    BY <2>2, <2>3, StoredType, StoredFits, StoredIsNear
  <2>5. rowCount' = rowCount + 1 /\ rowCount < MaxRows /\ currency' = currency
    BY <1>2 DEF Charge
  <2>6. TypeOK'
    BY <2>1, <2>2, <2>4, <2>5, MoneyAssumption DEF TypeOK
  <2>7. RoundingNeverOverdraws'
    BY <2>1, <2>2, <2>4 DEF RoundingNeverOverdraws
  <2>8. DriftIsBounded'
    <3>1. balance \in Int /\ asked \in Int /\ rowCount \in Int  BY MoneyAssumption DEF TypeOK
    <3>2. QED  BY <2>1, <2>2, <2>4, <2>5, <3>1, DriftOfARow DEF DriftIsBounded
  <2>9. QED  BY <2>6, <2>7, <2>8
<1>3. ASSUME UNCHANGED vars PROVE MoneyInv'
  BY <1>3 DEF vars, TypeOK, RoundingNeverOverdraws, DriftIsBounded
<1>4. ASSUME NEW value \in Inputs, Refuse(value) PROVE MoneyInv'
  BY <1>3, <1>4 DEF Refuse
<1>5. QED  BY <1>1, <1>2, <1>3, <1>4 DEF Next

(* The invariant of a wallet's amounts.                                    *)
THEOREM MoneyInvariant == Spec => []MoneyInv
<1>1. Init => MoneyInv  BY MoneyInvInit
<1>2. MoneyInv /\ [Next]_vars => MoneyInv'  BY MoneyInvNext
<1>3. QED  BY <1>1, <1>2, PTL DEF Spec

(* Calls that follow one another never overdraw a wallet, although the     *)
(* amount that is checked is not the amount that is stored (greaterThan,   *)
(* and the bigint column).                                                 *)
THEOREM SequentialCallsNeverOverdraw == Spec => []RoundingNeverOverdraws
<1>1. MoneyInv => RoundingNeverOverdraws  BY DEF MoneyInv
<1>2. QED  BY <1>1, MoneyInvariant, PTL

(* A wallet drifts from what was asked by at most a half of the lowest     *)
(* denomination for each of its rows.                                      *)
THEOREM TheDriftIsBounded == Spec => []DriftIsBounded
<1>1. MoneyInv => DriftIsBounded  BY DEF MoneyInv
<1>2. QED  BY <1>1, MoneyInvariant, PTL

(* A charge of the balance as the client is shown it is accepted and       *)
(* empties the wallet (toJSON, and the transformation of a request).       *)
THEOREM TheShownBalanceCanBeCharged == Spec => []ShownBalanceCanBeCharged
<1>1. TypeOK => ShownBalanceCanBeCharged
  <2> SUFFICES ASSUME TypeOK, balance > 0, NEW a \in Amounts(Shown(balance, currency), currency)
               PROVE  a > 0 /\ ~GreaterThan(a, balance) /\ Stored(a) = balance
    BY DEF ShownBalanceCanBeCharged
  <2>1. balance \in Int  BY DEF TypeOK
  <2>2. a = Parts * balance  BY <2>1, ShownIsExact
  <2>3. Stored(a) = balance  BY <2>1, <2>2, StoredIsExact
  <2>4. a > 0 /\ ~GreaterThan(a, balance)  BY <2>1, <2>2 DEF GreaterThan, Parts
  <2>5. QED  BY <2>3, <2>4
<1>2. MoneyInv => TypeOK  BY DEF MoneyInv
<1>3. QED  BY <1>1, <1>2, MoneyInvariant, PTL

(* Balances, requests and rows are whole numbers of their unit.            *)
THEOREM AmountsAreTyped == Spec => []TypeOK
<1>1. MoneyInv => TypeOK  BY DEF MoneyInv
<1>2. QED  BY <1>1, MoneyInvariant, PTL
=============================================================================
