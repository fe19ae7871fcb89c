------------------------ MODULE WalletServiceProofs ------------------------
(***************************************************************************)
(* What holds of WalletService, and of WalletAmounts at the end, for any   *)
(* number of calls, pods, keys and wallets.                                *)
(***************************************************************************)
EXTENDS WalletAmounts, SumTheorems

\* A committed or an uncommitted row of the attempt has the key in the index.
Holds(a) == a \in rows \/ pc[a] \in Holding

\* Rows are of attempts that have committed.
RowsAreCommitted == \A a \in rows : pc[a] \in {"respond", "done"}

\* One attempt at a time has a key.
KeyHasOneHolder ==
  \A a, b \in Attempts :
    a # b /\ Holds(a) /\ Holds(b) => req[a].key # req[b].key

\* The id about to be returned is that of a committed row with the key.
RespondWithRow ==
  \A a \in Attempts :
    pc[a] = "respond" =>
      walletTransaction[a] \in rows /\ req[walletTransaction[a]].key = req[a].key

\* Nothing is answered before the handler ends; afterwards only a transaction
\* whose client was told of an error, or of nothing, is still undecided.
AnsweredIsDone ==
  \A a \in Attempts :
    /\ pc[a] \notin {"aborting", "orphan", "done"} => resp[a] = NoResponse
    /\ resp[a].kind \notin {"none", "dberror"} => pc[a] = "done"

\* Only a charge asks for the balance.
BalanceIsForCharge ==
  \A a \in Attempts : pc[a] = "balance" => req[a].op = "charge"

\* The inductive invariant.
LedgerInv ==
  /\ TypeOK
  /\ RowsAreCommitted
  /\ KeyHasOneHolder
  /\ RespondWithRow
  /\ AnsweredIsDone
  /\ AnswersMatchLedger
  /\ BalanceIsForCharge

-----------------------------------------------------------------------------
(***************************************************************************)
(* Type correctness.                                                       *)
(***************************************************************************)
\* What a crash or an error leaves of a label.
LEMMA AbandonedLabel ==
  ASSUME NEW l \in Labels
  PROVE  /\ Abandoned(l) \in Labels \ {"respond", "balance"}
         /\ Abandoned(l) = "idle" <=> l = "idle"
         /\ Abandoned(l) \in Holding => l \in Holding
         /\ l # "idle" => Abandoned(l) \in {"aborting", "orphan", "done"}
         /\ l \in {"respond", "done"} => Abandoned(l) = "done"
BY DEF Abandoned, Labels, Holding

\* A request is a record of its type and is not None.
LEMMA RequestIsTyped ==
  /\ \A q \in Requests : q \in RequestType /\ q # None
  /\ None \notin Attempts
BY ConstantsAssumption

\* What the handlers answer has the type of an answer.
LEMMA ResponseIsTyped ==
  /\ \A kind \in {"insufficient", "duplicate", "dberror"} :
        Failed(kind) \in ResponseType /\ Failed(kind).kind = kind
  /\ \A r \in Attempts :
        Ok(r) \in ResponseType /\ Ok(r).kind = "ok" /\ Ok(r).row = r
BY DEF Failed, Ok, ResponseType

\* An answer stays true while rows are only added, by attempts that have not
\* ended, and the requests of the rows are kept.
LEMMA AnswerStaysTrue ==
  ASSUME LedgerInv, TypeOK', NEW b \in Attempts,
         \A r \in rows : req'[r] = req[r],
         req'[b] = req[b] \/ req[b] = None,
         rows \subseteq rows', \A r \in rows' \ rows : pc[r] # "done",
         resp'[b] = resp[b]
  PROVE  AnswerIsTrue(b)'
<1>1. resp[b].kind = "none" \/ resp[b].kind = "dberror" \/ pc[b] = "done"
  BY DEF LedgerInv, AnsweredIsDone
<1>2. pc[b] = "done" => req'[b] = req[b] /\ (b \in rows' => b \in rows)
  BY DEF LedgerInv, TypeOK
<1>3. AnswerIsTrue(b)
  BY DEF LedgerInv, AnswersMatchLedger
<1>4. pc[b] = "done" => rows \cap SameKey(b) \subseteq rows' \cap SameKey(b)'
  BY <1>2 DEF SameKey, LedgerInv, TypeOK
<1>5. CASE resp[b].kind \in {"none", "dberror"}
  BY <1>5 DEF AnswerIsTrue
<1>6. CASE pc[b] = "done"
  BY <1>2, <1>3, <1>4, <1>6 DEF AnswerIsTrue
<1> QED BY <1>1, <1>5, <1>6

\* The invariant holds before any call.
LEMMA LedgerInvInit == Init => LedgerInv
BY DEF Init, LedgerInv, TypeOK, RowsAreCommitted, KeyHasOneHolder, Holds, Holding,
       RespondWithRow, AnsweredIsDone, AnswersMatchLedger, AnswerIsTrue, Labels,
       NoResponse, BalanceIsForCharge,
       ResponseType

\* Every action of the handlers, and every failure, keeps the invariant.
LEMMA LedgerInvNext == LedgerInv /\ [Next]_vars => LedgerInv'
<1> SUFFICES ASSUME LedgerInv, [Next]_vars PROVE LedgerInv'
  OBVIOUS
<1> USE RequestIsTyped DEF LedgerInv, Labels, Holding
<1>1. ASSUME NEW a \in Attempts, NEW p \in Pods, NEW q \in Requests,
             Arrive(a, p, q)
      PROVE  LedgerInv'
  <2>1. TypeOK'
    BY <1>1 DEF TypeOK, Arrive, Goto, RequestType
  <2>2. RowsAreCommitted'
    BY <1>1 DEF TypeOK, RowsAreCommitted, Arrive, Goto, RequestType
  <2>3. KeyHasOneHolder'
    BY <1>1 DEF TypeOK, KeyHasOneHolder, Holds, RowsAreCommitted, Arrive, Goto
  <2>4. RespondWithRow'
    BY <1>1 DEF TypeOK, RespondWithRow, RowsAreCommitted, Arrive, Goto
  <2>5. AnsweredIsDone'
    BY <1>1 DEF TypeOK, AnsweredIsDone, Arrive, Goto, RequestType
  <2>6. AnswersMatchLedger'
    <3>1. ASSUME NEW b \in Attempts PROVE AnswerIsTrue(b)'
      BY <1>1, <2>1, AnswerStaysTrue DEF Arrive, Goto, TypeOK, RowsAreCommitted
    <3> QED BY <3>1 DEF AnswersMatchLedger
  <2>7. BalanceIsForCharge'
    BY <1>1 DEF TypeOK, BalanceIsForCharge, Arrive, Goto
  <2> QED BY <2>1, <2>2, <2>3, <2>4, <2>5, <2>6, <2>7
<1>2. ASSUME NEW a \in Attempts, RejectCharge(a)
      PROVE  LedgerInv'
  <2>1. TypeOK'
    BY <1>2, ResponseIsTyped DEF TypeOK, RejectCharge, Answer, Goto
  <2>2. RowsAreCommitted'
    BY <1>2 DEF TypeOK, RowsAreCommitted, RejectCharge, Answer, Goto, Failed
  <2>3. KeyHasOneHolder'
    BY <1>2 DEF TypeOK, KeyHasOneHolder, Holds, RejectCharge, Answer, Goto, Failed
  <2>4. RespondWithRow'
    BY <1>2 DEF TypeOK, RespondWithRow, RejectCharge, Answer, Goto, Failed
  <2>5. AnsweredIsDone'
    BY <1>2 DEF TypeOK, AnsweredIsDone, RejectCharge, Answer, Goto, Failed
  <2>6. AnswersMatchLedger'
    <3>1. ASSUME NEW b \in Attempts, b # a PROVE AnswerIsTrue(b)'
      BY <1>2, <2>1, <3>1, AnswerStaysTrue DEF RejectCharge, Answer, Goto, TypeOK
    <3>2. AnswerIsTrue(a)'
      BY <1>2, ResponseIsTyped DEF RejectCharge, Answer, Goto, TypeOK, AnswerIsTrue, BalanceIsForCharge, RowsAreCommitted
    <3> QED BY <3>1, <3>2 DEF AnswersMatchLedger
  <2>7. BalanceIsForCharge'
    BY <1>2 DEF TypeOK, BalanceIsForCharge, RejectCharge, Answer, Goto
  <2> QED BY <2>1, <2>2, <2>3, <2>4, <2>5, <2>6, <2>7
<1>3. ASSUME NEW a \in Attempts, ApproveCharge(a)
      PROVE  LedgerInv'
  <2>1. TypeOK'
    BY <1>3 DEF TypeOK, ApproveCharge, Goto
  <2>2. RowsAreCommitted'
    BY <1>3 DEF TypeOK, RowsAreCommitted, ApproveCharge, Goto
  <2>3. KeyHasOneHolder'
    BY <1>3 DEF TypeOK, KeyHasOneHolder, Holds, ApproveCharge, Goto
  <2>4. RespondWithRow'
    BY <1>3 DEF TypeOK, RespondWithRow, ApproveCharge, Goto
  <2>5. AnsweredIsDone'
    BY <1>3 DEF TypeOK, AnsweredIsDone, ApproveCharge, Goto
  <2>6. AnswersMatchLedger'
    <3>1. ASSUME NEW b \in Attempts PROVE AnswerIsTrue(b)'
      BY <1>3, <2>1, AnswerStaysTrue DEF ApproveCharge, TypeOK, RowsAreCommitted
    <3> QED BY <3>1 DEF AnswersMatchLedger
  <2>7. BalanceIsForCharge'
    BY <1>3 DEF TypeOK, BalanceIsForCharge, ApproveCharge, Goto
  <2> QED BY <2>1, <2>2, <2>3, <2>4, <2>5, <2>6, <2>7
<1>4. ASSUME NEW a \in Attempts, FindByIdempKey(a)
      PROVE  LedgerInv'
  <2>1. TypeOK'
    BY <1>4 DEF TypeOK, FindByIdempKey, Goto, SameKey
  <2>2. RowsAreCommitted'
    BY <1>4 DEF TypeOK, RowsAreCommitted, FindByIdempKey, Goto, SameKey
  <2>3. KeyHasOneHolder'
    BY <1>4 DEF TypeOK, KeyHasOneHolder, Holds, FindByIdempKey, Goto, SameKey
  <2>4. RespondWithRow'
    BY <1>4 DEF TypeOK, RespondWithRow, FindByIdempKey, Goto, SameKey
  <2>5. AnsweredIsDone'
    BY <1>4 DEF TypeOK, AnsweredIsDone, FindByIdempKey, Goto, SameKey
  <2>6. AnswersMatchLedger'
    <3>1. ASSUME NEW b \in Attempts PROVE AnswerIsTrue(b)'
      BY <1>4, <2>1, AnswerStaysTrue DEF FindByIdempKey, TypeOK, RowsAreCommitted
    <3> QED BY <3>1 DEF AnswersMatchLedger
  <2>7. BalanceIsForCharge'
    BY <1>4 DEF TypeOK, BalanceIsForCharge, FindByIdempKey, Goto
  <2> QED BY <2>1, <2>2, <2>3, <2>4, <2>5, <2>6, <2>7
<1>5. ASSUME NEW a \in Attempts, Insert(a)
      PROVE  LedgerInv'
  <2>1. TypeOK'
    BY <1>5 DEF TypeOK, Insert, Goto, SameKey
  <2>2. RowsAreCommitted'
    BY <1>5 DEF TypeOK, RowsAreCommitted, Insert, Goto, SameKey
  <2>3. KeyHasOneHolder'
    <3>1. \A b \in Attempts \ {a} : Holds(b) => req[b].key # req[a].key
      BY <1>5 DEF TypeOK, RowsAreCommitted, Holds, Insert, SameKey
    <3> QED BY <1>5, <3>1 DEF TypeOK, KeyHasOneHolder, Holds, Insert, Goto
  <2>4. RespondWithRow'
    BY <1>5 DEF TypeOK, RespondWithRow, Insert, Goto, SameKey
  <2>5. AnsweredIsDone'
    BY <1>5 DEF TypeOK, AnsweredIsDone, Insert, Goto, SameKey
  <2>6. AnswersMatchLedger'
    <3>1. ASSUME NEW b \in Attempts PROVE AnswerIsTrue(b)'
      BY <1>5, <2>1, AnswerStaysTrue DEF Insert, TypeOK, RowsAreCommitted
    <3> QED BY <3>1 DEF AnswersMatchLedger
  <2>7. BalanceIsForCharge'
    BY <1>5 DEF TypeOK, BalanceIsForCharge, Insert, Goto
  <2> QED BY <2>1, <2>2, <2>3, <2>4, <2>5, <2>6, <2>7
<1>6. ASSUME NEW a \in Attempts, DuplicateKey(a)
      PROVE  LedgerInv'
  <2>1. TypeOK'
    BY <1>6, ResponseIsTyped DEF TypeOK, DuplicateKey, Answer, Goto
  <2>2. RowsAreCommitted'
    BY <1>6 DEF TypeOK, RowsAreCommitted, DuplicateKey, Answer, Goto, Failed, SameKey
  <2>3. KeyHasOneHolder'
    BY <1>6 DEF TypeOK, KeyHasOneHolder, Holds, DuplicateKey, Answer, Goto, Failed, SameKey
  <2>4. RespondWithRow'
    BY <1>6 DEF TypeOK, RespondWithRow, DuplicateKey, Answer, Goto, Failed, SameKey
  <2>5. AnsweredIsDone'
    BY <1>6 DEF TypeOK, AnsweredIsDone, DuplicateKey, Answer, Goto, Failed, SameKey
  <2>6. AnswersMatchLedger'
    <3>1. ASSUME NEW b \in Attempts, b # a PROVE AnswerIsTrue(b)'
      BY <1>6, <2>1, <3>1, AnswerStaysTrue DEF DuplicateKey, Answer, Goto, TypeOK
    <3>2. AnswerIsTrue(a)'
      BY <1>6, ResponseIsTyped DEF DuplicateKey, Answer, Goto, TypeOK, AnswerIsTrue, RespondWithRow, RowsAreCommitted, SameKey
    <3> QED BY <3>1, <3>2 DEF AnswersMatchLedger
  <2>7. BalanceIsForCharge'
    BY <1>6 DEF TypeOK, BalanceIsForCharge, DuplicateKey, Answer, Goto
  <2> QED BY <2>1, <2>2, <2>3, <2>4, <2>5, <2>6, <2>7
<1>7. ASSUME NEW a \in Attempts, FindOne(a)
      PROVE  LedgerInv'
  <2>1. TypeOK'
    BY <1>7 DEF TypeOK, FindOne, Goto
  <2>2. RowsAreCommitted'
    BY <1>7 DEF TypeOK, RowsAreCommitted, FindOne, Goto
  <2>3. KeyHasOneHolder'
    BY <1>7 DEF TypeOK, KeyHasOneHolder, Holds, FindOne, Goto
  <2>4. RespondWithRow'
    BY <1>7 DEF TypeOK, RespondWithRow, FindOne, Goto
  <2>5. AnsweredIsDone'
    BY <1>7 DEF TypeOK, AnsweredIsDone, FindOne, Goto
  <2>6. AnswersMatchLedger'
    <3>1. ASSUME NEW b \in Attempts PROVE AnswerIsTrue(b)'
      BY <1>7, <2>1, AnswerStaysTrue DEF FindOne, TypeOK, RowsAreCommitted
    <3> QED BY <3>1 DEF AnswersMatchLedger
  <2>7. BalanceIsForCharge'
    BY <1>7 DEF TypeOK, BalanceIsForCharge, FindOne, Goto
  <2> QED BY <2>1, <2>2, <2>3, <2>4, <2>5, <2>6, <2>7
<1>8. ASSUME NEW a \in Attempts, Commit(a)
      PROVE  LedgerInv'
  <2>1. TypeOK'
    BY <1>8 DEF TypeOK, Commit, Goto
  <2>2. RowsAreCommitted'
    BY <1>8 DEF TypeOK, RowsAreCommitted, Commit, Goto
  <2>3. KeyHasOneHolder'
    BY <1>8 DEF TypeOK, KeyHasOneHolder, Holds, Commit, Goto
  <2>4. RespondWithRow'
    BY <1>8 DEF TypeOK, RespondWithRow, Commit, Goto
  <2>5. AnsweredIsDone'
    BY <1>8 DEF TypeOK, AnsweredIsDone, Commit, Goto
  <2>6. AnswersMatchLedger'
    <3>1. ASSUME NEW b \in Attempts PROVE AnswerIsTrue(b)'
      BY <1>8, <2>1, AnswerStaysTrue DEF Commit, TypeOK, RowsAreCommitted
    <3> QED BY <3>1 DEF AnswersMatchLedger
  <2>7. BalanceIsForCharge'
    BY <1>8 DEF TypeOK, BalanceIsForCharge, Commit, Goto
  <2> QED BY <2>1, <2>2, <2>3, <2>4, <2>5, <2>6, <2>7
<1>9. ASSUME NEW a \in Attempts, Respond(a)
      PROVE  LedgerInv'
  <2>1. TypeOK'
    BY <1>9, ResponseIsTyped DEF TypeOK, RespondWithRow, Respond, Answer, Goto
  <2>2. RowsAreCommitted'
    BY <1>9 DEF TypeOK, RowsAreCommitted, Respond, Answer, Goto, Ok
  <2>3. KeyHasOneHolder'
    BY <1>9 DEF TypeOK, KeyHasOneHolder, Holds, Respond, Answer, Goto, Ok
  <2>4. RespondWithRow'
    BY <1>9 DEF TypeOK, RespondWithRow, Respond, Answer, Goto, Ok
  <2>5. AnsweredIsDone'
    BY <1>9 DEF TypeOK, AnsweredIsDone, Respond, Answer, Goto, Ok
  <2>6. AnswersMatchLedger'
    <3>1. ASSUME NEW b \in Attempts, b # a PROVE AnswerIsTrue(b)'
      BY <1>9, <2>1, <3>1, AnswerStaysTrue DEF Respond, Answer, Goto, TypeOK
    <3>2. AnswerIsTrue(a)'
      BY <1>9, ResponseIsTyped DEF Respond, Answer, Goto, TypeOK, AnswerIsTrue, RespondWithRow, RowsAreCommitted, SameKey
    <3> QED BY <3>1, <3>2 DEF AnswersMatchLedger
  <2>7. BalanceIsForCharge'
    BY <1>9 DEF TypeOK, BalanceIsForCharge, Respond, Answer, Goto
  <2> QED BY <2>1, <2>2, <2>3, <2>4, <2>5, <2>6, <2>7
<1>10. ASSUME NEW a \in Attempts, Rollback(a)
      PROVE  LedgerInv'
  <2>1. TypeOK'
    BY <1>10 DEF TypeOK, Rollback, Goto
  <2>2. RowsAreCommitted'
    BY <1>10 DEF TypeOK, RowsAreCommitted, Rollback, Goto
  <2>3. KeyHasOneHolder'
    BY <1>10 DEF TypeOK, KeyHasOneHolder, Holds, Rollback, Goto
  <2>4. RespondWithRow'
    BY <1>10 DEF TypeOK, RespondWithRow, Rollback, Goto
  <2>5. AnsweredIsDone'
    BY <1>10 DEF TypeOK, AnsweredIsDone, Rollback, Goto
  <2>6. AnswersMatchLedger'
    <3>1. ASSUME NEW b \in Attempts PROVE AnswerIsTrue(b)'
      BY <1>10, <2>1, AnswerStaysTrue DEF Rollback, TypeOK, RowsAreCommitted
    <3> QED BY <3>1 DEF AnswersMatchLedger
  <2>7. BalanceIsForCharge'
    BY <1>10 DEF TypeOK, BalanceIsForCharge, Rollback, Goto
  <2> QED BY <2>1, <2>2, <2>3, <2>4, <2>5, <2>6, <2>7
<1>11. ASSUME NEW a \in Attempts, OrphanCommit(a)
      PROVE  LedgerInv'
  <2>1. TypeOK'
    BY <1>11 DEF TypeOK, OrphanCommit, Goto
  <2>2. RowsAreCommitted'
    BY <1>11 DEF TypeOK, RowsAreCommitted, OrphanCommit, Goto
  <2>3. KeyHasOneHolder'
    BY <1>11 DEF TypeOK, KeyHasOneHolder, Holds, OrphanCommit, Goto
  <2>4. RespondWithRow'
    BY <1>11 DEF TypeOK, RespondWithRow, OrphanCommit, Goto
  <2>5. AnsweredIsDone'
    BY <1>11 DEF TypeOK, AnsweredIsDone, OrphanCommit, Goto
  <2>6. AnswersMatchLedger'
    <3>1. ASSUME NEW b \in Attempts PROVE AnswerIsTrue(b)'
      BY <1>11, <2>1, AnswerStaysTrue DEF OrphanCommit, TypeOK, RowsAreCommitted
    <3> QED BY <3>1 DEF AnswersMatchLedger
  <2>7. BalanceIsForCharge'
    BY <1>11 DEF TypeOK, BalanceIsForCharge, OrphanCommit, Goto
  <2> QED BY <2>1, <2>2, <2>3, <2>4, <2>5, <2>6, <2>7
<1>12. ASSUME NEW a \in Attempts, DbError(a)
      PROVE  LedgerInv'
  <2>1. TypeOK'
    BY <1>12, AbandonedLabel, ResponseIsTyped DEF TypeOK, DbError, Goto
  <2>2. RowsAreCommitted'
    BY <1>12, AbandonedLabel DEF TypeOK, RowsAreCommitted, DbError, Goto, Failed
  <2>3. KeyHasOneHolder'
    BY <1>12, AbandonedLabel DEF TypeOK, KeyHasOneHolder, Holds, DbError, Goto, Failed
  <2>4. RespondWithRow'
    BY <1>12, AbandonedLabel DEF TypeOK, RespondWithRow, DbError, Goto, Failed
  <2>5. AnsweredIsDone'
    BY <1>12, AbandonedLabel, ResponseIsTyped DEF TypeOK, AnsweredIsDone, DbError, Goto
  <2>6. AnswersMatchLedger'
    <3>1. ASSUME NEW b \in Attempts, b # a PROVE AnswerIsTrue(b)'
      BY <1>12, <2>1, <3>1, AnswerStaysTrue DEF DbError, Goto, TypeOK
    <3>2. AnswerIsTrue(a)'
      BY <1>12, ResponseIsTyped DEF DbError, Goto, TypeOK, AnswerIsTrue, RespondWithRow, RowsAreCommitted, SameKey
    <3> QED BY <3>1, <3>2 DEF AnswersMatchLedger
  <2>7. BalanceIsForCharge'
    BY <1>12, AbandonedLabel DEF TypeOK, BalanceIsForCharge, DbError, Goto
  <2> QED BY <2>1, <2>2, <2>3, <2>4, <2>5, <2>6, <2>7
<1>13. ASSUME NEW p \in Pods, Crash(p)
      PROVE  LedgerInv'
  <2>1. TypeOK'
    BY <1>13, AbandonedLabel DEF TypeOK, Crash
  <2>2. RowsAreCommitted'
    BY <1>13, AbandonedLabel DEF TypeOK, RowsAreCommitted, Crash
  <2>3. KeyHasOneHolder'
    BY <1>13, AbandonedLabel DEF TypeOK, KeyHasOneHolder, Holds, Crash
  <2>4. RespondWithRow'
    BY <1>13, AbandonedLabel DEF TypeOK, RespondWithRow, Crash
  <2>5. AnsweredIsDone'
    BY <1>13, AbandonedLabel DEF TypeOK, AnsweredIsDone, Crash
  <2>6. AnswersMatchLedger'
    <3>1. ASSUME NEW b \in Attempts PROVE AnswerIsTrue(b)'
      BY <1>13, <2>1, AnswerStaysTrue DEF Crash, TypeOK, RowsAreCommitted
    <3> QED BY <3>1 DEF AnswersMatchLedger
  <2>7. BalanceIsForCharge'
    BY <1>13, AbandonedLabel DEF TypeOK, BalanceIsForCharge, Crash
  <2> QED BY <2>1, <2>2, <2>3, <2>4, <2>5, <2>6, <2>7
<1>14. ASSUME UNCHANGED vars
      PROVE  LedgerInv'
  <2>1. TypeOK'
    BY <1>14 DEF TypeOK, vars
  <2>2. RowsAreCommitted'
    BY <1>14 DEF TypeOK, RowsAreCommitted, vars
  <2>3. KeyHasOneHolder'
    BY <1>14 DEF TypeOK, KeyHasOneHolder, Holds, vars
  <2>4. RespondWithRow'
    BY <1>14 DEF TypeOK, RespondWithRow, vars
  <2>5. AnsweredIsDone'
    BY <1>14 DEF TypeOK, AnsweredIsDone, vars
  <2>6. AnswersMatchLedger'
    <3>1. ASSUME NEW b \in Attempts PROVE AnswerIsTrue(b)'
      BY <1>14, <2>1, AnswerStaysTrue DEF vars, TypeOK, RowsAreCommitted
    <3> QED BY <3>1 DEF AnswersMatchLedger
  <2>7. BalanceIsForCharge'
    BY <1>14 DEF TypeOK, BalanceIsForCharge, vars
  <2> QED BY <2>1, <2>2, <2>3, <2>4, <2>5, <2>6, <2>7
<1> QED
  BY <1>1, <1>2, <1>3, <1>4, <1>5, <1>6, <1>7, <1>8, <1>9, <1>10, <1>11, <1>12, <1>13, <1>14 DEF Next, Step, Proceed, Terminating

\* The invariant holds of every reachable state.
THEOREM LedgerInvariant == Spec => []LedgerInv
BY LedgerInvInit, LedgerInvNext, PTL DEF Spec

\* Type correctness: an id is answered only when the handler holds a row, and
\* a call has a request from its arrival on.
THEOREM TypeCorrect == Spec => []TypeOK
BY LedgerInvariant, PTL DEF LedgerInv

\* Whatever the calls, the pods, the crashes and the errors, no two committed
\* rows have the same idempotency key.
THEOREM MoneyMovesOnce == Spec => []AtMostOnce
<1>1. LedgerInv => AtMostOnce
  BY DEF LedgerInv, TypeOK, KeyHasOneHolder, Holds, AtMostOnce
<1> QED BY <1>1, LedgerInvariant, PTL

\* What a client has been told stays true: see AnswersMatchLedger.
THEOREM AnswersAreTrue == Spec => []AnswersMatchLedger
BY LedgerInvariant, PTL DEF LedgerInv

\* Clients that ask with the same key are never given two ids: the answer to a
\* retry, if it is an id, is the answer of the first call.
THEOREM OneIdForAKey ==
  Spec => [](\A a, b \in Attempts :
               /\ resp[a].kind = "ok" /\ resp[b].kind = "ok"
               /\ req[a].key = req[b].key
               => resp[a].row = resp[b].row)
<1>1. AtMostOnce /\ AnswersMatchLedger =>
        \A a, b \in Attempts :
          /\ resp[a].kind = "ok" /\ resp[b].kind = "ok"
          /\ req[a].key = req[b].key
          => resp[a].row = resp[b].row
  BY DEF AtMostOnce, AnswersMatchLedger, AnswerIsTrue
<1> QED BY <1>1, MoneyMovesOnce, AnswersAreTrue, PTL

\* When clients keep a key for one request, an id is that of a row that records
\* what was asked, although rows are looked up by key alone (findByIdempKey).
THEOREM IdsRecordTheRequest ==
  ASSUME \A q, r \in Requests : q.key = r.key => q = r
  PROVE  Spec => []OkRecordsTheRequest
<1>1. LedgerInv => OkRecordsTheRequest
  <2> SUFFICES ASSUME LedgerInv, NEW a \in Attempts, resp[a].kind = "ok"
               PROVE  req[resp[a].row] = req[a]
    BY DEF OkRecordsTheRequest
  <2>1. resp[a].row \in rows /\ req[resp[a].row].key = req[a].key
    BY DEF LedgerInv, AnswersMatchLedger, AnswerIsTrue
  <2>2. pc[a] = "done" /\ pc[resp[a].row] # "idle"
    BY <2>1 DEF LedgerInv, AnsweredIsDone, RowsAreCommitted
  <2>3. req[a] \in Requests /\ req[resp[a].row] \in Requests
    BY <2>1, <2>2 DEF LedgerInv, TypeOK
  <2> QED BY <2>1, <2>3
<1> QED BY <1>1, LedgerInvariant, PTL

-----------------------------------------------------------------------------
(***************************************************************************)
(* The retry of a recharge.  Once a key is recorded it stays recorded, and *)
(* a recharge with that key that has yet to begin finds it: it never comes *)
(* to its INSERT.                                                          *)
(***************************************************************************)
Retries(a, k) == req[a] # None /\ req[a].op = "recharge" /\ req[a].key = k

WillFind(a, k) ==
  /\ KeyPosted(k)
  /\ Retries(a, k) =>
       /\ pc[a] \in {"lookup", "respond", "done"}
       /\ resp[a].kind \in {"none", "dberror", "ok"}

\* What is recorded stays so, under the same key.
LEMMA PostedStays ==
  ASSUME LedgerInv, [Next]_vars, NEW k, KeyPosted(k)
  PROVE  KeyPosted(k)'
<1>1. \A r \in rows : r \in Attempts /\ pc[r] # "idle"
  BY DEF LedgerInv, TypeOK, RowsAreCommitted
<1>2. rows \subseteq rows' /\ \A r \in rows : req'[r] = req[r]
  <2>1. ASSUME NEW b \in Attempts, NEW p \in Pods, NEW q \in Requests, Arrive(b, p, q)
        PROVE  rows \subseteq rows' /\ \A r \in rows : req'[r] = req[r]
    BY <1>1, <2>1 DEF Arrive, LedgerInv, TypeOK
  <2>2. ASSUME NEW b \in Attempts, Step(b) \/ DbError(b) PROVE rows \subseteq rows' /\ req' = req
    BY <2>2
    DEF Step, Proceed, RejectCharge, ApproveCharge, FindByIdempKey, Insert, DuplicateKey, FindOne,
        Commit, Respond, Rollback, OrphanCommit, DbError, Answer
  <2>3. ASSUME NEW p \in Pods, Crash(p) PROVE rows' = rows /\ req' = req
    BY <2>3 DEF Crash
  <2>4. CASE UNCHANGED vars
    BY <2>4 DEF vars
  <2> QED BY <2>1, <2>2, <2>3, <2>4 DEF Next, Terminating
<1> QED BY <1>2 DEF KeyPosted

LEMMA WillFindNext ==
  ASSUME LedgerInv, [Next]_vars, NEW a \in Attempts, NEW k \in Keys, WillFind(a, k)
  PROVE  WillFind(a, k)'
<1>1. KeyPosted(k)'
  BY PostedStays DEF WillFind
<1> DEFINE Kept == /\ pc'[a] \in {"lookup", "respond", "done"}
                   /\ resp'[a].kind \in {"none", "dberror", "ok"}
<1> SUFFICES ASSUME Retries(a, k)' PROVE Kept
  BY <1>1 DEF WillFind
<1> USE DEF LedgerInv, TypeOK, Retries
<1>2. ASSUME NEW b \in Attempts, NEW p \in Pods, NEW q \in Requests, Arrive(b, p, q)
      PROVE  Kept
  <2>1. CASE b = a
    <3>1. pc'[a] = "lookup" /\ resp'[a] = resp[a] /\ pc[a] = "idle"
      BY <1>2, <2>1 DEF Arrive, Goto
    <3>2. resp[a] = NoResponse
      BY <3>1 DEF AnsweredIsDone
    <3> QED BY <3>1, <3>2 DEF NoResponse
  <2>2. CASE b # a
    BY <1>2, <2>2 DEF Arrive, Goto, WillFind
  <2> QED BY <2>1, <2>2
<1>3. ASSUME NEW b \in Attempts, b # a, Step(b) \/ DbError(b)
      PROVE  Kept
  <2>1. req' = req /\ pc'[a] = pc[a] /\ resp'[a] = resp[a]
    BY <1>3
    DEF Step, Proceed, RejectCharge, ApproveCharge, FindByIdempKey, Insert, DuplicateKey, FindOne,
        Commit, Respond, Rollback, OrphanCommit, DbError, Answer, Goto
  <2> QED BY <2>1 DEF WillFind
<1>4. ASSUME Step(a) PROVE Kept
  <2>1. req' = req
    BY <1>4
    DEF Step, Proceed, RejectCharge, ApproveCharge, FindByIdempKey, Insert, DuplicateKey, FindOne,
        Commit, Respond, Rollback, OrphanCommit, Answer
  <2>2. /\ pc[a] \in {"lookup", "respond", "done"} /\ req[a].op = "recharge"
        /\ resp[a].kind \in {"none", "dberror", "ok"}
    BY <2>1 DEF WillFind
  <2>3. CASE FindByIdempKey(a)
    <3>1. PICK r \in rows : req[r].key = k
      BY DEF WillFind, KeyPosted
    <3>2. r # a /\ req[r] # None
      BY <2>3, <3>1 DEF FindByIdempKey, RowsAreCommitted
    <3>3. rows \cap SameKey(a) # {}
      BY <2>1, <3>1, <3>2 DEF SameKey
    <3>4. pc' = [pc EXCEPT ![a] = "respond"] /\ resp' = resp
      BY <2>2, <2>3, <3>3 DEF FindByIdempKey, Goto
    <3> QED BY <2>2, <3>4
  <2>4. CASE Respond(a)
    <3>1. pc' = [pc EXCEPT ![a] = "done"] /\ resp' = [resp EXCEPT ![a] = Ok(walletTransaction[a])]
      BY <2>4 DEF Respond, Answer, Goto
    <3> QED BY <3>1 DEF Ok
  <2>5. FindByIdempKey(a) \/ Respond(a)
    BY <1>4, <2>2
    DEF Step, Proceed, RejectCharge, ApproveCharge, Insert, DuplicateKey, FindOne, Commit, Rollback,
        OrphanCommit
  <2> QED BY <2>3, <2>4, <2>5
<1>5. ASSUME DbError(a) PROVE Kept
  <2>1. pc[a] = "lookup"
    BY <1>5 DEF DbError, WillFind
  <2>2. pc' = [pc EXCEPT ![a] = "done"] /\ resp' = [resp EXCEPT ![a] = Failed("dberror")]
    BY <1>5, <2>1 DEF DbError, Goto, Abandoned
  <2> QED BY <2>2 DEF Failed
<1>6. ASSUME NEW p \in Pods, Crash(p) PROVE Kept
  <2>1. pc[a] \in {"lookup", "respond", "done"} /\ resp'[a] = resp[a]
    BY <1>6 DEF Crash, WillFind
  <2>2. pc'[a] \in {pc[a], "done"}
    BY <1>6, <2>1 DEF Crash, Abandoned
  <2> QED BY <1>6, <2>1, <2>2 DEF Crash, WillFind
<1>7. CASE UNCHANGED vars
  BY <1>7 DEF vars, WillFind
<1> QED BY <1>2, <1>3, <1>4, <1>5, <1>6, <1>7 DEF Next, Terminating

\* A recharge that begins when its key is recorded is never told of a duplicate
\* (the return of rechargeWallet).
THEOREM RechargesFindTheirRow == Spec => RechargeRetryIsAnswered
<1> SUFFICES ASSUME NEW a \in Attempts, NEW k \in Keys
             PROVE  Spec =>
                      [](pc[a] = "idle" /\ KeyPosted(k) =>
                           []((req[a] # None /\ req[a].op = "recharge" /\ req[a].key = k) =>
                                resp[a].kind \in {"none", "dberror", "ok"}))
  BY DEF RechargeRetryIsAnswered
<1>1. LedgerInv /\ pc[a] = "idle" /\ KeyPosted(k) => WillFind(a, k)
  BY DEF LedgerInv, TypeOK, WillFind, Retries
<1>2. LedgerInv /\ WillFind(a, k) /\ [Next]_vars => WillFind(a, k)'
  BY WillFindNext
<1>3. WillFind(a, k) =>
        ((req[a] # None /\ req[a].op = "recharge" /\ req[a].key = k) =>
           resp[a].kind \in {"none", "dberror", "ok"})
  BY DEF WillFind, Retries
<1> QED BY <1>1, <1>2, <1>3, LedgerInvariant, PTL DEF Spec

-----------------------------------------------------------------------------
(***************************************************************************)
(* What EveryCallEnds rests on beside fairness: a call never comes back to *)
(* a place where it was, and a call that waits for a lock waits for one    *)
(* that waits for nothing.                                                 *)
(***************************************************************************)
\* The steps a call still has before it, at most.
StepsLeft(label) ==
  CASE label = "idle"     -> 7
    [] label = "balance"  -> 6
    [] label = "lookup"   -> 5
    [] label = "insert"   -> 4
    [] label = "readback" -> 3
    [] label = "commit"   -> 2
    [] label = "done"     -> 0
    [] OTHER              -> 1

\* A step changes the place of a call only to one with fewer steps left.
Advances == \A a \in Attempts : pc'[a] = pc[a] \/ StepsLeft(pc'[a]) < StepsLeft(pc[a])

\* The handlers have no loop, and neither an error nor a crash starts one.
THEOREM CallsOnlyAdvance == Spec => [][Advances]_vars
<1>1. ASSUME LedgerInv, Next PROVE Advances
  <2> USE DEF Advances, Goto, Answer, StepsLeft
  <2>1. pc \in [Attempts -> Labels]
    BY <1>1 DEF LedgerInv, TypeOK
  <2>2. ASSUME NEW a \in Attempts, NEW p \in Pods, NEW q \in Requests, Arrive(a, p, q)
        PROVE  Advances
    BY <2>1, <2>2 DEF Arrive
  <2>3. ASSUME NEW a \in Attempts, RejectCharge(a) \/ ApproveCharge(a) PROVE Advances
    BY <2>1, <2>3 DEF RejectCharge, ApproveCharge
  <2>4. ASSUME NEW a \in Attempts, FindByIdempKey(a) PROVE Advances
    BY <2>1, <2>4 DEF FindByIdempKey
  <2>5. ASSUME NEW a \in Attempts,
               Insert(a) \/ DuplicateKey(a) \/ FindOne(a) \/ Commit(a) \/ Respond(a)
        PROVE  Advances
    BY <2>1, <2>5 DEF Insert, DuplicateKey, FindOne, Commit, Respond
  <2>6. ASSUME NEW a \in Attempts, Rollback(a) \/ OrphanCommit(a) PROVE Advances
    BY <2>1, <2>6 DEF Rollback, OrphanCommit
  <2>7. \A l \in Labels : Abandoned(l) = l \/ StepsLeft(Abandoned(l)) < StepsLeft(l)
    BY DEF Abandoned, Labels
  <2>8. ASSUME NEW a \in Attempts, DbError(a) PROVE Advances
    BY <2>1, <2>7, <2>8 DEF DbError
  <2>9. ASSUME NEW p \in Pods, Crash(p) PROVE Advances
    BY <2>1, <2>7, <2>9 DEF Crash
  <2>10. CASE Terminating
    BY <2>10 DEF Terminating, vars
  <2> QED BY <1>1, <2>2, <2>3, <2>4, <2>5, <2>6, <2>8, <2>9, <2>10 DEF Next, Step, Proceed
<1>2. LedgerInv /\ [Next]_vars => [Advances]_vars
  BY <1>1
<1> QED BY <1>2, LedgerInvariant, PTL DEF Spec

\* The calls whose uncommitted row an INSERT waits for.
WaitedFor(a) == {b \in SameKey(a) : pc[a] = "insert" /\ pc[b] \in Holding}

\* An INSERT waits for one transaction at a time, which itself waits for no
\* lock, and for none whose key is recorded: no circle of waits comes about.
THEOREM WaitsAreShort ==
  Spec => [](\A a \in Attempts :
               /\ \A b, c \in WaitedFor(a) : b = c
               /\ \A b \in WaitedFor(a) : WaitedFor(b) = {}
               /\ WaitedFor(a) # {} => rows \cap SameKey(a) = {})
<1>1. ASSUME LedgerInv, NEW a \in Attempts
      PROVE  /\ \A b, c \in WaitedFor(a) : b = c
             /\ \A b \in WaitedFor(a) : WaitedFor(b) = {}
             /\ WaitedFor(a) # {} => rows \cap SameKey(a) = {}
  <2>1. ASSUME NEW b \in WaitedFor(a), NEW c \in SameKey(a), Holds(c)
        PROVE  b = c
    BY <1>1, <2>1 DEF WaitedFor, SameKey, LedgerInv, KeyHasOneHolder, Holds
  <2>2. \A b, c \in WaitedFor(a) : b = c
    BY <2>1 DEF WaitedFor, Holds
  <2>3. \A b \in WaitedFor(a) : WaitedFor(b) = {}
    BY DEF WaitedFor, Holding
  <2>4. ASSUME NEW b \in WaitedFor(a), NEW c \in rows \cap SameKey(a) PROVE FALSE
    <3>1. b = c /\ pc[b] \in Holding
      BY <2>1 DEF Holds, WaitedFor
    <3> QED BY <1>1, <3>1 DEF LedgerInv, RowsAreCommitted, Holding
  <2> QED BY <2>2, <2>3, <2>4
<1>2. LedgerInv => \A a \in Attempts :
                     /\ \A b, c \in WaitedFor(a) : b = c
                     /\ \A b \in WaitedFor(a) : WaitedFor(b) = {}
                     /\ WaitedFor(a) # {} => rows \cap SameKey(a) = {}
  BY <1>1
<1> QED BY <1>2, LedgerInvariant, PTL

-----------------------------------------------------------------------------
(***************************************************************************)
(* The overdraft bound.  A charge is approved against the committed rows   *)
(* only, so every other charge that was approved and has not committed may *)
(* still be taken from the same balance.  Balance minus those amounts,     *)
(* Net(w), is what the approvals leave: only an approval lowers it, and it *)
(* never takes it below what the other calls in flight may have reserved.  *)
(***************************************************************************)
Pending(w) == SumFunctionOnSet(Amounts, Approved(w))

Net(w) == Balance(w) - Pending(w)

InFlightBound == Cardinality(InFlight) <= MaxInFlight

\* The sets of attempts the model counts and sums over are finite.
LEMMA AttemptSetsAreFinite ==
  ASSUME TypeOK
  PROVE  /\ IsFiniteSet(InFlight)
         /\ \A w \in Wallets : IsFiniteSet(RowsOf(w)) /\ IsFiniteSet(Approved(w))
<1>1. IsFiniteSet(Attempts)
  BY ConstantsAssumption
<1>2. \A S \in SUBSET Attempts : IsFiniteSet(S)
  BY <1>1, FS_Subset
<1>3. InFlight \in SUBSET Attempts
  BY DEF InFlight
<1>4. \A w \in Wallets : RowsOf(w) \in SUBSET Attempts /\ Approved(w) \in SUBSET Attempts
  BY DEF RowsOf, Approved, TypeOK
<1> QED BY <1>2, <1>3, <1>4

\* The terms of the sums.
LEMMA TermsAreTyped ==
  ASSUME TypeOK, NEW a \in Attempts
  PROVE  /\ Impacts[a] \in Int
         /\ Amounts[a] \in Nat /\ Amounts[a] <= MaxAmount
         /\ req[a] # None =>
              /\ Amounts[a] = req[a].amount
              /\ Impacts[a] = IF req[a].op = "recharge" THEN Amounts[a] ELSE 0 - Amounts[a]
<1>1. MaxAmount \in Nat
  BY ConstantsAssumption
<1>2. req[a] # None => req[a].amount \in 0 .. MaxAmount
  BY RequestIsTyped DEF TypeOK, RequestType
<1> QED BY <1>1, <1>2 DEF Impacts, Impact, Amounts

\* The sums are integers.
LEMMA SumsAreTyped ==
  TypeOK => \A w \in Wallets : Balance(w) \in Int /\ Pending(w) \in Int
<1> SUFFICES ASSUME TypeOK, NEW w \in Wallets
             PROVE  Balance(w) \in Int /\ Pending(w) \in Int
  OBVIOUS
<1>1. IntOn(Impacts, RowsOf(w)) /\ IntOn(Amounts, Approved(w))
  BY TermsAreTyped DEF IntOn, RowsOf, Approved, TypeOK
<1> QED BY <1>1, AttemptSetsAreFinite, SumRemove DEF Balance, Pending

\* So they are in the next state.
LEMMA NextSumsAreTyped ==
  (TypeOK => \A w \in Wallets : Balance(w) \in Int /\ Pending(w) \in Int)'
BY SumsAreTyped, PTL

\* A step that makes no row and approves no charge does not lower Net(w).
LEMMA NetKept ==
  ASSUME TypeOK, TypeOK', NEW w \in Wallets,
         RowsOf(w)' = RowsOf(w), Approved(w)' \subseteq Approved(w),
         \A a \in RowsOf(w) \cup Approved(w)' : req'[a] = req[a]
  PROVE  Net(w)' >= Net(w)
<1>1. Balance(w)' = Balance(w)
  <2>1. Agree(Impacts', Impacts, RowsOf(w))
    BY DEF Agree, Impacts, RowsOf, TypeOK
  <2>2. SumFunctionOnSet(Impacts', RowsOf(w)) = SumFunctionOnSet(Impacts, RowsOf(w))
    BY <2>1, AttemptSetsAreFinite, SumCong
  <2> QED BY <2>2 DEF Balance
<1>2. Pending(w)' <= Pending(w)
  <2>1. Agree(Amounts', Amounts, Approved(w)')
    BY DEF Agree, Amounts, Approved
  <2>2. IsFiniteSet(Approved(w)) /\ IsFiniteSet(Approved(w)')
    BY AttemptSetsAreFinite, FS_Subset
  <2>3. Pending(w)' = SumFunctionOnSet(Amounts, Approved(w)')
    BY <2>1, <2>2, SumCong DEF Pending
  <2>4. \A a \in Approved(w) : Amounts[a] \in Nat
    BY TermsAreTyped DEF Approved
  <2>5. SumFunctionOnSet(Amounts, Approved(w)') <= SumFunctionOnSet(Amounts, Approved(w))
    BY <2>2, <2>4, SumMonotone
  <2> QED BY <2>3, <2>5 DEF Pending
<1>3. Balance(w) \in Int /\ Pending(w) \in Int
  BY SumsAreTyped
<1>4. Pending(w)' \in Int
  BY NextSumsAreTyped
<1> QED BY <1>1, <1>2, <1>3, <1>4 DEF Net

\* A commit adds the impact of its row to the balance.
LEMMA CommitAddsImpact ==
  ASSUME TypeOK, NEW a \in Attempts, a \notin rows, rows' = rows \cup {a}, req' = req,
         NEW w \in Wallets, w = req[a].wallet
  PROVE  Balance(w)' = Impacts[a] + Balance(w)
<1>1. RowsOf(w)' = RowsOf(w) \cup {a} /\ a \notin RowsOf(w) /\ Impacts' = Impacts
  BY DEF RowsOf, Impacts, TypeOK
<1>2. IntOn(Impacts, RowsOf(w) \cup {a})
  BY TermsAreTyped DEF IntOn, RowsOf, TypeOK
<1>3. SumFunctionOnSet(Impacts, RowsOf(w) \cup {a})
        = Impacts[a] + SumFunctionOnSet(Impacts, RowsOf(w))
  BY <1>1, <1>2, AttemptSetsAreFinite, SumAdd
<1> QED BY <1>1, <1>3 DEF Balance

\* A commit takes from the balance what the approval had reserved.
LEMMA NetCommit ==
  ASSUME LedgerInv, TypeOK', NEW a \in Attempts, pc[a] \in {"commit", "orphan"},
         pc'[a] \in {"respond", "done"},
         \A b \in Attempts \ {a} : pc'[b] = pc[b],
         rows' = rows \cup {a}, req' = req,
         NEW w \in Wallets
  PROVE  Net(w)' >= Net(w)
<1> USE DEF LedgerInv
<1> DEFINE v == req[a].wallet
<1>1. a \notin rows /\ req[a] # None
  BY DEF RowsAreCommitted, TypeOK
<1>2. Impacts' = Impacts /\ Amounts' = Amounts
  BY DEF Impacts, Amounts
<1>3. Approved(w)' = Approved(w) \ {a}
  BY DEF Approved
<1>4. CASE w # v
  <2>1. RowsOf(w)' = RowsOf(w)
    BY <1>4 DEF RowsOf, TypeOK
  <2> QED BY <1>3, <2>1, NetKept
<1>5. CASE w = v
  <2>2. Balance(w)' = Impacts[a] + Balance(w)
    BY <1>1, <1>5, CommitAddsImpact
  <2>3. Balance(w) \in Int /\ Pending(w) \in Int
    BY SumsAreTyped
  <2>4. CASE req[a].op = "recharge"
    <3>1. a \notin Approved(w) /\ Impacts[a] \in Nat
      BY <1>1, <2>4, TermsAreTyped DEF Approved
    <3>2. Pending(w)' = Pending(w)
      <4>1. Approved(w)' = Approved(w)
        BY <1>3, <3>1
      <4> QED BY <1>2, <4>1 DEF Pending
    <3> QED BY <2>2, <2>3, <3>1, <3>2 DEF Net
  <2>5. CASE req[a].op # "recharge"
    <3>1. a \in Approved(w)
      BY <1>1, <1>5, <2>5, RequestIsTyped DEF Approved, TypeOK, RequestType
    <3>2. Pending(w) = Amounts[a] + Pending(w)'
      <4>1. IntOn(Amounts, Approved(w))
        BY TermsAreTyped DEF IntOn, Approved
      <4>2. Pending(w) = Amounts[a] + SumFunctionOnSet(Amounts, Approved(w) \ {a})
        BY <3>1, <4>1, AttemptSetsAreFinite, SumRemove DEF Pending
      <4> QED BY <1>2, <1>3, <4>2 DEF Pending
    <3>3. Impacts[a] = 0 - Amounts[a] /\ Amounts[a] \in Nat
      BY <1>1, <2>5, TermsAreTyped
    <3>4. Pending(w)' \in Int
      BY NextSumsAreTyped
    <3> QED BY <2>2, <2>3, <3>2, <3>3, <3>4 DEF Net
  <2> QED BY <2>4, <2>5
<1> QED BY <1>4, <1>5

\* An approval leaves at least minus what was reserved before it.
LEMMA NetApprove ==
  ASSUME LedgerInv, TypeOK', NEW a \in Attempts, ApproveCharge(a),
         NEW w \in Wallets, w = req[a].wallet
  PROVE  /\ Approved(w)' = Approved(w) \cup {a} /\ a \notin Approved(w)
         /\ pc[a] = "balance"
         /\ Net(w)' >= 0 - Pending(w)
<1> USE DEF LedgerInv
<1>1. /\ pc[a] = "balance" /\ req[a] # None /\ req[a].op = "charge"
      /\ req' = req /\ rows' = rows /\ pc' = [pc EXCEPT ![a] = "lookup"]
      /\ req[a].amount <= Balance(w)
  BY DEF ApproveCharge, Goto, TypeOK, BalanceIsForCharge
<1>2. Impacts' = Impacts /\ Amounts' = Amounts /\ RowsOf(w)' = RowsOf(w)
  BY <1>1 DEF Impacts, Amounts, RowsOf
<1>3. Approved(w)' = Approved(w) \cup {a} /\ a \notin Approved(w)
  BY <1>1 DEF Approved, TypeOK
<1>4. Amounts[a] = req[a].amount /\ Amounts[a] \in Nat
  BY <1>1, TermsAreTyped
<1>5. Balance(w) \in Int /\ Pending(w) \in Int
  BY SumsAreTyped
<1>6. Balance(w)' = Balance(w)
  BY <1>2 DEF Balance
<1>7. Pending(w)' = Amounts[a] + Pending(w)
  <2>1. IntOn(Amounts, Approved(w) \cup {a})
    BY TermsAreTyped DEF IntOn, Approved
  <2>2. SumFunctionOnSet(Amounts, Approved(w) \cup {a}) = Amounts[a] + Pending(w)
    BY <1>3, <2>1, AttemptSetsAreFinite, SumAdd DEF Pending
  <2> QED BY <1>2, <1>3, <2>2 DEF Pending
<1> QED BY <1>1, <1>3, <1>4, <1>5, <1>6, <1>7 DEF Net

\* A call that is not approved yet leaves room for all the others in flight.
LEMMA PendingAtMost ==
  ASSUME TypeOK, InFlightBound, NEW w \in Wallets,
         NEW a \in InFlight, a \notin Approved(w)
  PROVE  Pending(w) <= MaxAmount * (MaxInFlight - 1)
<1> DEFINE n == Cardinality(Approved(w))
<1>1. n \in Nat /\ n <= MaxInFlight - 1
  <2>1. Approved(w) \subseteq InFlight \ {a}
    BY DEF Approved, InFlight
  <2>2. IsFiniteSet(InFlight \ {a}) /\ Cardinality(InFlight \ {a}) = Cardinality(InFlight) - 1
    BY AttemptSetsAreFinite, FS_RemoveElement
  <2>3. n <= Cardinality(InFlight \ {a}) /\ n \in Nat
    BY <2>1, <2>2, FS_Subset, FS_CardinalityType, AttemptSetsAreFinite
  <2>4. Cardinality(InFlight) \in Nat /\ MaxInFlight \in Nat
    BY AttemptSetsAreFinite, FS_CardinalityType, ConstantsAssumption
  <2> QED BY <2>2, <2>3, <2>4 DEF InFlightBound
<1>2. MaxAmount \in Nat /\ MaxInFlight - 1 \in Nat
  BY ConstantsAssumption
<1>3. IntOn(Amounts, Approved(w)) /\ \A b \in Approved(w) : Amounts[b] <= MaxAmount
  BY TermsAreTyped DEF IntOn, Approved
<1>4. Pending(w) <= MaxAmount * n
  BY <1>2, <1>3, AttemptSetsAreFinite, SumAtMost DEF Pending
<1>5. MaxAmount * n <= MaxAmount * (MaxInFlight - 1)
  <2> HIDE DEF n
  <2>1. \A i, j, m \in Nat : i <= j => m * i <= m * j
    OBVIOUS
  <2> QED BY <1>1, <1>2, <2>1
<1>6. MaxAmount * n \in Int /\ MaxAmount * (MaxInFlight - 1) \in Int /\ Pending(w) \in Int
  BY <1>1, <1>2, SumsAreTyped
<1> QED BY <1>4, <1>5, <1>6

\* Only an arrival adds a call in flight, and not beyond the bound.
LEMMA InFlightNext ==
  ASSUME LedgerInv, LedgerInv', InFlightBound, Next
  PROVE  InFlightBound'
<1> USE DEF LedgerInv
<1>1. IsFiniteSet(InFlight) /\ Cardinality(InFlight) \in Nat /\ MaxInFlight \in Nat
  BY AttemptSetsAreFinite, FS_CardinalityType, ConstantsAssumption
<1>2. ASSUME InFlight' \subseteq InFlight PROVE InFlightBound'
  <2>1. Cardinality(InFlight') <= Cardinality(InFlight) /\ Cardinality(InFlight') \in Nat
    BY <1>1, <1>2, FS_Subset, FS_CardinalityType
  <2> QED BY <1>1, <2>1 DEF InFlightBound
<1>3. ASSUME NEW a \in Attempts, NEW p \in Pods, NEW q \in Requests, Arrive(a, p, q)
      PROVE  InFlightBound'
  <2>1. InFlight' = InFlight \cup {a} /\ a \notin InFlight
    BY <1>3 DEF Arrive, Goto, InFlight, TypeOK
  <2>2. Cardinality(InFlight') = Cardinality(InFlight) + 1
    BY <1>1, <2>1, FS_AddElement
  <2> QED BY <1>1, <1>3, <2>2 DEF Arrive, InFlightBound
<1>4. ASSUME NEW a \in Attempts, Step(a)
      PROVE  InFlight' \subseteq InFlight
  BY <1>4 DEF Step, Proceed, RejectCharge, ApproveCharge, FindByIdempKey, Insert, DuplicateKey,
     FindOne, Commit, Respond, Rollback, OrphanCommit, Answer, Goto, InFlight, TypeOK
<1>5. ASSUME NEW a \in Attempts, DbError(a)
      PROVE  InFlight' \subseteq InFlight
  BY <1>5 DEF DbError, Goto, InFlight, TypeOK
<1>6. ASSUME NEW p \in Pods, Crash(p)
      PROVE  InFlight' \subseteq InFlight
  BY <1>6, AbandonedLabel DEF Crash, InFlight, TypeOK
<1>7. CASE Terminating
  BY <1>7, <1>2 DEF Terminating, vars, InFlight
<1> QED BY <1>2, <1>3, <1>4, <1>5, <1>6, <1>7 DEF Next

\* Only the approval of a charge of the wallet lowers what is left of it.
LEMMA NetNext ==
  ASSUME LedgerInv, LedgerInv', Next, NEW w \in Wallets
  PROVE  \/ Net(w)' >= Net(w)
         \/ \E a \in Attempts : ApproveCharge(a) /\ w = req[a].wallet
<1> USE DEF LedgerInv
<1> SUFFICES ASSUME \A a \in Attempts : ApproveCharge(a) => w # req[a].wallet
             PROVE  Net(w)' >= Net(w)
  OBVIOUS
<1>3. ASSUME NEW a \in Attempts, NEW p \in Pods, NEW q \in Requests, Arrive(a, p, q)
      PROVE  Net(w)' >= Net(w)
  <2>1. a \notin rows /\ pc[a] = "idle" /\ \A b \in Attempts \ {a} : req'[b] = req[b] /\ pc'[b] = pc[b]
    BY <1>3 DEF Arrive, Goto, RowsAreCommitted, TypeOK
  <2>2. rows' = rows /\ req'[a] = q /\ pc'[a] = (IF q.op = "charge" THEN "balance" ELSE "lookup")
    BY <1>3 DEF Arrive, Goto, TypeOK
  <2>3. RowsOf(w)' = RowsOf(w) /\ \A b \in RowsOf(w) : req'[b] = req[b]
    BY <2>1, <2>2 DEF RowsOf, TypeOK
  <2>4. Approved(w)' \subseteq Approved(w) /\ a \notin Approved(w)'
    BY <2>1, <2>2 DEF Approved
  <2>5. \A b \in Approved(w)' : req'[b] = req[b]
    BY <2>1, <2>4 DEF Approved
  <2> QED BY <2>3, <2>4, <2>5, NetKept
<1>4. ASSUME rows' = rows, req' = req,
             \A a \in Attempts :
                pc'[a] \in {"lookup", "insert", "readback", "commit", "orphan"} =>
                  pc[a] \in {"lookup", "insert", "readback", "commit", "orphan"}
      PROVE  Net(w)' >= Net(w)
  <2>1. RowsOf(w)' = RowsOf(w) /\ Approved(w)' \subseteq Approved(w)
    BY <1>4 DEF RowsOf, Approved
  <2> QED BY <1>4, <2>1, NetKept
<1>5. ASSUME NEW a \in Attempts, ApproveCharge(a), w # req[a].wallet
      PROVE  Net(w)' >= Net(w)
  <2>1. RowsOf(w)' = RowsOf(w) /\ Approved(w)' \subseteq Approved(w) /\ req' = req
    BY <1>5 DEF ApproveCharge, Goto, RowsOf, Approved, TypeOK
  <2> QED BY <2>1, NetKept
<1>6. ASSUME NEW a \in Attempts, Commit(a) \/ OrphanCommit(a)
      PROVE  Net(w)' >= Net(w)
  <2>1. /\ pc[a] \in {"commit", "orphan"} /\ pc'[a] \in {"respond", "done"}
        /\ \A b \in Attempts \ {a} : pc'[b] = pc[b]
        /\ rows' = rows \cup {a} /\ req' = req
    BY <1>6 DEF Commit, OrphanCommit, Goto, TypeOK
  <2> QED BY <2>1, NetCommit
<1>7. ASSUME NEW a \in Attempts,
             \/ RejectCharge(a) \/ FindByIdempKey(a) \/ Insert(a) \/ DuplicateKey(a)
             \/ FindOne(a) \/ Respond(a) \/ Rollback(a)
      PROVE  Net(w)' >= Net(w)
  BY <1>4, <1>7 DEF RejectCharge, FindByIdempKey, Insert, DuplicateKey, FindOne, Respond,
     Rollback, Answer, Goto, TypeOK
<1>8. ASSUME NEW a \in Attempts, DbError(a)
      PROVE  Net(w)' >= Net(w)
  BY <1>4, <1>8 DEF DbError, Abandoned, Goto, TypeOK
<1>9. ASSUME NEW p \in Pods, Crash(p)
      PROVE  Net(w)' >= Net(w)
  BY <1>4, <1>9 DEF Crash, Abandoned, TypeOK
<1>10. CASE Terminating
  BY <1>4, <1>10 DEF Terminating, vars
<1> QED
  BY <1>3, <1>5, <1>6, <1>7, <1>8, <1>9, <1>10 DEF Next, Step, Proceed

\* A step keeps every wallet above the floor.
LEMMA OverdraftNext ==
  ASSUME LedgerInv, LedgerInv', InFlightBound, OverdraftBound, Next
  PROVE  OverdraftBound'
<1> USE DEF LedgerInv
<1> DEFINE floor == 0 - MaxAmount * (MaxInFlight - 1)
<1> SUFFICES ASSUME NEW w \in Wallets PROVE Net(w)' >= floor
  BY DEF OverdraftBound, Net, Pending
<1>1. /\ floor \in Int /\ Net(w) \in Int /\ Net(w)' \in Int
      /\ Net(w) >= floor
  BY SumsAreTyped, NextSumsAreTyped, ConstantsAssumption DEF OverdraftBound, Net, Pending
<1>2. ASSUME NEW a \in Attempts, ApproveCharge(a), w = req[a].wallet
      PROVE  Net(w)' >= floor
  <2>1. a \in InFlight /\ a \notin Approved(w) /\ Net(w)' >= 0 - Pending(w)
    BY <1>2, NetApprove DEF InFlight
  <2>2. Pending(w) <= 0 - floor
    <3>1. Pending(w) <= MaxAmount * (MaxInFlight - 1)
      BY <2>1, PendingAtMost
    <3>2. MaxAmount * (MaxInFlight - 1) \in Int
      BY ConstantsAssumption
    <3> QED BY <3>1, <3>2
  <2>3. Pending(w) \in Int
    BY SumsAreTyped
  <2> HIDE DEF floor
  <2> QED BY <1>1, <2>1, <2>2, <2>3
<1> HIDE DEF floor
<1>3. CASE Net(w)' >= Net(w)
  BY <1>1, <1>3
<1> QED BY <1>2, <1>3, NetNext

\* Charges that race overdraw a wallet by at most the amounts of all but one
\* of the calls in flight.
THEOREM OverdraftIsBounded == Spec => []OverdraftBound
<1>1. Init => LedgerInv /\ InFlightBound /\ OverdraftBound
  <2> SUFFICES ASSUME Init PROVE InFlightBound /\ OverdraftBound
    BY LedgerInvInit
  <2>1. InFlight = {} /\ \A w \in Wallets : RowsOf(w) = {} /\ Approved(w) = {}
    BY DEF Init, InFlight, RowsOf, Approved
  <2>2. \A w \in Wallets : Balance(w) = 0 /\ SumFunctionOnSet(Amounts, Approved(w)) = 0
    BY <2>1, SumEmpty DEF Balance
  <2>3. MaxAmount * (MaxInFlight - 1) \in Nat /\ MaxInFlight \in Nat
    BY ConstantsAssumption
  <2>4. OverdraftBound
    BY <2>2, <2>3 DEF OverdraftBound
  <2>5. InFlightBound
    BY <2>1, <2>3, FS_EmptySet DEF InFlightBound
  <2> QED BY <2>4, <2>5
<1>2. LedgerInv /\ InFlightBound /\ OverdraftBound /\ [Next]_vars
        => (LedgerInv /\ InFlightBound /\ OverdraftBound)'
  <2> SUFFICES ASSUME LedgerInv, InFlightBound, OverdraftBound, [Next]_vars
               PROVE  (LedgerInv /\ InFlightBound /\ OverdraftBound)'
    OBVIOUS
  <2>1. LedgerInv'
    BY LedgerInvNext
  <2>2. CASE Next
    BY <2>1, <2>2, InFlightNext, OverdraftNext
  <2>3. CASE UNCHANGED vars
    BY <2>1, <2>3 DEF vars, InFlightBound, InFlight, OverdraftBound, Balance, RowsOf,
       Impacts, Approved, Amounts
  <2> QED BY <2>2, <2>3
<1> QED BY <1>1, <1>2, PTL DEF Spec

\* What is approved is never negative.
LEMMA PendingIsNatural ==
  ASSUME TypeOK, NEW w \in Wallets
  PROVE  Pending(w) >= 0 /\ (Approved(w) = {} => Pending(w) = 0)
<1>1. \A a \in Approved(w) : Amounts[a] \in Nat
  BY TermsAreTyped DEF Approved
<1>2. SumFunctionOnSet(Amounts, {}) <= Pending(w)
  BY <1>1, AttemptSetsAreFinite, SumMonotone DEF Pending
<1>3. Pending(w) \in Int
  BY SumsAreTyped
<1> QED BY <1>2, <1>3, SumEmpty DEF Pending

\* A balance falls below zero only in a wallet two charges of which were past
\* the comparison with its balance at once: no crash, error, lost COMMIT,
\* retry, recharge or call of another wallet overdraws it (chargeWallet).
THEOREM OverdraftNeedsARace ==
  ASSUME NEW w \in Wallets
  PROVE  Spec => (<>(Balance(w) < 0) => <>Racing(w))
<1>1. Init => Net(w) >= 0
  <2> SUFFICES ASSUME Init PROVE Net(w) >= 0
    OBVIOUS
  <2>1. RowsOf(w) = {} /\ Approved(w) = {}
    BY DEF Init, RowsOf, Approved
  <2> QED BY <2>1, SumEmpty DEF Net, Balance, Pending
<1>2. LedgerInv /\ LedgerInv' /\ Net(w) >= 0 /\ [Next]_vars /\ (~Racing(w))' => (Net(w) >= 0)'
  <2> SUFFICES ASSUME LedgerInv, LedgerInv', Net(w) >= 0, [Next]_vars, ~Racing(w)'
               PROVE  Net(w)' >= 0
    OBVIOUS
  <2>1. Net(w) \in Int /\ Net(w)' \in Int
    BY SumsAreTyped, NextSumsAreTyped DEF LedgerInv, Net
  <2>2. ASSUME NEW a \in Attempts, ApproveCharge(a), w = req[a].wallet
        PROVE  Net(w)' >= 0
    <3>1. /\ Approved(w)' = Approved(w) \cup {a} /\ a \notin Approved(w)
          /\ Net(w)' >= 0 - Pending(w)
      BY <2>2, NetApprove DEF LedgerInv
    <3>2. Approved(w) = {}
      BY <3>1 DEF Racing
    <3> QED BY <3>1, <3>2, PendingIsNatural DEF LedgerInv
  <2>3. CASE Next /\ Net(w)' >= Net(w)
    BY <2>1, <2>3
  <2>4. CASE UNCHANGED vars
    BY <2>4 DEF vars, Net, Balance, RowsOf, Impacts, Pending, Approved, Amounts
  <2> QED BY <2>2, <2>3, <2>4, NetNext
<1>3. LedgerInv /\ Net(w) >= 0 => ~(Balance(w) < 0)
  <2> SUFFICES ASSUME LedgerInv, Net(w) >= 0 PROVE ~(Balance(w) < 0)
    OBVIOUS
  <2>1. Balance(w) \in Int /\ Pending(w) \in Int /\ Pending(w) >= 0
    BY SumsAreTyped, PendingIsNatural DEF LedgerInv
  <2> QED BY <2>1 DEF Net
<1> QED BY <1>1, <1>2, <1>3, LedgerInvariant, PTL DEF Spec

-----------------------------------------------------------------------------
(***************************************************************************)
(* The handlers implement the idempotent ledger.                           *)
(***************************************************************************)
\* The entry of a key is its only row.
LEMMA EntryIsTheRow ==
  LedgerInv => \A r \in rows : EntryOf(req[r].key) = r
<1> SUFFICES ASSUME LedgerInv, NEW r \in rows PROVE EntryOf(req[r].key) = r
  OBVIOUS
<1> USE DEF LedgerInv
<1>1. r \in Attempts /\ KeyPosted(req[r].key)
  BY DEF TypeOK, KeyPosted
<1>2. PICK s \in rows : s = EntryOf(req[r].key) /\ req[s].key = req[r].key
  BY <1>1 DEF EntryOf, KeyPosted
<1>3. s = r
  BY <1>1, <1>2 DEF KeyHasOneHolder, Holds, TypeOK
<1> QED BY <1>1, <1>2, <1>3

\* So it is in the next state.
LEMMA NextEntryIsTheRow ==
  (LedgerInv => \A r \in rows : EntryOf(req[r].key) = r)'
BY EntryIsTheRow, PTL

\* An entry names a row of its key.
LEMMA EntryHasItsKey ==
  ASSUME LedgerInv, NEW k \in Keys
  PROVE  /\ EntryOf(k) # None => EntryOf(k) \in rows /\ req[EntryOf(k)].key = k
         /\ EntryOf(k) = None => ~ KeyPosted(k)
<1>1. None \notin rows
  BY RequestIsTyped DEF LedgerInv, TypeOK
<1> QED BY <1>1 DEF EntryOf, KeyPosted

\* A step that keeps the rows and their requests keeps the entries.
LEMMA EntryKept ==
  ASSUME rows' = rows, \A r \in rows : req'[r] = req[r], NEW k \in Keys
  PROVE  EntryOf(k)' = EntryOf(k)
<1>1. KeyPosted(k)' = KeyPosted(k)
  BY DEF KeyPosted
<1>2. CASE KeyPosted(k)
  <2>1. (CHOOSE r \in rows' : req'[r].key = k) = (CHOOSE r \in rows : req[r].key = k)
    OBVIOUS
  <2>2. EntryOf(k)' = CHOOSE r \in rows' : req'[r].key = k
    BY <1>1, <1>2, Zenon DEF EntryOf
  <2>3. EntryOf(k) = CHOOSE r \in rows : req[r].key = k
    BY <1>2, Zenon DEF EntryOf
  <2> QED BY <2>1, <2>2, <2>3, Zenon
<1>3. CASE ~ KeyPosted(k)
  BY <1>1, <1>3 DEF EntryOf
<1> QED BY <1>2, <1>3

Entries == [k \in Keys |-> EntryOf(k)]

\* The initial states map to the empty ledger.
LEMMA LedgerInit == Init => Ledger!Init
<1> SUFFICES ASSUME Init PROVE Ledger!Init
  OBVIOUS
<1>1. \A k \in Keys : EntryOf(k) = None
  BY DEF Init, EntryOf, KeyPosted
<1> QED BY <1>1 DEF Init, Ledger!Init, Ledger!Unanswered, NoResponse

\* A step that answers nothing and makes no row maps to a stutter.
LEMMA LedgerStutter ==
  ASSUME req' = req, rows' = rows, resp' = resp
  PROVE  UNCHANGED Ledger!vars
<1>1. \A k \in Keys : EntryOf(k)' = EntryOf(k)
  BY EntryKept
<1> QED BY <1>1 DEF Ledger!vars

\* A commit maps to the posting of the key's entry.
LEMMA LedgerPost ==
  ASSUME LedgerInv, LedgerInv', NEW a \in Attempts, pc[a] \in {"commit", "orphan"},
         rows' = rows \cup {a}, req' = req, resp' = resp
  PROVE  Ledger!Post(a)
<1> USE DEF LedgerInv
<1> DEFINE ka == req[a].key
<1>1. a \notin rows /\ req[a] # None /\ ka \in Keys
  BY RequestIsTyped DEF RowsAreCommitted, TypeOK, RequestType
<1>2. resp[a].kind \in {"none", "dberror"}
  BY DEF AnsweredIsDone
<1>3. EntryOf(ka) = None
  <2>1. ~ KeyPosted(ka)
    BY <1>1 DEF KeyPosted, KeyHasOneHolder, Holds, Holding, TypeOK
  <2> QED BY <2>1 DEF EntryOf
<1>4. EntryOf(ka)' = a
  BY NextEntryIsTheRow
<1>5. ASSUME NEW k \in Keys, k # ka PROVE EntryOf(k)' = EntryOf(k)
  <2>1. CASE KeyPosted(k)
    <3>1. PICK r \in rows : req[r].key = k
      BY <2>1 DEF KeyPosted
    <3>2. EntryOf(k) = r
      BY <3>1, EntryIsTheRow
    <3>3. EntryOf(k)' = r
      BY <3>1, NextEntryIsTheRow
    <3> QED BY <3>2, <3>3
  <2>2. CASE ~ KeyPosted(k)
    BY <1>5, <2>2 DEF EntryOf, KeyPosted
  <2> QED BY <2>1, <2>2
<1>6. Entries' = [Entries EXCEPT ![ka] = a]
  BY <1>1, <1>4, <1>5 DEF Entries
<1> HIDE DEF ka
<1>7. ka = req[a].key
  BY DEF ka
<1> QED BY <1>1, <1>2, <1>3, <1>6, <1>7 DEF Ledger!Post, Entries

\* Every step maps to a step of the ledger or to a stutter.
LEMMA LedgerNext ==
  ASSUME LedgerInv, LedgerInv', [Next]_vars
  PROVE  [Ledger!Next]_Ledger!vars
<1> USE DEF LedgerInv
<1>1. ASSUME NEW a \in Attempts, NEW p \in Pods, NEW q \in Requests, Arrive(a, p, q)
      PROVE  Ledger!Ask(a, q)
  <2>1. a \notin rows /\ req[a] = None /\ req' = [req EXCEPT ![a] = q]
        /\ rows' = rows /\ resp' = resp
    BY <1>1 DEF Arrive, RowsAreCommitted, TypeOK
  <2>2. \A k \in Keys : EntryOf(k)' = EntryOf(k)
    BY <2>1, EntryKept DEF TypeOK
  <2> QED BY <2>1, <2>2 DEF Ledger!Ask
<1>2. ASSUME NEW a \in Attempts, pc[a] \notin {"aborting", "orphan", "done"}, pc[a] # "idle",
             req' = req, rows' = rows
      PROVE  Ledger!Open(a) /\ Entries' = Entries /\ req[a].key \in Keys
  <2>1. \A k \in Keys : EntryOf(k)' = EntryOf(k)
    BY <1>2, EntryKept
  <2>2. req[a] # None /\ req[a].key \in Keys
    BY <1>2, RequestIsTyped DEF TypeOK, RequestType
  <2> QED BY <1>2, <2>1, <2>2
      DEF Entries, Ledger!Open, Ledger!Unanswered, NoResponse, AnsweredIsDone
<1>3. ASSUME NEW a \in Attempts, RejectCharge(a)
      PROVE  Ledger!Reject(a)
  <2>1. req' = req /\ rows' = rows /\ req[a].op = "charge" /\ a \notin rows
        /\ resp' = [resp EXCEPT ![a] = [kind |-> "insufficient", row |-> None]]
    BY <1>3 DEF RejectCharge, Answer, Failed, BalanceIsForCharge, RowsAreCommitted
  <2>2. Ledger!Open(a) /\ Entries' = Entries /\ req[a].key \in Keys
    BY <1>2, <1>3, <2>1 DEF RejectCharge
  <2>3. EntryOf(req[a].key) # a
    BY <2>1, <2>2, RequestIsTyped, EntryHasItsKey
  <2> QED BY <2>1, <2>2, <2>3 DEF Ledger!Reject, Entries
<1>4. ASSUME NEW a \in Attempts, DuplicateKey(a)
      PROVE  Ledger!Refuse(a)
  <2>1. req' = req /\ rows' = rows
        /\ resp' = [resp EXCEPT ![a] = [kind |-> "duplicate", row |-> None]]
    BY <1>4 DEF DuplicateKey, Answer, Failed
  <2>2. Ledger!Open(a) /\ Entries' = Entries /\ req[a].key \in Keys
    BY <1>2, <1>4, <2>1 DEF DuplicateKey
  <2>3. PICK r \in rows : r # a /\ req[r].key = req[a].key /\ r \in Attempts
    BY <1>4 DEF DuplicateKey, SameKey
  <2>4. EntryOf(req[a].key) = r
    BY <2>3, EntryIsTheRow
  <2> QED BY <2>1, <2>2, <2>3, <2>4, RequestIsTyped DEF Ledger!Refuse, Entries
<1>5. ASSUME NEW a \in Attempts, Respond(a)
      PROVE  Ledger!Confirm(a)
  <2> DEFINE r == walletTransaction[a]
  <2>1. req' = req /\ rows' = rows /\ r \in rows /\ req[r].key = req[a].key
        /\ resp' = [resp EXCEPT ![a] = [kind |-> "ok", row |-> r]]
    BY <1>5 DEF Respond, Answer, Ok, RespondWithRow
  <2>2. Ledger!Open(a) /\ Entries' = Entries /\ req[a].key \in Keys
    BY <1>2, <1>5, <2>1 DEF Respond
  <2>3. EntryOf(req[a].key) = r /\ r # None
    BY <2>1, EntryIsTheRow, RequestIsTyped DEF TypeOK
  <2> QED BY <2>1, <2>2, <2>3 DEF Ledger!Confirm, Entries
<1>6. ASSUME NEW a \in Attempts, DbError(a)
      PROVE  Ledger!Fail(a)
  <2>1. req' = req /\ rows' = rows
        /\ resp' = [resp EXCEPT ![a] = [kind |-> "dberror", row |-> None]]
    BY <1>6 DEF DbError, Failed
  <2>2. Ledger!Open(a) /\ Entries' = Entries
    BY <1>2, <1>6, <2>1 DEF DbError
  <2> QED BY <2>1, <2>2 DEF Ledger!Fail, Entries
<1>7. ASSUME NEW a \in Attempts, Commit(a) \/ OrphanCommit(a)
      PROVE  Ledger!Post(a)
  <2>1. pc[a] \in {"commit", "orphan"} /\ rows' = rows \cup {a} /\ req' = req /\ resp' = resp
    BY <1>7 DEF Commit, OrphanCommit
  <2> QED BY <2>1, LedgerPost
<1>8. ASSUME NEW a \in Attempts,
             \/ ApproveCharge(a) \/ FindByIdempKey(a) \/ Insert(a) \/ FindOne(a)
             \/ Rollback(a)
      PROVE  UNCHANGED Ledger!vars
  <2>1. req' = req /\ rows' = rows /\ resp' = resp
    BY <1>8 DEF ApproveCharge, FindByIdempKey, Insert, FindOne, Rollback
  <2> QED BY <2>1, LedgerStutter
<1>9. ASSUME NEW p \in Pods, Crash(p)
      PROVE  UNCHANGED Ledger!vars
  <2>1. req' = req /\ rows' = rows /\ resp' = resp
    BY <1>9 DEF Crash
  <2> QED BY <2>1, LedgerStutter
<1>10. ASSUME UNCHANGED vars
       PROVE  UNCHANGED Ledger!vars
  <2>1. req' = req /\ rows' = rows /\ resp' = resp
    BY <1>10 DEF vars
  <2> QED BY <2>1, LedgerStutter
<1> QED
  BY <1>1, <1>3, <1>4, <1>5, <1>6, <1>7, <1>8, <1>9, <1>10
  DEF Next, Step, Proceed, Terminating, Ledger!Next

\* The charge and recharge handlers, on any number of pods that crash at will,
\* implement the idempotent ledger.
THEOREM ImplementsLedger == Spec => LedgerSpec
<1>1. LedgerInv /\ LedgerInv' /\ [Next]_vars => [Ledger!Next]_Ledger!vars
  BY LedgerNext
<1> QED BY <1>1, LedgerInit, LedgerInvariant, PTL DEF Spec, LedgerSpec, Ledger!Spec

-----------------------------------------------------------------------------
(***************************************************************************)
(* The amounts.  A row stores its amount rounded; whatever the wallet,     *)
(* rounding keeps the side of the balance an amount is on, and moves it by *)
(* at most a half.                                                         *)
(***************************************************************************)
\* What the column stores is a whole number, within a half of the amount.
LEMMA StoredIsNear ==
  ASSUME NEW w, NEW m \in Int
  PROVE  /\ Money(w)!Stored(m) \in Int
         /\ 0 - 10000 <= 2 * (10000 * Money(w)!Stored(m) - m)
         /\ 2 * (10000 * Money(w)!Stored(m) - m) <= 10000
BY DEF Money!Stored, Money!Parts

\* Rounding takes no amount across a balance.
LEMMA StoredKeepsItsSide ==
  ASSUME NEW w, NEW m \in Int, NEW b \in Int
  PROVE  /\ ~Money(w)!GreaterThan(m, b) => Money(w)!Stored(m) <= b
         /\ Money(w)!GreaterThan(m, b) => Money(w)!Stored(m) >= b
BY DEF Money!Stored, Money!Parts, Money!GreaterThan

\* The row of a request has the amount that was validated, rounded.
AmountIsRecorded ==
  /\ amount \in [Attempts -> Int]
  /\ \A a \in Attempts :
       req[a] # None => req[a].amount = Money(req[a].wallet)!Stored(amount[a])

\* A validated amount is a whole number of parts, and its row a request.
LEMMA ValidAmountIsRecorded ==
  ASSUME NEW b \in Bodies, NEW m \in ValidAmounts(b)
  PROVE  /\ m \in Int /\ m > 0 /\ b.wallet \in Wallets /\ b.value \in Int
         /\ Recorded(b, m) \in Requests
         /\ Recorded(b, m).wallet = b.wallet /\ Recorded(b, m).op = b.op
         /\ Recorded(b, m).amount = Money(b.wallet)!Stored(m)
<1>1. b.wallet \in Wallets /\ b.value \in Int /\ Recorded(b, m) \in Requests
  BY AmountsAssumption
<1>2. m \in Money(b.wallet)!Amounts(b.value, CurrencyOf[b.wallet]) /\ m > 0
  BY DEF ValidAmounts
<1>3. m \in Int /\ m > 0
  BY <1>1, <1>2 DEF Money!Amounts, Money!Grain
<1> QED BY <1>1, <1>3 DEF Recorded

\* Every step of WalletAmounts is a step of WalletService.
LEMMA AmountsStepIsAStep ==
  ASSUME LedgerInv, AmountIsRecorded, [AmountsNext]_amountsVars
  PROVE  [Next]_vars
<1> USE DEF LedgerInv
<1>1. ASSUME NEW a \in Attempts, NEW p \in Pods, NEW b \in Bodies, ArriveWith(a, p, b)
      PROVE  Next
  <2>1. PICK m \in ValidAmounts(b) : Arrive(a, p, Recorded(b, m))
    BY <1>1 DEF ArriveWith
  <2> QED BY <2>1, ValidAmountIsRecorded DEF Next
<1>2. ASSUME NEW a \in Attempts, pc[a] = "balance"
      PROVE  /\ amount[a] \in Int /\ Balance(req[a].wallet) \in Int
             /\ req[a].amount = Money(req[a].wallet)!Stored(amount[a])
  <2>1. req[a] # None /\ req[a].wallet \in Wallets
    BY <1>2, RequestIsTyped DEF TypeOK, RequestType
  <2> QED BY <2>1, SumsAreTyped DEF AmountIsRecorded
<1>3. ASSUME NEW a \in Attempts, RejectAmount(a)
      PROVE  RejectCharge(a)
  <2>1. pc[a] = "balance" /\ ExceedsBalance(a) /\ Answer(a, Failed("insufficient"))
    BY <1>3 DEF RejectAmount
  <2>2. req[a].amount >= Balance(req[a].wallet)
    BY <1>2, <2>1, StoredKeepsItsSide DEF ExceedsBalance
  <2> QED BY <2>1, <2>2 DEF RejectCharge
<1>4. ASSUME NEW a \in Attempts, ApproveAmount(a)
      PROVE  ApproveCharge(a)
  <2>1. pc[a] = "balance" /\ ~ExceedsBalance(a)
    BY <1>4 DEF ApproveAmount
  <2>2. req[a].amount <= Balance(req[a].wallet)
    BY <1>2, <2>1, StoredKeepsItsSide DEF ExceedsBalance
  <2> QED BY <1>4, <2>1, <2>2 DEF ApproveAmount, ApproveCharge
<1>5. CASE UNCHANGED amountsVars
  BY <1>5 DEF amountsVars
<1> QED BY <1>1, <1>3, <1>4, <1>5 DEF AmountsNext, AmountsStep, Next, Step

\* A request and its amount arrive together and stay.
LEMMA AmountIsRecordedNext ==
  ASSUME LedgerInv, AmountIsRecorded, [AmountsNext]_amountsVars
  PROVE  AmountIsRecorded'
<1> USE DEF LedgerInv
<1>1. ASSUME NEW a \in Attempts, NEW p \in Pods, NEW b \in Bodies, ArriveWith(a, p, b)
      PROVE  AmountIsRecorded'
  <2>1. PICK m \in ValidAmounts(b) :
          Arrive(a, p, Recorded(b, m)) /\ amount' = [amount EXCEPT ![a] = m]
    BY <1>1 DEF ArriveWith
  <2>2. req' = [req EXCEPT ![a] = Recorded(b, m)]
    BY <2>1 DEF Arrive
  <2>3. amount' \in [Attempts -> Int]
    BY <2>1, ValidAmountIsRecorded DEF AmountIsRecorded
  <2>4. ASSUME NEW c \in Attempts, req'[c] # None
        PROVE  req'[c].amount = Money(req'[c].wallet)!Stored(amount'[c])
    <3>1. CASE c = a
      <4>1. req'[c] = Recorded(b, m) /\ amount'[c] = m
        BY <2>1, <2>2, <3>1 DEF TypeOK, AmountIsRecorded
      <4>2. Recorded(b, m).amount = Money(b.wallet)!Stored(m) /\ Recorded(b, m).wallet = b.wallet
        BY ValidAmountIsRecorded
      <4> QED BY <4>1, <4>2
    <3>2. CASE c # a
      <4>1. req'[c] = req[c] /\ amount'[c] = amount[c]
        BY <2>1, <2>2, <3>2 DEF TypeOK, AmountIsRecorded
      <4> QED BY <2>4, <4>1 DEF AmountIsRecorded
    <3> QED BY <3>1, <3>2
  <2> QED BY <2>3, <2>4 DEF AmountIsRecorded, Money!Stored, Money!Parts
<1>2. CASE req' = req /\ amount' = amount
  BY <1>2 DEF AmountIsRecorded, Money!Stored, Money!Parts
<1>3. ASSUME NEW a \in Attempts, AmountsStep(a) \/ (DbError(a) /\ UNCHANGED amount)
      PROVE  req' = req /\ amount' = amount
  BY <1>3
  DEF AmountsStep, RejectAmount, ApproveAmount, Proceed, FindByIdempKey, Insert, DuplicateKey,
      FindOne, Commit, Respond, Rollback, OrphanCommit, DbError, Answer
<1>4. ASSUME NEW p \in Pods, Crash(p) /\ UNCHANGED amount
      PROVE  req' = req /\ amount' = amount
  BY <1>4 DEF Crash
<1>5. CASE UNCHANGED amountsVars \/ (Terminating /\ UNCHANGED amount)
  BY <1>2, <1>5 DEF amountsVars, vars, Terminating
<1> QED BY <1>1, <1>2, <1>3, <1>4, <1>5 DEF AmountsNext

\* The invariant of the calls with their amounts.
LEMMA AmountsInvariant == AmountsSpec => [](LedgerInv /\ AmountIsRecorded)
<1>1. AmountsInit => LedgerInv /\ AmountIsRecorded
  BY LedgerInvInit DEF AmountsInit, Init, AmountIsRecorded
<1>2. LedgerInv /\ AmountIsRecorded /\ [AmountsNext]_amountsVars
        => (LedgerInv /\ AmountIsRecorded)'
  BY AmountsStepIsAStep, LedgerInvNext, AmountIsRecordedNext
<1> QED BY <1>1, <1>2, PTL DEF AmountsSpec

\* Amounts with decimals, compared before they are rounded, change nothing of
\* what WalletService says: a charge that is approved does not round above the
\* balance it was approved against (greaterThan, and the bigint column).
THEOREM AmountsImplementWalletService == AmountsSpec => WalletServiceSpec
<1>1. AmountsInit => Init
  BY DEF AmountsInit
<1>2. LedgerInv /\ AmountIsRecorded /\ [AmountsNext]_amountsVars => [Next]_vars
  BY AmountsStepIsAStep
<1> QED BY <1>1, <1>2, AmountsInvariant, PTL DEF AmountsSpec, WalletServiceSpec, Spec

\* So decimals do not let calls that race overdraw a wallet any further.
THEOREM DecimalsKeepTheOverdraftBound == AmountsSpec => []OverdraftBound
BY AmountsImplementWalletService, OverdraftIsBounded, PTL DEF WalletServiceSpec

-----------------------------------------------------------------------------
(***************************************************************************)
(* The drift.  Every row of a wallet adds its rounding, and nothing else   *)
(* does, whatever the calls did to each other before it was committed.     *)
(***************************************************************************)
\* Sums whose terms drift apart by at most a half drift apart by at most a half
\* for every term.
LEMMA DriftOfSums ==
  ASSUME NEW S, IsFiniteSet(S), NEW f, NEW g, IntOn(f, S), IntOn(g, S),
         \A x \in S : /\ 0 - 10000 <= 2 * (10000 * f[x] - g[x])
                      /\ 2 * (10000 * f[x] - g[x]) <= 10000
  PROVE  LET drift == 2 * (10000 * SumFunctionOnSet(f, S) - SumFunctionOnSet(g, S))
         IN  0 - 10000 * Cardinality(S) <= drift /\ drift <= 10000 * Cardinality(S)
<1> DEFINE Near(b, k, n) == /\ 0 - 10000 * n <= 2 * (10000 * b - k)
                            /\ 2 * (10000 * b - k) <= 10000 * n
           P == {s \in SUBSET S :
                   Near(SumFunctionOnSet(f, s), SumFunctionOnSet(g, s), Cardinality(s))}
<1>1. ASSUME NEW s \in SUBSET S, \A t \in SUBSET s : t # s => t \in P
      PROVE  s \in P
  <2>1. IsFiniteSet(s) /\ IntOn(f, s) /\ IntOn(g, s)
    BY FS_Subset DEF IntOn
  <2>2. CASE s = {}
    BY <2>2, SumEmpty, FS_EmptySet
  <2>3. CASE s # {}
    <3>1. PICK x : x \in s
      BY <2>3
    <3> DEFINE u == s \ {x}
    <3>2. IsFiniteSet(u) /\ IntOn(f, u) /\ IntOn(g, u) /\ Cardinality(u) \in Nat
      <4>1. IsFiniteSet(u)
        BY <2>1, FS_RemoveElement
      <4>2. IntOn(f, u) /\ IntOn(g, u)
        BY <2>1 DEF IntOn
      <4> QED BY <4>1, <4>2, FS_CardinalityType
    <3>3. PICK b \in Int, k \in Int :
            b = SumFunctionOnSet(f, u) /\ k = SumFunctionOnSet(g, u)
      BY <3>2, SumRemove
    <3>4. PICK n \in Nat : n = Cardinality(u) /\ Cardinality(s) = n + 1
      BY <2>1, <3>1, <3>2, FS_RemoveElement, FS_CardinalityType
    <3>5. Near(b, k, n)
      <4>1. u \in P
        BY <1>1, <3>1
      <4> QED BY <3>3, <3>4, <4>1
    <3>6. SumFunctionOnSet(f, s) = f[x] + b /\ SumFunctionOnSet(g, s) = g[x] + k
      BY <2>1, <3>1, <3>3, SumRemove
    <3>7. Near(f[x] + b, g[x] + k, n + 1)
      <4>1. f[x] \in Int /\ g[x] \in Int /\ Near(f[x], g[x], 1)
        BY <3>1 DEF IntOn
      <4> QED BY <3>5, <4>1
    <3>8. Near(SumFunctionOnSet(f, s), SumFunctionOnSet(g, s), Cardinality(s))
      <4> HIDE DEF Near
      <4> QED BY <3>4, <3>6, <3>7
    <3> QED BY <3>8
  <2> QED BY <2>2, <2>3
<1> HIDE DEF P
<1>2. SUBSET S \subseteq P
  BY <1>1, SubsetInduction
<1> QED BY <1>2 DEF P

\* The terms of the two sums of a wallet.
LEMMA RowDrifts ==
  ASSUME TypeOK, AmountIsRecorded, NEW a \in Attempts, req[a] # None
  PROVE  /\ Impacts[a] \in Int /\ Validated[a] \in Int
         /\ 0 - 10000 <= 2 * (10000 * Impacts[a] - Validated[a])
         /\ 2 * (10000 * Impacts[a] - Validated[a]) <= 10000
<1>1. PICK s \in Int :
        /\ s = req[a].amount /\ amount[a] \in Int
        /\ 0 - 10000 <= 2 * (10000 * s - amount[a]) /\ 2 * (10000 * s - amount[a]) <= 10000
  BY StoredIsNear DEF AmountIsRecorded
<1>2. CASE req[a].op = "recharge"
  <2>1. Impacts[a] = s /\ Validated[a] = amount[a]
    BY <1>1, <1>2 DEF Impacts, Impact, Validated
  <2> QED BY <1>1, <2>1
<1>3. CASE req[a].op # "recharge"
  <2>1. Impacts[a] = 0 - s /\ Validated[a] = 0 - amount[a]
    BY <1>1, <1>3 DEF Impacts, Impact, Validated
  <2> QED BY <1>1, <2>1
<1> QED BY <1>2, <1>3

LEMMA RowsOfAreTyped ==
  ASSUME TypeOK, AmountIsRecorded, NEW w \in Wallets
  PROVE  /\ IsFiniteSet(RowsOf(w)) /\ IntOn(Impacts, RowsOf(w)) /\ IntOn(Validated, RowsOf(w))
         /\ \A a \in RowsOf(w) : a \in Attempts
         /\ Asked(w) \in Int /\ Balance(w) \in Int /\ Cardinality(RowsOf(w)) \in Nat
<1>1. \A a \in Attempts : Impacts[a] \in Int /\ Validated[a] \in Int
  BY RowDrifts DEF Impacts, Validated
<1>2. IsFiniteSet(RowsOf(w)) /\ \A a \in RowsOf(w) : a \in Attempts
  BY AttemptSetsAreFinite DEF RowsOf, TypeOK
<1>3. IntOn(Impacts, RowsOf(w)) /\ IntOn(Validated, RowsOf(w))
  BY <1>1, <1>2 DEF IntOn
<1> QED BY <1>2, <1>3, SumRemove, FS_CardinalityType DEF Asked, Balance

\* However calls race, a wallet differs from what was validated by at most half
\* of the lowest denomination for each of its rows.
THEOREM RacesAddNoDrift == AmountsSpec => []DriftOfEachWallet
<1>1. LedgerInv /\ AmountIsRecorded => DriftOfEachWallet
  <2> SUFFICES ASSUME LedgerInv, AmountIsRecorded, NEW w \in Wallets
               PROVE  Money(w)!DriftIsBounded
    BY DEF DriftOfEachWallet
  <2>1. TypeOK
    BY DEF LedgerInv
  <2>2. \A a \in RowsOf(w) : /\ 0 - 10000 <= 2 * (10000 * Impacts[a] - Validated[a])
                             /\ 2 * (10000 * Impacts[a] - Validated[a]) <= 10000
    <3>1. \A a \in RowsOf(w) : a \in Attempts /\ req[a] # None
      BY DEF RowsOf, LedgerInv, TypeOK, RowsAreCommitted
    <3> QED BY <2>1, <3>1, RowDrifts
  <2>3. PICK b \in Int, k \in Int, n \in Nat :
          b = Balance(w) /\ k = Asked(w) /\ n = Cardinality(RowsOf(w))
    BY <2>1, RowsOfAreTyped
  <2>4. 0 - 10000 * n <= 2 * (10000 * b - k) /\ 2 * (10000 * b - k) <= 10000 * n
    BY <2>1, <2>2, <2>3, RowsOfAreTyped, DriftOfSums DEF Balance, Asked
  <2> QED BY <2>3, <2>4 DEF Money!DriftIsBounded, Money!Parts
<1> QED BY <1>1, AmountsInvariant, PTL

-----------------------------------------------------------------------------
(***************************************************************************)
(* The amounts of one wallet.  While no two of its charges are past the    *)
(* comparison at once, what was approved fits the balance until it is      *)
(* taken from it: other calls may recharge the wallet meanwhile, and do    *)
(* what they like to other wallets.  The handlers then implement the       *)
(* amounts of MoneyDto: a commit is a recharge or a charge of one of them. *)
(***************************************************************************)
\* The amount of a call is what toFixed made of a value that a client sent.
AmountWasSent ==
  \A a \in Attempts :
    req[a] # None =>
      /\ amount[a] > 0
      /\ \E value \in Values :
           amount[a] \in Money(req[a].wallet)!Amounts(value, CurrencyOf[req[a].wallet])

\* What was approved against the balance of a wallet still fits it.
ApprovedFits(w) == \A a \in Approved(w) : ~Money(w)!GreaterThan(amount[a], Balance(w))

SentInv ==
  /\ LedgerInv
  /\ AmountIsRecorded
  /\ AmountWasSent

\* Amounts are sent with their requests and stay.
LEMMA SentInvNext ==
  ASSUME SentInv, [AmountsNext]_amountsVars
  PROVE  SentInv'
<1> USE DEF SentInv
<1>1. LedgerInv' /\ AmountIsRecorded'
  BY AmountsStepIsAStep, LedgerInvNext, AmountIsRecordedNext
<1>2. ASSUME NEW a \in Attempts, NEW p \in Pods, NEW b \in Bodies, ArriveWith(a, p, b)
      PROVE  AmountWasSent'
  <2>1. PICK m \in ValidAmounts(b) :
          Arrive(a, p, Recorded(b, m)) /\ amount' = [amount EXCEPT ![a] = m]
    BY <1>2 DEF ArriveWith
  <2>2. /\ req'[a] = Recorded(b, m) /\ amount'[a] = m
        /\ \A c \in Attempts \ {a} : req'[c] = req[c] /\ amount'[c] = amount[c]
    BY <2>1 DEF Arrive, LedgerInv, TypeOK, AmountIsRecorded
  <2>3. /\ Recorded(b, m).wallet = b.wallet /\ m > 0 /\ b.value \in Values
        /\ m \in Money(b.wallet)!Amounts(b.value, CurrencyOf[b.wallet])
    BY ValidAmountIsRecorded DEF Values, ValidAmounts
  <2>4. ASSUME NEW c \in Attempts, req'[c] # None
        PROVE  /\ amount'[c] > 0
               /\ \E value \in Values :
                    amount'[c] \in Money(req'[c].wallet)!Amounts(value, CurrencyOf[req'[c].wallet])
    <3>1. CASE c = a
      BY <2>2, <2>3, <3>1
    <3>2. CASE c # a
      BY <2>2, <2>4, <3>2 DEF AmountWasSent
    <3> QED BY <3>1, <3>2
  <2> QED BY <2>4 DEF AmountWasSent, Money!Amounts, Money!Grain, Money!PRECISION
<1>3. ASSUME req' = req, amount' = amount
      PROVE  AmountWasSent'
  BY <1>3 DEF AmountWasSent, Money!Amounts, Money!Grain, Money!PRECISION
<1>4. ASSUME NEW a \in Attempts, AmountsStep(a) \/ (DbError(a) /\ UNCHANGED amount)
      PROVE  req' = req /\ amount' = amount
  BY <1>4
  DEF AmountsStep, RejectAmount, ApproveAmount, Proceed, FindByIdempKey, Insert, DuplicateKey,
      FindOne, Commit, Respond, Rollback, OrphanCommit, DbError, Answer
<1>5. ASSUME NEW p \in Pods, Crash(p) /\ UNCHANGED amount
      PROVE  req' = req /\ amount' = amount
  BY <1>5 DEF Crash
<1>6. CASE UNCHANGED amountsVars \/ (Terminating /\ UNCHANGED amount)
  <2>1. req' = req /\ amount' = amount
    BY <1>6 DEF amountsVars, vars, Terminating
  <2> QED BY <1>1, <1>3, <2>1
<1> QED BY <1>1, <1>2, <1>3, <1>4, <1>5, <1>6 DEF AmountsNext

\* A step that makes no row of the wallet leaves its amounts alone.
LEMMA MoneyKept ==
  ASSUME TypeOK, AmountIsRecorded, NEW w \in Wallets, RowsOf(w)' = RowsOf(w),
         \A a \in RowsOf(w) : req'[a] = req[a] /\ amount'[a] = amount[a]
  PROVE  UNCHANGED Money(w)!vars
<1>1. Agree(Impacts', Impacts, RowsOf(w)) /\ Agree(Validated', Validated, RowsOf(w))
  BY RowsOfAreTyped DEF Agree, Impacts, Validated
<1>2. /\ SumFunctionOnSet(Impacts', RowsOf(w)) = SumFunctionOnSet(Impacts, RowsOf(w))
      /\ SumFunctionOnSet(Validated', RowsOf(w)) = SumFunctionOnSet(Validated, RowsOf(w))
  BY <1>1, RowsOfAreTyped, SumCong
<1> QED BY <1>2 DEF Money!vars, Balance, Asked

\* An arrival makes no row, and no charge is approved by it.
LEMMA ArrivalKeeps ==
  ASSUME SentInv, NEW w \in Wallets,
         NEW a \in Attempts, NEW p \in Pods, NEW b \in Bodies, ArriveWith(a, p, b)
  PROVE  /\ UNCHANGED Money(w)!vars
         /\ Approved(w)' \subseteq Approved(w)
         /\ \A c \in Approved(w)' : amount'[c] = amount[c]
<1> USE DEF SentInv, LedgerInv
<1>1. PICK m \in ValidAmounts(b) :
        Arrive(a, p, Recorded(b, m)) /\ amount' = [amount EXCEPT ![a] = m]
  BY DEF ArriveWith
<1>2. /\ a \notin rows /\ rows' = rows
      /\ pc'[a] = IF req'[a].op = "charge" THEN "balance" ELSE "lookup"
      /\ \A c \in Attempts \ {a} : req'[c] = req[c] /\ pc'[c] = pc[c] /\ amount'[c] = amount[c]
  BY <1>1 DEF Arrive, Goto, RowsAreCommitted, TypeOK, AmountIsRecorded
<1>3. RowsOf(w)' = RowsOf(w) /\ \A c \in RowsOf(w) : c \in Attempts \ {a}
  BY <1>2 DEF RowsOf, TypeOK
<1>4. UNCHANGED Money(w)!vars
  BY <1>2, <1>3, MoneyKept
<1>5. a \notin Approved(w)' /\ Approved(w)' \subseteq Approved(w)
  BY <1>2 DEF Approved
<1> QED BY <1>2, <1>4, <1>5 DEF Approved

\* What fits goes on fitting while the balance does not fall.
LEMMA FitsKept ==
  ASSUME TypeOK, AmountIsRecorded, NEW w \in Wallets, ApprovedFits(w),
         Approved(w)' \subseteq Approved(w),
         \A a \in Approved(w)' : amount'[a] = amount[a],
         Balance(w)' \in Int, Balance(w)' >= Balance(w)
  PROVE  ApprovedFits(w)'
<1>1. Balance(w) \in Int /\ \A a \in Approved(w) : amount[a] \in Int
  BY SumsAreTyped DEF Approved, AmountIsRecorded
<1>2. \A a \in Approved(w)' : ~(amount'[a] > 10000 * Balance(w)')
  BY <1>1 DEF ApprovedFits, Money!GreaterThan, Money!Parts
<1> QED BY <1>2 DEF ApprovedFits, Money!GreaterThan, Money!Parts

\* A commit takes an approved charge away, and with it every charge of the wallet
\* that is approved, or does not lower the balance.
LEMMA CommitKeepsFit ==
  ASSUME SentInv, NEW w \in Wallets, ApprovedFits(w), ~Racing(w), Balance(w)' \in Int,
         NEW a \in Attempts, Commit(a) \/ OrphanCommit(a), UNCHANGED amount
  PROVE  ApprovedFits(w)'
<1> USE DEF SentInv, LedgerInv
<1>1. /\ req' = req /\ rows' = rows \cup {a} /\ pc[a] \in {"commit", "orphan"}
      /\ pc'[a] \in {"respond", "done"} /\ \A b \in Attempts \ {a} : pc'[b] = pc[b]
  BY DEF Commit, OrphanCommit, Goto, TypeOK
<1>2. a \notin rows /\ req[a] # None
  BY <1>1 DEF RowsAreCommitted, TypeOK
<1>3. Approved(w)' = Approved(w) \ {a}
  BY <1>1 DEF Approved
<1>4. CASE a \in Approved(w)
  <2>1. Approved(w)' = {}
    BY <1>3, <1>4 DEF Racing
  <2> QED BY <2>1 DEF ApprovedFits
<1>5. CASE w # req[a].wallet
  <2>1. RowsOf(w)' = RowsOf(w) /\ Impacts' = Impacts
    BY <1>1, <1>5 DEF RowsOf, Impacts
  <2>2. Balance(w)' = Balance(w)
    BY <2>1 DEF Balance
  <2> QED BY <1>3, <2>2, FitsKept
<1>6. CASE w = req[a].wallet /\ a \notin Approved(w)
  <2>1. req[a].op = "recharge"
    BY <1>1, <1>2, <1>6, RequestIsTyped DEF Approved, TypeOK, RequestType
  <2>2. Impacts[a] \in Nat
    BY <1>2, <2>1, TermsAreTyped
  <2>3. Balance(w)' = Impacts[a] + Balance(w) /\ Balance(w) \in Int
    BY <1>1, <1>2, <1>6, CommitAddsImpact, SumsAreTyped
  <2> QED BY <1>3, <2>2, <2>3, FitsKept
<1> QED BY <1>4, <1>5, <1>6

\* Without a race, what was approved goes on fitting.
LEMMA FitsNext ==
  ASSUME SentInv, SentInv', NEW w \in Wallets, ApprovedFits(w), ~Racing(w),
         [AmountsNext]_amountsVars
  PROVE  ApprovedFits(w)'
<1> USE DEF SentInv, LedgerInv
<1>1. Balance(w) \in Int /\ Balance(w)' \in Int
  BY SumsAreTyped, NextSumsAreTyped
<1>2. ASSUME NEW a \in Attempts, NEW p \in Pods, NEW b \in Bodies, ArriveWith(a, p, b)
      PROVE  ApprovedFits(w)'
  BY <1>1, <1>2, ArrivalKeeps, FitsKept DEF Money!vars
<1>3. ASSUME rows' = rows, req' = req
      PROVE  Balance(w)' = Balance(w)
  BY <1>3 DEF Balance, RowsOf, Impacts
<1>4. ASSUME rows' = rows, req' = req, amount' = amount,
             \A a \in Attempts :
                pc'[a] \in {"lookup", "insert", "readback", "commit", "orphan"} =>
                  pc[a] \in {"lookup", "insert", "readback", "commit", "orphan"}
      PROVE  ApprovedFits(w)'
  <2>1. Approved(w)' \subseteq Approved(w)
    BY <1>4 DEF Approved
  <2> QED BY <1>1, <1>3, <1>4, <2>1, FitsKept
<1>5. ASSUME NEW a \in Attempts, RejectAmount(a)
      PROVE  ApprovedFits(w)'
  BY <1>4, <1>5 DEF RejectAmount, Answer, Goto, TypeOK
<1>6. ASSUME NEW a \in Attempts, ApproveAmount(a)
      PROVE  ApprovedFits(w)'
  <2>1. /\ rows' = rows /\ req' = req /\ amount' = amount
        /\ pc' = [pc EXCEPT ![a] = "lookup"] /\ ~ExceedsBalance(a)
    BY <1>6 DEF ApproveAmount, Goto
  <2>2. Approved(w)' \subseteq Approved(w) \cup {a}
    BY <2>1 DEF Approved, TypeOK
  <2>3. ASSUME NEW b \in Approved(w)' PROVE ~(amount[b] > 10000 * Balance(w))
    <3>1. CASE b = a
      <4>1. req[a].wallet = w
        BY <2>1, <3>1 DEF Approved
      <4> QED BY <2>1, <3>1, <4>1 DEF ExceedsBalance, Money!GreaterThan, Money!Parts
    <3>2. CASE b # a
      BY <2>2, <3>2 DEF ApprovedFits, Money!GreaterThan, Money!Parts
    <3> QED BY <3>1, <3>2
  <2> QED BY <1>3, <2>1, <2>3 DEF ApprovedFits, Money!GreaterThan, Money!Parts
<1>7. ASSUME NEW a \in Attempts, Commit(a) \/ OrphanCommit(a), UNCHANGED amount
      PROVE  ApprovedFits(w)'
  BY <1>1, <1>7, CommitKeepsFit
<1>8. ASSUME NEW a \in Attempts, UNCHANGED amount,
             \/ FindByIdempKey(a) \/ Insert(a) \/ DuplicateKey(a)
             \/ FindOne(a) \/ Respond(a) \/ Rollback(a)
      PROVE  ApprovedFits(w)'
  BY <1>4, <1>8 DEF FindByIdempKey, Insert, DuplicateKey, FindOne, Respond,
     Rollback, Answer, Goto, TypeOK
<1>9. ASSUME NEW a \in Attempts, DbError(a), UNCHANGED amount
      PROVE  ApprovedFits(w)'
  BY <1>4, <1>9 DEF DbError, Abandoned, Goto, TypeOK
<1>10. ASSUME NEW p \in Pods, Crash(p), UNCHANGED amount
       PROVE  ApprovedFits(w)'
  BY <1>4, <1>10 DEF Crash, Abandoned, TypeOK
<1>11. CASE UNCHANGED amountsVars \/ (Terminating /\ UNCHANGED amount)
  BY <1>4, <1>11 DEF amountsVars, vars, Terminating
<1> QED
  BY <1>2, <1>5, <1>6, <1>7, <1>8, <1>9, <1>10, <1>11 DEF AmountsNext, AmountsStep, Proceed

\* A commit is a recharge or a charge of the wallet whose row it is.
LEMMA CommitMovesMoney ==
  ASSUME SentInv, NEW w \in Wallets, ApprovedFits(w),
         NEW a \in Attempts, pc[a] \in {"commit", "orphan"},
         rows' = rows \cup {a}, req' = req, amount' = amount
  PROVE  [Money(w)!Next]_(Money(w)!vars)
<1> USE DEF SentInv
<1>1. TypeOK /\ a \notin rows /\ req[a] # None
  BY DEF LedgerInv, RowsAreCommitted, TypeOK
<1>2. CASE w # req[a].wallet
  <2>1. RowsOf(w)' = RowsOf(w)
    BY <1>2 DEF RowsOf
  <2> QED BY <1>1, <2>1, MoneyKept
<1>3. CASE w = req[a].wallet
  <2>1. RowsOf(w)' = RowsOf(w) \cup {a} /\ a \notin RowsOf(w)
    BY <1>1, <1>3 DEF RowsOf
  <2>2. Impacts' = Impacts /\ Validated' = Validated
    BY DEF Impacts, Validated
  <2>3. /\ IntOn(Impacts, RowsOf(w) \cup {a}) /\ IntOn(Validated, RowsOf(w) \cup {a})
        /\ Impacts[a] \in Int /\ Validated[a] \in Int
    BY <1>1, RowDrifts, RowsOfAreTyped DEF IntOn
  <2>4. Balance(w)' = Impacts[a] + Balance(w) /\ Asked(w)' = Validated[a] + Asked(w)
    <3>1. /\ SumFunctionOnSet(Impacts, RowsOf(w) \cup {a}) = Impacts[a] + Balance(w)
          /\ SumFunctionOnSet(Validated, RowsOf(w) \cup {a}) = Validated[a] + Asked(w)
      BY <1>1, <2>1, <2>3, RowsOfAreTyped, SumAdd DEF Balance, Asked
    <3> QED BY <2>1, <2>2, <3>1 DEF Balance, Asked
  <2>5. /\ Cardinality(RowsOf(w)') = Cardinality(RowsOf(w)) + 1
        /\ Cardinality(RowsOf(w)) < Cardinality(Attempts)
    <3>1. Cardinality(RowsOf(w)') = Cardinality(RowsOf(w)) + 1
      BY <1>1, <2>1, RowsOfAreTyped, FS_AddElement
    <3>2. RowsOf(w)' \subseteq Attempts /\ IsFiniteSet(Attempts)
      BY <1>1, <2>1, RowsOfAreTyped, ConstantsAssumption
    <3>3. Cardinality(RowsOf(w)') <= Cardinality(Attempts) /\ Cardinality(Attempts) \in Nat
      BY <3>2, FS_Subset, FS_CardinalityType
    <3> QED BY <1>1, <3>1, <3>3, RowsOfAreTyped
  <2>6. PICK value \in Values : amount[a] \in Money(w)!Amounts(value, CurrencyOf[w])
    BY <1>1, <1>3 DEF AmountWasSent
  <2>7. amount[a] > 0 /\ amount[a] \in Int /\ req[a].amount = Money(w)!Stored(amount[a])
    BY <1>1, <1>3 DEF AmountWasSent, AmountIsRecorded
  <2>8. Balance(w) \in Int /\ Asked(w) \in Int /\ Money(w)!Stored(amount[a]) \in Int
    BY <1>1, <2>7, RowsOfAreTyped, StoredIsNear
  <2>9. CASE req[a].op = "recharge"
    <3>1. Impacts[a] = Money(w)!Stored(amount[a]) /\ Validated[a] = amount[a]
      BY <1>1, <2>7, <2>9 DEF Impacts, Impact, Validated
    <3>2. /\ Balance(w)' = Balance(w) + Money(w)!Stored(amount[a])
          /\ Asked(w)' = Asked(w) + amount[a]
      BY <2>4, <2>7, <2>8, <3>1
    <3> QED BY <2>5, <2>6, <2>7, <3>2 DEF Money!Next, Money!Recharge
  <2>10. CASE req[a].op # "recharge"
    <3>1. req[a].op = "charge"
      BY <1>1, <2>10, RequestIsTyped DEF TypeOK, RequestType
    <3>2. Impacts[a] = 0 - Money(w)!Stored(amount[a]) /\ Validated[a] = 0 - amount[a]
      BY <1>1, <2>7, <2>10 DEF Impacts, Impact, Validated
    <3>3. /\ Balance(w)' = Balance(w) - Money(w)!Stored(amount[a])
          /\ Asked(w)' = Asked(w) - amount[a]
      BY <2>4, <2>7, <2>8, <3>2
    <3>4. ~Money(w)!GreaterThan(amount[a], Balance(w))
      <4>1. a \in Approved(w)
        BY <1>3, <3>1 DEF Approved
      <4> QED BY <4>1 DEF ApprovedFits
    <3> QED BY <2>5, <2>6, <2>7, <3>3, <3>4 DEF Money!Next, Money!Charge
  <2> QED BY <2>9, <2>10
<1> QED BY <1>2, <1>3

\* Every step is one of MoneyDto, or none, in every wallet.
LEMMA MoneyNext ==
  ASSUME SentInv, NEW w \in Wallets, ApprovedFits(w), [AmountsNext]_amountsVars
  PROVE  [Money(w)!Next]_(Money(w)!vars)
<1> USE DEF SentInv, LedgerInv
<1>1. ASSUME NEW a \in Attempts, NEW p \in Pods, NEW b \in Bodies, ArriveWith(a, p, b)
      PROVE  UNCHANGED Money(w)!vars
  BY <1>1, ArrivalKeeps
<1>2. ASSUME NEW a \in Attempts, Commit(a) \/ OrphanCommit(a), UNCHANGED amount
      PROVE  [Money(w)!Next]_(Money(w)!vars)
  <2>1. pc[a] \in {"commit", "orphan"} /\ rows' = rows \cup {a} /\ req' = req /\ amount' = amount
    BY <1>2 DEF Commit, OrphanCommit
  <2> QED BY <2>1, CommitMovesMoney
<1>3. ASSUME rows' = rows, req' = req, amount' = amount
      PROVE  UNCHANGED Money(w)!vars
  <2>1. RowsOf(w)' = RowsOf(w)
    BY <1>3 DEF RowsOf
  <2> QED BY <1>3, <2>1, MoneyKept
<1>4. ASSUME NEW a \in Attempts,
             \/ RejectAmount(a) \/ ApproveAmount(a)
             \/ /\ UNCHANGED amount
                /\ \/ FindByIdempKey(a) \/ Insert(a) \/ DuplicateKey(a)
                   \/ FindOne(a) \/ Respond(a) \/ Rollback(a) \/ DbError(a)
      PROVE  UNCHANGED Money(w)!vars
  BY <1>3, <1>4
  DEF RejectAmount, ApproveAmount, FindByIdempKey, Insert, DuplicateKey, FindOne, Respond,
      Rollback, DbError, Answer
<1>5. ASSUME NEW p \in Pods, Crash(p), UNCHANGED amount
      PROVE  UNCHANGED Money(w)!vars
  BY <1>3, <1>5 DEF Crash
<1>6. CASE UNCHANGED amountsVars \/ (Terminating /\ UNCHANGED amount)
  BY <1>3, <1>6 DEF amountsVars, vars, Terminating
<1> QED BY <1>1, <1>2, <1>4, <1>5, <1>6 DEF AmountsNext, AmountsStep, Proceed

\* The amounts of a wallet, rounding and all, are those of MoneyDto through
\* errors, crashes, retries and whatever happens to other wallets, unless two of
\* its charges are past the comparison with its balance at once.
THEOREM MoneyUnlessChargesRace == AmountsSpec => MoneyOfEachWallet
<1> SUFFICES ASSUME NEW w \in Wallets PROVE AmountsSpec => Money(w)!Spec \/ <>Racing(w)
  BY DEF MoneyOfEachWallet
<1>1. AmountsInit => Money(w)!Init
  <2> SUFFICES ASSUME AmountsInit PROVE Money(w)!Init
    OBVIOUS
  <2>1. RowsOf(w) = {}
    BY DEF AmountsInit, Init, RowsOf
  <2>2. Balance(w) = 0 /\ Asked(w) = 0 /\ Cardinality(RowsOf(w)) = 0
    BY <2>1, SumEmpty, FS_EmptySet DEF Balance, Asked
  <2>3. CurrencyOf[w] \in Money(w)!Currencies
    BY AmountsAssumption DEF Money!Currencies, Money!PRECISION
  <2> QED BY <2>2, <2>3 DEF Money!Init
<1>2. AmountsInit => SentInv /\ ApprovedFits(w)
  <2> SUFFICES ASSUME AmountsInit PROVE SentInv /\ ApprovedFits(w)
    OBVIOUS
  <2>1. LedgerInv /\ AmountIsRecorded
    BY LedgerInvInit DEF AmountsInit, Init, AmountIsRecorded
  <2>2. \A a \in Attempts : pc[a] = "idle" /\ req[a] = None
    BY DEF AmountsInit, Init
  <2> QED BY <2>1, <2>2 DEF SentInv, AmountWasSent, ApprovedFits, Approved
<1>3. SentInv /\ [AmountsNext]_amountsVars => SentInv'
  BY SentInvNext
<1>4. SentInv /\ SentInv' /\ ApprovedFits(w) /\ ~Racing(w) /\ [AmountsNext]_amountsVars
        => ApprovedFits(w)'
  BY FitsNext
<1>5. SentInv /\ ApprovedFits(w) /\ [AmountsNext]_amountsVars
        => [Money(w)!Next]_(Money(w)!vars)
  BY MoneyNext
<1> QED BY <1>1, <1>2, <1>3, <1>4, <1>5, PTL DEF AmountsSpec, Money!Spec
=============================================================================
