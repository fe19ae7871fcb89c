--------------------------- MODULE WalletService ---------------------------
(***************************************************************************)
(* POST /charge and POST /recharge, from the controller's call of          *)
(* WalletService to the rows of wallet_transaction_entity.                 *)
(*                                                                         *)
(* Every await of the handlers is a point where other requests, on this    *)
(* pod or on another one, may run: each query, and each statement of the   *)
(* transaction that inserts the row, is an action of its own.  The ledger  *)
(* is the database table: a balance is a sum over its rows, and nothing    *)
(* else is stored.                                                         *)
(*                                                                         *)
(* An attempt is one HTTP call; a client's retry is another attempt with   *)
(* the same key.  The id of the row an attempt inserts is the attempt.     *)
(***************************************************************************)
EXTENDS Integers, FiniteSets, Functions

CONSTANTS
  Attempts,     \* HTTP calls of the run
  Pods,         \* replicas of the service
  Keys,         \* idempotency keys
  Wallets,      \* a wallet is a retailer and a currency
  MaxAmount,    \* bound on the amount of a request, in the lowest denomination
  MaxInFlight,  \* bound on the calls whose effect is undecided at one time
  Requests,     \* what clients may ask
  None

RequestType == [op : {"charge", "recharge"}, key : Keys,
                wallet : Wallets, amount : 0 .. MaxAmount]

ASSUME ConstantsAssumption ==
  /\ IsFiniteSet(Attempts)
  /\ MaxAmount \in Nat
  /\ MaxInFlight \in Nat \ {0}
  /\ Requests \subseteq RequestType
  /\ None \notin Attempts \cup Pods \cup RequestType

VARIABLES
  pc,                 \* where each attempt is
  host,               \* the pod that handles it
  req,                \* its headers and body
  walletTransaction,  \* the handler's local variable: a row found or made
  resp,               \* what the client was told: [kind, row]
  rows                \* committed rows of wallet_transaction_entity

vars == <<pc, host, req, walletTransaction, resp, rows>>

Labels ==
  {"idle",      \* not called yet
   "balance",   \* charge awaits fetchBalance
   "lookup",    \* awaits findByIdempKey
   "insert",    \* the transaction awaits its INSERT
   "readback",  \* row inserted, not committed; awaits findOne
   "commit",    \* awaits COMMIT
   "respond",   \* the handler has the id to return
   "aborting",  \* the transaction is lost: the server has yet to roll back
   "orphan",    \* COMMIT sent and nobody waits: the server commits it or not
   "done"}

\* Uncommitted rows hold their key in the unique index.
Holding == {"readback", "commit", "aborting", "orphan"}

NoResponse == [kind |-> "none", row |-> None]
Failed(kind) == [kind |-> kind, row |-> None]
Ok(r) == [kind |-> "ok", row |-> r]

InFlight == {a \in Attempts : pc[a] \notin {"idle", "done"}}

(***************************************************************************)
(* The balance: SUM of +amount of the rows IN and -amount of the rows OUT. *)
(***************************************************************************)
Impact(q) == IF q.op = "recharge" THEN q.amount ELSE 0 - q.amount

Impacts == [a \in Attempts |-> IF req[a] = None THEN 0 ELSE Impact(req[a])]

RowsOf(w) == {a \in rows : req[a].wallet = w}

Balance(w) == SumFunctionOnSet(Impacts, RowsOf(w))

SameKey(a) == {r \in Attempts \ {a} : req[r] # None /\ req[r].key = req[a].key}

Init ==
  /\ pc   = [a \in Attempts |-> "idle"]
  /\ host = [a \in Attempts |-> None]
  /\ req  = [a \in Attempts |-> None]
  /\ walletTransaction = [a \in Attempts |-> None]
  /\ resp = [a \in Attempts |-> NoResponse]
  /\ rows = {}

-----------------------------------------------------------------------------
(***************************************************************************)
(* The handlers.  A definition marked Variant is no part of the            *)
(* specification: it is its neighbour with a plausible bug, and TLC shows  *)
(* that a property catches it.                                             *)
(***************************************************************************)
Goto(a, label) == pc' = [pc EXCEPT ![a] = label]

Answer(a, response) ==
  /\ Goto(a, "done")
  /\ resp' = [resp EXCEPT ![a] = response]
  /\ UNCHANGED <<host, req, walletTransaction, rows>>

\* The call reaches a pod; a charge starts with the balance, a recharge with
\* the lookup of its key.
Arrive(a, p, q) ==
  /\ pc[a] = "idle"
  /\ Cardinality(InFlight) < MaxInFlight
  /\ Goto(a, IF q.op = "charge" THEN "balance" ELSE "lookup")
  /\ host' = [host EXCEPT ![a] = p]
  /\ req'  = [req EXCEPT ![a] = q]
  /\ UNCHANGED <<walletTransaction, resp, rows>>

\* Variant: the refusal is answered, but the handler runs on.
RejectWithoutThrow(a) ==
  /\ pc[a] = "balance"
  /\ req[a].amount >= Balance(req[a].wallet)
  /\ Goto(a, "lookup")
  /\ resp' = [resp EXCEPT ![a] = Failed("insufficient")]
  /\ UNCHANGED <<host, req, walletTransaction, rows>>

\* money.greaterThan(balance): the charge is refused.  The amount that is compared
\* may have decimals that the column rounds off (WalletAmounts has them), so the
\* amount of the row to be may equal the balance.
RejectCharge(a) ==
  /\ pc[a] = "balance"
  /\ req[a].amount >= Balance(req[a].wallet)
  /\ Answer(a, Failed("insufficient"))

\* Variant: the balance is not compared.
ApproveUnchecked(a) ==
  /\ pc[a] = "balance"
  /\ Goto(a, "lookup")
  /\ UNCHANGED <<host, req, walletTransaction, resp, rows>>

ApproveCharge(a) ==
  /\ pc[a] = "balance"
  /\ req[a].amount <= Balance(req[a].wallet)
  /\ Goto(a, "lookup")
  /\ UNCHANGED <<host, req, walletTransaction, resp, rows>>

\* Variant: the lookup ignores the key.
FindAnyRow(a) ==
  /\ pc[a] = "lookup"
  /\ \/ \E r \in rows :
          /\ walletTransaction' = [walletTransaction EXCEPT ![a] = r]
          /\ Goto(a, IF req[a].op = "recharge" THEN "respond" ELSE "insert")
     \/ /\ rows = {}
        /\ Goto(a, "insert")
        /\ UNCHANGED walletTransaction
  /\ UNCHANGED <<host, req, resp, rows>>

\* Variant: a recharge, too, goes on when it finds a row.
FindWithoutReturn(a) ==
  /\ pc[a] = "lookup"
  /\ Goto(a, "insert")
  /\ UNCHANGED <<host, req, walletTransaction, resp, rows>>

\* Rows are looked up by key alone.  A recharge returns the row it finds; a
\* charge reads its id and goes on to insert (the statement returns nothing).
FindByIdempKey(a) ==
  /\ pc[a] = "lookup"
  /\ \/ \E r \in rows \cap SameKey(a) :
          /\ walletTransaction' = [walletTransaction EXCEPT ![a] = r]
          /\ Goto(a, IF req[a].op = "recharge" THEN "respond" ELSE "insert")
     \/ /\ rows \cap SameKey(a) = {}
        /\ Goto(a, "insert")
        /\ UNCHANGED walletTransaction
  /\ UNCHANGED <<host, req, resp, rows>>

\* Variant: no unique index.
InsertUnindexed(a) ==
  /\ pc[a] = "insert"
  /\ Goto(a, "readback")
  /\ UNCHANGED <<host, req, walletTransaction, resp, rows>>

\* The unique index on idempotency_key: the INSERT waits while another
\* transaction holds the key and fails once a committed row has it.
Insert(a) ==
  /\ pc[a] = "insert"
  /\ rows \cap SameKey(a) = {}
  /\ \A r \in SameKey(a) : pc[r] \notin Holding
  /\ Goto(a, "readback")
  /\ UNCHANGED <<host, req, walletTransaction, resp, rows>>

\* Variant: a duplicate starts the handler's lookup and insert again.
DuplicateKeyStartsAgain(a) ==
  /\ pc[a] = "insert"
  /\ rows \cap SameKey(a) # {}
  /\ Goto(a, "lookup")
  /\ UNCHANGED <<host, req, walletTransaction, resp, rows>>

DuplicateKey(a) ==
  /\ pc[a] = "insert"
  /\ rows \cap SameKey(a) # {}
  /\ Answer(a, Failed("duplicate"))

\* Variant: the id is answered while the commit is not awaited.
FindOneAnswersEarly(a) ==
  /\ pc[a] = "readback"
  /\ Goto(a, "commit")
  /\ resp' = [resp EXCEPT ![a] = Ok(a)]
  /\ UNCHANGED <<host, req, walletTransaction, rows>>

FindOne(a) ==
  /\ pc[a] = "readback"
  /\ Goto(a, "commit")
  /\ UNCHANGED <<host, req, walletTransaction, resp, rows>>

\* Variant: the row read back is not kept.
CommitForgetsRow(a) ==
  /\ pc[a] = "commit"
  /\ Goto(a, "respond")
  /\ rows' = rows \cup {a}
  /\ UNCHANGED <<host, req, walletTransaction, resp>>

Commit(a) ==
  /\ pc[a] = "commit"
  /\ Goto(a, "respond")
  /\ rows' = rows \cup {a}
  /\ walletTransaction' = [walletTransaction EXCEPT ![a] = a]
  /\ UNCHANGED <<host, req, resp>>

\* return walletTransaction.id
Respond(a) ==
  /\ pc[a] = "respond"
  /\ Answer(a, Ok(walletTransaction[a]))

-----------------------------------------------------------------------------
(***************************************************************************)
(* Failures.                                                               *)
(***************************************************************************)
\* What is left in the database of an attempt nobody runs any more.
Abandoned(label) ==
  CASE label = "readback" -> "aborting"
    [] label = "commit"   -> "orphan"
    [] label \in {"idle", "aborting", "orphan"} -> label
    [] OTHER -> "done"

\* A query or a statement fails, or the connection does: the handler throws.
DbError(a) ==
  /\ pc[a] \in {"balance", "lookup", "insert", "readback", "commit"}
  /\ Goto(a, Abandoned(pc[a]))
  /\ resp' = [resp EXCEPT ![a] = Failed("dberror")]
  /\ UNCHANGED <<host, req, walletTransaction, rows>>

\* A pod dies with every request it was handling; nobody answers them.
Crash(p) ==
  /\ \E a \in InFlight : host[a] = p
  /\ pc' = [a \in Attempts |-> IF host[a] = p THEN Abandoned(pc[a]) ELSE pc[a]]
  /\ UNCHANGED <<host, req, walletTransaction, resp, rows>>

\* The server rolls back a transaction whose connection is gone, or whose
\* COMMIT never reached it.
Rollback(a) ==
  /\ pc[a] \in {"aborting", "orphan"}
  /\ Goto(a, "done")
  /\ UNCHANGED <<host, req, walletTransaction, resp, rows>>

\* The COMMIT was executed although nobody was told.
OrphanCommit(a) ==
  /\ pc[a] = "orphan"
  /\ Goto(a, "done")
  /\ rows' = rows \cup {a}
  /\ UNCHANGED <<host, req, walletTransaction, resp>>

\* Every call of the run has ended.
Terminating ==
  /\ \A a \in Attempts : pc[a] = "done"
  /\ UNCHANGED vars

-----------------------------------------------------------------------------
\* The handler beyond the comparison with the balance.
Proceed(a) ==
  \/ FindByIdempKey(a)
  \/ Insert(a)
  \/ DuplicateKey(a)
  \/ FindOne(a)
  \/ Commit(a)
  \/ Respond(a)
  \/ Rollback(a)
  \/ OrphanCommit(a)

Step(a) == RejectCharge(a) \/ ApproveCharge(a) \/ Proceed(a)

Next ==
  \/ \E a \in Attempts :
       \/ \E p \in Pods, q \in Requests : Arrive(a, p, q)
       \/ Step(a)
       \/ DbError(a)
  \/ \E p \in Pods : Crash(p)
  \/ Terminating

Spec == Init /\ [][Next]_vars

\* The event loop runs the continuation of an await that has its answer, and
\* the server answers a statement that does not wait for a lock.  Calls,
\* errors and crashes need not happen.
FairSpec == Spec /\ \A a \in Attempts : WF_vars(Step(a))

-----------------------------------------------------------------------------
(***************************************************************************)
(* Properties.                                                             *)
(***************************************************************************)
ResponseType ==
  [kind : {"none", "insufficient", "duplicate", "dberror"}, row : {None}]
    \cup [kind : {"ok"}, row : Attempts]

\* Every variable has its type; only a call that has begun has a host and a
\* request, and an id is answered only when there is one.
TypeOK ==
  /\ pc   \in [Attempts -> Labels]
  /\ host \in [Attempts -> Pods \cup {None}]
  /\ req  \in [Attempts -> Requests \cup {None}]
  /\ walletTransaction \in [Attempts -> Attempts \cup {None}]
  /\ resp \in [Attempts -> ResponseType]
  /\ rows \subseteq Attempts
  /\ \A a \in Attempts : (pc[a] = "idle") <=> (req[a] = None)

\* A key moves money at most once, whatever the retries, the crashes and the
\* pods that serve them (createWalletTransaction under the unique index).
AtMostOnce ==
  \A a, b \in rows : a # b => req[a].key # req[b].key

\* An answer tells the truth about the table, and no later step makes it a
\* lie: an id is the id of a committed row with the request's key; a duplicate
\* means another attempt's row has the key; a refused charge made no row.
AnswerIsTrue(a) ==
  /\ resp[a].kind = "ok" =>
       resp[a].row \in rows /\ req[resp[a].row].key = req[a].key
  /\ resp[a].kind = "duplicate" => rows \cap SameKey(a) # {} /\ a \notin rows
  /\ resp[a].kind = "insufficient" => req[a].op = "charge" /\ a \notin rows

AnswersMatchLedger == \A a \in Attempts : AnswerIsTrue(a)

\* When every key belongs to one request, the id answered is the id of a row
\* that records exactly what was asked: retailer, currency, amount, direction.
OkRecordsTheRequest ==
  \A a \in Attempts : resp[a].kind = "ok" => req[resp[a].row] = req[a]

\* The check that precedes a charge: the balance of a wallet is never negative.
NoOverdraft == \A w \in Wallets : Balance(w) >= 0

\* Charges between the balance check and the commit: they may still post.
Approved(w) ==
  {a \in Attempts :
     /\ pc[a] \in {"lookup", "insert", "readback", "commit", "orphan"}
     /\ req[a].op = "charge"
     /\ req[a].wallet = w}

Amounts == [a \in Attempts |-> IF req[a] = None THEN 0 ELSE req[a].amount]

\* Two charges of the wallet were compared with one balance.
Racing(w) == \E a, b \in Approved(w) : a # b

\* How far the check-then-insert race can go: charges approved on the same
\* balance overdraw a wallet by at most the amounts of all but one of them.
OverdraftBound ==
  \A w \in Wallets :
    Balance(w) - SumFunctionOnSet(Amounts, Approved(w))
      >= 0 - MaxAmount * (MaxInFlight - 1)

KeyPosted(k) == \E r \in rows : req[r].key = k

\* A recharge that begins when its key is already recorded is never told of a
\* duplicate: it gets the recorded id, unless a query fails or its pod dies.
RechargeRetryIsAnswered ==
  \A a \in Attempts, k \in Keys :
    [](pc[a] = "idle" /\ KeyPosted(k) =>
         []((req[a] # None /\ req[a].op = "recharge" /\ req[a].key = k) =>
              resp[a].kind \in {"none", "dberror", "ok"}))

EntryOf(k) == IF KeyPosted(k) THEN CHOOSE r \in rows : req[r].key = k ELSE None

\* The promise: the handlers implement the idempotent ledger, in which an entry
\* is the committed row of its key and appears when the row commits.
Ledger == INSTANCE IdempotentLedger WITH
  asked  <- req,
  answer <- resp,
  entry  <- [k \in Keys |-> EntryOf(k)]

LedgerSpec == Ledger!Spec

\* Every call ends: no chain of locks, errors and crashes leaves one waiting.
EveryCallEnds ==
  \A a \in Attempts : pc[a] # "idle" ~> pc[a] = "done"

\* What a unit test of chargeWallet expects when the lookup finds a row with
\* the key: the transaction id, not an error.
FoundKeyIsAnswered ==
  \A a \in Attempts : walletTransaction[a] # None => resp[a].kind # "duplicate"
=============================================================================
