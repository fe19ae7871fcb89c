------------------------ MODULE DatewiseTransactions ------------------------
(***************************************************************************)
(* GET /transactions/:id and /transactions, on the table of                *)
(* TransactionPaging: the newest rows of a wallet, no more than Limit of   *)
(* them, grouped by the day they were created.                             *)
(*                                                                         *)
(* The rows are read at once, by the findAndCount of the paged listing,    *)
(* and grouped one by one; the type of each is translated by a call that   *)
(* is awaited, so the table may grow meanwhile.  A client reads either     *)
(* pages or days.                                                          *)
(***************************************************************************)
EXTENDS TransactionPaging, Sequences

CONSTANTS
  Limit,      \* take: 1000
  DayLength   \* ticks of the clock in a day

ASSUME DatewiseAssumption ==
  /\ Limit \in Nat \ {0}
  /\ DayLength \in Nat \ {0}

VARIABLES
  reader,     \* what the client reads: "pages" or "days"
  dateWise,   \* the Map, as the sequence of its entries
  left,       \* the rows the loop has yet to come to
  asOf        \* the rows that were committed when the rows were read

days    == <<reader, dateWise, left, asOf>>
allVars == <<vars, days>>

DatewiseInit ==
  /\ Init
  /\ reader \in {"pages", "days"}
  /\ dateWise = <<>>
  /\ left = {}
  /\ asOf = {}

-----------------------------------------------------------------------------
\* AppUtil.formatDate(t.createdAt)
FormatDate(t) == createdAt[t] \div DayLength

Entries == DOMAIN dateWise

RowsOn(i) == {dateWise[i].transactions[j] : j \in DOMAIN dateWise[i].transactions}

Grouped == UNION {RowsOn(i) : i \in Entries}

\* Variant: one more row than the limit is skipped.
FindSkippingOne ==
  \E before \in Newest(1), upto \in Newest(Limit + 1) :
    before \subseteq upto /\ results' = upto \ before

\* fetchTranactions({ currency }, retailerId, 1000, 0)
FindUpToLimit == results' \in Newest(Limit)

FindByDate ==
  /\ step = "asked"
  /\ FindUpToLimit
  /\ left' = results'
  /\ asOf' = rows
  /\ step' = "found"
  /\ UNCHANGED <<table, client, totalRecords, reader, dateWise>>

\* The number of rows is read and not used.
CountByDate == Count /\ UNCHANGED days

\* Variant: a row takes the place of those of its day.
SetAlone(t) ==
  IF \E i \in Entries : dateWise[i].date = FormatDate(t)
  THEN [i \in Entries |->
         IF dateWise[i].date = FormatDate(t)
         THEN [dateWise[i] EXCEPT !.transactions = <<t>>] ELSE dateWise[i]]
  ELSE Append(dateWise, [date |-> FormatDate(t), transactions |-> <<t>>])

\* dateWise.set(dateKey, [...trans, t]): a new key comes last.
Set(t) ==
  IF \E i \in Entries : dateWise[i].date = FormatDate(t)
  THEN [i \in Entries |->
         IF dateWise[i].date = FormatDate(t)
         THEN [dateWise[i] EXCEPT !.transactions = Append(@, t)] ELSE dateWise[i]]
  ELSE Append(dateWise, [date |-> FormatDate(t), transactions |-> <<t>>])

\* Variant: the loop takes the rows in no order.
InAnyOrder == left

\* The rows the loop may come to, in the order of the statement.
NextInOrder == {t \in left : \A s \in left : createdAt[s] <= createdAt[t]}

\* A round of the loop, after its await.
Group ==
  /\ step = "counted"
  /\ \E t \in NextInOrder : dateWise' = Set(t) /\ left' = left \ {t}
  /\ UNCHANGED <<vars, reader, asOf>>

\* The entries are returned; the client may ask again.
AnswerByDate ==
  /\ step = "counted"
  /\ left = {}
  /\ step' = "asked"
  /\ dateWise' = <<>>
  /\ UNCHANGED <<table, client, results, totalRecords, reader, left, asOf>>

\* A query fails, or the pod dies: the client asks again.
FailByDate ==
  /\ Fail
  /\ dateWise' = <<>>
  /\ left' = {}
  /\ UNCHANGED <<reader, asOf>>

ReadDays == FindByDate \/ CountByDate \/ Group \/ AnswerByDate \/ FailByDate

DatewiseNext ==
  \/ Posting /\ UNCHANGED days
  \/ reader = "pages" /\ Paging /\ UNCHANGED days
  \/ reader = "days" /\ ReadDays

DatewiseSpec == DatewiseInit /\ [][DatewiseNext]_allVars

-----------------------------------------------------------------------------
(***************************************************************************)
(* Properties.                                                             *)
(***************************************************************************)
DaysRead == reader = "days" /\ step = "counted" /\ left = {}

\* The limit cuts off only the oldest rows, and only when it is reached: a row
\* that was there and is not in the answer is older than none of the answer's
\* rows, whatever has been committed, or commits while the answer is built.
OnlyTheOldestAreCut ==
  DaysRead => \A r \in asOf \ Grouped :
    /\ Cardinality(Grouped) = Limit
    /\ \A t \in Grouped : createdAt[r] <= createdAt[t]

\* Nothing in the answer says that it was cut off, but of all days except the
\* oldest it has every row that was there.
DaysAreWhole ==
  DaysRead => \A i \in Entries : i < Len(dateWise) =>
    {r \in asOf : FormatDate(r) = dateWise[i].date} \subseteq RowsOn(i)

\* The answer is a statement of the wallet: every row once, under its day, the
\* newest day and in a day the newest row first.
NewestFirst ==
  DaysRead =>
    /\ \A i \in Entries : \A t \in RowsOn(i) : FormatDate(t) = dateWise[i].date
    /\ \A i, j \in Entries : i < j => dateWise[i].date > dateWise[j].date
    /\ \A i \in Entries : \A j, k \in DOMAIN dateWise[i].transactions :
         j < k =>
           LET t == dateWise[i].transactions[j]
               u == dateWise[i].transactions[k]
           IN t # u /\ createdAt[t] >= createdAt[u]
=============================================================================
