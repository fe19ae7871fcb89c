------------------------- MODULE TransactionPaging -------------------------
(***************************************************************************)
(* POST /walletTransactions, read page by page, while charges and          *)
(* recharges add rows to the table.                                        *)
(*                                                                         *)
(* A page is an offset into the rows that match the filter, newest first,  *)
(* so every row that commits meanwhile moves the older ones.  The rows and *)
(* their number are two queries, outside a transaction.  created_at is set *)
(* by the INSERT, so rows need not appear in its order, and MySQL may list *)
(* rows of one created_at in another order each time.                      *)
(***************************************************************************)
EXTENDS Integers, FiniteSets

CONSTANTS
  RowIds,      \* rows that match the filter, whether in the table or to come
  PerPage,     \* pagination.perPage
  MaxTime,     \* bound on the clock of the database server
  Unset

ASSUME PagingAssumption ==
  /\ IsFiniteSet(RowIds)
  /\ PerPage \in Nat \ {0}
  /\ MaxTime \in Nat
  /\ Unset \notin 0 .. MaxTime

VARIABLES
  now,          \* CURRENT_TIMESTAMP(6)
  createdAt,    \* of the rows inserted so far
  rows,         \* committed rows
  step,         \* what getWalletTransactions awaits
  currentPage,  \* pagination.currentPage
  results,      \* the rows of the page
  totalRecords, \* the number of rows of all pages
  start,        \* the rows that were committed when the first page was read
  listed,       \* the rows of all pages answered
  repeated      \* the rows of two pages or more

table  == <<now, createdAt, rows>>
client == <<currentPage, start, listed, repeated>>
vars   == <<table, client, step, results, totalRecords>>

Inserted == {r \in RowIds : createdAt[r] # Unset}

Least(m, n) == IF m < n THEN m ELSE n

\* The table when the client begins.
Init ==
  /\ now \in 0 .. MaxTime
  /\ createdAt \in [RowIds -> (0 .. now) \cup {Unset}]
  /\ rows \in SUBSET Inserted
  /\ step = "asked"
  /\ currentPage = 1
  /\ results = {}
  /\ totalRecords = 0
  /\ start = rows
  /\ listed = {}
  /\ repeated = {}

-----------------------------------------------------------------------------
(***************************************************************************)
(* The table, under the transactions of charges and recharges.             *)
(***************************************************************************)
Tick ==
  /\ now < MaxTime
  /\ now' = now + 1
  /\ UNCHANGED <<createdAt, rows, client, step, results, totalRecords>>

Insert(r) ==
  /\ createdAt[r] = Unset
  /\ createdAt' = [createdAt EXCEPT ![r] = now]
  /\ UNCHANGED <<now, rows, client, step, results, totalRecords>>

Commit(r) ==
  /\ r \in Inserted \ rows
  /\ rows' = rows \cup {r}
  /\ UNCHANGED <<now, createdAt, client, step, results, totalRecords>>

Rollback(r) ==
  /\ r \in Inserted \ rows
  /\ createdAt' = [createdAt EXCEPT ![r] = Unset]
  /\ UNCHANGED <<now, rows, client, step, results, totalRecords>>

-----------------------------------------------------------------------------
(***************************************************************************)
(* getWalletTransactions: findAndCount, then the answer.                   *)
(***************************************************************************)
Skip == PerPage * (currentPage - 1)

\* Variant: rows that have not been committed are found.
NewestInserted(n) ==
  {T \in SUBSET Inserted :
     /\ Cardinality(T) = Least(n, Cardinality(Inserted))
     /\ \A t \in T, s \in Inserted : createdAt[s] > createdAt[t] => s \in T}

\* The n first rows of some order by created_at DESC.
Newest(n) ==
  {T \in SUBSET rows :
     /\ Cardinality(T) = Least(n, Cardinality(rows))
     /\ \A t \in T, s \in rows : createdAt[s] > createdAt[t] => s \in T}

\* take perPage, skip perPage * (currentPage - 1)
Find ==
  /\ step = "asked"
  /\ \E before \in Newest(Skip), upto \in Newest(Skip + PerPage) :
       before \subseteq upto /\ results' = upto \ before
  /\ step' = "found"
  /\ UNCHANGED <<table, client, totalRecords>>

NumberOfRows == Cardinality(rows)

Count ==
  /\ step = "found"
  /\ totalRecords' = NumberOfRows
  /\ step' = "counted"
  /\ UNCHANGED <<table, client, results>>

\* Variant: the quotient is rounded down.
FullPages == totalRecords \div PerPage

TotalPages == (totalRecords + PerPage - 1) \div PerPage

\* The client gets the page.  It asks for the next one, but for no page beyond
\* totalPages.
Answer ==
  /\ step = "counted"
  /\ listed' = listed \cup results
  /\ repeated' = repeated \cup (listed \cap results)
  /\ IF currentPage < TotalPages
     THEN step' = "asked" /\ currentPage' = currentPage + 1
     ELSE step' = "finished" /\ UNCHANGED currentPage
  /\ UNCHANGED <<table, start, results, totalRecords>>

\* A query fails, or the pod dies: the client asks for the same page again.
Fail ==
  /\ step \in {"found", "counted"}
  /\ step' = "asked"
  /\ UNCHANGED <<table, client, results, totalRecords>>

-----------------------------------------------------------------------------
Posting == Tick \/ \E r \in RowIds : Insert(r) \/ Commit(r) \/ Rollback(r)

Paging == Find \/ Count \/ Answer \/ Fail

Next == Posting \/ Paging

Spec == Init /\ [][Next]_vars

-----------------------------------------------------------------------------
(***************************************************************************)
(* Properties.                                                             *)
(***************************************************************************)
\* Every variable has its type; what a page lists has been committed.
TypeOK ==
  /\ now \in 0 .. MaxTime
  /\ createdAt \in [RowIds -> (0 .. MaxTime) \cup {Unset}]
  /\ rows \subseteq Inserted
  /\ step \in {"asked", "found", "counted", "finished"}
  /\ currentPage \in Nat \ {0}
  /\ totalRecords \in Nat
  /\ start \subseteq rows
  /\ results \subseteq rows
  /\ listed \subseteq rows
  /\ repeated \subseteq listed

\* No other row of the table has its created_at.
Untied(r) == \A s \in rows \ {r} : createdAt[s] # createdAt[r]

\* Whatever commits between the pages and between the two queries of a page, a
\* client that reads on to the last page has been listed every row that was
\* there when it began (findAndCount counts after it has found).
NothingSkipped ==
  step = "finished" => \A r \in start : Untied(r) => r \in listed

\* A row is listed twice only because of rows committed since the walk began.
RepeatsMeanNewRows ==
  (\E r \in repeated : Untied(r)) => rows # start

\* The promise to the client: the pages are those of a list to which rows are
\* added, in which rows of one created_at have no place of their own.
Listing == INSTANCE PagedListing WITH
  there     <- rows,
  unordered <- {r \in rows : ~Untied(r)},
  begun     <- start,
  page      <- results,
  over      <- step = "finished"

ListingSpec == Listing!Spec
=============================================================================
