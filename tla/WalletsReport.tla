--------------------------- MODULE WalletsReport ---------------------------
(***************************************************************************)
(* POST /walletUsers, read page by page, while charges and recharges add   *)
(* rows to the table.                                                      *)
(*                                                                         *)
(* One SQL statement groups the rows into wallets and gives a page of      *)
(* them, each with its balance and with the number of wallets of all       *)
(* pages; another service names their retailers.  A filter by phone number *)
(* first asks that service for the retailer.  MySQL 5.7, which the         *)
(* repository runs, lists groups in the order of the grouped columns; later *)
(* versions promise no order.  Both are possible here: groupsAreSorted.    *)
(*                                                                         *)
(* The id of a retailer becomes part of the statement as it is, without    *)
(* quotes.  Matches says what MySQL then compares it with: a number is     *)
(* compared with the numbers that the texts of the column begin with, so   *)
(* that 7 is the retailer 7 and the retailer 07.  An id that is no literal *)
(* makes another statement, and is not modelled, unless MySQL refuses it.  *)
(***************************************************************************)
EXTENDS Integers, FiniteSets, Functions

CONSTANTS
  Wallets,          \* the groups, numbered in the order of their columns
  RetailerOf,       \* the retailer of each wallet
  CurrencyOf,       \* and its currency
  RowIds,           \* rows of the table or to come
  WalletOf,         \* the wallet of each row
  Amount,           \* its amount, negative when the impact is OUT
  Users,            \* retailers the user service knows
  Owner,            \* the retailer each phone number leads to, if any
  Matches,          \* the retailers that retailer_id = <id> holds of, for each id
  Refused,          \* ids with which the statement is none that MySQL accepts
  PerPage,          \* pagination.perPage
  Null,             \* a currency that is null: optional, but not undefined
  None              \* undefined

Retailers  == Range(RetailerOf)
Currencies == Range(CurrencyOf)
Phones     == DOMAIN Owner
FilterIds  == DOMAIN Matches

Filters == [phoneNumber : Phones \cup {None},
            retailerId  : FilterIds \cup {None},
            currency    : Currencies \cup {Null, None}]

\* The ids of the user service are numbers, and no two the same.
OwnersAreThemselves ==
  \A owner \in Range(Owner) \ {None} : Matches[owner] \cap Users \subseteq {owner}

ASSUME ReportAssumption ==
  /\ IsFiniteSet(RowIds)
  /\ Wallets \subseteq Nat /\ IsFiniteSet(Wallets)
  /\ DOMAIN RetailerOf = Wallets /\ DOMAIN CurrencyOf = Wallets
  /\ Matches \in [FilterIds -> SUBSET Retailers]
  /\ None \notin FilterIds /\ Refused \subseteq FilterIds
  /\ Null \notin Currencies \cup {None}
  /\ WalletOf \in [RowIds -> Wallets]
  /\ Amount \in [RowIds -> Int]
  /\ Range(Owner) \subseteq (Users \cap FilterIds) \cup {None}
  /\ OwnersAreThemselves
  /\ PerPage \in Nat \ {0}

VARIABLES
  groupsAreSorted, \* whether the server is one that sorts groups
  rows,           \* committed rows of wallet_transaction_entity
  filter,         \* body.filter and body.currency
  step,           \* what getWallets awaits
  currentPage,    \* pagination.currentPage
  results,        \* the rows of the statement
  retailersData,  \* the users that the user service has returned
  askedAt,        \* the table when the page was asked for
  start,          \* the table when the first page was asked for
  listed          \* the wallets of all pages answered

client == <<groupsAreSorted, filter, currentPage, start, listed>>
vars   == <<rows, client, step, results, retailersData, askedAt>>

Least(m, n) == IF m < n THEN m ELSE n

Subsets(S, n) == {T \in SUBSET S : Cardinality(T) = Least(n, Cardinality(S))}

Init ==
  /\ groupsAreSorted \in BOOLEAN
  /\ rows \in SUBSET RowIds
  /\ filter \in Filters
  /\ step = "token"
  /\ currentPage = 1
  /\ results = {}
  /\ retailersData = {}
  /\ askedAt = rows
  /\ start = rows
  /\ listed = {}

-----------------------------------------------------------------------------
(***************************************************************************)
(* The statement.                                                          *)
(***************************************************************************)
\* WHERE retailer_id = .. and currency = '..', each only when it is asked for: a
\* retailer by what is neither undefined nor empty, a currency by what is not
\* undefined, so that null is the currency 'null', which no wallet has.
Meets(w, retailerId) ==
  /\ retailerId # None => RetailerOf[w] \in Matches[retailerId]
  /\ filter.currency # None => CurrencyOf[w] = filter.currency

RowsOf(w, table) == {r \in table : WalletOf[r] = w}

Groups(retailerId, table) ==
  {w \in Wallets : Meets(w, retailerId) /\ RowsOf(w, table) # {}}

BalanceOf(w, table) == SumFunctionOnSet(Amount, RowsOf(w, table))

\* Variant: the offset is short by a wallet.
SkipOneLess == IF currentPage = 1 THEN 0 ELSE PerPage * (currentPage - 1) - 1

Skip == PerPage * (currentPage - 1)

Before(w, groups) == Cardinality({v \in groups : v < w})

PageSize(groups) ==
  Least(PerPage, IF Cardinality(groups) > Skip THEN Cardinality(groups) - Skip ELSE 0)

\* limit PerPage offset Skip
Page(groups) ==
  IF groupsAreSorted
  THEN {{w \in groups : Before(w, groups) \in Skip .. (Skip + PerPage - 1)}}
  ELSE Subsets(groups, PageSize(groups))

\* Variant: the filter is missing in the subquery that counts the wallets.
TotalOfAll(retailerId) == Cardinality({w \in Wallets : RowsOf(w, rows) # {}})

\* count(distinct retailer_id, currency)
Total(retailerId) == Cardinality(Groups(retailerId, rows))

\* Variant: the wallets are counted by a statement of its own, when asked for.
FetchWalletsCountedBefore(retailerId) ==
  retailerId \notin Refused /\ \E page \in Page(Groups(retailerId, rows)) :
    results' = {[wallet  |-> w,
                 balance |-> BalanceOf(w, rows),
                 total   |-> Cardinality(Groups(retailerId, askedAt))] : w \in page}

FetchWallets(retailerId) ==
  retailerId \notin Refused /\ \E page \in Page(Groups(retailerId, rows)) :
    results' = {[wallet  |-> w,
                 balance |-> BalanceOf(w, rows),
                 total   |-> Total(retailerId)] : w \in page}

-----------------------------------------------------------------------------
(***************************************************************************)
(* getWallets.                                                             *)
(***************************************************************************)
\* A charge or a recharge commits a row.
Post(r) ==
  /\ r \notin rows
  /\ rows' = rows \cup {r}
  /\ UNCHANGED <<client, step, results, retailersData, askedAt>>

GenerateServiceToken ==
  /\ step = "token"
  /\ step' = IF filter.phoneNumber # None THEN "phone" ELSE "wallets"
  /\ UNCHANGED <<rows, client, results, retailersData, askedAt>>

\* Variant: the length of the answer is not looked at.
FetchFirstByPhone ==
  /\ step = "phone"
  /\ retailersData' = {Owner[filter.phoneNumber]}
  /\ step' = "wallets"
  /\ results' = {}
  /\ UNCHANGED <<rows, client, askedAt>>

\* A phone number nobody has leads to no wallets, without a query.
FetchRetailerByPhone ==
  /\ step = "phone"
  /\ LET owner == Owner[filter.phoneNumber] IN
       /\ retailersData' = IF owner = None THEN {} ELSE {owner}
       /\ step' = IF owner = None THEN "answer" ELSE "wallets"
  /\ results' = {}
  /\ UNCHANGED <<rows, client, askedAt>>

\* The retailer of the phone number takes the place of the one in the filter.
FetchWalletsOfPhone ==
  /\ step = "wallets"
  /\ filter.phoneNumber # None
  /\ FetchWallets(Owner[filter.phoneNumber])
  /\ step' = "answer"
  /\ UNCHANGED <<rows, client, retailersData, askedAt>>

FetchWalletsOfAll ==
  /\ step = "wallets"
  /\ filter.phoneNumber = None
  /\ FetchWallets(filter.retailerId)
  /\ step' = "details"
  /\ UNCHANGED <<rows, client, retailersData, askedAt>>

Ids == {RetailerOf[res.wallet] : res \in results}

\* Variant: the limit is the number of the page.
FetchDetailsOfTooFew ==
  /\ step = "details"
  /\ retailersData' \in Subsets(IF results = {} THEN Users ELSE Users \cap Ids, currentPage)
  /\ step' = "answer"
  /\ UNCHANGED <<rows, client, results, askedAt>>

\* limit=PerPage and the ids of the page; with no ids the service is free to
\* return anybody.
FetchRetailersDetails ==
  /\ step = "details"
  /\ retailersData' \in Subsets(IF results = {} THEN Users ELSE Users \cap Ids, PerPage)
  /\ step' = "answer"
  /\ UNCHANGED <<rows, client, results, askedAt>>

\* totalRecords is the total of a row of the page, and 0 without rows.
TotalRecords == IF results = {} THEN 0 ELSE (CHOOSE res \in results : TRUE).total

TotalPages == (TotalRecords + PerPage - 1) \div PerPage

\* The client gets the page and asks for the next one, if it was told of one.
Answer ==
  /\ step = "answer"
  /\ listed' = listed \cup {res.wallet : res \in results}
  /\ IF currentPage < TotalPages
     THEN step' = "token" /\ currentPage' = currentPage + 1 /\ askedAt' = rows
     ELSE step' = "finished" /\ UNCHANGED <<currentPage, askedAt>>
  /\ UNCHANGED <<groupsAreSorted, rows, filter, start, results, retailersData>>

\* The token, a query or the user service fails: the client asks again.
Fail ==
  /\ step \in {"token", "phone", "wallets", "details"}
  /\ step' = "token"
  /\ askedAt' = rows
  /\ UNCHANGED <<rows, client, results, retailersData>>

-----------------------------------------------------------------------------
Next ==
  \/ \E r \in RowIds : Post(r)
  \/ GenerateServiceToken
  \/ FetchRetailerByPhone
  \/ FetchWalletsOfPhone
  \/ FetchWalletsOfAll
  \/ FetchRetailersDetails
  \/ Answer
  \/ Fail

Spec == Init /\ [][Next]_vars

-----------------------------------------------------------------------------
(***************************************************************************)
(* Properties.                                                             *)
(***************************************************************************)
\* Every variable has its type; the table only grows.
TypeOK ==
  /\ groupsAreSorted \in BOOLEAN
  /\ start \subseteq askedAt /\ askedAt \subseteq rows /\ rows \subseteq RowIds
  /\ filter \in Filters
  /\ step \in {"token", "phone", "wallets", "details", "answer", "finished"}
  /\ currentPage \in Nat \ {0}
  /\ results \subseteq [wallet : Wallets, balance : Int, total : Nat]
  /\ retailersData \subseteq Users
  /\ listed \subseteq Wallets

\* The retailers the client asked for: a phone number decides over an id.
AskedRetailers ==
  IF filter.phoneNumber # None
  THEN IF Owner[filter.phoneNumber] = None THEN {} ELSE Matches[Owner[filter.phoneNumber]]
  ELSE IF filter.retailerId = None THEN Retailers ELSE Matches[filter.retailerId]

\* What the client asked for.
Asked(w) ==
  /\ RetailerOf[w] \in AskedRetailers
  /\ filter.currency # None => CurrencyOf[w] = filter.currency

\* The wallets of a table that the client asks for.
AskedIn(table) == {w \in Wallets : Asked(w) /\ RowsOf(w, table) # {}}

\* A page lists only wallets that were asked for, as far as MySQL tells ids apart:
\* in particular, a phone number that leads to nobody lists nobody, and not every
\* wallet of the table.
OnlyAskedWallets == \A w \in listed : Asked(w)

\* The balances of a page and the number of wallets are those of one moment
\* between the request and the answer, whatever commits in between.
OneInstant ==
  step = "answer" =>
    \E T \in SUBSET (rows \ askedAt) :
      \A res \in results :
        /\ res.balance = BalanceOf(res.wallet, askedAt \cup T)
        /\ res.total = Cardinality(AskedIn(askedAt \cup T))

\* The details asked for are enough: every wallet on the page whose retailer
\* the user service knows is answered with the details of its retailer.
DetailsComplete ==
  step = "answer" => \A res \in results :
    RetailerOf[res.wallet] \in Users => RetailerOf[res.wallet] \in retailersData

\* A page that an earlier page promised is not empty.
PromisedPagesExist ==
  step = "answer" /\ currentPage > 1 => results # {}

\* When groups are sorted, a client that reads on to the last page has been
\* listed every wallet that was there when it began and that it asked for.
NothingSkipped ==
  step = "finished" /\ groupsAreSorted => AskedIn(start) \subseteq listed

\* The promise to the client: the pages are those of a list to which wallets are
\* added, in which wallets have their place only if groups are sorted.
Listing == INSTANCE PagedListing WITH
  there     <- AskedIn(rows),
  unordered <- IF groupsAreSorted THEN {} ELSE AskedIn(rows),
  begun     <- AskedIn(start),
  page      <- {res.wallet : res \in results},
  over      <- step = "finished"

ListingSpec == Listing!Spec
=============================================================================
