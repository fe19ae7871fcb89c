------------------------ MODULE WalletsReportProofs ------------------------
(***************************************************************************)
(* Proofs about WalletsReport, for any table, any wallets and any page     *)
(* size, whether or not groups are sorted.                                 *)
(*                                                                         *)
(* The results of a page are those of one table that the walk remembers:   *)
(* at least the table at the time the page was asked for, and at most the  *)
(* table now.  That is enough, because nothing the walk relies on is       *)
(* undone when rows are added: a wallet stays a wallet, and the wallets    *)
(* before it stay before it.                                               *)
(***************************************************************************)
EXTENDS WalletsReport, SumTheorems

-----------------------------------------------------------------------------
(***************************************************************************)
(* Counting the members of a finite set of naturals.                       *)
(***************************************************************************)
\* A set of naturals that is not empty has a least member.
LEMMA LeastOf ==
  ASSUME NEW S, S \subseteq Nat, S # {}
  PROVE  \E m \in S : \A k \in S : m <= k
<1>1. PICK m \in S : \A k \in S : ~ (<<k, m>> \in OpToRel(<, Nat))
  BY WFMin, NatLessThanWellFounded
<1>2. \A k \in S : k < m => <<k, m>> \in OpToRel(<, Nat)
  BY DEF OpToRel
<1>3. \A k \in S : ~(k < m)
  BY <1>1, <1>2
<1>4. \A k \in S : m <= k
  BY <1>3
<1> QED BY <1>4

\* The members before a number are counted by a natural.
LEMMA BeforeType ==
  ASSUME NEW G, G \subseteq Nat, IsFiniteSet(G), NEW w
  PROVE  /\ IsFiniteSet({v \in G : v < w})
         /\ Before(w, G) \in Nat
<1>1. {v \in G : v < w} \in SUBSET G
  OBVIOUS
<1> QED BY <1>1, FS_Subset, FS_CardinalityType DEF Before

\* A member has fewer before it than there are.
LEMMA BeforeIsLess ==
  ASSUME NEW G, G \subseteq Nat, IsFiniteSet(G), NEW w \in G
  PROVE  Before(w, G) < Cardinality(G)
<1>1. /\ IsFiniteSet(G \ {w}) /\ Cardinality(G \ {w}) = Cardinality(G) - 1
      /\ Cardinality(G) \in Nat
  BY FS_RemoveElement, FS_CardinalityType
<1>2. {v \in G : v < w} \in SUBSET (G \ {w})
  OBVIOUS
<1>3. Before(w, G) <= Cardinality(G) - 1
  BY <1>1, <1>2, FS_Subset DEF Before
<1>4. Before(w, G) \in Nat
  BY BeforeType
<1> QED BY <1>1, <1>3, <1>4

\* A later member has more before it.
LEMMA BeforeGrows ==
  ASSUME NEW G, G \subseteq Nat, IsFiniteSet(G), NEW v \in G, NEW w \in G, v < w
  PROVE  Before(v, G) < Before(w, G)
<1> DEFINE A == {u \in G : u < v}
           B == {u \in G : u < w}
<1>1. IsFiniteSet(A) /\ IsFiniteSet(B)
  BY BeforeType
<1>2. v \notin A /\ A \cup {v} \in SUBSET B
  <2>1. v \in Nat /\ w \in Nat /\ \A u \in G : u \in Nat
    OBVIOUS
  <2>2. \A u \in G : u < v => u < w
    BY <2>1
  <2>3. ~(v < v)
    BY <2>1
  <2> QED BY <2>2, <2>3
<1>3. Cardinality(A \cup {v}) = Cardinality(A) + 1
  BY <1>1, <1>2, FS_AddElement
<1>4. Cardinality(A \cup {v}) <= Cardinality(B)
  BY <1>1, <1>2, FS_Subset
<1>5. Before(v, G) = Cardinality(A) /\ Before(w, G) = Cardinality(B)
  BY DEF Before
<1>6. Cardinality(A) \in Nat /\ Cardinality(B) \in Nat
  BY <1>1, FS_CardinalityType
<1> QED BY <1>3, <1>4, <1>5, <1>6

\* More members, more before a number.
LEMMA BeforeMonotone ==
  ASSUME NEW H, H \subseteq Nat, IsFiniteSet(H), NEW G, G \subseteq H, NEW w
  PROVE  Before(w, G) <= Before(w, H)
<1>1. {v \in G : v < w} \in SUBSET {v \in H : v < w}
  OBVIOUS
<1> QED BY <1>1, BeforeType, FS_Subset DEF Before

\* The members are at the places 0, 1, 2, ... and none is left out.
LEMMA BeforeOnto ==
  ASSUME NEW G, G \subseteq Nat, IsFiniteSet(G), NEW n \in Nat, n < Cardinality(G)
  PROVE  \E w \in G : Before(w, G) = n
<1> DEFINE P == {k \in Nat : k < Cardinality(G) => \E w \in G : Before(w, G) = k}
<1>1. 0 \in P
  <2> SUFFICES ASSUME 0 < Cardinality(G) PROVE \E w \in G : Before(w, G) = 0
    OBVIOUS
  <2>1. G # {}
    BY FS_EmptySet
  <2>2. PICK w \in G : \A k \in G : w <= k
    BY <2>1, LeastOf
  <2>3. {v \in G : v < w} = {}
    <3>1. \A v \in G : v \in Nat /\ w \in Nat /\ w <= v
      BY <2>2
    <3>2. \A v \in G : ~(v < w)
      BY <3>1
    <3> QED BY <3>2
  <2> QED BY <2>3, FS_EmptySet DEF Before
<1>2. ASSUME NEW k \in Nat, k \in P PROVE k + 1 \in P
  <2> SUFFICES ASSUME k + 1 < Cardinality(G) PROVE \E u \in G : Before(u, G) = k + 1
    OBVIOUS
  <2>1. Cardinality(G) \in Nat
    BY FS_CardinalityType
  <2>2. PICK w \in G : Before(w, G) = k
    BY <1>2, <2>1
  <2> DEFINE A == {v \in G : v < w}
             B == {v \in G : v > w}
  <2> w \in Nat /\ \A v \in G : v \in Nat
    OBVIOUS
  <2>3. /\ IsFiniteSet(A) /\ Cardinality(A) = k /\ w \notin A
        /\ IsFiniteSet(A \cup {w}) /\ Cardinality(A \cup {w}) = k + 1
    <3>1. IsFiniteSet(A) /\ Cardinality(A) = k
      BY <2>2, BeforeType DEF Before
    <3>2. w \notin A
      OBVIOUS
    <3> HIDE DEF A
    <3> QED BY <3>1, <3>2, FS_AddElement
  <2>4. B # {}
    <3> SUFFICES ASSUME B = {} PROVE FALSE
      OBVIOUS
    <3>1. \A v \in G : ~(v > w) /\ (~(v > w) => v < w \/ v = w)
      OBVIOUS
    <3>2. G = A \cup {w}
      BY <3>1
    <3> HIDE DEF A, B
    <3> QED BY <2>1, <2>3, <3>2
  <2>5. PICK u \in B : \A v \in B : u <= v
    BY <2>4, LeastOf
  <2>6. {v \in G : v < u} = A \cup {w}
    <3>1. u \in G /\ u > w /\ \A v \in G : v > w => u <= v
      BY <2>5
    <3>2. \A v \in G : v < u <=> v < w \/ v = w
      BY <3>1
    <3> QED BY <3>2
  <2> QED BY <2>3, <2>5, <2>6 DEF Before
<1>3. Nat \subseteq P
  <2> HIDE DEF P
  <2> QED BY <1>1, <1>2, NatSetInduction
<1> QED BY <1>3

-----------------------------------------------------------------------------
(***************************************************************************)
(* A page of the groups.                                                   *)
(***************************************************************************)
\* A page holds groups, no more of them than PerPage, and some if there are any
\* beyond the offset.
LEMMA PageFits ==
  ASSUME NEW G, G \subseteq Nat, IsFiniteSet(G), Skip \in Nat, PerPage \in Nat \ {0},
         NEW page \in Page(G)
  PROVE  /\ page \subseteq G /\ IsFiniteSet(page)
         /\ Cardinality(page) <= PerPage
         /\ Skip < Cardinality(G) => page # {}
<1> DEFINE places == Skip .. (Skip + PerPage - 1)
<1>1. page \subseteq G
  BY DEF Page, Subsets
<1>2. IsFiniteSet(page) /\ Cardinality(page) \in Nat /\ Cardinality(G) \in Nat
  BY <1>1, FS_Subset, FS_CardinalityType
<1>3. CASE groupsAreSorted
  <2>1. page = {w \in G : Before(w, G) \in places}
    BY <1>3 DEF Page
  <2>2. IsFiniteSet(places) /\ Cardinality(places) = PerPage
    BY FS_Interval
  <2> DEFINE f == [w \in page |-> Before(w, G)]
  <2>3. \A v, w \in page : Before(v, G) = Before(w, G) => v = w
    <3>1. \A v, w \in G : v \in Nat /\ w \in Nat
      OBVIOUS
    <3>2. \A v, w \in G : v < w => Before(v, G) < Before(w, G)
      BY BeforeGrows
    <3>3. \A w \in G : Before(w, G) \in Nat
      BY BeforeType
    <3> QED BY <1>1, <3>1, <3>2, <3>3
  <2>4. f \in Injection(page, places)
    BY <2>1, <2>3 DEF Injection, IsInjective
  <2>5. Cardinality(page) <= PerPage
    BY <2>2, <2>4, FS_Injection
  <2>6. ASSUME Skip < Cardinality(G) PROVE page # {}
    <3>1. PICK w \in G : Before(w, G) = Skip
      BY <2>6, BeforeOnto
    <3>2. Skip \in places
      OBVIOUS
    <3> QED BY <2>1, <3>1, <3>2
  <2> QED BY <1>1, <1>2, <2>5, <2>6
<1>4. CASE ~groupsAreSorted
  <2>1. Cardinality(page) = Least(PageSize(G), Cardinality(G))
    BY <1>4 DEF Page, Subsets
  <2>2. /\ Cardinality(page) <= PerPage
        /\ Skip < Cardinality(G) => Cardinality(page) # 0
    BY <1>2, <2>1 DEF Least, PageSize
  <2>3. page = {} => Cardinality(page) = 0
    BY FS_EmptySet
  <2> QED BY <1>1, <1>2, <2>2, <2>3
<1> QED BY <1>3, <1>4

\* When groups are sorted, what is not before a page is on it or behind it.
LEMMA RestIsBehind ==
  ASSUME NEW G, G \subseteq Nat, IsFiniteSet(G), Skip \in Nat, PerPage \in Nat \ {0},
         groupsAreSorted, NEW page \in Page(G),
         NEW w \in G, w \notin page, Skip <= Before(w, G)
  PROVE  Skip + PerPage <= Before(w, G)
<1>1. Before(w, G) \notin Skip .. (Skip + PerPage - 1)
  BY DEF Page
<1>2. Before(w, G) \in Nat
  BY BeforeType
<1> QED BY <1>1, <1>2

\* There is a next page when there are more groups than the pages so far hold.
LEMMA MorePages ==
  ASSUME NEW p \in Nat \ {0}, NEW c \in Nat, NEW n \in Nat
  PROVE  c < (n + p - 1) \div p <=> p * c < n
<1> DEFINE q == (n + p - 1) \div p
<1>1. q \in Int /\ p * q <= n + p - 1 /\ n + p - 1 < p * q + p
  BY SMTT(30)
<1> HIDE DEF q
<1>2. ASSUME q <= c PROVE p * q <= p * c
  BY <1>1, <1>2, SMTT(30)
<1>3. ASSUME c + 1 <= q PROVE p * (c + 1) <= p * q
  BY <1>1, <1>3, SMTT(30)
<1>4. p * (c + 1) = p * c + p /\ p * c \in Int /\ p * q \in Int
  BY <1>1, SMTT(30)
<1>5. q <= c \/ c + 1 <= q
  BY <1>1
<1>6. c < q <=> p * c < n
  BY <1>1, <1>2, <1>3, <1>4, <1>5
<1> QED BY <1>6 DEF q

-----------------------------------------------------------------------------
(***************************************************************************)
(* The invariant.                                                          *)
(***************************************************************************)
ResultsOf(page, table) ==
  {[wallet  |-> w,
    balance |-> BalanceOf(w, table),
    total   |-> Cardinality(AskedIn(table))] : w \in page}

ReadFrom(table) ==
  \E page \in Page(AskedIn(table)) : results = ResultsOf(page, table)

\* What the steps of getWallets may rely on.
PhoneFirst ==
  /\ step = "phone" => filter.phoneNumber # None
  /\ step = "details" => filter.phoneNumber = None
  /\ step = "wallets" /\ filter.phoneNumber # None =>
       /\ Owner[filter.phoneNumber] # None
       /\ retailersData = {Owner[filter.phoneNumber]}

\* The results are those of one table.
Snapshot ==
  step \in {"details", "answer"} =>
    \E table \in SUBSET rows : askedAt \subseteq table /\ ReadFrom(table)

\* A page after the first one was promised by the table.
Promised == currentPage = 1 \/ Skip < Cardinality(AskedIn(askedAt))

\* When groups are sorted, a wallet that is not listed is not before the page.
NothingMissed ==
  groupsAreSorted =>
    \A w \in AskedIn(start) :
      w \in listed \/ (step # "finished" /\ Skip <= Before(w, AskedIn(askedAt)))

ReportInv ==
  /\ TypeOK
  /\ PhoneFirst
  /\ Snapshot
  /\ DetailsComplete
  /\ OnlyAskedWallets
  /\ Promised
  /\ NothingMissed

-----------------------------------------------------------------------------
(***************************************************************************)
(* Types.                                                                  *)
(***************************************************************************)
\* A balance is an integer.
LEMMA BalanceType ==
  ASSUME NEW table, table \subseteq RowIds, NEW w
  PROVE  BalanceOf(w, table) \in Int
<1>1. RowsOf(w, table) \in SUBSET RowIds
  BY DEF RowsOf
<1>2. IsFiniteSet(RowsOf(w, table))
  BY <1>1, ReportAssumption, FS_Subset
<1>3. IntOn(Amount, RowsOf(w, table))
  BY <1>1, ReportAssumption DEF IntOn
<1> QED BY <1>2, <1>3, SumRemove DEF BalanceOf

\* The wallets asked for are finitely many, and numbers.
LEMMA AskedType ==
  ASSUME NEW table
  PROVE  /\ AskedIn(table) \subseteq Wallets
         /\ AskedIn(table) \subseteq Nat
         /\ IsFiniteSet(AskedIn(table))
         /\ Cardinality(AskedIn(table)) \in Nat
<1>1. AskedIn(table) \in SUBSET Wallets
  BY DEF AskedIn
<1>2. Wallets \subseteq Nat /\ IsFiniteSet(Wallets)
  BY ReportAssumption
<1> QED BY <1>1, <1>2, FS_Subset, FS_CardinalityType

\* A table that grows loses no wallet.
LEMMA AskedGrows ==
  ASSUME NEW more, NEW table, table \subseteq more
  PROVE  /\ AskedIn(table) \subseteq AskedIn(more)
         /\ Cardinality(AskedIn(table)) <= Cardinality(AskedIn(more))
         /\ \A w : Before(w, AskedIn(table)) <= Before(w, AskedIn(more))
         /\ \A w : Before(w, AskedIn(table)) \in Nat /\ Before(w, AskedIn(more)) \in Nat
<1>1. AskedIn(table) \subseteq AskedIn(more)
  BY DEF AskedIn, RowsOf
<1>2. Cardinality(AskedIn(table)) <= Cardinality(AskedIn(more))
  BY <1>1, AskedType, FS_Subset
<1>3. \A w : Before(w, AskedIn(table)) <= Before(w, AskedIn(more))
  BY <1>1, AskedType, BeforeMonotone
<1>4. \A w : Before(w, AskedIn(table)) \in Nat /\ Before(w, AskedIn(more)) \in Nat
  BY AskedType, BeforeType
<1> QED BY <1>1, <1>2, <1>3, <1>4

\* The offset of a page, and of the next one.
LEMMA SkipType ==
  ASSUME currentPage \in Nat \ {0}
  PROVE  /\ Skip \in Nat /\ PerPage \in Nat \ {0}
         /\ currentPage = 1 => Skip = 0
         /\ PerPage * currentPage = Skip + PerPage
<1>1. PerPage \in Nat \ {0} /\ currentPage - 1 \in Nat
  BY ReportAssumption
<1>2. \A p \in Nat, c \in Nat :
        p * c \in Nat /\ p * (c + 1) = p * c + p /\ p * 0 = 0
  BY SMTT(30)
<1>3. /\ PerPage * (currentPage - 1) \in Nat
      /\ PerPage * ((currentPage - 1) + 1) = PerPage * (currentPage - 1) + PerPage
      /\ PerPage * 0 = 0
  BY <1>1, <1>2
<1>4. (currentPage - 1) + 1 = currentPage /\ (currentPage = 1 => currentPage - 1 = 0)
  OBVIOUS
<1> QED BY <1>1, <1>3, <1>4 DEF Skip

\* The rows of a page have their types, and lead to as many retailers at most.
LEMMA ResultsType ==
  ASSUME NEW table, table \subseteq RowIds, NEW page, page \subseteq Wallets
  PROVE  ResultsOf(page, table) \subseteq [wallet : Wallets, balance : Int, total : Nat]
BY BalanceType, AskedType DEF ResultsOf

\* While the client waits, the pages it may be given stay the same.
LEMMA ReadLater ==
  ASSUME UNCHANGED client, NEW table
  PROVE  /\ AskedIn(table)' = AskedIn(table)
         /\ Page(AskedIn(table))' = Page(AskedIn(table))
         /\ \A page : ResultsOf(page, table)' = ResultsOf(page, table)
<1>1. \A w : Asked(w)' <=> Asked(w)
  BY DEF client, Asked, AskedRetailers
<1>2. AskedIn(table)' = AskedIn(table)
  BY <1>1 DEF AskedIn, RowsOf
<1>3. Page(AskedIn(table))' = Page(AskedIn(table))
  BY <1>2 DEF client, Page, PageSize, Skip
<1>4. \A page : ResultsOf(page, table)' = ResultsOf(page, table)
  BY <1>2 DEF ResultsOf, BalanceOf, RowsOf
<1> QED BY <1>2, <1>3, <1>4

\* The statement reads the wallets asked for.
LEMMA FetchReads ==
  ASSUME NEW retailerId, FetchWallets(retailerId), UNCHANGED client,
         \A w \in Wallets : Meets(w, retailerId) <=> Asked(w),
         NEW table, table = rows
  PROVE  /\ \E page \in Page(AskedIn(table)) : results' = ResultsOf(page, table)
         /\ ReadFrom(table)'
<1>1. Groups(retailerId, rows) = AskedIn(table)
  BY DEF Groups, AskedIn
<1>2. PICK page \in Page(AskedIn(table)) : results' = ResultsOf(page, table)
  BY <1>1 DEF FetchWallets, ResultsOf, Total
<1>3. page \in Page(AskedIn(table))' /\ ResultsOf(page, table)' = ResultsOf(page, table)
  BY ReadLater
<1>4. ReadFrom(table)'
  BY <1>2, <1>3 DEF ReadFrom
<1> QED BY <1>2, <1>4

\* What was read from a table stays read from it.
LEMMA ReadStays ==
  ASSUME UNCHANGED client, UNCHANGED results, NEW table, ReadFrom(table)
  PROVE  ReadFrom(table)'
<1>1. PICK page \in Page(AskedIn(table)) : results = ResultsOf(page, table)
  BY DEF ReadFrom
<1>2. page \in Page(AskedIn(table))' /\ results' = ResultsOf(page, table)'
  BY <1>1, ReadLater
<1> QED BY <1>2 DEF ReadFrom

\* The invariant holds at the start.
LEMMA ReportInit == Init => ReportInv
<1> SUFFICES ASSUME Init PROVE ReportInv
  OBVIOUS
<1>1. TypeOK
  BY DEF Init, TypeOK
<1>2. Skip = 0
  BY <1>1, SkipType DEF Init, TypeOK
<1>3. NothingMissed
  <2>1. \A w : Before(w, AskedIn(askedAt)) \in Nat
    BY AskedGrows
  <2> QED BY <1>2, <2>1 DEF Init, NothingMissed
<1> QED
  BY <1>1, <1>3 DEF Init, ReportInv, PhoneFirst, Snapshot, DetailsComplete, OnlyAskedWallets,
     Promised

-----------------------------------------------------------------------------
(***************************************************************************)
(* Every step keeps the invariant.                                         *)
(***************************************************************************)
\* As long as a page is not answered the walk stays where it is, whether the
\* table is the one it was asked of or is asked again.
LEMMA WalkStays ==
  ASSUME ReportInv, UNCHANGED client,
         \/ askedAt' = askedAt /\ (step = "finished" <=> step' = "finished")
         \/ askedAt' = rows /\ step' # "finished"
  PROVE  OnlyAskedWallets' /\ Promised' /\ NothingMissed'
<1>1. \A w : Asked(w)' <=> Asked(w)
  BY DEF client, Asked, AskedRetailers
<1>2. Skip' = Skip /\ AskedIn(start)' = AskedIn(start)
  BY <1>1 DEF client, Skip, AskedIn, RowsOf
<1>3. askedAt \subseteq askedAt'
  BY DEF ReportInv, TypeOK
<1>4. AskedIn(askedAt)' = {w \in Wallets : Asked(w) /\ RowsOf(w, askedAt') # {}}
  BY <1>1 DEF AskedIn, RowsOf
<1>5. /\ Cardinality(AskedIn(askedAt)) <= Cardinality(AskedIn(askedAt)')
      /\ Cardinality(AskedIn(askedAt)) \in Nat /\ Cardinality(AskedIn(askedAt)') \in Nat
      /\ \A w : Before(w, AskedIn(askedAt)) <= Before(w, AskedIn(askedAt)')
      /\ \A w : Before(w, AskedIn(askedAt)) \in Nat /\ Before(w, AskedIn(askedAt)') \in Nat
  BY <1>3, <1>4, AskedGrows, AskedType DEF AskedIn
<1>6. Skip \in Nat
  BY SkipType DEF ReportInv, TypeOK
<1>7. OnlyAskedWallets'
  BY <1>1 DEF ReportInv, OnlyAskedWallets, client
<1>8. Promised'
  BY <1>2, <1>5, <1>6 DEF ReportInv, Promised, client
<1>9. NothingMissed'
  BY <1>2, <1>5, <1>6 DEF ReportInv, NothingMissed, client
<1> QED BY <1>7, <1>8, <1>9

\* A charge or a recharge commits.
LEMMA PostKeeps ==
  ASSUME ReportInv, NEW r \in RowIds, Post(r)
  PROVE  ReportInv'
<1> USE DEF Post
<1>1. TypeOK'
  BY DEF ReportInv, TypeOK, client
<1>2. PhoneFirst'
  BY DEF ReportInv, PhoneFirst, client
<1>3. Snapshot'
  <2> SUFFICES ASSUME step \in {"details", "answer"}
               PROVE  \E table \in SUBSET (rows') : askedAt' \subseteq table /\ ReadFrom(table)'
    BY DEF Snapshot
  <2>1. PICK table \in SUBSET rows : askedAt \subseteq table /\ ReadFrom(table)
    BY DEF ReportInv, Snapshot
  <2>2. ReadFrom(table)'
    BY <2>1, ReadStays
  <2> QED BY <2>1, <2>2
<1>4. DetailsComplete'
  BY DEF ReportInv, DetailsComplete
<1>5. OnlyAskedWallets' /\ Promised' /\ NothingMissed'
  BY WalkStays
<1> QED BY <1>1, <1>2, <1>3, <1>4, <1>5 DEF ReportInv

\* The token is generated.
LEMMA TokenKeeps ==
  ASSUME ReportInv, GenerateServiceToken
  PROVE  ReportInv'
<1> USE DEF GenerateServiceToken
<1>1. TypeOK'
  BY DEF ReportInv, TypeOK, client
<1>2. PhoneFirst'
  BY DEF PhoneFirst, client
<1>3. Snapshot' /\ DetailsComplete'
  BY DEF Snapshot, DetailsComplete
<1>4. OnlyAskedWallets' /\ Promised' /\ NothingMissed'
  BY WalkStays
<1> QED BY <1>1, <1>2, <1>3, <1>4 DEF ReportInv

\* The retailer of a phone number is found, or is not.
LEMMA PhoneKeeps ==
  ASSUME ReportInv, FetchRetailerByPhone
  PROVE  ReportInv'
<1> USE DEF FetchRetailerByPhone
<1> DEFINE owner == Owner[filter.phoneNumber]
<1>1. filter.phoneNumber # None /\ filter.phoneNumber \in Phones
  BY DEF ReportInv, PhoneFirst, TypeOK, Filters
<1>2. owner \in Users \cup {None}
  BY <1>1, ReportAssumption DEF Phones, Range
<1>3. TypeOK'
  BY <1>2 DEF ReportInv, TypeOK, client
<1>4. PhoneFirst'
  BY <1>1 DEF PhoneFirst, client
<1>5. Snapshot'
  <2> SUFFICES ASSUME owner = None
               PROVE  \E table \in SUBSET (rows') : askedAt' \subseteq table /\ ReadFrom(table)'
    BY DEF Snapshot
  <2>1. PICK table : table = rows
    OBVIOUS
  <2>2. AskedIn(table) = {}
    <3>1. AskedRetailers = {}
      BY <1>1 DEF AskedRetailers
    <3> QED BY <3>1 DEF AskedIn, Asked
  <2>3. {} \in Page({})
    <3>1. Cardinality({}) = 0
      BY FS_EmptySet
    <3>2. Least(PageSize({}), Cardinality({})) = 0
      <4>1. Skip \in Nat /\ PerPage \in Nat \ {0}
        BY SkipType DEF ReportInv, TypeOK
      <4> QED BY <3>1, <4>1 DEF Least, PageSize
    <3> QED BY <3>1, <3>2 DEF Page, Subsets
  <2>4. results' = ResultsOf({}, table)
    BY DEF ResultsOf
  <2>5. {} \in Page(AskedIn(table))' /\ ResultsOf({}, table)' = ResultsOf({}, table)
    BY <2>2, <2>3, ReadLater
  <2>6. ReadFrom(table)'
    BY <2>4, <2>5 DEF ReadFrom
  <2>7. table \in SUBSET (rows') /\ askedAt' \subseteq table
    BY <2>1 DEF ReportInv, TypeOK
  <2> QED BY <2>6, <2>7
<1>6. DetailsComplete'
  BY DEF DetailsComplete
<1>7. OnlyAskedWallets' /\ Promised' /\ NothingMissed'
  BY WalkStays
<1> QED BY <1>3, <1>4, <1>5, <1>6, <1>7 DEF ReportInv

\* The statement reads a page.
LEMMA FetchKeeps ==
  ASSUME ReportInv, NEW retailerId, step = "wallets", step' \in {"answer", "details"},
         FetchWallets(retailerId), UNCHANGED <<rows, client, askedAt>>,
         \A w \in Wallets : Meets(w, retailerId) <=> Asked(w)
  PROVE  /\ results' \subseteq [wallet : Wallets, balance : Int, total : Nat]
         /\ \A res \in results' : Asked(res.wallet)
         /\ Snapshot'
         /\ OnlyAskedWallets' /\ Promised' /\ NothingMissed'
<1>1. PICK table : table = rows
  OBVIOUS
<1>2. /\ \E page \in Page(AskedIn(table)) : results' = ResultsOf(page, table)
      /\ ReadFrom(table)'
  BY <1>1, FetchReads
<1>3. PICK page \in Page(AskedIn(table)) : results' = ResultsOf(page, table)
  BY <1>2
<1>4. Skip \in Nat /\ PerPage \in Nat \ {0}
  BY SkipType DEF ReportInv, TypeOK
<1>5. page \subseteq AskedIn(table) /\ page \subseteq Wallets
  BY <1>4, AskedType, PageFits
<1>6. table \subseteq RowIds /\ askedAt \subseteq table
  BY <1>1 DEF ReportInv, TypeOK
<1>7. results' \subseteq [wallet : Wallets, balance : Int, total : Nat]
  BY <1>3, <1>5, <1>6, ResultsType
<1>8. \A res \in results' : Asked(res.wallet)
  <2>1. \A res \in ResultsOf(page, table) : res.wallet \in page
    BY DEF ResultsOf
  <2>2. \A w \in AskedIn(table) : Asked(w)
    BY DEF AskedIn
  <2> QED BY <1>3, <1>5, <2>1, <2>2
<1>9. Snapshot'
  BY <1>1, <1>2, <1>6 DEF Snapshot
<1>10. OnlyAskedWallets' /\ Promised' /\ NothingMissed'
  BY WalkStays
<1> QED BY <1>7, <1>8, <1>9, <1>10

\* The wallets of the phone number's retailer.
LEMMA FetchOfPhoneKeeps ==
  ASSUME ReportInv, FetchWalletsOfPhone
  PROVE  ReportInv'
<1> USE DEF FetchWalletsOfPhone
<1> DEFINE owner == Owner[filter.phoneNumber]
<1>1. owner # None /\ retailersData = {owner}
  BY DEF ReportInv, PhoneFirst
<1>2. \A w \in Wallets : Meets(w, owner) <=> Asked(w)
  BY <1>1 DEF Meets, Asked, AskedRetailers
<1>3. /\ results' \subseteq [wallet : Wallets, balance : Int, total : Nat]
      /\ \A res \in results' : Asked(res.wallet)
      /\ Snapshot'
      /\ OnlyAskedWallets' /\ Promised' /\ NothingMissed'
  BY <1>2, FetchKeeps
<1>4. TypeOK'
  BY <1>3 DEF ReportInv, TypeOK, client
<1>5. PhoneFirst'
  BY DEF PhoneFirst, client
<1>6. DetailsComplete'
  <2>1. owner \in Range(Owner) \ {None}
    BY <1>1 DEF ReportInv, TypeOK, Filters, Phones, Range
  <2>2. Matches[owner] \cap Users \subseteq {owner}
    BY <2>1, ReportAssumption DEF OwnersAreThemselves
  <2>3. \A w : Asked(w) => RetailerOf[w] \in Matches[owner]
    BY <1>1 DEF Asked, AskedRetailers
  <2> QED BY <1>1, <1>3, <2>2, <2>3 DEF DetailsComplete
<1> QED BY <1>3, <1>4, <1>5, <1>6 DEF ReportInv

\* Without a phone number the condition of the statement is what was asked for.
LEMMA FilterMeans ==
  ASSUME filter.phoneNumber = None
  PROVE  \A w \in Wallets : Meets(w, filter.retailerId) <=> Asked(w)
<1>1. \A w \in Wallets : RetailerOf[w] \in Retailers
  BY ReportAssumption DEF Retailers, Range
<1>2. AskedRetailers =
        IF filter.retailerId = None THEN Retailers ELSE Matches[filter.retailerId]
  BY DEF AskedRetailers
<1> QED BY <1>1, <1>2 DEF Meets, Asked

\* The wallets of the filter.
LEMMA FetchOfAllKeeps ==
  ASSUME ReportInv, FetchWalletsOfAll
  PROVE  ReportInv'
<1> USE DEF FetchWalletsOfAll
<1>1. \A w \in Wallets : Meets(w, filter.retailerId) <=> Asked(w)
  BY FilterMeans
<1>2. /\ results' \subseteq [wallet : Wallets, balance : Int, total : Nat]
      /\ Snapshot'
      /\ OnlyAskedWallets' /\ Promised' /\ NothingMissed'
  BY <1>1, FetchKeeps
<1>3. TypeOK'
  BY <1>2 DEF ReportInv, TypeOK, client
<1>4. PhoneFirst'
  BY DEF PhoneFirst, client
<1>5. DetailsComplete'
  BY DEF DetailsComplete
<1> QED BY <1>2, <1>3, <1>4, <1>5 DEF ReportInv

\* A page has no more retailers than PerPage.
LEMMA FewIds ==
  ASSUME ReportInv, step = "details"
  PROVE  IsFiniteSet(Ids) /\ Cardinality(Ids) <= PerPage
<1>1. PICK table \in SUBSET rows : ReadFrom(table)
  BY DEF ReportInv, Snapshot
<1>2. PICK page \in Page(AskedIn(table)) : results = ResultsOf(page, table)
  BY <1>1 DEF ReadFrom
<1>3. PerPage \in Nat \ {0} /\ Skip \in Nat
  BY SkipType DEF ReportInv, TypeOK
<1>4. page \subseteq AskedIn(table) /\ IsFiniteSet(page) /\ Cardinality(page) <= PerPage
  BY <1>3, AskedType, PageFits
<1>5. Ids = {RetailerOf[w] : w \in page}
  <2>1. \A res \in ResultsOf(page, table) : res.wallet \in page
    BY DEF ResultsOf
  <2>2. ASSUME NEW w \in page PROVE \E res \in ResultsOf(page, table) : res.wallet = w
    <3> DEFINE res == [wallet |-> w, balance |-> BalanceOf(w, table),
                       total |-> Cardinality(AskedIn(table))]
    <3>1. res \in ResultsOf(page, table) /\ res.wallet = w
      BY DEF ResultsOf
    <3> QED BY <3>1
  <2> QED BY <1>2, <2>1, <2>2 DEF Ids
<1> DEFINE f == [w \in page |-> RetailerOf[w]]
<1>6. f \in Surjection(page, Ids)
  BY <1>5 DEF Surjection
<1>7. IsFiniteSet(Ids) /\ Cardinality(Ids) <= Cardinality(page)
  BY <1>4, <1>6, FS_Surjection
<1>8. Cardinality(page) \in Nat /\ Cardinality(Ids) \in Nat
  BY <1>4, <1>7, FS_CardinalityType
<1> QED BY <1>3, <1>4, <1>7, <1>8

\* The user service returns every retailer it knows.
LEMMA DetailsKeep ==
  ASSUME ReportInv, FetchRetailersDetails
  PROVE  ReportInv'
<1> USE DEF FetchRetailersDetails
<1>1. TypeOK'
  BY DEF ReportInv, TypeOK, client, Subsets
<1>2. PhoneFirst'
  BY DEF ReportInv, PhoneFirst, client
<1>3. Snapshot'
  <2>1. PICK table \in SUBSET rows : askedAt \subseteq table /\ ReadFrom(table)
    BY DEF ReportInv, Snapshot
  <2>2. ReadFrom(table)'
    BY <2>1, ReadStays
  <2> QED BY <2>1, <2>2 DEF Snapshot
<1>4. DetailsComplete'
  <2> SUFFICES ASSUME NEW res \in results, RetailerOf[res.wallet] \in Users
               PROVE  RetailerOf[res.wallet] \in retailersData'
    BY DEF DetailsComplete
  <2> DEFINE known == Users \cap Ids
  <2>1. retailersData' \in SUBSET known /\ Cardinality(retailersData') = Least(PerPage, Cardinality(known))
    BY DEF Subsets
  <2>2. IsFiniteSet(known) /\ Cardinality(known) <= PerPage
    <3>1. IsFiniteSet(Ids) /\ Cardinality(Ids) <= PerPage
      BY FewIds
    <3>2. known \in SUBSET Ids
      OBVIOUS
    <3>3. IsFiniteSet(known) /\ Cardinality(known) <= Cardinality(Ids)
      BY <3>1, <3>2, FS_Subset
    <3>4. Cardinality(known) \in Nat /\ Cardinality(Ids) \in Nat /\ PerPage \in Nat
      BY <3>1, <3>3, FS_CardinalityType, ReportAssumption
    <3> QED BY <3>1, <3>3, <3>4
  <2>3. Cardinality(known) \in Nat /\ PerPage \in Nat
    BY <2>2, FS_CardinalityType, ReportAssumption
  <2>4. Cardinality(retailersData') = Cardinality(known)
    BY <2>1, <2>2, <2>3 DEF Least
  <2>5. retailersData' = known
    BY <2>1, <2>2, <2>4, FS_Subset
  <2> QED BY <2>5 DEF Ids
<1>5. OnlyAskedWallets' /\ Promised' /\ NothingMissed'
  BY WalkStays
<1> QED BY <1>1, <1>2, <1>3, <1>4, <1>5 DEF ReportInv

\* Something fails, and the client asks again.
LEMMA FailKeeps ==
  ASSUME ReportInv, Fail
  PROVE  ReportInv'
<1> USE DEF Fail
<1>1. TypeOK'
  BY DEF ReportInv, TypeOK, client
<1>2. PhoneFirst' /\ Snapshot' /\ DetailsComplete'
  BY DEF PhoneFirst, Snapshot, DetailsComplete
<1>3. OnlyAskedWallets' /\ Promised' /\ NothingMissed'
  BY WalkStays
<1> QED BY <1>1, <1>2, <1>3 DEF ReportInv

\* The total of a page is the number of wallets of the table it was read from,
\* an empty page included; and only a first page can be empty.
LEMMA TheTotal ==
  ASSUME ReportInv, NEW table, askedAt \subseteq table,
         NEW page \in Page(AskedIn(table)), results = ResultsOf(page, table)
  PROVE  /\ TotalRecords = Cardinality(AskedIn(table))
         /\ currentPage > 1 => results # {}
<1>1. currentPage \in Nat \ {0} /\ Skip \in Nat /\ PerPage \in Nat \ {0}
  BY SkipType DEF ReportInv, TypeOK
<1>2. Skip < Cardinality(AskedIn(table)) => page # {}
  BY <1>1, AskedType, PageFits
<1>3. results = {} <=> page = {}
  BY DEF ResultsOf
<1>4. /\ Cardinality(AskedIn(askedAt)) <= Cardinality(AskedIn(table))
      /\ Cardinality(AskedIn(askedAt)) \in Nat /\ Cardinality(AskedIn(table)) \in Nat
  BY AskedGrows, AskedType
<1>5. currentPage = 1 \/ Skip < Cardinality(AskedIn(table))
  BY <1>1, <1>4 DEF ReportInv, Promised
<1>6. CASE results = {}
  <2>1. currentPage = 1 /\ Skip = 0 /\ ~(0 < Cardinality(AskedIn(table)))
    BY <1>1, <1>2, <1>3, <1>5, <1>6, SkipType
  <2>2. Cardinality(AskedIn(table)) = 0 /\ TotalRecords = 0
    BY <1>4, <1>6, <2>1 DEF TotalRecords
  <2> QED BY <1>1, <2>1, <2>2
<1>7. CASE results # {}
  <2>1. (CHOOSE res \in results : TRUE) \in results
    BY <1>7
  <2>2. \A res \in results : res.total = Cardinality(AskedIn(table))
    BY DEF ResultsOf
  <2> QED BY <1>7, <2>1, <2>2 DEF TotalRecords
<1> QED BY <1>6, <1>7

\* The page is listed, and the next one is asked for if there is one.
LEMMA AnswerKeeps ==
  ASSUME ReportInv, Answer
  PROVE  ReportInv'
<1> USE DEF Answer
<1>1. PICK table \in SUBSET rows : askedAt \subseteq table /\ ReadFrom(table)
  BY DEF ReportInv, Snapshot
<1>2. PICK page \in Page(AskedIn(table)) : results = ResultsOf(page, table)
  BY <1>1 DEF ReadFrom
<1> DEFINE total == Cardinality(AskedIn(table))
<1>3. /\ currentPage \in Nat \ {0} /\ Skip \in Nat /\ PerPage \in Nat \ {0}
      /\ PerPage * currentPage = Skip + PerPage
  BY SkipType DEF ReportInv, TypeOK
<1>4. total \in Nat /\ TotalRecords = total
  BY <1>1, <1>2, TheTotal, AskedType
<1>5. currentPage < TotalPages <=> Skip + PerPage < total
  BY <1>3, <1>4, MorePages DEF TotalPages
<1>6. page \subseteq AskedIn(table) /\ page \subseteq Wallets
  BY <1>3, AskedType, PageFits
<1>7. listed' = listed \cup page
  <2>1. {res.wallet : res \in results} = page
    <3>1. \A res \in ResultsOf(page, table) : res.wallet \in page
      BY DEF ResultsOf
    <3>2. ASSUME NEW w \in page PROVE \E res \in ResultsOf(page, table) : res.wallet = w
      <4> DEFINE res == [wallet |-> w, balance |-> BalanceOf(w, table),
                         total |-> Cardinality(AskedIn(table))]
      <4>1. res \in ResultsOf(page, table) /\ res.wallet = w
        BY DEF ResultsOf
      <4> QED BY <4>1
    <3> QED BY <1>2, <3>1, <3>2
  <2> QED BY <2>1
<1>8. \A w : Asked(w)' <=> Asked(w)
  BY DEF Asked, AskedRetailers
<1>9. TypeOK'
  BY <1>3, <1>6, <1>7 DEF ReportInv, TypeOK
<1>10. PhoneFirst' /\ Snapshot' /\ DetailsComplete'
  BY DEF PhoneFirst, Snapshot, DetailsComplete
<1>11. OnlyAskedWallets'
  BY <1>6, <1>7, <1>8 DEF ReportInv, OnlyAskedWallets, AskedIn
\* A wallet of the start that is not listed is behind the page.
<1>12. ASSUME groupsAreSorted, NEW w \in AskedIn(start), w \notin listed'
       PROVE  Skip + PerPage <= Before(w, AskedIn(table)) /\ Skip + PerPage < total
  <2>1. w \notin page /\ Skip <= Before(w, AskedIn(askedAt))
    BY <1>7, <1>12 DEF ReportInv, NothingMissed
  <2>2. start \subseteq table
    BY <1>1 DEF ReportInv, TypeOK
  <2>3. w \in AskedIn(table)
    BY <2>2, AskedGrows
  <2>4. /\ Before(w, AskedIn(askedAt)) <= Before(w, AskedIn(table))
        /\ Before(w, AskedIn(askedAt)) \in Nat /\ Before(w, AskedIn(table)) \in Nat
    BY <1>1, AskedGrows
  <2>5. Skip <= Before(w, AskedIn(table))
    BY <1>3, <2>1, <2>4
  <2>6. Skip + PerPage <= Before(w, AskedIn(table))
    BY <1>3, <1>12, <2>1, <2>3, <2>5, AskedType, RestIsBehind
  <2>7. Before(w, AskedIn(table)) < total
    BY <2>3, AskedType, BeforeIsLess
  <2> QED BY <1>3, <1>4, <2>4, <2>6, <2>7
<1>13. AskedIn(start)' = AskedIn(start)
  BY <1>8 DEF AskedIn, RowsOf
<1>14. CASE currentPage < TotalPages
  <2>1. currentPage' = currentPage + 1 /\ askedAt' = rows /\ step' = "token"
    BY <1>14
  <2>2. Skip' = Skip + PerPage
    <3>1. Skip' = PerPage * currentPage
      BY <1>3, <2>1 DEF Skip
    <3> QED BY <1>3, <3>1
  <2>3. AskedIn(askedAt)' = AskedIn(rows)
    BY <1>8, <2>1 DEF AskedIn, RowsOf
  <2>4. /\ total <= Cardinality(AskedIn(rows)) /\ Cardinality(AskedIn(rows)) \in Nat
        /\ \A w : Before(w, AskedIn(table)) <= Before(w, AskedIn(rows))
        /\ \A w : Before(w, AskedIn(table)) \in Nat /\ Before(w, AskedIn(rows)) \in Nat
    BY <1>1, AskedGrows, AskedType
  <2>5. Promised'
    BY <1>3, <1>4, <1>5, <1>14, <2>2, <2>3, <2>4 DEF Promised
  <2>6. NothingMissed'
    <3> SUFFICES ASSUME groupsAreSorted, NEW w \in AskedIn(start), w \notin listed'
                 PROVE  Skip + PerPage <= Before(w, AskedIn(rows))
      BY <1>13, <2>1, <2>2, <2>3 DEF NothingMissed
    <3>1. Skip + PerPage <= Before(w, AskedIn(table))
      BY <1>12
    <3> QED BY <1>3, <2>4, <3>1
  <2> QED BY <1>9, <1>10, <1>11, <2>5, <2>6 DEF ReportInv
<1>15. CASE ~(currentPage < TotalPages)
  <2>1. UNCHANGED <<currentPage, askedAt>>
    BY <1>15
  <2>2. Promised'
    BY <1>8, <2>1 DEF ReportInv, Promised, Skip, AskedIn, RowsOf
  <2>3. NothingMissed'
    <3> SUFFICES ASSUME groupsAreSorted, NEW w \in AskedIn(start), w \notin listed'
                 PROVE  FALSE
      BY <1>13 DEF NothingMissed
    <3>1. Skip + PerPage < total
      BY <1>12
    <3> QED BY <1>5, <1>15, <3>1
  <2> QED BY <1>9, <1>10, <1>11, <2>2, <2>3 DEF ReportInv
<1> QED BY <1>14, <1>15

\* The invariant is inductive.
LEMMA ReportNext == ReportInv /\ [Next]_vars => ReportInv'
<1> SUFFICES ASSUME ReportInv, [Next]_vars PROVE ReportInv'
  OBVIOUS
<1>1. CASE \E r \in RowIds : Post(r)
  BY <1>1, PostKeeps
<1>2. CASE GenerateServiceToken
  BY <1>2, TokenKeeps
<1>3. CASE FetchRetailerByPhone
  BY <1>3, PhoneKeeps
<1>4. CASE FetchWalletsOfPhone
  BY <1>4, FetchOfPhoneKeeps
<1>5. CASE FetchWalletsOfAll
  BY <1>5, FetchOfAllKeeps
<1>6. CASE FetchRetailersDetails
  BY <1>6, DetailsKeep
<1>7. CASE Answer
  BY <1>7, AnswerKeeps
<1>8. CASE Fail
  BY <1>8, FailKeeps
<1>9. CASE UNCHANGED vars
  <2> USE <1>9 DEF vars
  <2>1. TypeOK' /\ PhoneFirst' /\ DetailsComplete'
    BY DEF ReportInv, TypeOK, PhoneFirst, DetailsComplete, client
  <2>2. Snapshot'
    <3> SUFFICES ASSUME step \in {"details", "answer"}
                 PROVE  \E table \in SUBSET (rows') : askedAt' \subseteq table /\ ReadFrom(table)'
      BY DEF Snapshot
    <3>1. PICK table \in SUBSET rows : askedAt \subseteq table /\ ReadFrom(table)
      BY DEF ReportInv, Snapshot
    <3>2. ReadFrom(table)'
      BY <3>1, ReadStays
    <3> QED BY <3>1, <3>2
  <2>3. OnlyAskedWallets' /\ Promised' /\ NothingMissed'
    BY WalkStays
  <2> QED BY <2>1, <2>2, <2>3 DEF ReportInv
<1> QED BY <1>1, <1>2, <1>3, <1>4, <1>5, <1>6, <1>7, <1>8, <1>9 DEF Next

-----------------------------------------------------------------------------
(***************************************************************************)
(* The theorems.                                                           *)
(***************************************************************************)
\* The invariant holds of every reachable state (getWallets, fetchWallets).
THEOREM ReportInvariant == Spec => []ReportInv
BY ReportInit, ReportNext, PTL DEF Spec

\* Every variable has its type: balances are integers and details are of users
\* (fetchWallets, fetchRetailersDetails).
THEOREM ReportIsTyped == Spec => []TypeOK
<1>1. ReportInv => TypeOK
  BY DEF ReportInv
<1> QED BY <1>1, ReportInvariant, PTL

\* No page lists a wallet that was not asked for, as far as MySQL tells ids apart,
\* whatever a phone number leads to (getWallets).
THEOREM NobodyElseIsListed == Spec => []OnlyAskedWallets
<1>1. ReportInv => OnlyAskedWallets
  BY DEF ReportInv
<1> QED BY <1>1, ReportInvariant, PTL

\* Balances and total of a page are of one table between the request and the
\* answer (the statement of fetchWallets).
THEOREM PagesAreOfOneInstant == Spec => []OneInstant
<1>1. ReportInv => OneInstant
  <2> SUFFICES ASSUME ReportInv, step = "answer" PROVE OneInstant
    BY DEF OneInstant
  <2>1. PICK table \in SUBSET rows : askedAt \subseteq table /\ ReadFrom(table)
    BY DEF ReportInv, Snapshot
  <2>2. PICK page \in Page(AskedIn(table)) : results = ResultsOf(page, table)
    BY <2>1 DEF ReadFrom
  <2>3. \A res \in results :
          /\ res.balance = BalanceOf(res.wallet, table)
          /\ res.total = Cardinality(AskedIn(table))
    BY <2>2 DEF ResultsOf
  <2> DEFINE T == table \ askedAt
  <2>4. T \in SUBSET (rows \ askedAt) /\ askedAt \cup T = table
    BY <2>1
  <2> HIDE DEF T
  <2> QED BY <2>3, <2>4 DEF OneInstant, AskedIn
<1> QED BY <1>1, ReportInvariant, PTL

\* Every wallet of a page has the details of its retailer, if the user service
\* knows him: the limit of that call is never too small (fetchRetailersDetails).
THEOREM DetailsAreComplete == Spec => []DetailsComplete
<1>1. ReportInv => DetailsComplete
  BY DEF ReportInv
<1> QED BY <1>1, ReportInvariant, PTL

\* A page that was promised is not empty, in whatever order groups come
\* (totalPages of getWallets).
THEOREM PromisesAreKept == Spec => []PromisedPagesExist
<1>1. ReportInv => PromisedPagesExist
  <2> SUFFICES ASSUME ReportInv, step = "answer", currentPage > 1 PROVE results # {}
    BY DEF PromisedPagesExist
  <2>1. PICK table \in SUBSET rows : askedAt \subseteq table /\ ReadFrom(table)
    BY DEF ReportInv, Snapshot
  <2>2. PICK page \in Page(AskedIn(table)) : results = ResultsOf(page, table)
    BY <2>1 DEF ReadFrom
  <2> QED BY <2>1, <2>2, TheTotal
<1> QED BY <1>1, ReportInvariant, PTL

\* When groups are sorted, a client that reads on to the last page has been
\* listed every wallet it asked for (limit and offset of fetchWallets).
THEOREM NoWalletIsSkipped == Spec => []NothingSkipped
<1>1. ReportInv => NothingSkipped
  BY DEF ReportInv, NothingMissed, NothingSkipped, AskedIn
<1> QED BY <1>1, ReportInvariant, PTL

-----------------------------------------------------------------------------
(***************************************************************************)
(* The pages implement PagedListing.                                       *)
(***************************************************************************)
OnPage == {res.wallet : res \in results}

\* While no wallet is added, the wallets listed are those before the page.
ListedBefore ==
  step # "finished" /\ groupsAreSorted /\ AskedIn(rows) = AskedIn(start) =>
    \A w \in listed : Before(w, AskedIn(start)) < Skip

\* The wallets on a page that is answered are among those asked for; while no
\* wallet is added they are at the places of the page.
LEMMA PageInPlace ==
  ASSUME ReportInv, step = "answer"
  PROVE  /\ OnPage \subseteq AskedIn(rows)
         /\ groupsAreSorted /\ AskedIn(rows) = AskedIn(start) =>
              \A w \in OnPage : Before(w, AskedIn(start)) \in Skip .. (Skip + PerPage - 1)
<1>1. PICK table \in SUBSET rows : askedAt \subseteq table /\ ReadFrom(table)
  BY DEF ReportInv, Snapshot
<1>2. PICK page \in Page(AskedIn(table)) : results = ResultsOf(page, table)
  BY <1>1 DEF ReadFrom
<1>3. \A w \in OnPage : w \in page
  BY <1>2 DEF ResultsOf, OnPage
<1>4. Skip \in Nat /\ PerPage \in Nat \ {0}
  BY SkipType DEF ReportInv, TypeOK
<1>5. page \subseteq AskedIn(table)
  BY <1>4, AskedType, PageFits
<1>6. AskedIn(start) \subseteq AskedIn(table) /\ AskedIn(table) \subseteq AskedIn(rows)
  <2>1. start \subseteq table /\ table \subseteq rows
    BY <1>1 DEF ReportInv, TypeOK
  <2> QED BY <2>1, AskedGrows
<1>7. ASSUME groupsAreSorted, AskedIn(rows) = AskedIn(start), NEW w \in OnPage
      PROVE  Before(w, AskedIn(start)) \in Skip .. (Skip + PerPage - 1)
  <2>1. AskedIn(table) = AskedIn(start)
    BY <1>6, <1>7
  <2> QED BY <1>3, <1>7, <2>1 DEF Page
<1> QED BY <1>3, <1>5, <1>6, <1>7

\* What the client asked for does not change.
LEMMA AskedStays ==
  ASSUME UNCHANGED <<filter, start>>
  PROVE  /\ AskedIn(start)' = AskedIn(start)
         /\ rows' = rows => AskedIn(rows)' = AskedIn(rows)
         /\ rows \subseteq rows' => AskedIn(rows) \subseteq AskedIn(rows)'
<1>1. \A w : Asked(w)' <=> Asked(w)
  BY DEF Asked, AskedRetailers
<1> QED BY <1>1 DEF AskedIn, RowsOf

\* Every step keeps the listed wallets before the page.
LEMMA ListedBeforeNext ==
  ASSUME ReportInv, ListedBefore, [Next]_vars
  PROVE  ListedBefore'
<1>1. start \subseteq rows
  BY DEF ReportInv, TypeOK
<1>2. CASE ~Answer
  <2>1. UNCHANGED client /\ rows \subseteq rows' /\ (step = "finished" => step' = "finished")
    BY <1>2 DEF Next, Post, GenerateServiceToken, FetchRetailerByPhone, FetchWalletsOfPhone,
                FetchWalletsOfAll, FetchRetailersDetails, Fail, vars
  <2>2. /\ AskedIn(start)' = AskedIn(start)
        /\ AskedIn(start) \subseteq AskedIn(rows) /\ AskedIn(rows) \subseteq AskedIn(rows)'
    BY <1>1, <2>1, AskedStays, AskedGrows DEF client
  <2>3. AskedIn(rows)' = AskedIn(start)' => AskedIn(rows) = AskedIn(start)
    BY <2>2
  <2> QED BY <2>1, <2>2, <2>3 DEF ListedBefore, client, Skip
<1>3. CASE Answer
  <2> USE <1>3 DEF Answer
  <2>1. AskedIn(rows)' = AskedIn(rows) /\ AskedIn(start)' = AskedIn(start)
    BY AskedStays
  <2> SUFFICES ASSUME step' # "finished", groupsAreSorted, AskedIn(rows) = AskedIn(start),
                      NEW w \in listed'
               PROVE  Before(w, AskedIn(start)) < Skip'
    BY <2>1 DEF ListedBefore
  <2>2. /\ Skip \in Nat /\ PerPage \in Nat \ {0} /\ currentPage \in Nat \ {0}
        /\ PerPage * currentPage = Skip + PerPage
    BY SkipType DEF ReportInv, TypeOK
  <2>3. Skip' = Skip + PerPage
    <3>1. currentPage' = currentPage + 1
      OBVIOUS
    <3>2. Skip' = PerPage * currentPage
      BY <2>2, <3>1 DEF Skip
    <3> QED BY <2>2, <3>2
  <2>4. Before(w, AskedIn(start)) \in Nat
    BY AskedGrows
  <2>5. CASE w \in listed
    BY <2>2, <2>3, <2>4, <2>5 DEF ListedBefore
  <2>6. CASE w \in OnPage
    <3>1. Before(w, AskedIn(start)) \in Skip .. (Skip + PerPage - 1)
      BY <2>6, PageInPlace
    <3> QED BY <2>2, <2>3, <3>1
  <2> QED BY <2>5, <2>6 DEF OnPage
<1> QED BY <1>2, <1>3

\* A row that commits may add a wallet, and leaves the places of the others
\* undetermined if they were.
LEMMA PostIsGrow ==
  ASSUME ReportInv, NEW r \in RowIds, Post(r)
  PROVE  Listing!Grow
<1>1. AskedIn(rows) \subseteq AskedIn(rows)' /\ AskedIn(start)' = AskedIn(start)
  BY AskedStays DEF Post, client
<1> QED BY <1>1 DEF Listing!Grow, Post, client

\* A statement reads wallets of the table, that of a phone number nobody has none.
LEMMA FetchIsRead ==
  ASSUME ReportInv, FetchRetailerByPhone \/ FetchWalletsOfPhone \/ FetchWalletsOfAll
  PROVE  Listing!Read
<1>1. /\ step # "finished" /\ step' # "finished" /\ UNCHANGED <<rows, client>>
  BY DEF FetchRetailerByPhone, FetchWalletsOfPhone, FetchWalletsOfAll
<1>2. AskedIn(start)' = AskedIn(start) /\ AskedIn(rows)' = AskedIn(rows)
  BY <1>1, AskedStays DEF client
<1>3. OnPage' \subseteq AskedIn(rows)
  <2>1. CASE FetchRetailerByPhone
    BY <2>1 DEF FetchRetailerByPhone, OnPage
  <2>2. ASSUME NEW retailerId, FetchWallets(retailerId),
               \A w \in Wallets : Meets(w, retailerId) <=> Asked(w)
        PROVE  OnPage' \subseteq AskedIn(rows)
    <3>1. PICK page \in Page(AskedIn(rows)) : results' = ResultsOf(page, rows)
      BY <1>1, <2>2, FetchReads
    <3>2. Skip \in Nat /\ PerPage \in Nat \ {0}
      BY SkipType DEF ReportInv, TypeOK
    <3>3. page \subseteq AskedIn(rows)
      BY <3>2, AskedType, PageFits
    <3>4. \A res \in ResultsOf(page, rows) : res.wallet \in page
      BY DEF ResultsOf
    <3> QED BY <3>1, <3>3, <3>4 DEF OnPage
  <2>3. CASE FetchWalletsOfPhone
    <3>1. Owner[filter.phoneNumber] # None
      BY <2>3 DEF FetchWalletsOfPhone, ReportInv, PhoneFirst
    <3>2. \A w \in Wallets : Meets(w, Owner[filter.phoneNumber]) <=> Asked(w)
      BY <2>3, <3>1 DEF FetchWalletsOfPhone, Meets, Asked, AskedRetailers
    <3> QED BY <2>2, <2>3, <3>2 DEF FetchWalletsOfPhone
  <2>4. CASE FetchWalletsOfAll
    <3>1. \A w \in Wallets : Meets(w, filter.retailerId) <=> Asked(w)
      BY <2>4, FilterMeans DEF FetchWalletsOfAll
    <3> QED BY <2>2, <2>4, <3>1 DEF FetchWalletsOfAll
  <2> QED BY <2>1, <2>3, <2>4
<1> QED BY <1>1, <1>2, <1>3 DEF Listing!Read, OnPage, client

\* An answer lists no wallet again while none is added, and the last one
\* completes the list: both if groups are sorted.
LEMMA AnswerIsGive ==
  ASSUME ReportInv, ReportInv', ListedBefore, Answer
  PROVE  Listing!GivePage \/ Listing!GiveLastPage
<1>1. /\ step = "answer" /\ step' \in {"token", "finished"}
      /\ listed' = listed \cup OnPage
      /\ UNCHANGED <<groupsAreSorted, rows, filter, start, results>>
  BY DEF Answer, OnPage
<1>2. AskedIn(start)' = AskedIn(start) /\ AskedIn(rows)' = AskedIn(rows)
  BY <1>1, AskedStays
<1>3. OnPage' = OnPage /\ OnPage \subseteq AskedIn(rows)
  BY <1>1, PageInPlace DEF OnPage
<1>4. AskedIn(rows) = AskedIn(start) /\ groupsAreSorted => OnPage \cap listed = {}
  <2> SUFFICES ASSUME AskedIn(rows) = AskedIn(start), groupsAreSorted,
                      NEW w \in OnPage \cap listed
               PROVE  FALSE
    OBVIOUS
  <2>1. Before(w, AskedIn(start)) < Skip
    BY <1>1 DEF ListedBefore
  <2>2. Before(w, AskedIn(start)) \in Skip .. (Skip + PerPage - 1)
    BY <1>1, PageInPlace
  <2>3. Skip \in Nat /\ PerPage \in Nat
    BY SkipType DEF ReportInv, TypeOK
  <2> QED BY <2>1, <2>2, <2>3
<1>5. Listing!Give
  BY <1>1, <1>2, <1>3, <1>4 DEF Listing!Give, OnPage
<1>6. CASE step' = "token"
  BY <1>5, <1>6 DEF Listing!GivePage
<1>7. CASE step' = "finished"
  <2>1. groupsAreSorted => AskedIn(start) \subseteq listed'
    BY <1>1, <1>2, <1>7 DEF ReportInv, NothingMissed
  <2>2. AskedIn(start) \subseteq AskedIn(rows)
    <3>1. start \subseteq rows
      BY DEF ReportInv, TypeOK
    <3> QED BY <3>1, AskedGrows
  <2> QED BY <1>5, <1>7, <2>1, <2>2 DEF Listing!GiveLastPage
<1> QED BY <1>1, <1>6, <1>7

\* The other steps change nothing that the listing speaks of.
LEMMA OthersStutter ==
  ASSUME GenerateServiceToken \/ FetchRetailersDetails \/ Fail \/ UNCHANGED vars
  PROVE  UNCHANGED Listing!vars
<1>1. /\ UNCHANGED <<rows, client, results>>
      /\ step = "finished" <=> step' = "finished"
  BY DEF GenerateServiceToken, FetchRetailersDetails, Fail, vars
<1>2. AskedIn(start)' = AskedIn(start) /\ AskedIn(rows)' = AskedIn(rows)
  BY <1>1, AskedStays DEF client
<1> QED BY <1>1, <1>2 DEF Listing!vars, client

\* The pages of POST /walletUsers keep the promise of PagedListing (limit,
\* offset and total of fetchWallets, totalPages of getWallets).
THEOREM WalletPagesImplementListing == Spec => ListingSpec
<1>1. Init => ListedBefore /\ Listing!Init
  BY DEF Init, ListedBefore, Listing!Init
<1>2. ASSUME ReportInv, ReportInv', ListedBefore, [Next]_vars
      PROVE  [Listing!Next]_(Listing!vars)
  <2>1. CASE \E r \in RowIds : Post(r)
    BY <1>2, <2>1, PostIsGrow DEF Listing!Next
  <2>2. CASE FetchRetailerByPhone \/ FetchWalletsOfPhone \/ FetchWalletsOfAll
    BY <1>2, <2>2, FetchIsRead DEF Listing!Next
  <2>3. CASE Answer
    BY <1>2, <2>3, AnswerIsGive DEF Listing!Next
  <2>4. CASE GenerateServiceToken \/ FetchRetailersDetails \/ Fail \/ UNCHANGED vars
    BY <2>4, OthersStutter
  <2> QED BY <1>2, <2>1, <2>2, <2>3, <2>4 DEF Next
<1>3. ReportInv /\ ListedBefore /\ [Next]_vars => ListedBefore'
  BY ListedBeforeNext
<1> QED BY <1>1, <1>2, <1>3, ReportInvariant, PTL DEF Spec, ListingSpec, Listing!Spec
=============================================================================
