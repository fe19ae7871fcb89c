------------------------- MODULE TransactionsProofs -------------------------
(***************************************************************************)
(* What a client is listed that reads TransactionPaging to its last page,  *)
(* and what the days of DatewiseTransactions hold, for any number of rows, *)
(* any size of a page, any limit and any length of a day.                  *)
(***************************************************************************)
EXTENDS DatewiseTransactions, FiniteSetTheorems, SequenceTheorems, TLAPS

\* The rows a DESC order puts before r whatever it does with ties.
Newer(r) == {s \in rows : createdAt[s] > createdAt[r]}

Offset(r) == Cardinality(Newer(r))

\* A row the walk has not listed lies ahead of it, and the client will go there.
Ahead(r) ==
  /\ step # "finished"
  /\ Offset(r) >= Skip
  /\ \/ step = "asked"
     \/ r \in results
     \/ /\ Offset(r) >= Skip + PerPage
        /\ step = "counted" => totalRecords > Skip + PerPage

ListedOrAhead == \A r \in start : Untied(r) => r \in listed \/ Ahead(r)

\* While the table is as the walk found it, the pages follow each other.
PagesFollow ==
  rows = start =>
    \A r \in rows :
      Untied(r) =>
        /\ r \notin repeated
        /\ r \in listed /\ step # "finished" => Offset(r) < Skip
        /\ r \in results /\ step \in {"found", "counted"} =>
             Offset(r) >= Skip /\ Offset(r) < Skip + PerPage

\* The inductive invariant.
WalkInv == TypeOK /\ ListedOrAhead /\ PagesFollow

-----------------------------------------------------------------------------
\* Every variable has its type in the initial states.
LEMMA TypeInit == Init => TypeOK
<1> SUFFICES ASSUME Init PROVE TypeOK
  OBVIOUS
<1>1. createdAt \in [RowIds -> (0 .. MaxTime) \cup {Unset}]
  BY PagingAssumption DEF Init
<1>2. now \in 0 .. MaxTime /\ rows \subseteq Inserted
  BY DEF Init
<1> QED BY <1>1, <1>2 DEF Init, TypeOK

\* The finite sets the proofs count.
LEMMA RowsAreFinite ==
  ASSUME TypeOK
  PROVE  /\ IsFiniteSet(rows) /\ Cardinality(rows) \in Nat
         /\ \A r : IsFiniteSet(Newer(r)) /\ Offset(r) \in Nat
<1>1. rows \in SUBSET RowIds
  BY DEF TypeOK, Inserted
<1>2. IsFiniteSet(rows)
  BY <1>1, FS_Subset, PagingAssumption
<1>3. ASSUME NEW r PROVE IsFiniteSet(Newer(r)) /\ Offset(r) \in Nat
  <2>1. Newer(r) \in SUBSET rows
    BY DEF Newer
  <2>2. IsFiniteSet(Newer(r))
    BY <2>1, <1>2, FS_Subset
  <2> QED BY <2>2, FS_CardinalityType DEF Offset
<1> QED BY <1>2, <1>3, FS_CardinalityType

\* So they are in the next state.
LEMMA RowsAreFiniteNext ==
  TypeOK' => (IsFiniteSet(rows) /\ Cardinality(rows) \in Nat
                /\ \A r : IsFiniteSet(Newer(r)) /\ Offset(r) \in Nat)'
<1>1. TypeOK => IsFiniteSet(rows) /\ Cardinality(rows) \in Nat
                /\ \A r : IsFiniteSet(Newer(r)) /\ Offset(r) \in Nat
  BY RowsAreFinite
<1> QED BY <1>1, PTL

\* Offsets are natural numbers.
LEMMA SkipIsNatural ==
  ASSUME TypeOK
  PROVE  PerPage \in Nat \ {0} /\ currentPage \in Nat \ {0} /\ Skip \in Nat
<1>1. PerPage \in Nat \ {0} /\ currentPage \in Nat \ {0}
  BY PagingAssumption DEF TypeOK
<1>2. currentPage - 1 \in Nat
  BY <1>1
<1>3. PerPage * (currentPage - 1) \in Nat
  BY <1>1, <1>2
<1> QED BY <1>1, <1>3 DEF Skip

\* A row no other row ties with is among the n newest exactly when fewer than
\* n rows are newer.
LEMMA UntiedInNewest ==
  ASSUME TypeOK, NEW n \in Nat, NEW T \in Newest(n), NEW r \in rows, Untied(r)
  PROVE  r \in T <=> Offset(r) < n
<1>1. T \in SUBSET rows /\ Cardinality(T) = Least(n, Cardinality(rows))
  BY DEF Newest
<1>2. IsFiniteSet(T) /\ Cardinality(T) \in Nat
  BY <1>1, RowsAreFinite, FS_Subset, FS_CardinalityType
<1>3. createdAt[r] \in Int /\ \A s \in rows : createdAt[s] \in Int
  BY PagingAssumption DEF TypeOK, Inserted
<1>4. ASSUME r \in T PROVE Offset(r) < n
  <2>1. Newer(r) \in SUBSET (T \ {r})
    BY <1>3, <1>4 DEF Newer, Newest
  <2>2. IsFiniteSet(T \ {r}) /\ Cardinality(T \ {r}) = Cardinality(T) - 1
    BY <1>2, <1>4, FS_RemoveElement
  <2>3. Offset(r) <= Cardinality(T \ {r})
    BY <2>1, <2>2, FS_Subset DEF Offset
  <2> QED BY <1>1, <1>2, <2>2, <2>3, RowsAreFinite DEF Least
<1>5. ASSUME r \notin T PROVE n <= Offset(r)
  <2>1. T \in SUBSET Newer(r)
    <3> SUFFICES ASSUME NEW t \in T PROVE createdAt[t] > createdAt[r]
      BY <1>1 DEF Newer
    <3>1. t \in rows /\ t # r
      BY <1>1, <1>5
    <3>2. createdAt[t] # createdAt[r]
      BY <3>1 DEF Untied
    <3>3. ~ (createdAt[r] > createdAt[t])
      BY <1>5 DEF Newest
    <3> QED BY <1>3, <3>1, <3>2, <3>3
  <2>2. Cardinality(T) <= Offset(r)
    BY <2>1, RowsAreFinite, FS_Subset DEF Offset
  <2>3. Cardinality(T) # Cardinality(rows)
    BY <1>1, <1>5, RowsAreFinite, FS_Subset
  <2> QED BY <1>1, <2>2, <2>3, RowsAreFinite DEF Least
<1>6. Offset(r) \in Nat
  BY RowsAreFinite
<1> QED BY <1>4, <1>5, <1>6

\* The page found has the untied rows at the offsets of the page.
LEMMA UntiedFound ==
  ASSUME TypeOK, Find, NEW r \in rows, Untied(r)
  PROVE  r \in results' <=> Offset(r) >= Skip /\ Offset(r) < Skip + PerPage
<1>1. PICK before \in Newest(Skip), upto \in Newest(Skip + PerPage) :
        before \subseteq upto /\ results' = upto \ before
  BY DEF Find
<1>2. Skip \in Nat /\ Skip + PerPage \in Nat /\ Offset(r) \in Nat
  BY SkipIsNatural, RowsAreFinite
<1>3. r \in before <=> Offset(r) < Skip
  BY <1>2, UntiedInNewest
<1>4. r \in upto <=> Offset(r) < Skip + PerPage
  BY <1>2, UntiedInNewest
<1> QED BY <1>1, <1>2, <1>3, <1>4

\* The client goes on while a row lies beyond the page.
LEMMA PagesRemain ==
  ASSUME NEW p \in Nat \ {0}, NEW c \in Nat, NEW t \in Nat, t > p * c
  PROVE  c < (t + p - 1) \div p
<1> DEFINE q == (t + p - 1) \div p
<1>1. q \in Int /\ p * q <= t + p - 1 /\ t + p - 1 < p * q + p
  BY SMTT(30)
<1> HIDE DEF q
<1>2. ASSUME q <= c PROVE FALSE
  <2>1. p * q <= p * c
    BY <1>1, <1>2, SMTT(30)
  <2> QED BY <1>1, <2>1, SMTT(30)
<1> QED BY <1>1, <1>2 DEF q

-----------------------------------------------------------------------------
\* The steps of the table and of the pod that fails: the walk stays where it
\* is, and rows are only added.
TableStep ==
  /\ rows \subseteq rows'
  /\ \A r \in rows : createdAt'[r] = createdAt[r]
  /\ UNCHANGED <<client, step, results, totalRecords>>

\* The types of the next state.
LEMMA TypeNext == TypeOK /\ [Next]_vars => TypeOK'
<1> SUFFICES ASSUME TypeOK, [Next]_vars PROVE TypeOK'
  OBVIOUS
<1> USE DEF TypeOK, Inserted, table, client
<1>1. CASE Tick
  BY <1>1, PagingAssumption DEF Tick
<1>2. ASSUME NEW r \in RowIds, Insert(r) PROVE TypeOK'
  BY <1>2, PagingAssumption DEF Insert
<1>3. ASSUME NEW r \in RowIds, Commit(r) PROVE TypeOK'
  BY <1>3 DEF Commit
<1>4. ASSUME NEW r \in RowIds, Rollback(r) PROVE TypeOK'
  BY <1>4 DEF Rollback
<1>5. CASE Find
  <2>1. PICK before \in Newest(Skip), upto \in Newest(Skip + PerPage) :
          before \subseteq upto /\ results' = upto \ before
    BY <1>5 DEF Find
  <2>2. results' \subseteq rows
    BY <2>1 DEF Newest
  <2> QED BY <1>5, <2>2 DEF Find
<1>6. CASE Count
  BY <1>6, RowsAreFinite DEF Count, NumberOfRows
<1>7. CASE Answer
  BY <1>7 DEF Answer
<1>8. CASE Fail
  BY <1>8 DEF Fail
<1>9. CASE UNCHANGED vars
  BY <1>9 DEF vars
<1> QED BY <1>1, <1>2, <1>3, <1>4, <1>5, <1>6, <1>7, <1>8, <1>9 DEF Next, Posting, Paging

\* The steps of the table are such steps.
LEMMA TableSteps ==
  ASSUME TypeOK,
         Posting \/ UNCHANGED vars
  PROVE  TableStep
<1> USE DEF TypeOK, Inserted, TableStep, vars, table
<1>1. CASE Tick
  BY <1>1 DEF Tick
<1>2. ASSUME NEW r \in RowIds, Insert(r) PROVE TableStep
  BY <1>2 DEF Insert
<1>3. ASSUME NEW r \in RowIds, Commit(r) PROVE TableStep
  BY <1>3 DEF Commit
<1>4. ASSUME NEW r \in RowIds, Rollback(r) PROVE TableStep
  BY <1>4 DEF Rollback
<1> QED BY <1>1, <1>2, <1>3, <1>4 DEF Posting

\* Added rows move the older ones back, and untie none.
LEMMA OffsetGrows ==
  ASSUME TypeOK, TypeOK', rows \subseteq rows',
         \A r \in rows : createdAt'[r] = createdAt[r],
         NEW r \in rows
  PROVE  /\ Offset(r) \in Nat /\ Offset(r)' \in Nat
         /\ Offset(r) <= Offset(r)'
         /\ Untied(r)' => Untied(r)
         /\ rows' = rows => Offset(r)' = Offset(r)
<1>1. Newer(r) \in SUBSET Newer(r)'
  BY DEF Newer
<1>2. IsFiniteSet(Newer(r)) /\ Offset(r) \in Nat
  BY RowsAreFinite
<1>3. (\A s : IsFiniteSet(Newer(s)) /\ Offset(s) \in Nat)'
  BY RowsAreFiniteNext
<1>4. Offset(r) <= Offset(r)'
  BY <1>1, <1>3, FS_Subset DEF Offset
<1>5. Untied(r)' => Untied(r)
  BY DEF Untied
<1>6. rows' = rows => Newer(r)' = Newer(r)
  BY DEF Newer
<1> QED BY <1>2, <1>3, <1>4, <1>5, <1>6 DEF Offset

-----------------------------------------------------------------------------
\* The invariant holds when the client begins.
LEMMA WalkInit == Init => WalkInv
<1> SUFFICES ASSUME Init PROVE WalkInv
  OBVIOUS
<1>1. TypeOK
  BY TypeInit
<1>2. Skip = 0
  BY PagingAssumption DEF Init, Skip
<1>3. ListedOrAhead
  BY <1>1, <1>2, RowsAreFinite DEF Init, ListedOrAhead, Ahead
<1>4. PagesFollow
  BY <1>1 DEF Init, PagesFollow
<1> QED BY <1>1, <1>3, <1>4 DEF WalkInv

\* Rows added to the table do not let the walk pass a row it has not listed.
LEMMA TableKeepsWalk ==
  ASSUME WalkInv, TypeOK', TableStep
  PROVE  ListedOrAhead' /\ PagesFollow'
<1> USE DEF WalkInv
<1>1. \A r \in rows : /\ Offset(r) \in Nat /\ Offset(r)' \in Nat
                      /\ Offset(r) <= Offset(r)'
                      /\ Untied(r)' => Untied(r)
                      /\ rows' = rows => Offset(r)' = Offset(r)
  BY OffsetGrows DEF TableStep
<1>2. Skip' = Skip /\ Skip \in Nat /\ PerPage \in Nat
  BY SkipIsNatural DEF TableStep, client, Skip
<1>3. start \subseteq rows
  BY DEF TypeOK
<1>4. ListedOrAhead'
  <2> SUFFICES ASSUME NEW r \in start, Untied(r)' PROVE (r \in listed \/ Ahead(r))'
    BY DEF ListedOrAhead, TableStep, client
  <2>1. r \in listed \/ Ahead(r)
    BY <1>1, <1>3 DEF ListedOrAhead
  <2>2. Ahead(r) => Ahead(r)'
    BY <1>1, <1>2, <1>3 DEF Ahead, TableStep, client
  <2> QED BY <2>1, <2>2 DEF TableStep, client
<1>5. PagesFollow'
  <2> SUFFICES ASSUME rows' = start PROVE PagesFollow'
    BY DEF PagesFollow, TableStep, client
  <2>1. rows' = rows /\ rows = start
    BY <1>3 DEF TableStep
  <2> QED BY <1>1, <1>2, <2>1 DEF PagesFollow, TableStep, client
<1> QED BY <1>4, <1>5

\* A page that is read takes the rows next in line.
LEMMA FindKeepsWalk ==
  ASSUME WalkInv, Find
  PROVE  ListedOrAhead' /\ PagesFollow'
<1> USE DEF WalkInv
<1>1. \A r \in rows : Untied(r) =>
        (r \in results' <=> Offset(r) >= Skip /\ Offset(r) < Skip + PerPage)
  BY UntiedFound
<1>2. \A r \in rows : Offset(r) \in Nat
  BY RowsAreFinite
<1>3. Skip \in Nat /\ PerPage \in Nat /\ start \subseteq rows
  BY SkipIsNatural DEF TypeOK
<1>4. /\ step = "asked" /\ step' = "found"
      /\ rows' = rows /\ createdAt' = createdAt /\ start' = start
      /\ listed' = listed /\ repeated' = repeated /\ currentPage' = currentPage
  BY DEF Find, table, client
<1>5. \A r : Untied(r)' = Untied(r) /\ Newer(r)' = Newer(r)
  BY <1>4 DEF Untied, Newer
<1>6. Skip' = Skip /\ \A r : Offset(r)' = Offset(r)
  BY <1>4, <1>5 DEF Skip, Offset
<1>7. ListedOrAhead'
  <2> SUFFICES ASSUME NEW r \in start, Untied(r), r \notin listed PROVE Ahead(r)'
    BY <1>4, <1>5 DEF ListedOrAhead
  <2>1. Offset(r) >= Skip
    BY DEF ListedOrAhead, Ahead
  <2>2. r \in results' \/ Offset(r) >= Skip + PerPage
    BY <1>1, <1>2, <1>3, <2>1
  <2> QED BY <1>4, <1>6, <2>1, <2>2 DEF Ahead
<1>8. PagesFollow'
  BY <1>1, <1>4, <1>5, <1>6 DEF PagesFollow
<1> QED BY <1>7, <1>8

\* The rows are counted after the page was read: a row beyond the page counts.
LEMMA CountKeepsWalk ==
  ASSUME WalkInv, Count
  PROVE  ListedOrAhead' /\ PagesFollow'
<1> USE DEF WalkInv
<1>1. \A r \in rows : Offset(r) \in Nat /\ Offset(r) < Cardinality(rows)
  <2> SUFFICES ASSUME NEW r \in rows PROVE Offset(r) \in Nat /\ Offset(r) < Cardinality(rows)
    OBVIOUS
  <2>1. Newer(r) \in SUBSET rows /\ r \notin Newer(r)
    BY PagingAssumption DEF Newer, TypeOK, Inserted
  <2>2. Offset(r) <= Cardinality(rows) /\ Offset(r) # Cardinality(rows)
    BY <2>1, RowsAreFinite, FS_Subset DEF Offset
  <2> QED BY <2>2, RowsAreFinite
<1>2. Skip \in Nat /\ PerPage \in Nat /\ start \subseteq rows /\ Cardinality(rows) \in Nat
  BY SkipIsNatural, RowsAreFinite DEF TypeOK
<1>3. /\ step = "found" /\ step' = "counted" /\ totalRecords' = Cardinality(rows)
      /\ rows' = rows /\ createdAt' = createdAt /\ start' = start /\ results' = results
      /\ listed' = listed /\ repeated' = repeated /\ currentPage' = currentPage
  BY DEF Count, NumberOfRows, table, client
<1>4. \A r : Untied(r)' = Untied(r) /\ Newer(r)' = Newer(r)
  BY <1>3 DEF Untied, Newer
<1>5. Skip' = Skip /\ \A r : Offset(r)' = Offset(r)
  BY <1>3, <1>4 DEF Skip, Offset
<1>6. ListedOrAhead'
  <2> SUFFICES ASSUME NEW r \in start, Untied(r), r \notin listed PROVE Ahead(r)'
    BY <1>3, <1>4 DEF ListedOrAhead
  <2>1. /\ Offset(r) >= Skip
        /\ r \in results \/ Offset(r) >= Skip + PerPage
    BY <1>3 DEF ListedOrAhead, Ahead
  <2>2. Offset(r) >= Skip + PerPage => Cardinality(rows) > Skip + PerPage
    BY <1>1, <1>2
  <2> QED BY <1>3, <1>5, <2>1, <2>2 DEF Ahead
<1>7. PagesFollow'
  BY <1>3, <1>4, <1>5 DEF PagesFollow
<1> QED BY <1>6, <1>7

\* The client turns the page, and stops only when no row lies beyond it.
LEMMA AnswerKeepsWalk ==
  ASSUME WalkInv, Answer
  PROVE  ListedOrAhead' /\ PagesFollow'
<1> USE DEF WalkInv
<1>1. \A r \in rows : Offset(r) \in Nat
  BY RowsAreFinite
<1>2. /\ Skip \in Nat /\ PerPage \in Nat \ {0} /\ currentPage \in Nat \ {0}
      /\ totalRecords \in Nat /\ start \subseteq rows
  BY SkipIsNatural DEF TypeOK
<1>3. /\ step = "counted" /\ listed' = listed \cup results
      /\ repeated' = repeated \cup (listed \cap results)
      /\ rows' = rows /\ createdAt' = createdAt /\ start' = start
  BY DEF Answer, table
<1>4. \A r : Untied(r)' = Untied(r) /\ Newer(r)' = Newer(r)
  BY <1>3 DEF Untied, Newer
<1>5. \A r : Offset(r)' = Offset(r)
  BY <1>4 DEF Offset
<1>6. Skip + PerPage = PerPage * currentPage
  BY <1>2 DEF Skip
<1>7. step' = "asked" => Skip' = Skip + PerPage
  <2>1. step' = "asked" => currentPage' = currentPage + 1
    BY DEF Answer
  <2> QED BY <1>2, <1>6, <2>1 DEF Skip
<1>8. step' \in {"asked", "finished"}
  BY DEF Answer
<1>9. totalRecords > Skip + PerPage => step' = "asked"
  <2>1. totalRecords > PerPage * currentPage => currentPage < TotalPages
    BY <1>2, PagesRemain DEF TotalPages
  <2> QED BY <1>6, <2>1 DEF Answer
<1>10. ListedOrAhead'
  <2> SUFFICES ASSUME NEW r \in start, Untied(r), r \notin listed, r \notin results
               PROVE  Ahead(r)'
    BY <1>3, <1>4 DEF ListedOrAhead
  <2>1. Offset(r) >= Skip + PerPage /\ totalRecords > Skip + PerPage
    BY <1>3 DEF ListedOrAhead, Ahead
  <2> QED BY <1>5, <1>7, <1>9, <2>1 DEF Ahead
<1>11. PagesFollow'
  <2> SUFFICES ASSUME rows = start, NEW r \in rows, Untied(r)
               PROVE  /\ r \notin repeated'
                      /\ r \in listed' /\ step' # "finished" => Offset(r) < Skip'
    BY <1>3, <1>4, <1>5, <1>8 DEF PagesFollow
  <2>1. /\ r \notin repeated
        /\ r \in listed => Offset(r) < Skip
        /\ r \in results => Offset(r) >= Skip /\ Offset(r) < Skip + PerPage
    BY <1>3 DEF PagesFollow
  <2>2. r \notin repeated'
    BY <1>1, <1>2, <1>3, <2>1
  <2>3. r \in listed' => Offset(r) < Skip + PerPage
    BY <1>1, <1>2, <1>3, <2>1
  <2> QED BY <1>7, <1>8, <2>2, <2>3
<1> QED BY <1>10, <1>11

\* A page that is asked for again lies where it did.
LEMMA FailKeepsWalk ==
  ASSUME WalkInv, Fail
  PROVE  ListedOrAhead' /\ PagesFollow'
<1> USE DEF WalkInv
<1>1. /\ step \in {"found", "counted"} /\ step' = "asked"
      /\ rows' = rows /\ createdAt' = createdAt /\ start' = start
      /\ listed' = listed /\ repeated' = repeated /\ currentPage' = currentPage
  BY DEF Fail, table, client
<1>2. \A r : Untied(r)' = Untied(r) /\ Newer(r)' = Newer(r)
  BY <1>1 DEF Untied, Newer
<1>3. Skip' = Skip /\ \A r : Offset(r)' = Offset(r)
  BY <1>1, <1>2 DEF Skip, Offset
<1>4. ListedOrAhead'
  BY <1>1, <1>2, <1>3 DEF ListedOrAhead, Ahead
<1>5. PagesFollow'
  BY <1>1, <1>2, <1>3 DEF PagesFollow
<1> QED BY <1>4, <1>5

\* Every step keeps the invariant.
LEMMA WalkNext == WalkInv /\ [Next]_vars => WalkInv'
<1> SUFFICES ASSUME WalkInv, [Next]_vars PROVE WalkInv'
  OBVIOUS
<1>1. TypeOK /\ TypeOK'
  BY TypeNext DEF WalkInv
<1>2. CASE Posting \/ UNCHANGED vars
  BY <1>1, <1>2, TableSteps, TableKeepsWalk DEF WalkInv
<1>3. CASE Find
  BY <1>1, <1>3, FindKeepsWalk DEF WalkInv
<1>4. CASE Count
  BY <1>1, <1>4, CountKeepsWalk DEF WalkInv
<1>5. CASE Answer
  BY <1>1, <1>5, AnswerKeepsWalk DEF WalkInv
<1>6. CASE Fail
  BY <1>1, <1>6, FailKeepsWalk DEF WalkInv
<1> QED BY <1>2, <1>3, <1>4, <1>5, <1>6 DEF Next, Paging

\* The invariant holds of every reachable state.
THEOREM WalkInvariant == Spec => []WalkInv
BY WalkInit, WalkNext, PTL DEF Spec

\* Every variable has its type, and no page lists a row that is not committed.
THEOREM PagesAreTyped == Spec => []TypeOK
<1>1. WalkInv => TypeOK
  BY DEF WalkInv
<1> QED BY <1>1, WalkInvariant, PTL

\* A client that reads on to the last page has been listed every row that was
\* committed when it began and that ties with no other (findAndCount).
THEOREM NoRowIsSkipped == Spec => []NothingSkipped
<1>1. WalkInv => NothingSkipped
  BY DEF WalkInv, ListedOrAhead, Ahead, NothingSkipped
<1> QED BY <1>1, WalkInvariant, PTL

\* Pages of a table that does not grow have no row in common.
THEOREM QuietPagesAreDisjoint == Spec => []RepeatsMeanNewRows
<1>1. WalkInv => RepeatsMeanNewRows
  BY DEF WalkInv, TypeOK, PagesFollow, RepeatsMeanNewRows
<1> QED BY <1>1, WalkInvariant, PTL

-----------------------------------------------------------------------------
(***************************************************************************)
(* The pages implement PagedListing.                                       *)
(***************************************************************************)
\* The rows with no place of their own.
Tied == {r \in rows : ~Untied(r)}

LEMMA ListingInit == Init => Listing!Init
BY DEF Init, Listing!Init

\* Nothing changes that the listing speaks of.
LEMMA ListingStutters ==
  ASSUME rows' = rows, createdAt' = createdAt, start' = start, listed' = listed,
         results' = results, step # "finished", step' # "finished"
  PROVE  UNCHANGED Listing!vars
<1>1. Tied' = Tied
  BY DEF Tied, Untied
<1> QED BY <1>1 DEF Listing!vars, Tied

\* The table grows, and no row gets a place of its own by that.
LEMMA TableGrows ==
  ASSUME TypeOK, TypeOK', TableStep
  PROVE  Listing!Grow
<1>1. \A r \in rows : Untied(r)' => Untied(r)
  BY OffsetGrows DEF TableStep
<1>2. Tied \subseteq Tied' /\ Tied' \subseteq rows'
  BY <1>1 DEF Tied, TableStep
<1> QED BY <1>2 DEF Listing!Grow, Tied, TableStep, client

\* What is read has been committed.
LEMMA PageIsRead ==
  ASSUME step = "asked", step' = "found", UNCHANGED <<table, client>>, results' \subseteq rows
  PROVE  Listing!Read
<1>1. Tied' = Tied
  BY DEF Tied, Untied, table
<1> QED BY <1>1 DEF Listing!Read, Tied, table, client

\* An answer lists no untied row again while the table is as it was, and the
\* last one completes the list.
LEMMA PageIsGiven ==
  ASSUME WalkInv, WalkInv', Answer
  PROVE  Listing!GivePage \/ Listing!GiveLastPage
<1>1. /\ step = "counted" /\ step' \in {"asked", "finished"}
      /\ listed' = listed \cup results
      /\ rows' = rows /\ createdAt' = createdAt /\ start' = start /\ results' = results
  BY DEF Answer, table
<1>2. \A r : Untied(r)' = Untied(r)
  BY <1>1 DEF Untied
<1>3. Tied' = Tied
  BY <1>1, <1>2 DEF Tied
<1>4. TypeOK /\ start \subseteq rows /\ results \subseteq rows
  BY DEF WalkInv, TypeOK
<1>5. rows = start => results \cap listed \subseteq Tied
  <2> SUFFICES ASSUME rows = start, NEW r \in results \cap listed, Untied(r) PROVE FALSE
    BY <1>4 DEF Tied
  <2>1. Offset(r) < Skip /\ Offset(r) >= Skip
    BY <1>1, <1>4 DEF WalkInv, PagesFollow
  <2> QED BY <1>4, <2>1, SkipIsNatural, RowsAreFinite
<1>6. Listing!Give
  BY <1>1, <1>3, <1>5 DEF Listing!Give, Tied
<1>7. CASE step' = "asked"
  BY <1>6, <1>7 DEF Listing!GivePage
<1>8. CASE step' = "finished"
  <2>1. \A r \in start : Untied(r) => r \in listed'
    BY <1>1, <1>2, <1>8 DEF WalkInv, ListedOrAhead, Ahead
  <2>2. start \ Tied \subseteq listed'
    BY <1>4, <2>1 DEF Tied
  <2> QED BY <1>6, <1>8, <2>2 DEF Listing!GiveLastPage, Tied
<1> QED BY <1>1, <1>7, <1>8

\* Every step is one of the listing, or changes nothing of it.
LEMMA ListingNext ==
  ASSUME WalkInv, WalkInv', [Next]_vars
  PROVE  [Listing!Next]_(Listing!vars)
<1>1. TypeOK /\ TypeOK'
  BY DEF WalkInv
<1>2. CASE Posting \/ UNCHANGED vars
  BY <1>1, <1>2, TableSteps, TableGrows DEF Listing!Next
<1>3. CASE Find
  <2>1. results' \subseteq rows
    BY <1>1, <1>3 DEF TypeOK, Find, table
  <2> QED BY <1>3, <2>1, PageIsRead DEF Find, Listing!Next
<1>4. CASE Count \/ Fail
  BY <1>4, ListingStutters DEF Count, Fail, table, client
<1>5. CASE Answer
  BY <1>5, PageIsGiven DEF Listing!Next
<1> QED BY <1>2, <1>3, <1>4, <1>5 DEF Next, Paging

\* The pages of POST /walletTransactions keep the promise of PagedListing: no
\* row comes twice while the table is as it was, and the last page completes
\* the rows that were there at the beginning.
THEOREM PagesImplementListing == Spec => ListingSpec
BY ListingInit, WalkInvariant, ListingNext, PTL DEF Spec, ListingSpec, Listing!Spec

-----------------------------------------------------------------------------
(***************************************************************************)
(* Transactions by date.  While the rows are grouped the invariant keeps   *)
(* three things apart: the rows that have been read, which are the newest  *)
(* of the table at that time; those of them that are grouped, none older   *)
(* than one that is left; and the entries, each with the rows of its day.  *)
(***************************************************************************)
Entry == [date : Int, transactions : Seq(RowIds)]

DaysTyped ==
  /\ reader \in {"pages", "days"}
  /\ dateWise \in Seq(Entry)
  /\ left \subseteq rows
  /\ asOf \subseteq rows

\* The rows have been read and are not answered yet.
Reading == reader = "days" /\ step \in {"found", "counted"}

NewestRead ==
  Reading =>
    /\ results \subseteq asOf
    /\ Cardinality(results) = Least(Limit, Cardinality(asOf))
    /\ \A t \in results, s \in asOf : createdAt[s] > createdAt[t] => s \in results

GroupedFirst ==
  /\ ~Reading => dateWise = <<>>
  /\ Reading =>
       /\ left \subseteq results
       /\ Grouped = results \ left
       /\ \A g \in Grouped, l \in left : createdAt[l] <= createdAt[g]

UnderTheirDay ==
  \A i \in Entries :
    /\ RowsOn(i) # {}
    /\ \A t \in RowsOn(i) : FormatDate(t) = dateWise[i].date

DaysDescend == \A i, j \in Entries : i < j => dateWise[i].date > dateWise[j].date

\* The rows of a sequence are listed once, the newest first.
Descends(s, at) ==
  \A j, k \in DOMAIN s : j < k => s[j] # s[k] /\ at[s[j]] >= at[s[k]]

RowsDescend == \A i \in Entries : Descends(dateWise[i].transactions, createdAt)

DaysInv ==
  /\ TypeOK
  /\ DaysTyped
  /\ NewestRead
  /\ GroupedFirst
  /\ UnderTheirDay
  /\ DaysDescend
  /\ RowsDescend

-----------------------------------------------------------------------------
\* A later time is not of an earlier day.
LEMMA DaysFollowTime ==
  ASSUME NEW d \in Nat \ {0}, NEW m \in Nat, NEW n \in Nat, m <= n
  PROVE  m \div d \in Int /\ n \div d \in Int /\ m \div d <= n \div d
<1> DEFINE a == m \div d
           b == n \div d
<1>1. a \in Int /\ b \in Int /\ d * a <= m /\ n < d * b + d
  BY SMTT(30)
<1> HIDE DEF a, b
<1>2. ASSUME b + 1 <= a PROVE d * (b + 1) <= d * a
  BY <1>1, <1>2, SMTT(30)
<1>3. d * (b + 1) = d * b + d /\ d * b \in Int /\ d * a \in Int
  BY <1>1, SMTT(30)
<1>4. a <= b
  BY <1>1, <1>2, <1>3
<1> QED BY <1>1, <1>4 DEF a, b

\* The times and days of the rows of the table.
LEMMA TimesAreTyped ==
  ASSUME TypeOK
  PROVE  /\ \A r \in rows : createdAt[r] \in Nat /\ FormatDate(r) \in Int
         /\ \A r, s \in rows : createdAt[r] <= createdAt[s] => FormatDate(r) <= FormatDate(s)
<1>1. \A r \in rows : createdAt[r] \in Nat
  BY PagingAssumption DEF TypeOK, Inserted
<1>2. DayLength \in Nat \ {0}
  BY DatewiseAssumption
<1> QED BY <1>1, <1>2, DaysFollowTime DEF FormatDate

\* A row at the end of a sequence of rows.
LEMMA AppendRow ==
  ASSUME NEW s \in Seq(RowIds), NEW t \in RowIds
  PROVE  /\ Append(s, t) \in Seq(RowIds)
         /\ {Append(s, t)[j] : j \in DOMAIN Append(s, t)} = {s[j] : j \in DOMAIN s} \cup {t}
         /\ \A at : /\ Descends(s, at)
                    /\ \A j \in DOMAIN s : s[j] # t /\ at[s[j]] >= at[t]
                    => Descends(Append(s, t), at)
<1> DEFINE u == Append(s, t)
           n == Len(s)
<1>1. /\ u \in Seq(RowIds) /\ Len(u) = n + 1
      /\ \A j \in 1 .. n : u[j] = s[j]
      /\ u[n + 1] = t
  BY AppendProperties
<1>2. n \in Nat /\ DOMAIN s = 1 .. n /\ DOMAIN u = 1 .. (n + 1)
  BY <1>1, LenProperties
<1> HIDE DEF u, n
<1>3. {u[j] : j \in DOMAIN u} = {s[j] : j \in DOMAIN s} \cup {t}
  <2>1. \A j \in 1 .. (n + 1) : j \in 1 .. n \/ j = n + 1
    BY <1>2
  <2>2. \A j \in 1 .. n : j \in 1 .. (n + 1)
    BY <1>2
  <2>3. n + 1 \in 1 .. (n + 1)
    BY <1>2
  <2> QED BY <1>1, <1>2, <2>1, <2>2, <2>3
<1>4. ASSUME NEW at, Descends(s, at), \A j \in DOMAIN s : s[j] # t /\ at[s[j]] >= at[t]
      PROVE  Descends(u, at)
  <2> SUFFICES ASSUME NEW j \in 1 .. (n + 1), NEW k \in 1 .. (n + 1), j < k
               PROVE  u[j] # u[k] /\ at[u[j]] >= at[u[k]]
    BY <1>2 DEF Descends
  <2>1. j \in 1 .. n /\ (k \in 1 .. n \/ k = n + 1)
    BY <1>2
  <2> QED BY <1>1, <1>2, <1>4, <2>1 DEF Descends
<1> QED BY <1>1, <1>3, <1>4 DEF u

\* The entry of a day that has rows already grows by the row; a day that has
\* none gets an entry behind the others.
LEMMA SetGroups ==
  ASSUME dateWise \in Seq(Entry), DaysDescend, NEW t \in RowIds, FormatDate(t) \in Int
  PROVE  \E k \in Nat \ {0}, old \in Seq(RowIds) :
           /\ Set(t) \in Seq(Entry)
           /\ DOMAIN Set(t) = Entries \cup {k}
           /\ Set(t)[k].date = FormatDate(t)
           /\ Set(t)[k].transactions = Append(old, t)
           /\ \A i \in Entries \ {k} : Set(t)[i] = dateWise[i] /\ dateWise[i].date # FormatDate(t)
           /\ \/ k \in Entries /\ dateWise[k].date = FormatDate(t) /\ old = dateWise[k].transactions
              \/ k \notin Entries /\ old = <<>> /\ \A i \in Entries : i < k
<1> DEFINE n == Len(dateWise)
           day == FormatDate(t)
<1>1. n \in Nat /\ Entries = 1 .. n
  BY LenProperties DEF Entries
<1>2. \A i \in Entries : /\ dateWise[i] \in Entry
                         /\ dateWise[i].date \in Int
                         /\ dateWise[i].transactions \in Seq(RowIds)
  <2>1. \A i \in Entries : dateWise[i] \in Entry
    BY <1>1, ElementOfSeq
  <2> QED BY <2>1 DEF Entry
<1>3. CASE \E i \in Entries : dateWise[i].date = day
  <2>1. PICK k \in Entries : dateWise[k].date = day
    BY <1>3
  <2> DEFINE old == dateWise[k].transactions
             new == [i \in Entries |->
                       IF dateWise[i].date = day
                       THEN [dateWise[i] EXCEPT !.transactions = Append(@, t)] ELSE dateWise[i]]
  <2>2. Set(t) = new
    BY <1>3 DEF Set
  <2>3. \A i \in Entries \ {k} : dateWise[i].date # day
    <3> SUFFICES ASSUME NEW i \in Entries, i # k, dateWise[i].date = day PROVE FALSE
      OBVIOUS
    <3>1. i < k \/ k < i
      BY <1>1
    <3>2. dateWise[i].date > dateWise[k].date \/ dateWise[k].date > dateWise[i].date
      BY <3>1 DEF DaysDescend
    <3> QED BY <1>2, <2>1, <3>2
  <2>4. \A i \in Entries \ {k} : new[i] = dateWise[i]
    BY <2>3
  <2>5. new[k] = [dateWise[k] EXCEPT !.transactions = Append(old, t)]
    BY <2>1
  <2>6. Append(old, t) \in Seq(RowIds)
    BY <1>2, AppendRow
  <2>7. /\ new[k] \in Entry /\ new[k].date = day
        /\ new[k].transactions = Append(old, t)
    BY <1>2, <2>1, <2>5, <2>6 DEF Entry
  <2>8. \A i \in Entries : new[i] \in Entry
    BY <1>2, <2>4, <2>7
  <2>9. DOMAIN new = Entries
    OBVIOUS
  <2>10. new \in Seq(Entry)
    BY <1>1, <2>8, <2>9, IsASeq
  <2>11. k \in Nat \ {0} /\ old \in Seq(RowIds) /\ Entries \cup {k} = Entries
    BY <1>1, <1>2
  <2> HIDE DEF new, old
  <2>12. /\ new \in Seq(Entry) /\ DOMAIN new = Entries \cup {k}
         /\ new[k].date = day /\ new[k].transactions = Append(old, t)
         /\ \A i \in Entries \ {k} : new[i] = dateWise[i] /\ dateWise[i].date # day
         /\ k \in Entries /\ dateWise[k].date = day /\ old = dateWise[k].transactions
    BY <2>1, <2>3, <2>4, <2>7, <2>9, <2>10, <2>11 DEF old
  <2> QED BY <2>2, <2>11, <2>12, Zenon
<1>4. CASE ~ \E i \in Entries : dateWise[i].date = day
  <2> DEFINE k == n + 1
             entry == [date |-> day, transactions |-> <<t>>]
             new == Append(dateWise, entry)
  <2>1. Set(t) = new
    BY <1>4 DEF Set
  <2>2. <<>> \in Seq(RowIds) /\ Append(<<>>, t) = <<t>> /\ <<t>> \in Seq(RowIds)
    OBVIOUS
  <2>3. entry \in Entry /\ entry.date = day /\ entry.transactions = <<t>>
    BY <2>2 DEF Entry
  <2> HIDE DEF entry
  <2>4. /\ new \in Seq(Entry) /\ Len(new) = n + 1
        /\ \A i \in 1 .. n : new[i] = dateWise[i]
        /\ new[n + 1] = entry
    BY <2>3, AppendProperties
  <2>5. DOMAIN new = 1 .. (n + 1)
    BY <2>4, LenProperties
  <2> HIDE DEF new
  <2>6. 1 .. (n + 1) = Entries \cup {k}
    BY <1>1
  <2>7. k \in Nat \ {0} /\ k \notin Entries /\ \A i \in Entries : i < k
    BY <1>1
  <2>8. /\ new \in Seq(Entry) /\ DOMAIN new = Entries \cup {k}
        /\ new[k].date = day /\ new[k].transactions = Append(<<>>, t)
        /\ \A i \in Entries \ {k} : new[i] = dateWise[i] /\ dateWise[i].date # day
    BY <1>1, <1>4, <2>2, <2>3, <2>4, <2>5, <2>6
  <2> HIDE DEF k
  <2> QED BY <2>1, <2>2, <2>7, <2>8, Zenon
<1> QED BY <1>3, <1>4

-----------------------------------------------------------------------------
\* A round of the loop moves a row from those that are left to its day.
LEMMA GroupKeeps ==
  ASSUME DaysInv, reader = "days", Group
  PROVE  DaysInv'
<1> USE DEF DaysInv
<1>1. /\ step = "counted" /\ Reading
      /\ UNCHANGED <<now, createdAt, rows, currentPage, start, listed, repeated, step,
                     results, totalRecords, reader, asOf>>
  BY DEF Group, vars, table, client, Reading
<1>2. PICK t \in left : /\ \A s \in left : createdAt[s] <= createdAt[t]
                        /\ dateWise' = Set(t) /\ left' = left \ {t}
  BY DEF Group, NextInOrder
<1>3. /\ rows \subseteq RowIds /\ left \subseteq rows /\ results \subseteq rows
      /\ left \subseteq results /\ Grouped = results \ left
  BY <1>1 DEF TypeOK, Inserted, DaysTyped, GroupedFirst
<1>4. /\ \A r \in rows : createdAt[r] \in Nat /\ FormatDate(r) \in Int
      /\ \A r, s \in rows : createdAt[r] <= createdAt[s] => FormatDate(r) <= FormatDate(s)
  BY TimesAreTyped
<1>5. t \in RowIds /\ t \in rows /\ FormatDate(t) \in Int /\ dateWise \in Seq(Entry)
  BY <1>2, <1>3, <1>4 DEF DaysTyped
<1>6. PICK k \in Nat \ {0}, old \in Seq(RowIds) :
        /\ Set(t) \in Seq(Entry)
        /\ DOMAIN Set(t) = Entries \cup {k}
        /\ Set(t)[k].date = FormatDate(t)
        /\ Set(t)[k].transactions = Append(old, t)
        /\ \A i \in Entries \ {k} : Set(t)[i] = dateWise[i] /\ dateWise[i].date # FormatDate(t)
        /\ \/ k \in Entries /\ dateWise[k].date = FormatDate(t) /\ old = dateWise[k].transactions
           \/ k \notin Entries /\ old = <<>> /\ \A i \in Entries : i < k
  BY <1>5, SetGroups
<1>7. /\ Append(old, t) \in Seq(RowIds)
      /\ {Append(old, t)[j] : j \in DOMAIN Append(old, t)} = {old[j] : j \in DOMAIN old} \cup {t}
  BY <1>5, AppendRow
<1>8. /\ Entries' = Entries \cup {k}
      /\ dateWise'[k].date = FormatDate(t)
      /\ dateWise'[k].transactions = Append(old, t)
      /\ \A i \in Entries \ {k} : dateWise'[i] = dateWise[i]
  BY <1>2, <1>6 DEF Entries
<1>9. /\ RowsOn(k)' = {old[j] : j \in DOMAIN old} \cup {t}
      /\ \A i \in Entries \ {k} : RowsOn(i)' = RowsOn(i)
  BY <1>7, <1>8 DEF RowsOn
<1>10. {old[j] : j \in DOMAIN old} = IF k \in Entries THEN RowsOn(k) ELSE {}
  <2>1. CASE k \in Entries
    BY <1>6, <2>1 DEF RowsOn
  <2>2. CASE k \notin Entries
    BY <1>6, <2>2
  <2> QED BY <2>1, <2>2
<1>11. Grouped' = Grouped \cup {t}
  BY <1>8, <1>9, <1>10 DEF Grouped
<1>12. \A i \in Entries : RowsOn(i) \subseteq Grouped
  BY DEF Grouped
<1>13. \A g \in Grouped : /\ g \in rows /\ g # t /\ createdAt[t] <= createdAt[g]
                          /\ createdAt[g] >= createdAt[t]
                          /\ FormatDate(t) <= FormatDate(g)
  <2>1. \A g \in Grouped : g \in rows /\ g # t /\ createdAt[t] <= createdAt[g]
    BY <1>1, <1>2, <1>3 DEF GroupedFirst
  <2> QED BY <1>4, <1>5, <2>1
<1>14. TypeOK'
  BY <1>1 DEF TypeOK, Inserted
<1>15. DaysTyped'
  BY <1>1, <1>2, <1>6 DEF DaysTyped
<1>16. NewestRead'
  BY <1>1 DEF NewestRead, Reading
<1>17. GroupedFirst'
  <2>1. left' \subseteq results' /\ Grouped' = results' \ left'
    BY <1>1, <1>2, <1>3, <1>11
  <2>2. \A g \in Grouped', l \in left' : createdAt'[l] <= createdAt'[g]
    BY <1>1, <1>2, <1>11 DEF GroupedFirst
  <2>3. Reading'
    BY <1>1 DEF Reading
  <2> QED BY <2>1, <2>2, <2>3 DEF GroupedFirst
<1>18. UnderTheirDay'
  <2> SUFFICES ASSUME NEW i \in Entries'
               PROVE  /\ RowsOn(i)' # {}
                      /\ \A r \in RowsOn(i)' : FormatDate(r)' = dateWise'[i].date
    BY DEF UnderTheirDay
  <2>1. \A r : FormatDate(r)' = FormatDate(r)
    BY <1>1 DEF FormatDate
  <2>2. CASE i = k
    BY <1>6, <1>8, <1>9, <1>10, <2>1, <2>2 DEF UnderTheirDay
  <2>3. CASE i # k
    BY <1>8, <1>9, <2>1, <2>3 DEF UnderTheirDay
  <2> QED BY <2>2, <2>3
<1>19. DaysDescend'
  <2>1. \A i \in Entries : dateWise[i].date \in Int
    <3>1. \A i \in Entries : dateWise[i] \in Entry
      BY <1>5, ElementOfSeq, LenProperties DEF Entries
    <3> QED BY <3>1 DEF Entry
  <2>2. \A i \in Entries : FormatDate(t) <= dateWise[i].date
    BY <1>12, <1>13 DEF UnderTheirDay
  <2> SUFFICES ASSUME NEW i \in Entries', NEW j \in Entries', i < j
               PROVE  dateWise'[i].date > dateWise'[j].date
    BY DEF DaysDescend
  <2>3. CASE k \in Entries
    <3>1. \A h \in Entries : dateWise'[h].date = dateWise[h].date
      BY <1>6, <1>8, <2>3
    <3> QED BY <1>8, <2>3, <3>1 DEF DaysDescend
  <2>4. CASE k \notin Entries
    <3>1. Entries = 1 .. Len(dateWise) /\ k \in Nat
      BY <1>5, LenProperties DEF Entries
    <3>2. i \in Entries /\ i # k
      BY <1>6, <1>8, <2>4, <3>1
    <3>3. dateWise'[i].date = dateWise[i].date /\ dateWise[i].date # FormatDate(t)
      BY <1>6, <1>8, <3>2
    <3>4. CASE j = k
      <4>1. /\ dateWise[i].date \in Int /\ FormatDate(t) \in Int
            /\ FormatDate(t) <= dateWise[i].date /\ dateWise[i].date # FormatDate(t)
        BY <1>5, <2>1, <2>2, <3>2, <3>3
      <4>2. dateWise[i].date > FormatDate(t)
        BY <4>1
      <4> QED BY <1>8, <3>3, <3>4, <4>2
    <3>5. CASE j # k
      BY <1>8, <3>2, <3>3, <3>5 DEF DaysDescend
    <3> QED BY <3>4, <3>5
  <2> QED BY <2>3, <2>4
<1>20. RowsDescend'
  <2> SUFFICES ASSUME NEW i \in Entries'
               PROVE  Descends(dateWise'[i].transactions, createdAt)
    BY <1>1 DEF RowsDescend
  <2>1. CASE i = k
    <3>1. Descends(old, createdAt)
      BY <1>6 DEF RowsDescend, Descends
    <3>2. \A j \in DOMAIN old : old[j] # t /\ createdAt[old[j]] >= createdAt[t]
      <4>1. \A j \in DOMAIN old : old[j] \in Grouped
        BY <1>10, <1>12
      <4> QED BY <1>13, <4>1
    <3> QED BY <1>5, <1>8, <2>1, <3>1, <3>2, AppendRow
  <2>2. CASE i # k
    BY <1>8, <2>2 DEF RowsDescend
  <2> QED BY <2>1, <2>2
<1> QED BY <1>14, <1>15, <1>16, <1>17, <1>18, <1>19, <1>20

\* The table changes, and the rows that have been committed keep their times.
LEMMA PostingKeeps ==
  ASSUME DaysInv, Posting \/ UNCHANGED vars, UNCHANGED days
  PROVE  DaysInv'
<1> USE DEF DaysInv
<1>1. TypeOK'
  BY TypeNext DEF Next
<1>2. /\ rows \subseteq rows' /\ \A r \in rows : createdAt'[r] = createdAt[r]
      /\ UNCHANGED <<step, results, reader, dateWise, left, asOf>>
  BY TableSteps DEF TableStep, days
<1>3. left \subseteq rows /\ asOf \subseteq rows /\ results \subseteq rows
  BY DEF TypeOK, DaysTyped
<1>4. DaysTyped'
  BY <1>2 DEF DaysTyped
<1>5. NewestRead'
  BY <1>2, <1>3 DEF NewestRead, Reading
<1>6. /\ Entries' = Entries /\ Grouped' = Grouped
      /\ \A i : RowsOn(i)' = RowsOn(i)
  BY <1>2 DEF Entries, Grouped, RowsOn
<1>7. Grouped \subseteq rows
  <2>1. CASE Reading
    BY <1>3, <2>1 DEF GroupedFirst
  <2>2. CASE ~Reading
    <3>1. Entries = {}
      BY <2>2, EmptySeq DEF GroupedFirst, Entries
    <3> QED BY <3>1 DEF Grouped
  <2> QED BY <2>1, <2>2
<1>8. GroupedFirst'
  BY <1>2, <1>3, <1>6, <1>7 DEF GroupedFirst, Reading
<1>9. \A i \in Entries : RowsOn(i) \subseteq Grouped
  BY DEF Grouped
<1>10. UnderTheirDay'
  <2>1. \A r \in rows : FormatDate(r)' = FormatDate(r)
    BY <1>2 DEF FormatDate
  <2>2. \A i \in Entries : \A r \in RowsOn(i) : FormatDate(r)' = FormatDate(r)
    BY <1>7, <1>9, <2>1
  <2> QED BY <1>2, <1>6, <2>2 DEF UnderTheirDay
<1>11. DaysDescend'
  BY <1>2, <1>6 DEF DaysDescend
<1>12. RowsDescend'
  <2>1. \A i \in Entries : \A j \in DOMAIN dateWise[i].transactions :
          dateWise[i].transactions[j] \in rows
    BY <1>7, <1>9 DEF RowsOn
  <2> QED BY <1>2, <1>6, <2>1 DEF RowsDescend, Descends
<1> QED BY <1>1, <1>4, <1>5, <1>8, <1>10, <1>11, <1>12

\* Without entries there is nothing to hold of them.
LEMMA NoEntries ==
  ASSUME dateWise = <<>>
  PROVE  Entries = {} /\ Grouped = {} /\ UnderTheirDay /\ DaysDescend /\ RowsDescend
<1>1. Entries = {}
  BY EmptySeq DEF Entries
<1> QED BY <1>1 DEF Grouped, UnderTheirDay, DaysDescend, RowsDescend

LEMMA NoEntriesNext ==
  (dateWise = <<>> =>
     Entries = {} /\ Grouped = {} /\ UnderTheirDay /\ DaysDescend /\ RowsDescend)'
BY NoEntries, PTL

\* The newest rows are read.
LEMMA FindByDateKeeps ==
  ASSUME DaysInv, reader = "days", FindByDate
  PROVE  DaysInv'
<1> USE DEF DaysInv
<1>1. /\ dateWise = <<>> /\ results' \in Newest(Limit) /\ left' = results' /\ asOf' = rows
      /\ step' = "found"
      /\ UNCHANGED <<now, createdAt, rows, currentPage, start, listed, repeated,
                     totalRecords, reader, dateWise>>
  BY DEF FindByDate, FindUpToLimit, GroupedFirst, Reading, table, client
<1>2. results' \subseteq rows
  BY <1>1 DEF Newest
<1>3. TypeOK'
  BY <1>1, <1>2 DEF TypeOK, Inserted
<1>4. DaysTyped'
  BY <1>1, <1>2 DEF DaysTyped
<1>5. NewestRead'
  BY <1>1, <1>2 DEF NewestRead, Newest
<1>6. Entries' = {} /\ Grouped' = {} /\ UnderTheirDay' /\ DaysDescend' /\ RowsDescend'
  BY <1>1, NoEntriesNext
<1>7. GroupedFirst'
  BY <1>1, <1>6 DEF GroupedFirst
<1> QED BY <1>3, <1>4, <1>5, <1>6, <1>7

\* A walk through the pages, an answer and a failure leave no entries.
LEMMA EndKeeps ==
  ASSUME DaysInv, TypeOK', DaysTyped', dateWise' = <<>>, ~Reading'
  PROVE  DaysInv'
<1>1. UnderTheirDay' /\ DaysDescend' /\ RowsDescend'
  BY NoEntriesNext
<1> QED BY <1>1 DEF DaysInv, NewestRead, GroupedFirst

LEMMA DaysInit == DatewiseInit => DaysInv
<1> SUFFICES ASSUME DatewiseInit PROVE DaysInv
  OBVIOUS
<1>1. TypeOK
  BY TypeInit DEF DatewiseInit
<1>2. UnderTheirDay /\ DaysDescend /\ RowsDescend
  BY NoEntries DEF DatewiseInit
<1>3. DaysTyped
  BY EmptySeq DEF DatewiseInit, DaysTyped
<1>4. ~Reading
  BY DEF DatewiseInit, Init, Reading
<1> QED BY <1>1, <1>2, <1>3, <1>4 DEF DatewiseInit, DaysInv, NewestRead, GroupedFirst

\* The invariant is inductive.
LEMMA DaysNext == DaysInv /\ [DatewiseNext]_allVars => DaysInv'
<1> SUFFICES ASSUME DaysInv, [DatewiseNext]_allVars PROVE DaysInv'
  OBVIOUS
<1>1. TypeOK /\ DaysTyped
  BY DEF DaysInv
<1>2. CASE Posting /\ UNCHANGED days
  BY <1>2, PostingKeeps
<1>3. CASE UNCHANGED allVars
  BY <1>3, PostingKeeps DEF allVars
<1>4. CASE reader = "pages" /\ Paging /\ UNCHANGED days
  <2>1. TypeOK'
    BY <1>1, <1>4, TypeNext DEF Next
  <2>2. dateWise' = <<>> /\ reader' = "pages"
    BY <1>4 DEF DaysInv, GroupedFirst, Reading, days
  <2>3. rows' = rows
    BY <1>4 DEF Paging, Find, Count, Answer, Fail, table
  <2>4. DaysTyped'
    BY <1>1, <1>4, <2>3 DEF DaysTyped, days
  <2> QED BY <2>1, <2>2, <2>4, EndKeeps DEF Reading
<1>5. CASE reader = "days" /\ FindByDate
  BY <1>5, FindByDateKeeps
<1>6. CASE reader = "days" /\ CountByDate
  <2>1. TypeOK'
    BY <1>1, <1>6, TypeNext DEF CountByDate, Next, Paging
  <2>2. /\ step = "found" /\ step' = "counted"
        /\ UNCHANGED <<createdAt, rows, results, reader, dateWise, left, asOf>>
    BY <1>6 DEF CountByDate, Count, days, table
  <2>3. Reading /\ Reading'
    BY <1>6, <2>2 DEF Reading
  <2>4. DaysTyped' /\ NewestRead'
    BY <1>1, <2>2, <2>3 DEF DaysInv, DaysTyped, NewestRead
  <2>5. Entries' = Entries /\ Grouped' = Grouped /\ \A i : RowsOn(i)' = RowsOn(i)
    BY <2>2 DEF Entries, Grouped, RowsOn
  <2>6. GroupedFirst'
    BY <2>2, <2>3, <2>5 DEF DaysInv, GroupedFirst
  <2>7. UnderTheirDay' /\ DaysDescend' /\ RowsDescend'
    BY <2>2, <2>5 DEF DaysInv, UnderTheirDay, DaysDescend, RowsDescend, FormatDate
  <2> QED BY <2>1, <2>4, <2>6, <2>7 DEF DaysInv
<1>7. CASE reader = "days" /\ Group
  BY <1>7, GroupKeeps
<1>8. CASE reader = "days" /\ AnswerByDate
  <2>1. /\ step' = "asked" /\ dateWise' = <<>>
        /\ UNCHANGED <<now, createdAt, rows, currentPage, start, listed, repeated, results,
                       totalRecords, reader, left, asOf>>
    BY <1>8 DEF AnswerByDate, table, client
  <2>2. TypeOK' /\ DaysTyped'
    BY <1>1, <2>1, EmptySeq DEF TypeOK, Inserted, DaysTyped
  <2> QED BY <2>1, <2>2, EndKeeps DEF Reading
<1>9. CASE reader = "days" /\ FailByDate
  <2>1. TypeOK'
    BY <1>1, <1>9, TypeNext DEF FailByDate, Next, Paging
  <2>2. /\ step' = "asked" /\ dateWise' = <<>> /\ left' = {}
        /\ UNCHANGED <<rows, reader, asOf>>
    BY <1>9 DEF FailByDate, Fail, table
  <2>3. DaysTyped'
    BY <1>1, <2>2, EmptySeq DEF DaysTyped
  <2> QED BY <2>1, <2>2, <2>3, EndKeeps DEF Reading
<1> QED BY <1>2, <1>3, <1>4, <1>5, <1>6, <1>7, <1>8, <1>9 DEF DatewiseNext, ReadDays

-----------------------------------------------------------------------------
\* The invariant holds of every reachable state.
THEOREM DaysInvariant == DatewiseSpec => []DaysInv
BY DaysInit, DaysNext, PTL DEF DatewiseSpec

\* The limit cuts off the oldest rows only (the take of 1000 in
\* fetchDatewiseTransactions).
THEOREM TheNewestAreListed == DatewiseSpec => []OnlyTheOldestAreCut
<1>1. DaysInv => OnlyTheOldestAreCut
  <2> SUFFICES ASSUME DaysInv, DaysRead, NEW r \in asOf \ Grouped
               PROVE  /\ Cardinality(Grouped) = Limit
                      /\ \A t \in Grouped : createdAt[r] <= createdAt[t]
    BY DEF OnlyTheOldestAreCut
  <2>1. Grouped = results /\ Reading
    BY DEF DaysInv, DaysRead, GroupedFirst, Reading
  <2>2. /\ results \subseteq asOf
        /\ Cardinality(results) = Least(Limit, Cardinality(asOf))
        /\ \A t \in results, s \in asOf : createdAt[s] > createdAt[t] => s \in results
    BY <2>1 DEF DaysInv, NewestRead
  <2>3. asOf \in SUBSET rows /\ IsFiniteSet(rows)
    BY RowsAreFinite DEF DaysInv, DaysTyped
  <2>4. IsFiniteSet(asOf) /\ Cardinality(results) # Cardinality(asOf)
    BY <2>1, <2>2, <2>3, FS_Subset
  <2>5. Cardinality(Grouped) = Limit
    BY <2>1, <2>2, <2>4 DEF Least
  <2>6. \A t \in Grouped : createdAt[r] <= createdAt[t]
    <3>1. \A s \in rows : createdAt[s] \in Nat
      BY TimesAreTyped DEF DaysInv
    <3>2. \A t \in Grouped : ~(createdAt[r] > createdAt[t]) /\ r \in rows /\ t \in rows
      BY <2>1, <2>2, <2>3
    <3> QED BY <3>1, <3>2
  <2> QED BY <2>5, <2>6
<1> QED BY <1>1, DaysInvariant, PTL

\* Every row is under its day once, the newest first (the loop of
\* fetchDatewiseTransactions).
THEOREM TheStatementIsInOrder == DatewiseSpec => []NewestFirst
<1>1. DaysInv => NewestFirst
  BY DEF DaysInv, UnderTheirDay, DaysDescend, RowsDescend, Descends, NewestFirst
<1> QED BY <1>1, DaysInvariant, PTL

\* A day that is followed by another one has every row that was there.
THEOREM ListedDaysAreWhole == DatewiseSpec => []DaysAreWhole
<1>1. DaysInv => DaysAreWhole
  <2> SUFFICES ASSUME DaysInv, DaysRead, NEW i \in Entries, i < Len(dateWise),
                      NEW r \in asOf, FormatDate(r) = dateWise[i].date
               PROVE  r \in RowsOn(i)
    BY DEF DaysAreWhole
  <2>1. Grouped = results /\ Reading
    BY DEF DaysInv, DaysRead, GroupedFirst, Reading
  <2>2. Entries = 1 .. Len(dateWise) /\ Len(dateWise) \in Nat
    BY LenProperties DEF DaysInv, DaysTyped, Entries
  <2> DEFINE z == Len(dateWise)
  <2>3. z \in Entries /\ dateWise[i].date > dateWise[z].date
    BY <2>2 DEF DaysInv, DaysDescend
  <2>4. PICK u \in RowsOn(z) : FormatDate(u) = dateWise[z].date
    BY <2>3 DEF DaysInv, UnderTheirDay
  <2>5. u \in results /\ u \in rows /\ r \in rows
    BY <2>1, <2>3 DEF Grouped, DaysInv, TypeOK, DaysTyped
  <2>6. createdAt[r] > createdAt[u]
    <3>1. /\ createdAt[r] \in Nat /\ createdAt[u] \in Nat
          /\ FormatDate(r) \in Int /\ FormatDate(u) \in Int
          /\ createdAt[r] <= createdAt[u] => FormatDate(r) <= FormatDate(u)
      BY <2>5, TimesAreTyped DEF DaysInv
    <3>2. FormatDate(r) > FormatDate(u)
      BY <2>3, <2>4
    <3> QED BY <3>1, <3>2
  <2>7. r \in Grouped
    BY <2>1, <2>5, <2>6 DEF DaysInv, NewestRead
  <2>8. PICK k \in Entries : r \in RowsOn(k)
    BY <2>7 DEF Grouped
  <2>9. dateWise[k].date = dateWise[i].date
    BY <2>8 DEF DaysInv, UnderTheirDay
  <2>10. k = i
    <3>1. k \in Nat /\ i \in Nat /\ dateWise[i].date \in Int
      <4>1. dateWise[i] \in Entry
        BY <2>2, ElementOfSeq DEF DaysInv, DaysTyped
      <4> QED BY <2>2, <4>1 DEF Entry
    <3>2. k < i \/ i < k \/ k = i
      BY <3>1
    <3> QED BY <2>9, <3>1, <3>2 DEF DaysInv, DaysDescend
  <2> QED BY <2>8, <2>10
<1> QED BY <1>1, DaysInvariant, PTL

\* The two readers, each with its invariant.
ReadersInv ==
  /\ DaysInv
  /\ reader = "pages" => WalkInv
  /\ reader = "days" => step # "finished" /\ repeated = {}

LEMMA ReadersNext == ReadersInv /\ [DatewiseNext]_allVars => ReadersInv'
<1> SUFFICES ASSUME ReadersInv, [DatewiseNext]_allVars PROVE ReadersInv'
  OBVIOUS
<1>1. DaysInv'
  BY DaysNext DEF ReadersInv
<1>2. reader' = reader
  BY DEF DatewiseNext, ReadDays, FindByDate, CountByDate, Group, AnswerByDate, FailByDate,
         days, allVars
<1>3. CASE reader = "pages"
  <2>1. [Next]_vars
    BY <1>3 DEF DatewiseNext, Next, allVars
  <2> QED BY <1>1, <1>2, <1>3, <2>1, WalkNext DEF ReadersInv
<1>4. CASE reader # "pages"
  <2>1. reader = "days" /\ step # "finished" /\ repeated = {}
    BY <1>4 DEF ReadersInv, DaysInv, DaysTyped
  <2>2. CASE Posting \/ UNCHANGED allVars
    BY <1>1, <1>2, <2>1, <2>2
    DEF ReadersInv, Posting, Tick, Insert, Commit, Rollback, client, allVars, vars
  <2>3. CASE ReadDays
    BY <1>1, <1>2, <2>1, <2>3
    DEF ReadersInv, ReadDays, FindByDate, CountByDate, Count, Group, AnswerByDate, FailByDate,
        Fail, client, vars
  <2> QED BY <2>1, <2>2, <2>3 DEF DatewiseNext
<1> QED BY <1>3, <1>4

\* What holds of a client that reads pages holds in the specification of both
\* readers as well.
THEOREM PagesBesideDays ==
  DatewiseSpec => [](TypeOK /\ NothingSkipped /\ RepeatsMeanNewRows)
<1>1. DatewiseInit => ReadersInv
  BY DaysInit, WalkInit DEF DatewiseInit, ReadersInv, Init
<1>2. ReadersInv => TypeOK /\ NothingSkipped /\ RepeatsMeanNewRows
  <2>1. WalkInv => NothingSkipped /\ RepeatsMeanNewRows
    BY DEF WalkInv, TypeOK, ListedOrAhead, Ahead, NothingSkipped, PagesFollow,
           RepeatsMeanNewRows
  <2>2. reader = "pages" \/ reader = "days" \/ ~ReadersInv
    BY DEF ReadersInv, DaysInv, DaysTyped
  <2> QED BY <2>1, <2>2 DEF ReadersInv, DaysInv, NothingSkipped, RepeatsMeanNewRows
<1> QED BY <1>1, <1>2, ReadersNext, PTL DEF DatewiseSpec

\* The pages keep the promise of PagedListing while another client may read
\* days: a reader of days is one that never comes to its last page.
THEOREM ReadersImplementListing == DatewiseSpec => ListingSpec
<1>1. DatewiseInit => ReadersInv /\ Listing!Init
  BY DaysInit, WalkInit, ListingInit DEF DatewiseInit, ReadersInv, Init
<1>2. ASSUME ReadersInv, ReadersInv', [DatewiseNext]_allVars
      PROVE  [Listing!Next]_(Listing!vars)
  <2>1. reader' = reader
    BY <1>2 DEF DatewiseNext, ReadDays, FindByDate, CountByDate, Group, AnswerByDate,
                FailByDate, days, allVars
  <2>2. CASE reader = "pages"
    <3>1. [Next]_vars
      BY <1>2, <2>2 DEF DatewiseNext, Next, allVars
    <3> QED BY <1>2, <2>1, <2>2, <3>1, ListingNext DEF ReadersInv
  <2>3. CASE reader # "pages"
    <3>1. /\ reader = "days" /\ step # "finished" /\ step' # "finished"
          /\ TypeOK /\ TypeOK'
      BY <1>2, <2>1, <2>3 DEF ReadersInv, DaysInv, DaysTyped
    <3>2. CASE Posting \/ UNCHANGED allVars
      BY <3>1, <3>2, TableSteps, TableGrows DEF allVars, Listing!Next
    <3>3. CASE FindByDate
      <4>1. results' \subseteq rows
        BY <3>3 DEF FindByDate, FindUpToLimit, Newest
      <4> QED BY <3>3, <4>1, PageIsRead DEF FindByDate, Listing!Next
    <3>4. CASE CountByDate \/ Group \/ AnswerByDate \/ FailByDate
      BY <3>1, <3>4, ListingStutters
      DEF CountByDate, Count, Group, AnswerByDate, FailByDate, Fail, table, client, vars
    <3> QED BY <1>2, <2>3, <3>2, <3>3, <3>4 DEF DatewiseNext, ReadDays
  <2> QED BY <2>2, <2>3
<1> QED BY <1>1, <1>2, ReadersNext, PTL DEF DatewiseSpec, ListingSpec, Listing!Spec
=============================================================================
