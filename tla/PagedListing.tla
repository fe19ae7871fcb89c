---------------------------- MODULE PagedListing ----------------------------
(***************************************************************************)
(* What a client may rely on that reads a list page by page, from the      *)
(* first page to the last, while entries are added to it: nothing is       *)
(* listed that was never there, nothing is passed over that was there from *)
(* the beginning, and nothing comes twice unless the list has grown.       *)
(* Entries whose place in the list is not determined are excepted.         *)
(***************************************************************************)
VARIABLES
  there,      \* the entries of the list
  unordered,  \* those whose place may change from one page to the next
  begun,      \* the entries when the client began
  page,       \* the page that has been read last
  listed,     \* the entries the client has been given
  over        \* the client has been given the last page

vars == <<there, unordered, begun, page, listed, over>>

Init ==
  /\ begun = there
  /\ unordered \subseteq there
  /\ page = {}
  /\ listed = {}
  /\ over = FALSE

\* Entries are added, and may unsettle the place of others.
Grow ==
  /\ there \subseteq there'
  /\ unordered \subseteq unordered'
  /\ unordered' \subseteq there'
  /\ UNCHANGED <<begun, page, listed, over>>

Read ==
  /\ ~over
  /\ page' \subseteq there
  /\ UNCHANGED <<there, unordered, begun, listed, over>>

\* The client is given a page.
Give ==
  /\ ~over
  /\ there = begun => page \cap listed \subseteq unordered
  /\ listed' = listed \cup page
  /\ UNCHANGED <<there, unordered, begun, page>>

GivePage == Give /\ over' = FALSE

GiveLastPage ==
  /\ Give
  /\ begun \ unordered \subseteq listed'
  /\ over' = TRUE

Next == Grow \/ Read \/ GivePage \/ GiveLastPage

Spec == Init /\ [][Next]_vars
=============================================================================
