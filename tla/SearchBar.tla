----------------------------- MODULE SearchBar ------------------------------
(***************************************************************************)
(* The search box of the Homepage: what is typed reaches a search once it  *)
(* has rested, answers come in any order, and the last one to come filters *)
(* the page.  An answer is kept as the query it answers.                   *)
(***************************************************************************)
EXTENDS Naturals

CONSTANTS Phrases,     \* queries long enough to be searched
          MaxTyped     \* bound on what the user does

ASSUME SearchAssumption == MaxTyped \in Nat

VARIABLES box,         \* the text of the box
          rested,      \* debouncedQuery
          flights,     \* query -> searches in flight
          results,     \* the list under the box
          filter,      \* searchResults of the Homepage, or NoFilter
          stray,       \* history: the filter is not of this query, see below
          typed

searchVars == <<box, rested, flights, results, filter, stray, typed>>

NoFilter == [of |-> {}, failed |-> FALSE]
Brief == [of |-> {}, failed |-> FALSE]   \* an empty or too short query
Query(p) == [of |-> {p}, failed |-> FALSE]
Boxes == {Brief} \union {Query(p) : p \in Phrases}

SearchInit == /\ box = Brief
              /\ rested = Brief
              /\ flights = [p \in Phrases |-> 0]
              /\ results = NoFilter
              /\ filter = NoFilter
              /\ stray = FALSE
              /\ typed = 0

User == typed < MaxTyped /\ typed' = typed + 1

\* After a reset, typing what was searched before makes no new search: the
\* debounced query has not changed.
Typed(q) == /\ q # box
            /\ User
            /\ box' = q
            /\ stray' = (stray \/ (q = rested /\ filter # rested /\ flights = [p \in Phrases |-> 0]))
            /\ UNCHANGED <<rested, flights, results, filter>>

\* The reset button: the Homepage drops its filter, the box its text.
Reset == /\ User
         /\ filter' = NoFilter
         /\ box' = Brief
         /\ results' = NoFilter
         /\ UNCHANGED <<rested, flights, stray>>

\* Enter on a result of the list.
PickResult == /\ results # NoFilter /\ ~results.failed
              /\ User
              /\ box' = Brief
              /\ results' = NoFilter
              /\ UNCHANGED <<rested, flights, filter, stray>>

\* The bug: a query that is too short leaves the filter as it is.
Cleared_Keeps(f) == f
Unfiltered(f) == NoFilter

\* performSearch, once the text has rested.
Rest300 ==
    /\ box # rested
    /\ rested' = box
    /\ IF box = Brief
       THEN /\ results' = NoFilter
            /\ filter' = Unfiltered(filter)
            /\ stray' = FALSE
            /\ UNCHANGED flights
       ELSE /\ flights' = [p \in Phrases |-> flights[p] + (IF Query(p) = box THEN 1 ELSE 0)]
            /\ UNCHANGED <<results, filter, stray>>
    /\ UNCHANGED <<box, typed>>

\* The answer, or its failure, becomes the list and the filter, whatever has
\* been typed or cleared since.
SearchAnswers(p, failed) ==
    /\ flights[p] > 0
    /\ flights' = [flights EXCEPT ![p] = @ - 1]
    /\ results' = [of |-> {p}, failed |-> failed]
    /\ filter' = [of |-> {p}, failed |-> failed]
    /\ stray' = (Query(p) # rested)
    /\ UNCHANGED <<box, rested, typed>>

\* A day that was never loaded replaces the page by a spinner; the bar comes
\* back empty, and searches at once.
Remount == /\ User
           /\ box' = Brief
           /\ rested' = Brief
           /\ results' = NoFilter
           /\ filter' = Unfiltered(filter)
           /\ stray' = FALSE
           /\ UNCHANGED flights

SearchNext == \/ \E q \in Boxes : Typed(q)
              \/ Reset \/ PickResult \/ Rest300 \/ Remount
              \/ \E p \in Phrases, failed \in BOOLEAN : SearchAnswers(p, failed)

SearchSpec == SearchInit /\ [][SearchNext]_searchVars

------------------------------------------------------------------------------
(* Properties.                                                              *)

Quiescent == box = rested /\ flights = [p \in Phrases |-> 0]

\* Once nothing is under way the page is filtered by what the box says, and not
\* at all when it is empty; but an answer that came after a later query or
\* after the box was emptied keeps filtering, and a query typed again right
\* after a reset does not filter (MovieSearchBar.tsx:45-70, HomePage.tsx:115-127).
FilterFollowsBox == Quiescent /\ ~stray => filter.of = box.of

\* The list under the box is the filter, until one of them is dropped.
SearchInv == /\ flights \in [Phrases -> 0 .. MaxTyped]
             /\ results # NoFilter /\ filter # NoFilter => results = filter
             /\ box = Brief /\ rested # Brief => typed > 0
=============================================================================
