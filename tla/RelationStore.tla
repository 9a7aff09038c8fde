---------------------------- MODULE RelationStore ----------------------------
(***************************************************************************)
(* What a relationship store promises its clients (spec.md, section 4.3),  *)
(* with no rows, IDs or tokens: the store holds a set of tuples; a write   *)
(* adds tuples, a delete removes those a filter matches; a query answers   *)
(* with the stored tuples the filter matches; and read_relationships is a  *)
(* forward-only, finite iteration: every page holds tuples that are stored *)
(* and match the reader's filter when the page is read, and a reader that  *)
(* keeps asking reaches the last page or an INVALID_CURSOR error.          *)
(***************************************************************************)
CONSTANTS Tuples, Filters, Readers

VARIABLES
  tuples,    \* the stored tuples
  answer,    \* the tuples the last query returned
  reading,   \* per reader: "idle", "paging", "done" or "failed"
  filterOf,  \* per reader: the filter it pages
  seen       \* per reader: the tuples its pages have returned so far

avars == <<tuples, answer, reading, filterOf, seen>>

TypeOK ==
  /\ tuples \subseteq Tuples
  /\ answer \subseteq Tuples
  /\ reading \in [Readers -> {"idle", "paging", "done", "failed"}]
  /\ filterOf \in [Readers -> Filters \cup {{}}]
  /\ seen \in [Readers -> SUBSET Tuples]

Init ==
  /\ tuples = {}
  /\ answer = {}
  /\ reading = [r \in Readers |-> "idle"]
  /\ filterOf = [r \in Readers |-> {}]
  /\ seen = [r \in Readers |-> {}]

Write(batch) ==
  /\ tuples' = tuples \cup batch
  /\ UNCHANGED <<answer, reading, filterOf, seen>>

Delete(f) ==
  /\ tuples' = tuples \ f
  /\ UNCHANGED <<answer, reading, filterOf, seen>>

Query(f) ==
  /\ answer' = tuples \cap f
  /\ UNCHANGED <<tuples, reading, filterOf, seen>>

Start(r, f) ==
  /\ reading[r] # "paging"
  /\ reading' = [reading EXCEPT ![r] = "paging"]
  /\ filterOf' = [filterOf EXCEPT ![r] = f]
  /\ seen' = [seen EXCEPT ![r] = {}]
  /\ UNCHANGED <<tuples, answer>>

\* a page: some of the stored tuples the reader's filter matches
ReadPage(r, last) ==
  /\ reading[r] = "paging"
  /\ \E page \in SUBSET (tuples \cap filterOf[r]) :
       seen' = [seen EXCEPT ![r] = @ \cup page]
  /\ reading' = [reading EXCEPT ![r] = IF last THEN "done" ELSE "paging"]
  /\ UNCHANGED <<tuples, answer, filterOf>>

Fail(r) ==
  /\ reading[r] = "paging"
  /\ reading' = [reading EXCEPT ![r] = "failed"]
  /\ UNCHANGED <<tuples, answer, filterOf, seen>>

Next ==
  \/ \E batch \in SUBSET Tuples : Write(batch)
  \/ \E f \in Filters : Delete(f) \/ Query(f)
  \/ \E r \in Readers, f \in Filters : Start(r, f)
  \/ \E r \in Readers, last \in BOOLEAN : ReadPage(r, last)
  \/ \E r \in Readers : Fail(r)

SafetySpec == Init /\ [][Next]_avars

\* iteration is finite: a reader that keeps asking gets its last page
Spec == SafetySpec /\ \A r \in Readers : WF_avars(ReadPage(r, TRUE) \/ Fail(r))

=============================================================================
