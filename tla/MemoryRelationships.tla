------------------------- MODULE MemoryRelationships -------------------------
(***************************************************************************)
(* The in-memory relationship store (internal/repositories/memory).  Its   *)
(* relation_tuples table is a go-memdb table whose unique "id" index is    *)
(* the tuple itself, and every row carries a numeric ID drawn from the     *)
(* counter RelationTuplesID on each insert.  WriteRelationships and        *)
(* DeleteRelationships each run in one write transaction; every call of    *)
(* QueryRelationships and every page of ReadRelationships runs in its own  *)
(* read transaction.  A client paging through ReadRelationships therefore  *)
(* sees writes that commit between two of its pages.                       *)
(*                                                                         *)
(* A tuple is a model value; a filter is the set of tuples it matches (the *)
(* index lookup of GetIndexNameAndArgsByFilters followed by FilterQuery).  *)
(* IndexOrder is the order go-memdb iterates the rows of a filter in: the  *)
(* order of their index keys, which has nothing to do with their IDs.      *)
(***************************************************************************)
EXTENDS Naturals, FiniteSets, Sequences, SequencesExt

CONSTANTS
  Tuples,      \* relation tuples clients may write
  IndexOrder,  \* the go-memdb iteration order: a permutation of Tuples
  Filters,     \* tuple filters, each the set of tuples it matches
  Readers,     \* clients paging through ReadRelationships
  PageSize,    \* the page size every reader requests
  MaxID,       \* bound on the RelationTuplesID counter
  MaxClock     \* bound on the wall clock behind snapshot tokens

ASSUME /\ IndexOrder \in [1..Cardinality(Tuples) -> Tuples]
       /\ ToSet(IndexOrder) = Tuples
       /\ Filters \subseteq SUBSET Tuples
       /\ PageSize \in Nat \ {0}
       /\ MaxID \in Nat /\ MaxClock \in Nat

VARIABLES
  store,      \* store[t]: the ID of the row holding t, 0 when t is not stored
  nextID,     \* the next value RelationTuplesID.ID() returns
  clock,      \* time.Now(), the value snapshot tokens encode
  pager,      \* per reader: the filter, continuous token and state of its paging
  got,        \* per reader: how often each <<tuple, ID>> row was returned (2 = more than once)
  stable,     \* per reader: rows stored, unchanged, since it started paging
  lastQuery,  \* the last QueryRelationships call: filter, snap token, result
  kept        \* per reader: tuples stored, rewritten or not, but never deleted since it started

vars == <<store, nextID, clock, pager, got, stable, lastQuery, kept>>

IDs == 1..MaxID
Rows == Tuples \X IDs

(***************************************************************************)
(* Continuous tokens, as the strings a client sends back.  The noop token  *)
(* is "".  A real token is the base64 text of the decimal ID of the first  *)
(* row of the next page (ContinuousToken.Encode).  A client may also send  *)
(* text that is not base64, or base64 of text that is not a number.        *)
(***************************************************************************)
NoopCT == [enc |-> "empty"]
\* mutant: the decimal text sent back as it is, the base64 step left out
EncodeCTPlain(n) == [enc |-> "plain", text |-> [kind |-> "decimal", n |-> n]]
EncodeCT(n) == [enc |-> "base64", text |-> [kind |-> "decimal", n |-> n]]
ForgedCTs == { [enc |-> "garbage"],
               [enc |-> "base64", text |-> [kind |-> "word"]] }
CTokens == {NoopCT} \cup [enc : {"base64"}, text : [kind : {"decimal"}, n : 0..MaxID]]
             \cup ForgedCTs

InvalidContinuousToken == "ERROR_CODE_INVALID_CONTINUOUS_TOKEN"
Base64CorruptInput == "base64: illegal base64 data"
NoError == "none"

NoFilter == {}
PagerStates == {"idle", "paging", "done", "failed"}

NoopSnap == -1   \* the noop snap token

TypeOK ==
  /\ store \in [Tuples -> 0..MaxID]
  /\ nextID \in 1..(MaxID + 1)
  /\ clock \in 0..MaxClock
  /\ pager \in [Readers -> [filter : Filters \cup {NoFilter}, token : CTokens,
                            state : PagerStates,
                            err : {NoError, InvalidContinuousToken, Base64CorruptInput}]]
  /\ got \in [Readers -> [Rows -> 0..2]]
  /\ stable \in [Readers -> SUBSET Rows]
  /\ kept \in [Readers -> SUBSET Tuples]
  /\ lastQuery \in [filter : Filters \cup {NoFilter}, snap : {NoopSnap} \cup 0..MaxClock,
                    result : SUBSET Tuples]

\* the rows of the table that a filter matches
Matched(f) == {t \in f : store[t] # 0}
RowsOf(ts) == {<<t, store[t]>> : t \in ts}
NoneGot == [row \in Rows |-> 0]
\* count the rows of a page, saturating at "more than once"
Counted(c, rows) == [row \in Rows |-> IF row \in rows /\ c[row] < 2 THEN c[row] + 1 ELSE c[row]]

Init ==
  /\ store = [t \in Tuples |-> 0]
  /\ nextID = 1
  /\ clock = 0
  /\ pager = [r \in Readers |-> [filter |-> NoFilter, token |-> NoopCT,
                                 state |-> "idle", err |-> NoError]]
  /\ got = [r \in Readers |-> NoneGot]
  /\ stable = [r \in Readers |-> {}]
  /\ kept = [r \in Readers |-> {}]
  /\ lastQuery = [filter |-> NoFilter, snap |-> NoopSnap, result |-> {}]

(***************************************************************************)
(* WriteRelationships: one write transaction inserting every tuple of the *)
(* collection with a fresh ID.  Insert on the unique "id" index replaces a *)
(* row holding the same tuple, so rewriting a stored tuple moves it to a   *)
(* new, larger ID.  An empty collection returns the noop token at once.    *)
(* The code numbers a batch in request order; the model numbers it in one *)
(* fixed order (IndexOrder): every ID of a batch exceeds every lower bound *)
(* a reader holds, so their order decides only which of them a reader    *)
(* gets first.  A failing Insert (a go-memdb index error) is not modelled. *)
(***************************************************************************)
WriteRelationships(batch) ==
  LET order == SelectSeq(IndexOrder, LAMBDA t : t \in batch)
      pos(t) == CHOOSE i \in 1..Len(order) : order[i] = t
  IN
  /\ batch # {}
  /\ nextID + Cardinality(batch) - 1 <= MaxID
  /\ clock < MaxClock
  /\ store' = [t \in Tuples |-> IF t \in batch THEN nextID + pos(t) - 1 ELSE store[t]]
  /\ nextID' = nextID + Cardinality(batch)
  /\ clock' = clock + 1
  /\ stable' = [r \in Readers |-> stable[r] \ RowsOf(batch)]
  /\ UNCHANGED <<pager, got, lastQuery, kept>>

(***************************************************************************)
(* DeleteRelationships: one write transaction deleting every row the      *)
(* filter matches; it commits and returns a new token even if none did.   *)
(***************************************************************************)
DeleteRelationships(f) ==
  /\ clock < MaxClock
  /\ store' = [t \in Tuples |-> IF t \in f THEN 0 ELSE store[t]]
  /\ clock' = clock + 1
  /\ stable' = [r \in Readers |-> stable[r] \ RowsOf(Matched(f))]
  /\ kept' = [r \in Readers |-> kept[r] \ f]
  /\ UNCHANGED <<nextID, pager, got, lastQuery>>

(***************************************************************************)
(* QueryRelationships(filter, snap): the rows the filter matches now.  The *)
(* snap token parameter is the blank identifier: it is never looked at.   *)
(***************************************************************************)
QueryRelationships(f, snap) ==
  /\ lastQuery' = [filter |-> f, snap |-> snap, result |-> Matched(f)]
  /\ UNCHANGED <<store, nextID, clock, pager, got, stable, kept>>

(***************************************************************************)
(* ReadRelationships, one page.  The token is decoded (base64, then       *)
(* ParseUint) into the lower bound; the matching rows are sorted by ID;   *)
(* rows with ID >= lower bound are appended until one more than a page is *)
(* held, and then the page is returned with a token holding the ID of the *)
(* extra row, which starts the next page.                                 *)
(***************************************************************************)
LowerBound(tok) ==
  CASE tok = NoopCT            -> [ok |-> TRUE, lb |-> 0]
    [] tok.enc # "base64"      -> [ok |-> FALSE, err |-> Base64CorruptInput]
    [] tok.text.kind # "decimal" -> [ok |-> FALSE, err |-> InvalidContinuousToken]
    [] OTHER                   -> [ok |-> TRUE, lb |-> tok.text.n]

\* mutant: the rows left in go-memdb's index order, the sort.Slice dropped
SortedByIndex(ts) == SelectSeq(IndexOrder, LAMBDA t : t \in ts)

\* sort.Slice(tup, ID <): the rows go-memdb returned, in ID order
SortedByID(ts) == SetToSortSeq(ts, LAMBDA a, b : store[a] < store[b])

\* mutant: rows kept only above the lower bound, the bound taken as exclusive
PageAfterBound(f, lb) ==
  LET ahead == SelectSeq(SortedByID(Matched(f)), LAMBDA t : store[t] > lb)
  IN IF Len(ahead) > PageSize
     THEN [tuples |-> SubSeq(ahead, 1, PageSize), next |-> EncodeCT(store[ahead[PageSize + 1]])]
     ELSE [tuples |-> ahead, next |-> NoopCT]

\* mutant: the next token taken from the first row of this page
PageFromFirstRow(f, lb) ==
  LET ahead == SelectSeq(SortedByID(Matched(f)), LAMBDA t : store[t] >= lb)
  IN IF Len(ahead) > PageSize
     THEN [tuples |-> SubSeq(ahead, 1, PageSize), next |-> EncodeCT(store[ahead[1]])]
     ELSE [tuples |-> ahead, next |-> NoopCT]

Page(f, lb) ==
  LET ahead == SelectSeq(SortedByID(Matched(f)), LAMBDA t : store[t] >= lb)
  IN IF Len(ahead) > PageSize
     THEN [tuples |-> SubSeq(ahead, 1, PageSize), next |-> EncodeCT(store[ahead[PageSize + 1]])]
     ELSE [tuples |-> ahead, next |-> NoopCT]

ReadRelationships(r) ==
  LET p == pager[r]
      bound == LowerBound(p.token)
      pg == Page(p.filter, bound.lb)
  IN
  /\ p.state = "paging"
  /\ \/ /\ ~bound.ok
        /\ pager' = [pager EXCEPT ![r].state = "failed", ![r].err = bound.err]
        /\ UNCHANGED got
     \/ /\ bound.ok
        /\ got' = [got EXCEPT ![r] = Counted(@, RowsOf(ToSet(pg.tuples)))]
        /\ pager' = [pager EXCEPT ![r].token = pg.next,
                                  ![r].state = IF pg.next = NoopCT THEN "done" ELSE "paging"]
  /\ UNCHANGED <<store, nextID, clock, stable, lastQuery, kept>>

(***************************************************************************)
(* A client starts paging a filter with the empty token, or with a token  *)
(* it did not get from the store.                                          *)
(***************************************************************************)
StartReading(r, f, tok) ==
  /\ pager[r].state # "paging"
  /\ pager' = [pager EXCEPT ![r] = [filter |-> f, token |-> tok, state |-> "paging",
                                    err |-> NoError]]
  /\ got' = [got EXCEPT ![r] = NoneGot]
  /\ stable' = [stable EXCEPT ![r] = RowsOf(Matched(f))]
  /\ kept' = [kept EXCEPT ![r] = Matched(f)]
  /\ UNCHANGED <<store, nextID, clock, lastQuery>>

Next ==
  \/ \E batch \in SUBSET Tuples : WriteRelationships(batch)
  \/ \E f \in Filters : DeleteRelationships(f)
  \/ \E f \in Filters, snap \in {NoopSnap} \cup 0..clock : QueryRelationships(f, snap)
  \/ \E r \in Readers : ReadRelationships(r)
  \/ \E r \in Readers, f \in Filters, tok \in {NoopCT} \cup ForgedCTs : StartReading(r, f, tok)

\* a client that started paging keeps asking for the next page
Fairness == \A r \in Readers : WF_vars(ReadRelationships(r))

Spec == Init /\ [][Next]_vars /\ Fairness

-----------------------------------------------------------------------------
(***************************************************************************)
(* Properties                                                              *)
(***************************************************************************)

(* A reader that paged a filter to the end got every row that was stored,  *)
(* unchanged, from its first page to its last exactly once, whatever the   *)
(* writes and deletes committed between its pages.  This is what the sort *)
(* by ID, the inclusive lower bound and the token taken from the first     *)
(* row of the next page in ReadRelationships have to achieve together.    *)
PagesReturnStableRowsOnce ==
  \A r \in Readers :
    pager[r].state = "done" => \A row \in stable[r] : got[r][row] = 1

(* A reader that paged a filter to the end got every tuple that stayed     *)
(* stored from its first page to its last, even one rewritten meanwhile:  *)
(* Insert on the unique tuple index moves a rewritten tuple to a fresh,   *)
(* larger ID, which lies at or past the reader's lower bound, so the page *)
(* that reaches it returns it (a second time, if its old row was already  *)
(* returned).                                                               *)
RewrittenTuplesNotMissed ==
  \A r \in Readers :
    pager[r].state = "done" => \A t \in kept[r] : \E i \in IDs : got[r][<<t, i>>] > 0

(***************************************************************************)
(* The memory store as an implementation of RelationStore: the stored     *)
(* tuples are those with a row, a reader's seen tuples those of the rows   *)
(* its pages returned, and its reading state the pager's state.            *)
(***************************************************************************)
Store == INSTANCE RelationStore WITH
           tuples <- {t \in Tuples : store[t] # 0},
           answer <- lastQuery.result,
           reading <- [r \in Readers |-> pager[r].state],
           filterOf <- [r \in Readers |-> pager[r].filter],
           seen <- [r \in Readers |-> {t \in Tuples : \E i \in IDs : got[r][<<t, i>>] > 0}]

(* ReadRelationships, WriteRelationships, DeleteRelationships and         *)
(* QueryRelationships together implement the store's promise: every page   *)
(* returns only tuples stored and matched by the filter at the time of the *)
(* page, a query answers with exactly the matched stored tuples, and a     *)
(* reader that keeps asking reaches its last page.  The continuous token   *)
(* of ReadRelationships is what carries the last of these across pages.    *)
ImplementsRelationStore == Store!Spec

=============================================================================
