---------------------------- MODULE PostgresMVCC ----------------------------
(***************************************************************************)
(* The relational store's MVCC visibility (internal/repositories/postgres). *)
(* Every write transaction inserts a row into the transactions table whose *)
(* snapshot is pg_current_snapshot() taken as it starts; relation_tuples   *)
(* rows carry the id of the transaction that created them (created_tx_id)  *)
(* and of the one that tombstoned them (expired_tx_id, '0' while live).    *)
(* A snapshot token is a transaction id; a read at it keeps the rows       *)
(* SnapshotQuery admits.  The garbage collector deletes, per tenant, the   *)
(* rows GarbageCollectQuery selects.                                       *)
(*                                                                         *)
(* The writer is not in the repository's src/ tree: Begin, Commit and      *)
(* Abort follow the specification's account of tuples (section 3: rows    *)
(* inserted with a creation tx id, tombstoned with an expiration tx id).   *)
(* A transaction's rows become visible to other statements when it        *)
(* commits, so its effect is applied at commit.                           *)
(***************************************************************************)
EXTENDS Naturals, FiniteSets, FiniteSetsExt

CONSTANTS
  Tuples,   \* relation tuples of one tenant
  MaxXid,   \* bound on the transaction ids handed out
  Window,   \* the garbage collection window, in clock ticks
  MaxTime   \* bound on the clock

Xids == 1..MaxXid

VARIABLES
  rows,     \* relation_tuples: [tuple, created, expired]
  txns,     \* transactions: per xid its state, snapshot, timestamp and operation
  nextXid,  \* the next xid Postgres assigns
  now       \* the wall clock (time.Now() and NOW())

vars == <<rows, txns, nextXid, now>>

Ops == [kind : {"write", "delete"}, tuple : Tuples]
Snapshots == [xmin : 1..(MaxXid + 1), xmax : 1..(MaxXid + 1), xip : SUBSET Xids]
Unused == [state |-> "unused"]

TypeOK ==
  /\ rows \subseteq [tuple : Tuples, created : Xids, expired : {0} \cup Xids]
  /\ nextXid \in 1..(MaxXid + 1)
  /\ now \in 0..MaxTime
  /\ \A x \in Xids :
       \/ txns[x] = Unused
       \/ /\ txns[x].state \in {"active", "committed", "aborted"}
          /\ txns[x].snap \in Snapshots /\ txns[x].ts \in 0..MaxTime /\ txns[x].op \in Ops

Active == {x \in Xids : txns[x] # Unused /\ txns[x].state = "active"}
Committed == {x \in Xids : txns[x] # Unused /\ txns[x].state = "committed"}

(***************************************************************************)
(* pg_current_snapshot() as a transaction takes it, before its own xid is *)
(* assigned: every xid from xmax on, and every xid in xip, is invisible.   *)
(***************************************************************************)
CurrentSnapshot ==
  [xmin |-> IF Active = {} THEN nextXid ELSE Min(Active), xmax |-> nextXid, xip |-> Active]

\* pg_visible_in_snapshot(x, s); the invalid xid 0 precedes every xmin
PgVisibleInSnapshot(x, s) == x < s.xmin \/ (x < s.xmax /\ x \notin s.xip)

\* mutant: visibility by xid order, the snapshot of the revision ignored
SnapshotQueryByOrder(r, rev) ==
  /\ r.created <= rev
  /\ (r.expired > rev \/ r.expired = 0)

\* mutant: the revision's own rows dropped (no created_tx_id = rev clause)
SnapshotQueryOwnRowsDropped(r, rev) ==
  LET s == txns[rev].snap IN
  /\ PgVisibleInSnapshot(r.created, s)
  /\ (~PgVisibleInSnapshot(r.expired, s) \/ r.expired = 0)
  /\ r.expired # rev

\* SnapshotQuery(sl, revision): does the select keep row r at revision rev
SnapshotQuery(r, rev) ==
  LET s == txns[rev].snap IN
  /\ PgVisibleInSnapshot(r.created, s) \/ r.created = rev
  /\ (~PgVisibleInSnapshot(r.expired, s) \/ r.expired = 0)
  /\ r.expired # rev

\* the tuples a query at snapshot token rev returns
VisibleAt(rev) == {r.tuple : r \in {x \in rows : SnapshotQuery(x, rev)}}

\* the rows of relation_tuples by identity, whatever their expired_tx_id
RowIds(rs) == {<<r.tuple, r.created>> : r \in rs}

-----------------------------------------------------------------------------
(***************************************************************************)
(* A write transaction: BEGIN and the insert into transactions, then the  *)
(* insert of a tuple or the tombstoning of its live rows, then COMMIT (the *)
(* snapshot token returned is the xid), or a rollback on an error.        *)
(***************************************************************************)
Begin(op) ==
  /\ nextXid <= MaxXid
  /\ txns' = [txns EXCEPT ![nextXid] = [state |-> "active", snap |-> CurrentSnapshot,
                                         ts |-> now, op |-> op]]
  /\ nextXid' = nextXid + 1
  /\ UNCHANGED <<rows, now>>

Apply(x) ==
  LET t == txns[x].op.tuple IN
  IF txns[x].op.kind = "write"
  THEN rows \cup {[tuple |-> t, created |-> x, expired |-> 0]}
  ELSE {IF r.tuple = t /\ r.expired = 0 THEN [r EXCEPT !.expired = x] ELSE r : r \in rows}

Commit(x) ==
  /\ x \in Active
  /\ rows' = Apply(x)
  /\ txns' = [txns EXCEPT ![x].state = "committed"]
  /\ UNCHANGED <<nextXid, now>>

Abort(x) ==
  /\ x \in Active
  /\ txns' = [txns EXCEPT ![x].state = "aborted"]
  /\ UNCHANGED <<rows, nextXid, now>>

Tick ==
  /\ now < MaxTime
  /\ now' = now + 1
  /\ UNCHANGED <<rows, txns, nextXid>>

(***************************************************************************)
(* executeCollector(tenant): the DELETE of GarbageCollectQuery.  Its      *)
(* subqueries read the transactions table as committed; "older" is a      *)
(* transaction timestamp before now - window.                             *)
(***************************************************************************)
OlderThanWindow(x) == x \in Committed /\ txns[x].ts + Window < now

GarbageCollectQuery(r) ==
  /\ OlderThanWindow(r.created)
  /\ r.expired = 0 \/ OlderThanWindow(r.expired)

GarbageCollect ==
  /\ rows' = {r \in rows : ~GarbageCollectQuery(r)}
  /\ UNCHANGED <<txns, nextXid, now>>

Init ==
  /\ rows = {}
  /\ txns = [x \in Xids |-> Unused]
  /\ nextXid = 1
  /\ now = 0

Next ==
  \/ \E op \in Ops : Begin(op)
  \/ \E x \in Xids : Commit(x) \/ Abort(x)
  \/ Tick
  \/ GarbageCollect

Spec == Init /\ [][Next]_vars

-----------------------------------------------------------------------------
(***************************************************************************)
(* Properties                                                              *)
(***************************************************************************)

\* a transaction that started within the window
Recent(x) == txns[x].ts + Window >= now

(* Read-your-writes: a read at the snapshot token a write transaction     *)
(* returned sees the tuple it inserted and none of the rows it tombstoned, *)
(* although the transaction's own xid is in progress in the snapshot it   *)
(* took, and other transactions may have written or deleted the same      *)
(* tuple since.  This is what the created_tx_id = rev and                 *)
(* expired_tx_id <> rev clauses of SnapshotQuery are for.  Checked for     *)
(* transactions within the garbage collection window.                     *)
ReadYourWrites ==
  \A x \in Committed :
    Recent(x) =>
      /\ txns[x].op.kind = "write" => txns[x].op.tuple \in VisibleAt(x)
      /\ \A r \in rows : r.expired = x => ~SnapshotQuery(r, x)

(* Snapshot stability: a step that deletes no row (a begin, commit, abort, *)
(* or a collection that finds nothing) never changes what a query at a    *)
(* committed snapshot token returns, however commits of concurrent        *)
(* transactions interleave with it.                                        *)
SnapshotsStable ==
  [][ RowIds(rows) \subseteq RowIds(rows') =>
        \A rev \in Committed : VisibleAt(rev)' = VisibleAt(rev) ]_vars

(* The garbage collector removes only rows that were tombstoned before the *)
(* window: a live row stays in relation_tuples however old it is.          *)
CollectsOnlyExpired ==
  [][ \A r \in rows : <<r.tuple, r.created>> \notin RowIds(rows') => r.expired # 0 ]_rows

(* The window protects snapshots: a garbage collection never removes a     *)
(* tombstoned row that a query at a snapshot token taken within the window *)
(* still returns.  GarbageCollectQuery judges a tombstone by the timestamp *)
(* of the transaction that wrote it, taken when that transaction began.    *)
CollectionKeepsRecentSnapshots ==
  [][ \A r \in rows :
        /\ r.expired # 0
        /\ <<r.tuple, r.created>> \notin RowIds(rows')
        => \A rev \in Committed : Recent(rev) => ~SnapshotQuery(r, rev) ]_rows

=============================================================================
