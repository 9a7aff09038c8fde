# TLA+ models of Permify

This directory holds TLA+ models of the Permify authorization service in `src/`.
Each model is checked with TLC. Permify answers "can subject S do P on entity E?"
questions. It stores relation tuples (`entity#relation@subject`) and evaluates
permissions that a schema defines over those tuples.

## 1. The system and how its parts interact

| Part | Source | State | Operations |
|---|---|---|---|
| Memory relationship store | `internal/repositories/memory/{relationshipReader,relationshipWriter}.go`, `memory/utils/pagination.go`, `memory/migrations/schema.go` | A go-memdb table `relation_tuples`. Its unique `id` index is the tuple itself. Each row has a numeric `ID` from a global counter. | `WriteRelationships`, `DeleteRelationships`, `QueryRelationships`, `ReadRelationships` (paged by a base64 continuous token), `HeadSnapshot` (returns `time.Now`) |
| Postgres visibility | `internal/repositories/postgres/utils/common.go` | `relation_tuples` rows with `created_tx_id`/`expired_tx_id`; the `transactions` table with each write transaction's snapshot and timestamp | `SnapshotQuery` (the visibility clause of every read at a snapshot token), `GarbageCollectQuery` |
| Postgres garbage collector | `internal/repositories/postgres/garbageCollector.go`, `pkg/cmd/serve.go` | Ticker loop, weighted semaphore, worker goroutines, the serve context | `Start` (tick → acquire → `getTenants` → worker running `executeCollector` per tenant, then sleep), `Stop` |
| Circuit breakers | `internal/repositories/decorators/*.go` | Per call: an output channel of capacity 1 and a hystrix command. hystrix itself has a ticket pool, a circuit and health counters. | `ReadSchema`, `ReadSchemaDefinition`, `HeadVersion`, `WriteSchema`. All four share one pattern. |
| Check engine | The engine is not in `src/`. Only `internal/engines/check_test.go` is, and the specification (§4.5) describes it. | Stateless over one store snapshot | `check(entity, permission, subject, depth)` |
| DSL parser | `pkg/dsl/parser/parser.go` | Token cursor (`currentToken`, `peekToken`) and the schema built so far | `Parse`: `entity`, `relation`, `permission` statements, with a Pratt parser for permission expressions |
| Servers | `internal/servers/*.go` | None | Request validation, then a call to the engines and repositories |

How the parts interact:

- A client writes tuples through the relationship server into a store: the memory store or Postgres. Each write returns a snapshot token.
- A check request names a snapshot token. The check engine walks the permission's expression tree. Every leaf queries the store at that snapshot, so one check makes many `QueryRelationships` calls.
- On Postgres, each of those reads applies `SnapshotQuery`. The garbage collector deletes rows in the background.
- Schema reads go through the circuit-breaker decorators.
- A schema is text that the DSL parser turns into the AST the check engine walks.

What makes the system hard:

- pages of one read interleave with writes;
- a check's many queries must read one snapshot;
- MVCC visibility while commits interleave;
- a background deleter runs next to readers;
- timeouts race late answers in the breaker;
- goroutines share a semaphore;
- recursion over cyclic usersets is bounded by a depth;
- exclusion (`not`) interacts with that depth.

## 2. Modules

| Module | Models | Its state and actions |
|---|---|---|
| `MemoryRelationships` | The memory store (from the source) | **State:** `store[t]` is the row ID holding tuple `t` (0 when absent); `nextID` is the ID counter; `clock` is `time.Now`; `pager` holds each paging client's filter, token and state. `got`, `stable`, `kept` and `lastQuery` are ghost state for the properties. **Actions:** `WriteRelationships(batch)` is the whole transaction. It numbers a batch in one fixed order (the code uses request order; every new ID exceeds every reader's lower bound either way), and the upsert moves a rewritten tuple to a new ID. The `Insert` error path is not modelled. `DeleteRelationships(f)`. `QueryRelationships(f, snap)` ignores `snap`, as the code does. `ReadRelationships(r)` is one page: it decodes the token, sorts by ID, applies the lower bound, and takes the next token from row `PageSize+1`. `StartReading` is a client sending the empty token or a forged one. |
| `PermissionCheck` | The check engine (from the specification) and a reference semantics | **Engine:** `CheckName`/`CheckRelation`/`CheckLeaf`/`CheckChild`. Depth decreases on a store hop or a cross-entity recurse, depth 0 is DENIED, and an excluded leaf inverts its verdict inside its rewrite. **Reference:** `Holds` is a stratified least fixpoint. **Actions:** the store grows and shrinks one tuple at a time (`WriteTuple`, `DeleteTuple`, the memory writer's calls on a one-tuple collection or filter); `Query` is the memory reader's `QueryRelationships` as a set. |
| `PostgresMVCC` | `SnapshotQuery` and `GarbageCollectQuery` (from the source), and the writer's transactions (from the specification) | **State:** `rows` holds `[tuple, created, expired]`; `txns` holds each transaction's snapshot (`xmin`, `xmax`, `xip`), timestamp, state and operation; `nextXid`; `now`. **Actions:** `Begin` takes `pg_current_snapshot()` before its xid exists. `Commit` applies the insert, or the tombstoning of live rows. Also `Abort`, `Tick` and `GarbageCollect`. |
| `GarbageCollector` | `Start`/`Stop` scheduling (from the source) | **State:** `loop` (`waitTick`/`acquiring`/`listing`/`exited`), `sem`, per-slot `workers` (collecting tenant *i*, or sleeping), `ctxDone`, `stopCalled`. **Actions:** `Tick`, `Acquire`, `ListTenants(ok)`, `Collect(w, ok)`, `Wake(w)`, `Signal`, `Stop`. |
| `SchemaParser` | `parser.go` (from the source); the lexer is not in `src/` | **Operators:** one RECURSIVE operator per parser function. A position is the index of `currentToken`, and a result is `[ok, i, x]`. `ParseExpression` and `ExpressionLoop` are the Pratt loop; `ParseInnerParen`/`InnerParenLoop` handle a parenthesised group; `ParseInfixExpression` and `ParsePrefixExpression` are the infix and prefix functions; `ParseStatements`, `ParseEntityStatement`, `ParseRelationStatement` and `ParsePermissionStatement` are the statement parsers. **Reference:** `Grammar` maps every well-formed expression of up to 7 tokens to its tree, and `SameMeaning` compares two trees over every valuation of their references. **State:** `written`, the tokens of an expression being written into a fixed schema (`Write`, `Erase`). |
| `RelationStore` | The store contract of spec.md §4.3 (abstract) | **State:** `tuples`, `answer`, and per reader `reading`, `filterOf`, `seen`. **Actions:** `Write`, `Delete`, `Query`, `Start`, `ReadPage(r, last)`, `Fail`. Weak fairness of a reader's last page or error: iteration is finite. |
| `CheckOverStore` | `PermissionCheck` composed with `MemoryRelationships` | **State:** the memory store's variables, and `chk`: the running check's request, the verdicts of its rewrite children so far, and (as a history variable) every state of the store it could read. **Actions:** `StartCheck(q)`, `EvalChild(i)` (one child on the tuples stored now, by `PermissionCheck`), `FinishCheck`, and `ClientWrite`/`ClientDelete`, which are `MemoryRelationships`' `WriteRelationships` and `DeleteRelationships`. |
| `CircuitBreaker` | One decorated call per caller, with hystrix-go as far as the decorator meets it | **State:** `pc`, `run`, `settled` (hystrix's `returnOnce`), `timedOut`, `output` (capacity 1), `result`, `tickets`, `circuit`, `testAllowed`, `reqs`/`fails`. **Actions:** `Call` (admission or rejection), `DelegateReturns`, `Timeout`, `Receive`, `Return`, `SleepWindowPasses`, `RollWindow`. |

The other modules only instantiate these for TLC:

- `MCMemoryRelationships` instantiates `MemoryRelationships` with three tuples, filters and an index order.
- `MCPermissionCheck` instantiates `PermissionCheck` with the drive schema and a membership cycle.
- `MCPostgresMVCC` instantiates `PostgresMVCC` with two tuples.
- `MCGarbageCollector` instantiates `GarbageCollector` with two tenants.
- `MCSchemaParser` instantiates `SchemaParser` with a schema of two entities whose last line is `permission p =`, and single tokens to write after it.
- `MCCheckOverStore` instantiates `CheckOverStore` with `edit = owner and org.admin` and the three tuples that make it hold.

`MemoryRelationships` also instantiates `RelationStore` as `Store`, with the refinement mapping:

- `tuples` is the set of tuples with a row;
- `answer` is the last query's result;
- `reading` and `filterOf` are each reader's pager state and filter;
- `seen` holds the tuples of every row the reader's pages returned.

### Abstractions

- **Tuples** are model values. A filter is the set of tuples it matches. go-memdb's key order is the constant `IndexOrder`.
- **Continuous tokens** are records that keep what decoding tells apart: empty, base64 of a decimal, not base64, or base64 of a non-number.
- **Snapshot tokens** are xids (Postgres) or clock values (memory).
- **hystrix-go** is reduced to saturating counters. `Volume` stands for `RequestVolumeThreshold`. A circuit trips when `reqs ≥ Volume` and at least half are errors. It lets one test through after the sleep window. Rejections and timeouts count as errors. A `run` that returns nil counts as a success, whatever the delegate answered.
- **Tokens of the DSL** are the lexer's tokens as strings: keywords and punctuation are literals, and identifiers come from a small set.
- **Time** is a few actions: ticks, the 1000 ms timer, the sleep window and the rolling window. Each is an action enabled whenever the code could observe it.

## 3. Runs

| Run | Config | Expect | What it shows |
|---|---|---|---|
| `memory_paging` | `MCMemoryRelationships.cfg` | pass | A paging client gets every row that stayed unchanged exactly once, whatever writes and deletes commit between pages (`PagesReturnStableRowsOnce`). A tuple that stays stored is returned at least once, even when a rewrite moves it to a larger ID between pages (`RewrittenTuplesNotMissed`); it may then be returned twice. The memory store implements `RelationStore` (`ImplementsRelationStore`): pages hold only stored tuples that the filter matches, queries answer with the matched stored tuples, and a reader that keeps asking reaches its last page or an error. Tokens stay well-formed (`TypeOK`). |
| `check_over_store` | `MCCheckOverStore.cfg` | violation | A check on the memory store answers ALLOWED for a permission that held at no instant while it ran (`CheckAtOneInstant`). |
| `check_drive` | `MCPermissionCheck.cfg` | pass | On the drive schema (with `share = org.member and not parent.member`), check at depth 4 answers exactly what the stratified least-fixpoint semantics says on every subset of the tuples, through a userset cycle and tuple-to-userset hops (`CheckComplete`). |
| `mvcc` | `MCPostgresMVCC.cfg` | pass | Read-your-writes at a writer's own token, and no commit changes what a committed snapshot sees. |
| `gc_live_rows` | `MCPostgresMVCCGarbage.cfg` | violation | The garbage collection query deletes a live row. |
| `gc_window` | `MCPostgresMVCCWindow.cfg` | violation | The garbage collection query deletes a tombstoned row that a snapshot taken inside the window still returns (`CollectionKeepsRecentSnapshots`). |
| `breaker` | `MCCircuitBreaker.cfg` | pass | An admitted call always returns, even after a timeout (`AdmittedCallsReturn`). |
| `breaker_errors` | `MCCircuitBreakerErrors.cfg` | violation | A rejected call hangs forever, and a timed-out call returns the late answer. Neither returns `CIRCUIT_BREAKER`. |
| `parser` | `MCSchemaParser.cfg` | pass | Every well-formed expression of up to 7 tokens without parentheses is accepted and parsed left to right at one precedence (`ParenFreeAsWritten`). |
| `parser_parens` | `MCSchemaParserParens.cfg` | violation | `owner and ( owner ) or parent` is parsed as `owner and (owner or parent)`, which means something else (`AcceptedAsWritten`). |
| `gc_loop` | `MCGarbageCollector.cfg` | pass | The loop blocked on the semaphore always gets a permit back (`AcquireNotStarved`). Permits are never over-released (`TypeOK`). |
| `gc_exit` | `MCGarbageCollectorExit.cfg` | violation | One failed `getTenants` ends garbage collection while the server runs. |

Each property of a passing run has a mutant in `PROJECT.json`. A mutant is a plausible bug of the mapped code, and TLC finds the property violated under it. Examples:

- The `sort.Slice` dropped (`SortedByIndex`).
- The token taken from the first row of the page (`PageFromFirstRow`). The reader then pages forever, which breaks the refinement's fairness.
- The exclusion flag ignored (`CheckLeafNoExclusion`).
- The `created_tx_id = rev` clause dropped (`SnapshotQueryOwnRowsDropped`).
- Visibility by xid order (`SnapshotQueryByOrder`).
- `run` returning before its send on a delegate error (`DelegateReturnsErrorUnsent`).
- The right operand of an infix operator parsed at `LOWEST` (`ParseInfixExpressionRightAssoc`).
- A worker's error path without `Release` (`CollectPermitKept`).
- The page's lower bound taken as exclusive (`PageAfterBound`).

### Bounds and why they suffice

- **`memory_paging`** (about 146k states, 3 min): 3 tuples, `PageSize = 1`, IDs up to 4, 3 commits, one reader, and two filters (all tuples, one tuple).
  - With page size 1, every row is a page boundary. Three tuples allow a write, a delete and a rewrite to fall between any two pages.
  - The filter matching all three tuples needs three pages.
  - The forged tokens cover both decoding errors.
  - The refinement's liveness part is the costly one. A third filter made the run take over 5 minutes without adding a page boundary.
- **`check_over_store`**: the three tuples of `edit`, and IDs and commits enough for a delete and two writes during one check.
- **`check_drive`** (512 states, every subset of 9 tuples): covers direct, nested and cyclic membership, tuple-to-userset, union, intersection and an excluded tuple-to-userset.
  - Depth 4 is the longest acyclic derivation. Depth 2 is not complete.
- **`mvcc`** (122k states): 3 transactions allow two concurrent writers plus a later reader snapshot.
  - Example: xid 2 commits before xid 1 while xid 3's snapshot has both in `xip`.
  - Window 1 with a clock to 2 makes the first transactions old enough for the garbage collector.
  - `gc_window` uses the same bounds. The shortest trace has 10 states: xid 2 deletes a row and begins at time 0; xid 3 begins at time 1 while xid 2 is in progress, so its snapshot still sees the row; at time 2 the row is collected although xid 3's snapshot is inside the window.
- **`breaker`** (about 800 states): 2 callers, 1 ticket, and `Volume = 2`. This reaches rejection for lack of a ticket, a circuit trip, a single test and closing again. It also reaches two store calls in flight on one ticket, after the timer gave the first call's ticket back (hystrix-go's behaviour; no property bounds it).
- **`parser`** (2.4M states, 12 s): every sequence of up to 7 of the tokens `owner parent and or not ( ) .` written after `permission p =`.
  - 7 tokens hold a mixed `and`/`or` chain of three operands with one dotted reference, such as `owner . parent and owner or parent`, or one with a `not`.
  - 7 tokens also reaches the nested-group rejection below; 5 did not.
- **`gc_loop`** (about 250 states): 2 tenants and 2 permits. Both workers can sleep at once while the loop waits. A worker can stop at the second tenant while the first keeps succeeding.

### Fairness

- **`MemoryRelationships`**: weak fairness of `ReadRelationships` per reader. A client that started paging keeps asking for pages.
- **`RelationStore`**: weak fairness of a reader's last page or error. This is the spec's "the iterator is finite".
- **`CircuitBreaker`**: weak fairness of the delegate answering and of `Receive`. The store eventually answers, and a goroutine blocked on a ready channel runs. There is no fairness on rejections or timeouts.
- **`GarbageCollector`**:
  - Weak fairness of the ticker, `Acquire`, the queries (which end with rows or an error), and the sleeps.
  - None on `Signal` or `Stop`, which come from outside.
- **`CheckOverStore`, `PermissionCheck`, `SchemaParser`**: none. Their properties are invariants.

### Deadlock checks

- `MCCircuitBreaker*.cfg` and `MCGarbageCollector*.cfg` set `CHECK_DEADLOCK FALSE`. In those models the system really can stop: every caller blocked in the select, or the loop goroutine returned.
- The other configs check deadlock.

## 4. Findings

See `PROJECT.json`, `findings`:

1. The memory store ignores snapshot tokens (`relationshipReader.go:38`). A check therefore reads a different store state for each child, and it can allow what held at no instant.
2. `GarbageCollectQuery` judges a tombstone by the begin timestamp of the deleting transaction (`common.go:36`). A delete that began before the window and committed inside it is collected while a snapshot inside the window still returns the row.
3. `GarbageCollectQuery` deletes live tuples through its `expired_tx_id = '0'` alternative (`common.go:35`).
4. The breaker's fallback returns nil, so its `CIRCUIT_BREAKER` branch is dead code: timeouts return late answers.
5. Rejected calls hang forever.
6. The parser takes the operators after a parenthesised right operand into the group (`parser.go:532`). Redundant parentheses therefore change what a permission allows.
7. A failed `getTenants` silently ends garbage collection (`garbageCollector.go:85`).

These are recorded as hazards only:

- Depth running out inside an excluded branch (`push = org.member and not parent.member` at depth 3) turns the exhausted branch's DENIED into an ALLOWED. The specification (section 7, taxonomy c) already flags such an answer as possibly incomplete, with `remaining_depth` 0. The model does not carry `remaining_depth`, and `check_drive` compares check with the semantics only at the full depth (`CheckComplete`).

- The parser accepts `permission p = not` with a NEWLINE token as the reference, and rejects `((owner)) and parent`. Both are reproduced by the model.
- `Stop()` does nothing (`c.ctx.Done()` only returns a channel). Serve calls it while exiting.
- A worker stops at the first tenant whose collection fails (`garbageCollector.go:99`), so a tenant that fails on every attempt keeps the tenants after it in `getTenants`' order from ever being collected.
- `DeleteRelationships` deletes rows while a go-memdb iterator over the same write transaction is still walking them (`relationshipWriter.go:86`). What that iterator then returns is go-memdb's behaviour, which is not in the repository; the model removes every matched row at once.

## 5. Not modelled, and why

- **The check engine's concurrency, result cache (C4) and visited set.** Their source is not in `src/`. The model evaluates sequentially, which is what the specification's verdicts are defined by (P3). `CheckOverStore` interleaves client writes between rewrite children, which is where the store's missing snapshot matters.
- **Expand, LookupEntity and LookupSchema.** There is no source in `src/`.
- **The relationship writer for Postgres, and `HeadSnapshot`.** They are not in `src/`. The writer is modelled from the specification, applied at commit.
- **The memory `schemaWriter.go` and the Postgres `schemaReader.go`.** The writer is one go-memdb transaction of inserts. The reader is three SQL queries. The memory schema reader, the Postgres schema writer and the version generator that would give these a behaviour to check are not in `src/`.
- **The DSL lexer.** It is not in `src/`; the parser model takes its token sequence.
- **Servers, tuple collections, graph rendering, wasm/development glue, CLI wiring, generated docs, mocks and error constants.** These are validation, plumbing, or I/O with no concurrency. The servers' request validation is generated code that is not in `src/`.
- **The development graph (`pkg/development/graph/schema.go`).** It renders a schema as nodes and edges for the playground. Its node IDs are formatted strings and its rewrite nodes get random xids; nothing it computes feeds back into the store or the engine.
- **The Postgres schema reader's single-call behaviour.** `ReadSchema` of a version with no rows returns an empty schema where `ReadSchemaDefinition` returns `SCHEMA_NOT_FOUND`; a unit test reaches that directly, and the version generator that `HeadVersion`'s string ordering depends on is not in `src/`.
- **hystrix internals beyond what the decorator meets.** This covers metrics buckets, the rolling window's exact arithmetic and the error percentage. Counters are saturating.

## 6. Open work

1. A tenant that fails on every attempt, as a second fault model of `GarbageCollector`, checked as its own violation run.
2. Expand (P5) and LookupEntity (P6) over `PermissionCheck`, once their source is part of the repository.
3. Larger instances of `CheckOverStore`: union and exclusion at the top of the rewrite, and nested rewrites evaluated one child at a time.
