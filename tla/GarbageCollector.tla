--------------------------- MODULE GarbageCollector ---------------------------
(***************************************************************************)
(* The garbage collector's scheduling (GarbageCollector.Start, Stop,       *)
(* getTenants and executeCollector in internal/repositories/postgres).     *)
(* Start runs one loop goroutine: on every tick it checks the context,     *)
(* acquires one permit of a weighted semaphore of NumberOfThreads permits, *)
(* lists the tenants and starts a worker goroutine that collects them one  *)
(* after the other, stops at the first tenant that fails, and otherwise    *)
(* sleeps for the configured timeout before it releases the permit.  The  *)
(* context is the one serve cancels on SIGINT or SIGTERM.  What a         *)
(* collection deletes is PostgresMVCC's GarbageCollect; here a collection *)
(* of a tenant succeeds or fails.                                          *)
(***************************************************************************)
EXTENDS Naturals, Sequences

CONSTANTS
  TenantOrder,       \* the tenants, in the order getTenants returns them
  ConcurrencyLimit   \* cfg.NumberOfThreads, the permits of the semaphore

Workers == 1..ConcurrencyLimit   \* goroutine slots: a live worker holds a permit

VARIABLES
  loop,         \* the loop goroutine: "waitTick", "acquiring", "listing", "exited"
  exitErr,      \* the loop goroutine returned an error
  sem,          \* free permits of the semaphore
  workers,      \* per slot: "idle", or collecting tenant [next] of TenantOrder, or sleeping
  ctxDone,      \* the context passed to NewGarbageCollector is cancelled
  stopCalled    \* Stop() was called

vars == <<loop, exitErr, sem, workers, ctxDone, stopCalled>>

WorkerStates == [state : {"idle", "collecting", "sleeping"}, next : 1..Len(TenantOrder)]
Idle == [state |-> "idle", next |-> 1]

TypeOK ==
  /\ loop \in {"waitTick", "acquiring", "listing", "exited"}
  /\ exitErr \in BOOLEAN
  /\ sem \in 0..ConcurrencyLimit
  /\ workers \in [Workers -> WorkerStates]
  /\ ctxDone \in BOOLEAN /\ stopCalled \in BOOLEAN

-----------------------------------------------------------------------------
(***************************************************************************)
(* The loop goroutine.  A tick that arrives while the loop is busy is     *)
(* dropped by time.Ticker, so a tick is taken only in "waitTick".          *)
(***************************************************************************)
Tick ==
  /\ loop = "waitTick"
  /\ loop' = IF ctxDone THEN "exited" ELSE "acquiring"
  /\ UNCHANGED <<exitErr, sem, workers, ctxDone, stopCalled>>

\* sem.Acquire(c.ctx, 1): takes a free permit, or fails once the context is done
Acquire ==
  /\ loop = "acquiring"
  /\ \/ /\ sem > 0
        /\ sem' = sem - 1
        /\ loop' = "listing"
        /\ UNCHANGED exitErr
     \/ /\ sem = 0 /\ ctxDone
        /\ loop' = "exited" /\ exitErr' = TRUE
        /\ UNCHANGED sem
  /\ UNCHANGED <<workers, ctxDone, stopCalled>>

(***************************************************************************)
(* getTenants, then c.g.Go(worker).  The query fails on a cancelled        *)
(* context, or on any database error; the loop then returns the error,    *)
(* holding its permit.                                                     *)
(***************************************************************************)
ListTenants(ok) ==
  /\ loop = "listing"
  /\ ok => ~ctxDone
  /\ IF ok
     THEN \E w \in Workers :
            /\ workers[w] = Idle
            /\ workers' = [workers EXCEPT ![w] = [state |-> "collecting", next |-> 1]]
            /\ loop' = "waitTick"
            /\ UNCHANGED exitErr
     ELSE /\ loop' = "exited" /\ exitErr' = TRUE
          /\ UNCHANGED workers
  /\ UNCHANGED <<sem, ctxDone, stopCalled>>

(***************************************************************************)
(* A worker goroutine: executeCollector for each tenant in turn.  The     *)
(* first failure returns the error, and the deferred Release gives the    *)
(* permit back; after the last tenant it sleeps for c.timeout first.      *)
(***************************************************************************)
\* mutant: the permit given back on the error path, and again by the deferred Release
CollectTwiceReleased(w, ok) ==
  LET wk == workers[w] IN
  /\ wk.state = "collecting"
  /\ ok => ~ctxDone
  /\ IF ok
     THEN /\ workers' = [workers EXCEPT ![w] = IF wk.next = Len(TenantOrder)
                                               THEN [state |-> "sleeping", next |-> wk.next]
                                               ELSE [wk EXCEPT !.next = wk.next + 1]]
          /\ UNCHANGED sem
     ELSE /\ workers' = [workers EXCEPT ![w] = Idle]
          /\ sem' = sem + 2
  /\ UNCHANGED <<loop, exitErr, ctxDone, stopCalled>>

\* mutant: the error path returns without the deferred Release
CollectPermitKept(w, ok) ==
  LET wk == workers[w] IN
  /\ wk.state = "collecting"
  /\ ok => ~ctxDone
  /\ IF ok
     THEN /\ workers' = [workers EXCEPT ![w] = IF wk.next = Len(TenantOrder)
                                               THEN [state |-> "sleeping", next |-> wk.next]
                                               ELSE [wk EXCEPT !.next = wk.next + 1]]
          /\ UNCHANGED sem
     ELSE /\ workers' = [workers EXCEPT ![w] = Idle]
          /\ UNCHANGED sem
  /\ UNCHANGED <<loop, exitErr, ctxDone, stopCalled>>

Collect(w, ok) ==
  LET wk == workers[w] IN
  /\ wk.state = "collecting"
  /\ ok => ~ctxDone
  /\ IF ok
     THEN /\ workers' = [workers EXCEPT ![w] = IF wk.next = Len(TenantOrder)
                                               THEN [state |-> "sleeping", next |-> wk.next]
                                               ELSE [wk EXCEPT !.next = wk.next + 1]]
          /\ UNCHANGED sem
     ELSE /\ workers' = [workers EXCEPT ![w] = Idle]
          /\ sem' = sem + 1
  /\ UNCHANGED <<loop, exitErr, ctxDone, stopCalled>>

\* time.Sleep(c.timeout) ends; the deferred Release runs
Wake(w) ==
  /\ workers[w].state = "sleeping"
  /\ workers' = [workers EXCEPT ![w] = Idle]
  /\ sem' = sem + 1
  /\ UNCHANGED <<loop, exitErr, ctxDone, stopCalled>>

\* SIGINT or SIGTERM cancels serve's context
Signal ==
  /\ ~ctxDone
  /\ ctxDone' = TRUE
  /\ UNCHANGED <<loop, exitErr, sem, workers, stopCalled>>

\* Stop(): c.ctx.Done() returns the context's channel and nothing else happens
Stop ==
  /\ ~stopCalled
  /\ stopCalled' = TRUE
  /\ UNCHANGED <<loop, exitErr, sem, workers, ctxDone>>

Init ==
  /\ loop = "waitTick"
  /\ exitErr = FALSE
  /\ sem = ConcurrencyLimit
  /\ workers = [w \in Workers |-> Idle]
  /\ ctxDone = FALSE /\ stopCalled = FALSE

Next ==
  \/ Tick \/ Acquire
  \/ \E ok \in BOOLEAN : ListTenants(ok)
  \/ \E w \in Workers : Wake(w) \/ \E ok \in BOOLEAN : Collect(w, ok)
  \/ Signal \/ Stop

(* The ticker keeps firing, and every goroutine that can run does: a query *)
(* returns, with rows or with an error, and a sleep ends.                  *)
Fairness ==
  /\ WF_vars(Tick) /\ WF_vars(Acquire)
  /\ WF_vars(\E ok \in BOOLEAN : ListTenants(ok))
  /\ \A w \in Workers : WF_vars(Wake(w)) /\ WF_vars(\E ok \in BOOLEAN : Collect(w, ok))

Spec == Init /\ [][Next]_vars /\ Fairness

-----------------------------------------------------------------------------
(***************************************************************************)
(* Properties                                                              *)
(***************************************************************************)

(* The loop, blocked in sem.Acquire, gets a permit (or gives up on a      *)
(* cancelled context): every worker gives its permit back on each of its  *)
(* paths, and NumberOfThreads workers sleeping at once only delay it.      *)
AcquireNotStarved ==
  loop = "acquiring" ~> loop # "acquiring"

(* The collector runs until the server shuts down: the loop goroutine     *)
(* ends only after serve's context is cancelled.                           *)
CollectorRunsUntilShutdown ==
  loop = "exited" => ctxDone

=============================================================================
