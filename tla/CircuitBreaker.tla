---------------------------- MODULE CircuitBreaker ----------------------------
(***************************************************************************)
(* The circuit breaker decorators of internal/repositories/decorators: each *)
(* method of SchemaReaderWithCircuitBreaker and SchemaWriterWithCircuitBreaker *)
(* makes an output channel of capacity 1, calls hystrix.Go with a run      *)
(* function that calls the delegate, sends its answer on the channel and   *)
(* returns nil, and a fallback that returns nil, and then selects on the   *)
(* output channel and on the error channel hystrix.Go returned.            *)
(*                                                                         *)
(* hystrix-go, which the decorators configure with a 1000 ms timeout and   *)
(* otherwise the library defaults, is modelled as far as the decorators    *)
(* meet it: a pool of MaxConcurrent tickets; a circuit that opens, when    *)
(* the health counters cover at least Volume requests and half of them     *)
(* failed, and lets one test request through once its sleep window has     *)
(* passed; and a returnOnce shared by the run goroutine and the timer.     *)
(* Whichever of the run finishing and the timeout comes first returns the  *)
(* ticket and reports the outcome; when the outcome is an error, the       *)
(* fallback runs, and only a fallback that itself fails puts an error on   *)
(* the channel hystrix.Go returned.                                        *)
(***************************************************************************)
EXTENDS Naturals

CONSTANTS
  Callers,        \* goroutines calling a decorated method, one call at a time each
  MaxConcurrent,  \* hystrix MaxConcurrentRequests
  Volume          \* hystrix RequestVolumeThreshold (requests in the rolling window)

VARIABLES
  pc,           \* per caller: "idle", "waiting" in the select, "returned"
  run,          \* per caller: its run goroutine "none", "running", "sent"
  settled,      \* per caller: returnOnce has run (ticket back, outcome reported)
  timedOut,     \* per caller: the timer won returnOnce
  output,       \* per caller: the output channel, "empty" or the answer in it
  result,       \* per caller: what the decorated method returned
  tickets,      \* free tickets of the executor pool
  circuit,      \* "closed" or "open"
  testAllowed,  \* the sleep window has passed since the circuit opened or was last tested
  reqs,         \* outcomes reported in the rolling health window (saturates at Volume)
  fails         \* of them errors: timeouts, rejections, short circuits

vars == <<pc, run, settled, timedOut, output, result, tickets, circuit,
          testAllowed, reqs, fails>>

Answers == {"schema", "storeError"}   \* what the delegate returns
CircuitBreakerError == "ERROR_CODE_CIRCUIT_BREAKER"
None == "none"

TypeOK ==
  /\ pc \in [Callers -> {"idle", "waiting", "returned"}]
  /\ run \in [Callers -> {"none", "running", "sent"}]
  /\ settled \in [Callers -> BOOLEAN] /\ timedOut \in [Callers -> BOOLEAN]
  /\ output \in [Callers -> {"empty"} \cup Answers]
  /\ result \in [Callers -> {None, CircuitBreakerError} \cup Answers]
  /\ tickets \in 0..MaxConcurrent
  /\ circuit \in {"closed", "open"} /\ testAllowed \in BOOLEAN
  /\ reqs \in 0..Volume /\ fails \in 0..Volume

Saturate(n) == IF n < Volume THEN n + 1 ELSE Volume

\* circuit.IsOpen(): open, or the health counters call for opening it
Tripped == reqs >= Volume /\ 2 * fails >= reqs


-----------------------------------------------------------------------------
(***************************************************************************)
(* A caller enters the decorated method: hystrix.Go either rejects the     *)
(* command (circuit open with no test due, or no free ticket), settling it *)
(* through the fallback without ever calling run, or takes a ticket and    *)
(* starts run, which calls the delegate.                                   *)
(***************************************************************************)
Call(c) ==
  LET open == circuit = "open" \/ Tripped IN
  /\ pc[c] = "idle"
  /\ pc' = [pc EXCEPT ![c] = "waiting"]
  /\ circuit' = IF open THEN "open" ELSE circuit
  /\ testAllowed' = (testAllowed /\ ~open)
  /\ IF (open /\ ~testAllowed) \/ tickets = 0
     THEN /\ settled' = [settled EXCEPT ![c] = TRUE]
          /\ reqs' = Saturate(reqs) /\ fails' = Saturate(fails)
          /\ UNCHANGED <<run, tickets>>
     ELSE /\ run' = [run EXCEPT ![c] = "running"]
          /\ tickets' = tickets - 1
          /\ UNCHANGED <<settled, reqs, fails>>
  /\ UNCHANGED <<timedOut, output, result>>

(***************************************************************************)
(* The delegate answers: run sends the answer on the output channel (it    *)
(* has room for one) and returns nil, so when run wins returnOnce the     *)
(* outcome reported is a success, whatever the delegate answered, and a   *)
(* success closes an open circuit and clears its counters.                 *)
(***************************************************************************)
\* mutant: run returns early on a delegate error, before the send
DelegateReturnsErrorUnsent(c, a) ==
  /\ run[c] = "running"
  /\ run' = [run EXCEPT ![c] = "sent"]
  /\ output' = [output EXCEPT ![c] = IF a = "storeError" THEN "empty" ELSE a]
  /\ settled' = [settled EXCEPT ![c] = TRUE]
  /\ tickets' = IF settled[c] THEN tickets ELSE tickets + 1
  /\ UNCHANGED <<pc, timedOut, result, circuit, testAllowed, reqs, fails>>

\* mutant: no returnOnce, the ticket returned by both the run and the timer
DelegateReturnsTwiceReturned(c, a) ==
  /\ run[c] = "running"
  /\ run' = [run EXCEPT ![c] = "sent"]
  /\ output' = [output EXCEPT ![c] = a]
  /\ settled' = [settled EXCEPT ![c] = TRUE]
  /\ tickets' = tickets + 1
  /\ UNCHANGED <<pc, timedOut, result, circuit, testAllowed, reqs, fails>>

DelegateReturns(c, a) ==
  /\ run[c] = "running"
  /\ run' = [run EXCEPT ![c] = "sent"]
  /\ output' = [output EXCEPT ![c] = a]
  /\ IF settled[c]
     THEN UNCHANGED <<settled, tickets, circuit, testAllowed, reqs, fails>>
     ELSE /\ settled' = [settled EXCEPT ![c] = TRUE]
          /\ tickets' = tickets + 1
          /\ IF circuit = "open"
             THEN circuit' = "closed" /\ testAllowed' = FALSE /\ reqs' = 0 /\ fails' = 0
             ELSE UNCHANGED <<circuit, testAllowed, fails>> /\ reqs' = Saturate(reqs)
  /\ UNCHANGED <<pc, timedOut, result>>

(***************************************************************************)
(* The 1000 ms timer fires before run finished: returnOnce returns the     *)
(* ticket, reports a timeout and runs the fallback.  run keeps running.    *)
(***************************************************************************)
Timeout(c) ==
  /\ run[c] = "running"
  /\ ~settled[c]
  /\ settled' = [settled EXCEPT ![c] = TRUE]
  /\ timedOut' = [timedOut EXCEPT ![c] = TRUE]
  /\ tickets' = tickets + 1
  /\ reqs' = Saturate(reqs) /\ fails' = Saturate(fails)
  /\ UNCHANGED <<pc, run, output, result, circuit, testAllowed>>

(***************************************************************************)
(* The select of the decorated method.  Its other case, the channel       *)
(* hystrix.Go returned, would answer ERROR_CODE_CIRCUIT_BREAKER, but       *)
(* hystrix.Go sends on it only the error of a fallback that fails, and    *)
(* the fallback returns nil: a rejected or timed out command leaves that  *)
(* channel empty, so the select waits for the output channel alone.       *)
(***************************************************************************)
Receive(c) ==
  /\ pc[c] = "waiting"
  /\ output[c] # "empty"
  /\ pc' = [pc EXCEPT ![c] = "returned"]
  /\ result' = [result EXCEPT ![c] = output[c]]
  /\ output' = [output EXCEPT ![c] = "empty"]
  /\ UNCHANGED <<run, settled, timedOut, tickets, circuit, testAllowed, reqs, fails>>

\* the caller goes on and later calls again
Return(c) ==
  /\ pc[c] = "returned"
  /\ pc' = [pc EXCEPT ![c] = "idle"]
  /\ run' = [run EXCEPT ![c] = "none"]
  /\ settled' = [settled EXCEPT ![c] = FALSE]
  /\ timedOut' = [timedOut EXCEPT ![c] = FALSE]
  /\ result' = [result EXCEPT ![c] = None]
  /\ UNCHANGED <<output, tickets, circuit, testAllowed, reqs, fails>>

\* the sleep window (5 s) passes since the circuit opened or was last tested
SleepWindowPasses ==
  /\ circuit = "open"
  /\ ~testAllowed
  /\ testAllowed' = TRUE
  /\ UNCHANGED <<pc, run, settled, timedOut, output, result, tickets, circuit, reqs, fails>>

\* the rolling window (10 s) of the health counters moves past their outcomes
RollWindow ==
  /\ reqs > 0
  /\ reqs' = 0 /\ fails' = 0
  /\ UNCHANGED <<pc, run, settled, timedOut, output, result, tickets, circuit, testAllowed>>

Init ==
  /\ pc = [c \in Callers |-> "idle"]
  /\ run = [c \in Callers |-> "none"]
  /\ settled = [c \in Callers |-> FALSE]
  /\ timedOut = [c \in Callers |-> FALSE]
  /\ output = [c \in Callers |-> "empty"]
  /\ result = [c \in Callers |-> None]
  /\ tickets = MaxConcurrent
  /\ circuit = "closed" /\ testAllowed = FALSE
  /\ reqs = 0 /\ fails = 0

Next ==
  \/ \E c \in Callers :
       \/ Call(c) \/ Timeout(c) \/ Receive(c) \/ Return(c)
       \/ \E a \in Answers : DelegateReturns(c, a)
  \/ SleepWindowPasses
  \/ RollWindow

(* The delegate (the store behind the schema reader or writer) answers    *)
(* every call eventually, the timer fires, and a goroutine blocked in a    *)
(* select on a ready channel runs.                                          *)
Fairness ==
  \A c \in Callers :
    /\ WF_vars(\E a \in Answers : DelegateReturns(c, a))
    /\ WF_vars(Receive(c))

Spec == Init /\ [][Next]_vars /\ Fairness

-----------------------------------------------------------------------------
(***************************************************************************)
(* Properties                                                              *)
(***************************************************************************)

(* A call whose command got a ticket returns, with whatever the delegate  *)
(* answered, even when the 1000 ms timer fired first: run always sends on *)
(* the output channel, which has room for the answer whether or not the   *)
(* caller is still there.                                                  *)
AdmittedCallsReturn ==
  \A c \in Callers : run[c] = "running" ~> pc[c] = "returned"

(* A call that hystrix rejects (circuit open, or no free ticket) or whose *)
(* command times out returns ERROR_CODE_CIRCUIT_BREAKER: the specification *)
(* says the circuit breaker wrapper MUST translate timeouts into a         *)
(* distinguished circuit error, which callers surface.                     *)
BreakerErrorsSurface ==
  \A c \in Callers :
    pc[c] = "waiting" /\ settled[c] /\ (timedOut[c] \/ run[c] = "none")
      ~> pc[c] = "returned" /\ result[c] = CircuitBreakerError

=============================================================================
