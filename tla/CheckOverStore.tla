--------------------------- MODULE CheckOverStore ---------------------------
(***************************************************************************)
(* The check engine over the memory store.  A check request carries a     *)
(* snapshot token, and the engine evaluates the children of a permission's *)
(* rewrite one after the other (the specification lets it schedule them in *)
(* any order); every child reads the store through QueryRelationships.    *)
(* The memory store's QueryRelationships ignores the token and reads the  *)
(* table as it is, so clients' WriteRelationships and DeleteRelationships *)
(* that commit while a check runs are seen by the children evaluated      *)
(* after them.  The store is MemoryRelationships with no paging reader;   *)
(* the engine is PermissionCheck evaluated on the tuples stored when the  *)
(* child runs.                                                             *)
(***************************************************************************)
EXTENDS Naturals, FiniteSets

CONSTANTS
  Schema, TupleUniverse, Queries, MaxDepth,   \* as in PermissionCheck
  IndexOrder, MaxID, MaxClock                 \* as in MemoryRelationships

VARIABLES store, nextID, clock, pager, got, stable, lastQuery, kept,
  chk   \* the check in progress: its request, children verdicts, and the
        \* tuple sets the store held while it ran (a history variable)

memVars == <<store, nextID, clock, pager, got, stable, lastQuery, kept>>
vars == <<memVars, chk>>

\* a client writes or deletes one tuple at a time
Filters == {{t} : t \in TupleUniverse}

Mem == INSTANCE MemoryRelationships WITH
         Tuples <- TupleUniverse, Readers <- {}, PageSize <- 1

Stored == {t \in TupleUniverse : store[t] # 0}

Engine == INSTANCE PermissionCheck WITH tuples <- Stored

\* the rewrite a permission's AST starts with, as a sequence of children
Children(q) ==
  LET c == Schema[q.entity.type].permissions[q.name]
  IN IF c.kind \in {"union", "intersection"} THEN c.children ELSE <<c>>

Combine(q, v) ==
  LET c == Schema[q.entity.type].permissions[q.name]
  IN IF c.kind = "intersection" THEN \A i \in DOMAIN v : v[i] ELSE \E i \in DOMAIN v : v[i]

Idle == [pc |-> "idle", q |-> CHOOSE q \in Queries : TRUE, verdicts |-> <<>>,
         history |-> {}, verdict |-> FALSE]

Init == Mem!Init /\ chk = Idle

\* a check request for a permission whose AST is a rewrite
StartCheck(q) ==
  /\ chk.pc # "running"
  /\ chk' = [pc |-> "running", q |-> q, verdicts |-> [i \in {} |-> FALSE],
             history |-> {Stored}, verdict |-> FALSE]
  /\ UNCHANGED memVars

\* one child of the rewrite, evaluated on the tuples stored now
EvalChild(i) ==
  LET q == chk.q IN
  /\ chk.pc = "running"
  /\ i \in DOMAIN Children(q) \ DOMAIN chk.verdicts
  /\ chk' = [chk EXCEPT !.verdicts =
               [j \in DOMAIN @ \cup {i} |->
                  IF j = i THEN Engine!CheckChild(Stored, q.entity, Children(q)[i], q.subject, MaxDepth)
                  ELSE @[j]]]
  /\ UNCHANGED memVars

FinishCheck ==
  /\ chk.pc = "running"
  /\ DOMAIN chk.verdicts = DOMAIN Children(chk.q)
  /\ chk' = [chk EXCEPT !.pc = "done", !.verdict = Combine(chk.q, chk.verdicts)]
  /\ UNCHANGED memVars

\* the history records every state of the store a running check could read
Recorded == IF chk.pc = "running" THEN [chk EXCEPT !.history = @ \cup {Stored'}] ELSE chk

ClientWrite(t) ==
  /\ Mem!WriteRelationships({t})
  /\ chk' = Recorded

ClientDelete(t) ==
  /\ Mem!DeleteRelationships({t})
  /\ chk' = Recorded

Next ==
  \/ \E q \in Queries : StartCheck(q)
  \/ \E i \in DOMAIN Children(chk.q) : EvalChild(i)
  \/ FinishCheck
  \/ \E t \in TupleUniverse : ClientWrite(t) \/ ClientDelete(t)

Spec == Init /\ [][Next]_vars

-----------------------------------------------------------------------------
(* A check answers as of one instant (P2: a check at a snapshot token is a *)
(* function of that snapshot): its verdict is the one the engine gives on *)
(* some single state the store held while the check ran.  The memory      *)
(* store's QueryRelationships reads the current table whatever the token. *)
CheckAtOneInstant ==
  chk.pc = "done" =>
    \E T \in chk.history : chk.verdict = Engine!Check(T, chk.q, MaxDepth)

=============================================================================
