--------------------------- MODULE PermissionCheck ---------------------------
(***************************************************************************)
(* The check engine (C5 of the specification) as a recursive evaluator    *)
(* over a compiled schema and the tuples of a store snapshot, next to a    *)
(* reference semantics: the stratified least fixpoint of the relation and  *)
(* permission definitions.  The engine's source is not part of the         *)
(* repository's src/ tree; it is modelled from the specification (4.5) and *)
(* from the scenarios of internal/engines/check_test.go.                   *)
(*                                                                         *)
(* A schema maps an entity type to its relation names and its permissions; *)
(* a permission is the AST the schema compiler produces: a rewrite node    *)
(* (union or intersection over a sequence of children) or a leaf, either   *)
(* a computed userset (a relation or permission of the same entity) or a   *)
(* tuple-to-userset (follow a relation, then evaluate a name on each      *)
(* entity it reaches).  Only leaves carry the exclusion flag ("not").      *)
(*                                                                         *)
(* The store is a set of tuples that clients grow and shrink one tuple at  *)
(* a time; every check reads one snapshot of it.                           *)
(***************************************************************************)
EXTENDS Naturals, FiniteSets, Sequences

CONSTANTS
  Schema,         \* [type -> [relations : SUBSET names, permissions : [names -> Child]]]
  TupleUniverse,  \* the tuples clients may write
  Queries,        \* check requests: [entity, name, subject]
  MaxDepth        \* the depth a request carries

Ellipsis == "..."

VARIABLE tuples   \* the tuples of the current snapshot

vars == <<tuples>>

EntityOf(s) == [type |-> s.type, id |-> s.id]

\* a tuple's subject names a userset, not a user or a bare entity
IsUserset(s) == s.relation \notin {"", Ellipsis}

\* subject equality, ellipsis and empty relation being the same
SameSubject(a, b) ==
  /\ a.type = b.type /\ a.id = b.id
  /\ \/ a.relation = b.relation
     \/ {a.relation, b.relation} \subseteq {"", Ellipsis}

\* query_relationships(entity, relation): the tuples of e under rel
Query(T, e, rel) == {t \in T : t.entity = e /\ t.relation = rel}

IsRelation(e, n) == n \in Schema[e.type].relations
IsPermission(e, n) == n \in DOMAIN Schema[e.type].permissions

-----------------------------------------------------------------------------
(***************************************************************************)
(* The engine.  CheckName dispatches on the kind of name: a relation is a  *)
(* store lookup whose usersets recurse one level deeper; a permission is   *)
(* its AST, evaluated at the same depth.  A tuple-to-userset leaf looks up *)
(* the tupleset relation and recurses one level deeper on every entity it *)
(* names.  Depth 0 is DENIED.  A union allows when a child does, an        *)
(* intersection when all do; an excluded leaf contributes the inverse of   *)
(* its verdict to the rewrite that holds it.                               *)
(***************************************************************************)
RECURSIVE CheckName(_, _, _, _, _), CheckChild(_, _, _, _, _), CheckLeaf(_, _, _, _, _)

\* mutant: usersets among the tuples are not followed
CheckRelationDirectOnly(T, e, rel, s, d) ==
  \E t \in Query(T, e, rel) : SameSubject(t.subject, s)

CheckRelation(T, e, rel, s, d) ==
  \E t \in Query(T, e, rel) :
    \/ SameSubject(t.subject, s)
    \/ IsUserset(t.subject) /\ CheckName(T, EntityOf(t.subject), t.subject.relation, s, d - 1)

CheckName(T, e, n, s, d) ==
  CASE d = 0               -> FALSE
    [] IsRelation(e, n)    -> CheckRelation(T, e, n, s, d)
    [] IsPermission(e, n)  -> CheckChild(T, e, Schema[e.type].permissions[n], s, d)
    [] OTHER               -> FALSE

\* mutant: the exclusion flag of a leaf is not looked at
CheckLeafNoExclusion(T, e, leaf, s, d) ==
  CASE leaf.kind = "cu"  -> CheckName(T, e, leaf.rel, s, d)
    [] leaf.kind = "ttu" -> \E t \in Query(T, e, leaf.ts) :
                              CheckName(T, EntityOf(t.subject), leaf.comp, s, d - 1)

CheckLeaf(T, e, leaf, s, d) ==
  LET inner ==
        CASE leaf.kind = "cu"  -> CheckName(T, e, leaf.rel, s, d)
          [] leaf.kind = "ttu" -> \E t \in Query(T, e, leaf.ts) :
                                    CheckName(T, EntityOf(t.subject), leaf.comp, s, d - 1)
  IN IF leaf.excl THEN ~inner ELSE inner

CheckChild(T, e, c, s, d) ==
  CASE c.kind = "union"        -> \E i \in DOMAIN c.children : CheckChild(T, e, c.children[i], s, d)
    [] c.kind = "intersection" -> \A i \in DOMAIN c.children : CheckChild(T, e, c.children[i], s, d)
    [] OTHER                   -> CheckLeaf(T, e, c, s, d)

\* check(request): ALLOWED (TRUE) or DENIED (FALSE)
Check(T, q, d) == CheckName(T, q.entity, q.name, q.subject, d)

-----------------------------------------------------------------------------
(***************************************************************************)
(* Reference semantics.  Nodes are <<entity, name>> pairs.  For a subject  *)
(* s, Step(X, Neg) is the set of nodes that hold when the nodes of X hold  *)
(* for non-excluded leaves and the nodes of Neg hold for excluded ones; it *)
(* is monotone in X.  Stratum 0 is its least fixpoint with every excluded  *)
(* leaf false; stratum 1 its least fixpoint with excluded leaves read from *)
(* stratum 0.  This is exact for schemas whose excluded names do not       *)
(* depend on exclusion themselves, which the schemas checked here satisfy. *)
(***************************************************************************)
Entities ==
  {t.entity : t \in TupleUniverse} \cup {EntityOf(t.subject) : t \in TupleUniverse}
    \cup {q.entity : q \in Queries}
Nodes ==
  UNION { {e} \X (Schema[e.type].relations \cup DOMAIN Schema[e.type].permissions) :
            e \in {x \in Entities : x.type \in DOMAIN Schema} }

RECURSIVE RefChild(_, _, _, _, _)
RefLeafInner(T, e, leaf, Y) ==
  CASE leaf.kind = "cu"  -> <<e, leaf.rel>> \in Y
    [] leaf.kind = "ttu" -> \E t \in Query(T, e, leaf.ts) : <<EntityOf(t.subject), leaf.comp>> \in Y

RefChild(T, e, c, X, Neg) ==
  CASE c.kind = "union"        -> \E i \in DOMAIN c.children : RefChild(T, e, c.children[i], X, Neg)
    [] c.kind = "intersection" -> \A i \in DOMAIN c.children : RefChild(T, e, c.children[i], X, Neg)
    [] c.excl                  -> ~RefLeafInner(T, e, c, Neg)
    [] OTHER                   -> RefLeafInner(T, e, c, X)

Step(T, s, X, Neg) ==
  { nd \in Nodes :
      LET e == nd[1]  n == nd[2] IN
      IF IsRelation(e, n)
      THEN \E t \in Query(T, e, n) :
             \/ SameSubject(t.subject, s)
             \/ IsUserset(t.subject) /\ <<EntityOf(t.subject), t.subject.relation>> \in X
      ELSE RefChild(T, e, Schema[e.type].permissions[n], X, Neg) }

RECURSIVE Lfp(_, _, _, _)
Lfp(T, s, X, Neg) == LET Y == Step(T, s, X, Neg) IN IF Y = X THEN X ELSE Lfp(T, s, Y, Neg)

Holds(T, q) ==
  LET stratum0 == Lfp(T, q.subject, {}, Nodes)
  IN <<q.entity, q.name>> \in Lfp(T, q.subject, {}, stratum0)

-----------------------------------------------------------------------------
(***************************************************************************)
(* The store as the engine sees it: a client writes or deletes a tuple.   *)
(***************************************************************************)
WriteTuple(t) ==
  /\ t \notin tuples
  /\ tuples' = tuples \cup {t}

DeleteTuple(t) ==
  /\ t \in tuples
  /\ tuples' = tuples \ {t}

Init == tuples = {}

Next == \E t \in TupleUniverse : WriteTuple(t) \/ DeleteTuple(t)

Spec == Init /\ [][Next]_vars

-----------------------------------------------------------------------------
(***************************************************************************)
(* Properties                                                              *)
(***************************************************************************)

TypeOK == tuples \subseteq TupleUniverse

(* Completeness: with the depth the request carries, check answers exactly *)
(* what the semantics says, following usersets through cycles and tuple-  *)
(* to-userset hops across entity types.                                    *)
CheckComplete ==
  \A q \in Queries : Check(tuples, q, MaxDepth) = Holds(tuples, q)

=============================================================================
