---------------------------- MODULE SchemaParser ----------------------------
(***************************************************************************)
(* The schema DSL parser of pkg/dsl/parser/parser.go: statements, relation *)
(* types and the Pratt parser for permission expressions.                  *)
(*                                                                         *)
(* The lexer is not part of src/; its output is modelled as a sequence of  *)
(* token literals with the ignored tokens (spaces, comments) already       *)
(* dropped, which is what Parser.next delivers.  A literal in Idents is an *)
(* IDENT token; every other literal is its own token type ("@" is SIGN,    *)
(* "#" HASH, "=" ASSIGN, "\n" NEWLINE).  Past the end the lexer returns   *)
(* EOF; before the first next() the parser holds the zero token "".      *)
(*                                                                         *)
(* Each parse function is an operator from a position (the index of       *)
(* currentToken; peekToken is the next index) to a result: ok, the        *)
(* position it leaves currentToken at, and the value it built.  An error  *)
(* anywhere makes Parse fail, so the error text is not modelled.           *)
(*                                                                         *)
(* The schema text grows by the pieces a writer types after a fixed        *)
(* Prefix and before a fixed Suffix; every state is one input to Parse.   *)
(***************************************************************************)
EXTENDS Naturals, Sequences, SequencesExt

CONSTANTS
  Idents,     \* literals the lexer returns as IDENT
  Prefix,     \* schema text before the written part
  Suffix,     \* schema text after it
  Pieces,     \* what a writer may type next (token sequences)
  MaxPieces   \* bound on the number of pieces typed

VARIABLE written

vars == <<written>>

Input == Prefix \o written \o Suffix

Tok(s, i) == IF i \in 1..Len(s) THEN s[i] ELSE IF i < 1 THEN "" ELSE "EOF"
Type(t) == IF t \in Idents THEN "IDENT" ELSE t
Is(s, i, ty) == Type(Tok(s, i)) = ty

Fail == [ok |-> FALSE, i |-> 0, x |-> "none"]
Success(i, x) == [ok |-> TRUE, i |-> i, x |-> x]

\* precedence levels and the precedences map
LOWEST == 1
LOGIC == 2
Precedence(t) == IF Type(t) \in {"and", "or"} THEN LOGIC ELSE LOWEST

\* NewParser registers IDENT and NOT as prefixes, AND and OR as infixes
HasPrefixFn(t) == Type(t) \in {"IDENT", "not"}
HasInfixFn(t) == Type(t) \in {"and", "or"}

\* ast.Identifier (neg for a NOT prefix) and ast.InfixExpression
Leaf(neg, path) == [op |-> "id", neg |-> neg, path |-> path, kids |-> <<>>]
Node(op, l, r) == [op |-> op, neg |-> FALSE, path |-> <<>>, kids |-> <<l, r>>]

-----------------------------------------------------------------------------
(* Expressions *)

\* the loop of parseIdentifier and parsePrefixExpression: while the peek
\* token is DOT, step over it and append whatever token follows
RECURSIVE DottedPath(_, _, _)
DottedPath(s, i, path) ==
  IF Is(s, i + 1, ".") THEN DottedPath(s, i + 2, Append(path, Tok(s, i + 2)))
  ELSE Success(i, path)

ParseIdentifier(s, i) ==
  LET r == DottedPath(s, i, <<Tok(s, i)>>) IN Success(r.i, Leaf(FALSE, r.x))

\* NOT: the token after it starts the path, whatever its type
ParsePrefixExpression(s, i) ==
  LET r == DottedPath(s, i + 1, <<Tok(s, i + 1)>>) IN Success(r.i, Leaf(TRUE, r.x))

PrefixParseFn(s, i) == IF Is(s, i, "IDENT") THEN ParseIdentifier(s, i) ELSE ParsePrefixExpression(s, i)

RECURSIVE ParseExpression(_, _, _), ExpressionLoop(_, _, _, _), ParseInnerParen(_, _),
          InnerParenLoop(_, _, _), ParseInfixExpression(_, _, _)

ParseExpression(s, i, precedence) ==
  CASE Is(s, i, "(")             -> ParseInnerParen(s, i + 1)
    [] ~HasPrefixFn(Tok(s, i))   -> Fail
    [] OTHER                     -> LET r == PrefixParseFn(s, i) IN ExpressionLoop(s, r.i, r.x, precedence)

\* for !peekTokenIs(NEWLINE) && precedence < peekPrecedence(); only AND
\* and OR have a precedence above LOWEST, so the infix function exists
ExpressionLoop(s, i, exp, precedence) ==
  IF ~Is(s, i + 1, "\n") /\ precedence < Precedence(Tok(s, i + 1))
  THEN LET r == ParseInfixExpression(s, i + 1, exp)
       IN IF r.ok THEN ExpressionLoop(s, r.i, r.x, precedence) ELSE Fail
  ELSE Success(i, exp)

ParseInnerParen(s, i) ==
  CASE Is(s, i, "(")             -> ParseExpression(s, i, LOWEST)
    [] ~HasPrefixFn(Tok(s, i))   -> Fail
    [] OTHER                     -> LET r == PrefixParseFn(s, i) IN InnerParenLoop(s, r.i, r.x)

\* for !currentTokenIs(RPAREN): step onto a peeked RPAREN, then go on
\* with any infix operator that follows, at any precedence
InnerParenLoop(s, i, exp) ==
  IF Is(s, i, ")") THEN Success(i, exp)
  ELSE LET j == IF Is(s, i + 1, ")") THEN i + 1 ELSE i
       IN IF ~HasInfixFn(Tok(s, j + 1)) THEN Success(j, exp)
          ELSE LET r == ParseInfixExpression(s, j + 1, exp)
               IN IF r.ok THEN InnerParenLoop(s, r.i, r.x) ELSE Fail

\* mutant: the right operand is parsed at LOWEST, so operators group to the right
ParseInfixExpressionRightAssoc(s, i, left) ==
  LET r == ParseExpression(s, i + 1, LOWEST)
  IN IF r.ok THEN Success(r.i, Node(Type(Tok(s, i)), left, r.x)) ELSE Fail

ParseInfixExpression(s, i, left) ==
  LET r == ParseExpression(s, i + 1, Precedence(Tok(s, i)))
  IN IF r.ok THEN Success(r.i, Node(Type(Tok(s, i)), left, r.x)) ELSE Fail

\* after the expression, a peeked RPAREN and every RPAREN after it are
\* skipped; currentToken is left on the first token that is not one
RECURSIVE SkipRParens(_, _)
SkipRParens(s, i) == IF Is(s, i, ")") THEN SkipRParens(s, i + 1) ELSE i

ParseExpressionStatement(s, i) ==
  LET r == ParseExpression(s, i, LOWEST)
  IN CASE ~r.ok                  -> Fail
       [] Is(s, r.i + 1, ")")    -> Success(SkipRParens(s, r.i + 1), r.x)
       [] OTHER                  -> r

-----------------------------------------------------------------------------
(* Statements.  The schema built so far stands for the reference maps:    *)
(* entity names, and relation and permission keys <<entity, name>>.       *)

EmptySchema == [entities |-> {}, relations |-> {}, permissions |-> {}]

\* relationalReferences: a key is taken by a relation or a permission
Keys(sch) ==
  {<<r.entity, r.name>> : r \in sch.relations} \cup {<<q.entity, q.name>> : q \in sch.permissions}

ParseRelationTypeStatement(s, i) ==
  CASE ~Is(s, i + 1, "@")        -> Fail
    [] ~Is(s, i + 2, "IDENT")    -> Fail
    [] ~Is(s, i + 3, "#")        -> Success(i + 2, [type |-> Tok(s, i + 2), relation |-> ""])
    [] ~Is(s, i + 4, "IDENT")    -> Fail
    [] OTHER                     -> Success(i + 4, [type |-> Tok(s, i + 2), relation |-> Tok(s, i + 4)])

RECURSIVE RelationTypes(_, _, _)
RelationTypes(s, i, types) ==
  IF Is(s, i + 1, "@")
  THEN LET r == ParseRelationTypeStatement(s, i)
       IN IF r.ok THEN RelationTypes(s, r.i, Append(types, r.x)) ELSE Fail
  ELSE Success(i, types)

ParseRelationStatement(s, i, entity, sch) ==
  LET name == Tok(s, i + 1)
      r == RelationTypes(s, i + 1, <<>>)
  IN CASE ~Is(s, i + 1, "IDENT")               -> Fail
       [] ~Is(s, i + 2, "@")                   -> Fail
       [] ~r.ok                                -> Fail
       [] <<entity, name>> \in Keys(sch)       -> Fail
       [] OTHER -> Success(r.i, [sch EXCEPT !.relations =
                                   @ \cup {[entity |-> entity, name |-> name, types |-> r.x]}])

ParsePermissionStatement(s, i, entity, sch) ==
  LET name == Tok(s, i + 1)
      r == ParseExpressionStatement(s, i + 3)
  IN CASE ~Is(s, i + 1, "IDENT")               -> Fail
       [] <<entity, name>> \in Keys(sch)       -> Fail
       [] ~Is(s, i + 2, "=")                   -> Fail
       [] ~r.ok                                -> Fail
       [] OTHER -> Success(r.i, [sch EXCEPT !.permissions =
                                   @ \cup {[entity |-> entity, name |-> name, exp |-> r.x]}])

\* the body loop: until RBRACE, a relation or permission statement, or a
\* NEWLINE or LBRACE skipped; each is followed by next()
RECURSIVE EntityBody(_, _, _, _)
EntityBody(s, i, entity, sch) ==
  LET Continue(r) == IF r.ok THEN EntityBody(s, r.i + 1, entity, r.x) ELSE Fail
  IN CASE Is(s, i, "}")                  -> Success(i, sch)
       [] Is(s, i, "EOF")                -> Fail
       [] Is(s, i, "relation")           -> Continue(ParseRelationStatement(s, i, entity, sch))
       [] Is(s, i, "permission")         -> Continue(ParsePermissionStatement(s, i, entity, sch))
       [] Type(Tok(s, i)) \in {"\n", "{"} -> EntityBody(s, i + 1, entity, sch)
       [] OTHER                          -> Fail

ParseEntityStatement(s, i, sch) ==
  LET name == Tok(s, i + 1) IN
  CASE ~Is(s, i + 1, "IDENT")            -> Fail
    [] name \in sch.entities             -> Fail
    [] ~Is(s, i + 2, "{")                -> Fail
    [] OTHER -> EntityBody(s, i + 2, name, [sch EXCEPT !.entities = @ \cup {name}])

\* Parse: until EOF, parseStatement (an ENTITY statement, any other token
\* yields no statement) and next()
RECURSIVE ParseStatements(_, _, _)
ParseStatements(s, i, sch) ==
  CASE Is(s, i, "EOF")       -> Success(i, sch)
    [] Is(s, i, "entity")    -> LET r == ParseEntityStatement(s, i, sch)
                                IN IF r.ok THEN ParseStatements(s, r.i + 1, r.x) ELSE Fail
    [] OTHER                 -> ParseStatements(s, i + 1, sch)

\* NewParser(str).Parse(): neither token is read yet
Parse(s) == ParseStatements(s, -1, EmptySchema)

-----------------------------------------------------------------------------
(***************************************************************************)
(* The writer and the specification                                        *)
(***************************************************************************)
Init == written = <<>>

\* the schema text gets one more piece
Write(piece) ==
  /\ Len(written) < MaxPieces
  /\ written' = written \o piece

\* the last piece is taken back
Erase ==
  /\ written # <<>>
  /\ written' = Front(written)

Next == (\E piece \in Pieces : Write(piece)) \/ Erase

Spec == Init /\ [][Next]_vars

-----------------------------------------------------------------------------
(***************************************************************************)
(* Reference grammar of permission expressions (the DSL of the             *)
(* specification, 6): one precedence for `and` and `or`, left to right;   *)
(* `not` applies to a relation reference; parentheses group.               *)
(*                                                                         *)
(*   expr ::= term | expr ("and" | "or") term                              *)
(*   term ::= ref | "not" ref | "(" expr ")"     ref ::= IDENT ("." IDENT)* *)
(*                                                                         *)
(* Generated bottom up as [toks, tree] pairs of at most n tokens.          *)
(***************************************************************************)
Dotted(p) == [k \in 1..(2 * Len(p) - 1) |-> IF k % 2 = 1 THEN p[(k + 1) \div 2] ELSE "."]

\* the identifiers the writer can type
ExprIdents == Idents \cap UNION {ToSet(p) : p \in Pieces}

RefPaths(n) == UNION {[1..k -> ExprIdents] : k \in 1..((n + 1) \div 2)}

RECURSIVE RefExprs(_)
RefTerms(n) ==
  {[toks |-> Dotted(p), tree |-> Leaf(FALSE, p)] : p \in RefPaths(n)}
  \cup {[toks |-> <<"not">> \o Dotted(p), tree |-> Leaf(TRUE, p)] : p \in RefPaths(n - 1)}
  \cup {[toks |-> <<"(">> \o e.toks \o <<")">>, tree |-> e.tree] : e \in RefExprs(n - 2)}

RefExprs(n) ==
  IF n < 1 THEN {}
  ELSE RefTerms(n) \cup
       { x \in { [toks |-> e.toks \o <<op>> \o t.toks, tree |-> Node(op, e.tree, t.tree)] :
                   e \in RefExprs(n - 2), op \in {"and", "or"}, t \in RefTerms(n - 2) } :
           Len(x.toks) <= n }

\* Bound on the tokens of an expression the writer can type
MaxExprLen == MaxPieces * Max({Len(p) : p \in Pieces})

\* the well-formed expressions and the tree the grammar gives each
Grammar ==
  LET S == RefExprs(MaxExprLen)
  IN [t \in {x.toks : x \in S} |-> (CHOOSE x \in S : x.toks = t).tree]

\* what an expression tree means, for a truth value of each reference
RECURSIVE Refs(_), Holds(_, _)
Refs(e) == IF e.op = "id" THEN {e.path} ELSE Refs(e.kids[1]) \cup Refs(e.kids[2])
Holds(e, v) ==
  CASE e.op = "id"  -> v[e.path] # e.neg
    [] e.op = "and" -> Holds(e.kids[1], v) /\ Holds(e.kids[2], v)
    [] e.op = "or"  -> Holds(e.kids[1], v) \/ Holds(e.kids[2], v)

SameMeaning(e, f) ==
  /\ Refs(e) = Refs(f)
  /\ \A v \in [Refs(e) -> BOOLEAN] : Holds(e, v) = Holds(f, v)

\* the frame holds one permission statement, the one being written
Parsed == Parse(Input)
WrittenExpression == (CHOOSE q \in Parsed.x.permissions : TRUE).exp

-----------------------------------------------------------------------------
(***************************************************************************)
(* Properties                                                              *)
(***************************************************************************)

(* Without parentheses, and and or are parsed left to right at one         *)
(* precedence: the tree parseExpression and parseInfixExpression build is *)
(* the grammar's tree.                                                     *)
ParenFreeAsWritten ==
  written \in DOMAIN Grammar /\ "(" \notin ToSet(written)
    => Parsed.ok /\ WrittenExpression = Grammar[written]

(* A well-formed permission the parser accepts is parsed into a tree that *)
(* means what the grammar says it means, with or without redundant         *)
(* parentheses: parseInnerParen's loop must not carry the operators after  *)
(* a closing RPAREN into the group.                                         *)
AcceptedAsWritten ==
  written \in DOMAIN Grammar /\ Parsed.ok => SameMeaning(WrittenExpression, Grammar[written])

=============================================================================
