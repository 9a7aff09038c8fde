--------------------------- MODULE MCSchemaParser ---------------------------
(* A schema in the style of check_test.go whose last statement is the      *)
(* permission being written:                                               *)
(*                                                                         *)
(*   entity user {}                                                        *)
(*   entity doc {                                                          *)
(*     relation owner @user                                                *)
(*     relation parent @doc @user#owner                                    *)
(*     permission p = <written>                                            *)
(*   }                                                                     *)
(*                                                                         *)
(* The writer types single tokens: the references owner and parent, the   *)
(* operators, parentheses and the dot of a tuple-to-userset reference.     *)
EXTENDS SchemaParser

MCIdents == {"user", "doc", "owner", "parent", "p"}

MCPrefix ==
  << "entity", "user", "{", "}", "\n",
     "entity", "doc", "{", "\n",
     "relation", "owner", "@", "user", "\n",
     "relation", "parent", "@", "doc", "@", "user", "#", "owner", "\n",
     "permission", "p", "=" >>

MCSuffix == << "\n", "}", "\n" >>

MCPieces == { <<t>> : t \in {"owner", "parent", "and", "or", "not", "(", ")", "."} }

=============================================================================
