\* Expressions of up to seven tokens: operator chains of three references,
\* NOT, dotted references, and parenthesised groups on either side of an
\* operator, nested twice.
CONSTANTS
  Idents <- MCIdents
  Prefix <- MCPrefix
  Suffix <- MCSuffix
  Pieces <- MCPieces
  MaxPieces = 7

SPECIFICATION Spec

INVARIANT ParenFreeAsWritten
