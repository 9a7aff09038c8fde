--------------------------- MODULE MCPostgresMVCC ---------------------------
EXTENDS PostgresMVCC
CONSTANTS t1, t2
MCTuples == {t1, t2}
=============================================================================
