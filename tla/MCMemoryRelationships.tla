------------------------ MODULE MCMemoryRelationships ------------------------
(* Three tuples, a filter matching all of them and one matching one, and *)
(* one reader with one-row pages so that every page boundary is exercised. *)
EXTENDS MemoryRelationships

CONSTANTS t1, t2, t3

MCTuples == {t1, t2, t3}
MCIndexOrder == <<t1, t2, t3>>
MCFilters == {{t1, t2, t3}, {t3}}

=============================================================================
