------------------------- MODULE MCGarbageCollector -------------------------
EXTENDS GarbageCollector
CONSTANTS ta, tb
MCTenantOrder == <<ta, tb>>
=============================================================================
