---------------------------- MODULE MCStoreAudit ----------------------------
EXTENDS StoreAudit, StoreUniverse

CONSTANTS c1

MCDecisions == {original, superseder}
MCEvents == {filed}
=============================================================================
