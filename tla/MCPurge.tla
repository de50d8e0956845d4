------------------------------- MODULE MCPurge -------------------------------
EXTENDS Purge, TLC
==============================================================================
