-------------------------- MODULE MCWalCheckpoint --------------------------
EXTENDS WalCheckpoint
============================================================================
