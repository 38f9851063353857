---------------------------- MODULE MCBatchWatch ----------------------------
EXTENDS BatchWatch
=============================================================================
