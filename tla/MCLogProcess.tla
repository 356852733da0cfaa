---------------------------- MODULE MCLogProcess ----------------------------
EXTENDS LogProcess
=============================================================================
