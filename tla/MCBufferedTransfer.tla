-------------------------- MODULE MCBufferedTransfer --------------------------
EXTENDS BufferedTransfer

AllFaults == FaultKinds
=============================================================================
