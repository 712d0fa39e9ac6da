---------------------------- MODULE MCExecutorStd ----------------------------
EXTENDS ExecutorStd
=============================================================================
