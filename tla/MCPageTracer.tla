---------------------------- MODULE MCPageTracer ----------------------------
EXTENDS PageTracer

MCMaxTime == 3
=============================================================================
