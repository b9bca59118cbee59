----------------------------- MODULE MCMonitor ------------------------------
EXTENDS Monitor

MCTicks == 0..4

=============================================================================
