--------------------------- MODULE MCMonitorTwin ----------------------------
EXTENDS MonitorTwin

MCTicks == 0..4

=============================================================================
