--------------------------- MODULE MCGraphitePool ---------------------------
EXTENDS GraphitePool

MCHosts == {"h"}
MCServices == {"s"}
MCMetrics == {3}
MCTimes == {7, 12}
=============================================================================
