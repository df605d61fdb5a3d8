--------------------------- MODULE MCEdgeBarriers ---------------------------
EXTENDS EdgeBarrierController

\* A launcher on the left that hides, edges that are sticky or not, a screen that is
\* locked or not.
LeftHiding == {o \in AllOptions : o.hides /\ o.launcher_position = "LEFT"}

Launchers == {b \in Barriers : b[1] = "VERTICAL"}
=============================================================================
