---------------------------- MODULE MCSupervisor ----------------------------
\* A deployer that dies while it replaces its child.
EXTENDS Supervisor

CONSTANTS p1, p2, p3
=============================================================================
