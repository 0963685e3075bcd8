--------------------------- MODULE MCControlPlane ---------------------------
\* A control plane that dies and starts again.
EXTENDS ControlPlane
=============================================================================
