---------------------------- MODULE MCInstances ----------------------------
\* A host with a handful of pids and two administrators.
EXTENDS Instances
=============================================================================
