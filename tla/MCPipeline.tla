---------------------------- MODULE MCPipeline ----------------------------
\* A few clicks on the dashboards of one or two instances.
EXTENDS Pipeline
=============================================================================
