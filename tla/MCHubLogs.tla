------------------------------ MODULE MCHubLogs ------------------------------
\* One request that commands up to two agents and that two streams follow.
EXTENDS HubLogs
=============================================================================
