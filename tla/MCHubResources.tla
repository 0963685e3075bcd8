--------------------------- MODULE MCHubResources ---------------------------
\* Dashboards that come and go, and agents that lose their connection.
EXTENDS HubResources

CONSTANTS a1, a2, k1, k2

\* Small slices double.
Doubling == [c \in Caps \cup {0} |->
                IF c = 0 THEN 1 ELSE IF 2 * c \in Caps THEN 2 * c ELSE c]
=============================================================================
