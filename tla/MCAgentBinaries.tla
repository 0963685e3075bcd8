--------------------------- MODULE MCAgentBinaries ---------------------------
\* Two agents of one service on a host, and who is told to deploy what; and the arguments
\* of the services they start.
EXTENDS AgentBinaries, ShellWords

CONSTANTS a1, a2, v1, v2

Apart == {<<a1, v1>>, <<a2, v2>>}
Together == {<<a1, v1>>, <<a2, v1>>, <<a2, v2>>}

Strings(chars, n) == UNION {[1 .. k -> chars] : k \in 0 .. n}

\* splitArgs on short lists of short words, and on short strings.
ASSUME SplitArgsQuoted == \A words \in Strings(Strings({"a", " ", "\""}, 2) \cup Strings({"a", "'"}, 2), 2) : QuotedWordsComeBack(words)
ASSUME SplitArgsBlanks == \A s \in Strings({"a", " ", "\t"}, 5) : BlanksSplit(s)
ASSUME SplitArgsUnclosed ==
    \A s \in Strings({"a", " ", "'", "\""}, 2), t \in Strings({"a", " ", "\""}, 3) : UnclosedReachesToEnd(s, t)
=============================================================================
