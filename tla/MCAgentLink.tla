---------------------------- MODULE MCAgentLink ----------------------------
\* Terminals and requests of one agent that loses its connection; and the log of what is
\* typed into the terminals.
EXTENDS AgentLink, InputLogger

CONSTANTS s1, r1, r2

Strings(chars, n) == UNION {[1 .. k -> chars] : k \in 0 .. n}
Escapes == {<<"ESC", "a">>, <<"ESC", "CR">>, <<"ESC", "[", "a">>, <<"ESC", "[", ";", " ", "O">>, <<"ESC", "O", "DEL", "[">>}

\* The logger on short inputs.
ASSUME LoggerLines == \A s \in Strings({"a", " ", "DEL", "CR", "^C", "^U", "NUL"}, 4) : LogsWhatIsLeft(s)
ASSUME LoggerDeletes == \A s \in [1 .. 7 -> {"a", "DEL"}] : LogsWhatIsLeft(s \o <<"^D">>)
ASSUME LoggerEscapes ==
    \A before, after \in Strings({"a", "DEL", "CR"}, 2), e \in Escapes : EscapesAreSwallowed(before, e, after)
ASSUME LoggerWords ==
    \A before \in Strings({"a", " "}, 3), word \in Strings({"a", ";"}, 2), blanks \in Strings({" "}, 2) :
        WordsAreKilled(before, word, blanks)
=============================================================================
