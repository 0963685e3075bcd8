----------------------------- MODULE ShellWords -----------------------------
(***************************************************************************)
(* splitArgs, by which an agent cuts the arguments of the service it       *)
(* starts out of one string.  A string is a sequence of characters.        *)
(***************************************************************************)
EXTENDS Sequences, SequencesExt

Blank == {" ", "\t"}

\* inSingle and inDouble are never both true.
Beginning == [args |-> <<>>, cur |-> <<>>, quote |-> "none"]

EndOfWord(st) == IF st.cur = <<>> THEN st
                 ELSE [st EXCEPT !.args = Append(@, st.cur), !.cur = <<>>]

Toggled(st, q) == [st EXCEPT !.quote = IF @ = q THEN "none" ELSE q]

NextChar(st, c) ==
    CASE c = "'" /\ st.quote # "double" -> Toggled(st, "single")
      [] c = "\"" /\ st.quote # "single" -> Toggled(st, "double")
      [] c \in Blank /\ st.quote = "none" -> EndOfWord(st)
      [] OTHER -> [st EXCEPT !.cur = Append(@, c)]

SplitArgs(s) == EndOfWord(FoldLeft(NextChar, Beginning, s)).args
-----------------------------------------------------------------------------
\* Reference: each word in the quotes it does not hold, with a blank between words.
Quoted(word) == LET q == IF Contains(word, "'") THEN "\"" ELSE "'" IN <<q>> \o word \o <<q>>
Joined(words) == FoldLeft(LAMBDA s, w : IF s = <<>> THEN Quoted(w) ELSE s \o <<" ">> \o Quoted(w), <<>>, words)

\* "Respecting single and double quotes": words that are quoted come back as they were,
\* blanks and the other quote included; only empty ones are lost.
QuotedWordsComeBack(words) == SplitArgs(Joined(words)) = SelectSeq(words, LAMBDA w : w # <<>>)

\* "Unquoted tokens are split on whitespace": without quotes the words are the runs of
\* other characters, each between two blanks or ends.
RunsOf(s) ==
    {p \in (1 .. Len(s)) \X (1 .. Len(s)) :
        /\ p[1] <= p[2] /\ \A i \in p[1] .. p[2] : s[i] \notin Blank
        /\ p[1] = 1 \/ s[p[1] - 1] \in Blank
        /\ p[2] = Len(s) \/ s[p[2] + 1] \in Blank}
BlanksSplit(s) ==
    SplitArgs(s) = [k \in 1 .. Cardinality(RunsOf(s)) |->
                       LET p == SetToSortSeq(RunsOf(s), LAMBDA x, y : x[1] < y[1])[k]
                       IN  SubSeq(s, p[1], p[2])]

\* A quote that does not close reaches to the end.
UnclosedReachesToEnd(s, t) ==
    /\ ~Contains(s, "'") /\ ~Contains(s, "\"") /\ ~Contains(t, "'")
        => SplitArgs(s \o <<" ", "'">> \o t) = SplitArgs(s) \o (IF t = <<>> THEN <<>> ELSE <<t>>)
=============================================================================
