----------------------------- MODULE InputLogger -----------------------------
(***************************************************************************)
(* ptyInputLogger: what the control plane's audit log says has been typed  *)
(* into a terminal.  The keys come in pieces, which may end anywhere, in   *)
(* an escape sequence too.                                                 *)
(***************************************************************************)
EXTENDS Naturals, Sequences, SequencesExt

\* The keys that are told apart; every other printable one, and the tab, is like "a".
\* "[" and "O" are among the final bytes of an escape sequence, ";" and the blank are not.
Introducers == {"[", "O"}
Finals == {"[", "O", "a"}
Printable == {"a", " ", "[", "O", ";"}
Controls == {"ESC", "CR", "DEL", "^C", "^D", "^U", "^W", "NUL"}
Keys == Printable \cup Controls

Fresh == [buf |-> <<>>, escState |-> 0, log |-> <<>>]

\* ^W: the blanks at the end, then the word before them.
KillWord(buf) ==
    LET End(P(_)) == Max({0} \cup {i \in 1 .. Len(buf) : P(buf[i])})
        word == SubSeq(buf, 1, End(LAMBDA c : c # " "))
        Ends == {0} \cup {i \in 1 .. Len(word) : word[i] = " "}
    IN  SubSeq(word, 1, Max(Ends))

Plain(p, r) ==
    CASE r = "ESC" -> [p EXCEPT !.escState = 1]
      [] r \in {"CR", "^C", "^D"} -> [p EXCEPT !.buf = <<>>, !.log = Append(@, <<r, p.buf>>)]
      [] r = "DEL" -> [p EXCEPT !.buf = IF @ = <<>> THEN @ ELSE Front(@)]
      [] r = "^U" -> [p EXCEPT !.buf = <<>>]
      [] r = "^W" -> [p EXCEPT !.buf = KillWord(@)]
      [] r \in Printable -> [p EXCEPT !.buf = Append(@, r)]
      [] OTHER -> p

FeedKey(p, r) ==
    CASE p.escState = 1 -> [p EXCEPT !.escState = IF r \in Introducers THEN 2 ELSE 0]
      [] p.escState = 2 -> [p EXCEPT !.escState = IF r \in Finals THEN 0 ELSE 2]
      [] OTHER -> Plain(p, r)

Feed(p, data) == FoldLeft(FeedKey, p, data)
-----------------------------------------------------------------------------
\* Reference, for keys without escapes and ^W: what stands in the line when an ender is hit
\* at position n.  A character stands unless the deletions after it have been more than the
\* characters after it, counted up to some point, or the whole line was killed.
Enders == {"CR", "^C", "^D"}
Number(s, i, j, kinds) == Cardinality({k \in i .. j : s[k] \in kinds})
Stands(s, i, n) ==
    /\ s[i] \in Printable
    /\ \A j \in i + 1 .. n - 1 :
        /\ s[j] \notin Enders \cup {"^U"}
        /\ Number(s, i + 1, j, {"DEL"}) <= Number(s, i + 1, j, Printable)
Line(s, n) == LET At == SetToSortSeq({i \in 1 .. n - 1 : Stands(s, i, n)}, <)
              IN  [k \in 1 .. Len(At) |-> s[At[k]]]

\* "So the logged command line reflects what the user actually typed at the prompt": each
\* Enter, ^C and ^D is logged, in order, with the line that was left by then.
LogsWhatIsLeft(s) ==
    LET At == SetToSortSeq({n \in 1 .. Len(s) : s[n] \in Enders}, <)
    IN  Feed(Fresh, s).log = [k \in 1 .. Len(At) |-> <<s[At[k]], Line(s, At[k])>>]

\* An escape sequence in the middle of a line leaves nothing behind, however the keys are
\* cut into pieces.
EscapesAreSwallowed(before, escape, after) ==
    \A n \in 0 .. Len(escape) :
        Feed(Feed(Feed(Fresh, before), SubSeq(escape, 1, n)), SubSeq(escape, n + 1, Len(escape)) \o after)
            = Feed(Fresh, before \o after)

\* ^W takes the last word and the blanks after it, and leaves the blank before it.
WordsAreKilled(before, word, blanks) ==
    (" " \notin Range(word) /\ (before # <<>> => Last(before) = " ")) =>
        Feed(Fresh, before \o word \o blanks \o <<"^W">>).buf =
            IF word # <<>> THEN before ELSE Feed(Fresh, before \o <<"^W">>).buf
=============================================================================
