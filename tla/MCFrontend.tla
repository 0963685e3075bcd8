----------------------------- MODULE MCFrontend -----------------------------
\* Builds of two versions, and what may go wrong meanwhile.
EXTENDS Frontend

CONSTANTS v1, v2

Mild == {<<0, 1, 0>>} \cup ((0..3) \X {0} \X (0..2))
Rough == {<<0, 0, 0>>, <<1, 0, 0>>, <<1, 1, 0>>}
Raced == {<<0, 0, 0>>, <<0, 0, 1>>, <<0, 1, 0>>, <<0, 1, 1>>}
=============================================================================
