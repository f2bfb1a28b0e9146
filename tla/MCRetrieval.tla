----------------------------- MODULE MCRetrieval -----------------------------
EXTENDS Retrieval, TLC
\* Two files; a text of two windows and one of a single window.
TwoFiles == <<"a", "b">>
OneFile == <<"a">>
TwoTexts == <<2, 1>>
Symmetry == Permutations(Jobs)
=============================================================================
