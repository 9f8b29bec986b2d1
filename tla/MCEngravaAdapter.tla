-------------------------- MODULE MCEngravaAdapter --------------------------
(* Small corpora: a turn that is repeated, with a blank one between; two   *)
(* long texts with one payload, and a third; a corpus of blanks only.      *)
EXTENDS EngravaAdapter, TLC

CONSTANTS u1, u2, u3, s1, s2, long1, long2, short

T(u, s, i, t) == [unit |-> u, session |-> s, index |-> i, text |-> t]

MCEmbedInput == [t \in Texts |-> IF t = long2 THEN long1 ELSE t]

Repeated == <<T(u1, s1, 0, short), T(u2, s1, 1, Blank), T(u1, s1, 0, short)>>
Truncated == <<T(u1, s1, 0, long1), T(u2, s2, 0, long2), T(u3, s2, 2, short)>>
Blanks == <<T(u3, s2, 2, Blank)>>

MCCorpora == {Repeated, Truncated, Blanks}
OneCorpus == {Truncated}

Symmetry == Permutations(Connections) \cup Permutations(Loops)
=============================================================================
