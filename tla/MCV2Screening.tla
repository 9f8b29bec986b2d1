--------------------------- MODULE MCV2Screening ---------------------------
(* Two questions: a trajectory with two states; one whose two states have  *)
(* the same index and step and collapse to one text when limited, with a   *)
(* trajectory that is refused.  Baselines differ in one, both, no or other *)
(* questions.                                                              *)
EXTENDS V2Screening, TLC

CONSTANTS a, b, c, d, t1, t2, ka, kb, kd

State(index, text) == [index |-> index, step |-> index, text |-> text]

Walk == [id |-> t1, states |-> <<State(0, a), State(1, b)>>]
Pause == [id |-> t2, states |-> <<State(0, c), State(0, d)>>]
Refused == [id |-> NoId, states |-> <<State(0, a)>>]

MCLimit == [text \in Texts |-> IF text = c THEN d ELSE text]
MCKeyOf == [text \in Texts |-> IF text = a THEN ka ELSE IF text = b THEN kb ELSE kd]

MCQuestions == <<[id |-> "q1", haystack |-> {Walk}], [id |-> "q2", haystack |-> {Pause, Refused}]>>

MCOldRows == <<[id |-> "q0", context |-> <<a>>]>>
MCOldLog == [id \in {"q0"} |-> <<kb>>]

Pair(first, second) == [id \in {"q1", "q2"} |-> IF id = "q1" THEN first ELSE second]

MCBaselines == {Pair(<<ka, kb>>, <<kd>>), Pair(<<ka, kd>>, <<>>), MCOldLog}

Symmetry == Permutations(Connections)
=============================================================================
