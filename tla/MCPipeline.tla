----------------------------- MODULE MCPipeline -----------------------------
(* Two questions that share a session; a session that is repeated under    *)
(* another id and date; a blank turn; a missing date; a twin dataset that  *)
(* differs in ids and evidence only; one item that is malformed.  A stray  *)
(* unit is a user turn of the first question only, a reply of the second   *)
(* only, or past the end of the session that they share.                   *)
EXTENDS Pipeline

CONSTANTS hi, ok, more, spaced

MCStripped == [t \in {hi, ok, more, Blank, spaced} |-> IF t = spaced THEN Blank ELSE t]

User(t, evidence) == [role |-> "user", text |-> t, evidence |-> evidence]
Reply(t) == [role |-> "assistant", text |-> t, evidence |-> FALSE]

Chat(evidence) == <<User(hi, evidence), Reply(ok)>>
Talk(evidence) == <<Reply(ok), User(spaced, FALSE), User(more, evidence)>>
Aside(evidence) == <<Reply(ok), User(more, evidence)>>

Sid(name, inAnswer) == [name |-> name, answer |-> inAnswer]

Item1(e) == [id |-> "q1", sessions |-> <<Chat(e), Talk(FALSE), Chat(FALSE)>>,
             ids |-> <<Sid("a1", e), Sid("b1", FALSE), Sid("c1", TRUE)>>, dates |-> <<2, 1, 3>>]
Item2(e) == [id |-> "q2", sessions |-> <<Aside(e), Chat(FALSE)>>,
             ids |-> <<Sid("a2", TRUE), Sid("b2", e)>>, dates |-> <<1>>]
Malformed == [Item2(FALSE) EXCEPT !.ids = <<Sid("a2", FALSE)>>]

Neutral(session) == [i \in DOMAIN session |-> [role |-> session[i].role, text |-> session[i].text]]

MCDatasets == {<<Item1(e), Item2(~e)>> : e \in BOOLEAN} \cup {<<Item1(TRUE), Malformed>>}
MCStrays == {<<Neutral(Talk(FALSE)), 3>>, <<Neutral(Aside(FALSE)), 1>>, <<Neutral(Chat(FALSE)), 3>>}
=============================================================================
