---------------------------- MODULE MCAmbProvider ----------------------------
(* A document that is delivered again with another text; one of no user    *)
(* with the same id; a blank one; two texts with one truncated payload.    *)
EXTENDS AmbProvider

CONSTANTS d1, d2, shared, long1, long2, short

D(id, user, text) == [id |-> id, user |-> user, text |-> text]

MCEmbedInput == [text \in Texts |-> IF text = long2 THEN long1 ELSE text]

MCDeliveries ==
  {<<D(d1, shared, long1), D(d2, shared, Blank), D(d1, NoUser, long1)>>,
   <<D(d1, shared, long2), D(d1, shared, long2)>>,
   <<D(d2, shared, short), D(d1, shared, long1)>>}
=============================================================================
