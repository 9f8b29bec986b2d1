---------------------------- MODULE MemoryBanks ----------------------------
(***************************************************************************)
(* What the AMB provider promises its harness, with no word on how: one    *)
(* shelf of documents for each isolation unit.  A document is put on the   *)
(* shelf of its own user and stays there until everything is wiped.  Who   *)
(* asked, and for how many, is part of the state, so that an answer can be *)
(* held to it: it ranks documents of the asking user's shelf, each id once *)
(* and no more than were asked for, and nobody is answered unasked.        *)
(***************************************************************************)
EXTENDS Naturals, Sequences

CONSTANTS
  Users,      \* isolation units, "none declared" being one of them
  Documents,  \* records with the id and the user of a document
  Depths,     \* the depths a harness may ask for
  DefaultK    \* the depth that stands for one that is not positive

VARIABLES
  shelf,    \* the documents each user can be answered with
  asked,    \* the user and the depth of the last request
  waiting,  \* whether it is still to be answered
  answer    \* the documents of the last answer, <<>> if there is none

vars == <<shelf, asked, waiting, answer>>

Breadth(k) == IF k > 0 THEN k ELSE DefaultK

Bare == [user \in Users |-> {}]

Rankings(documents, breadth) ==
  {ranked \in UNION {[1..n -> documents] : n \in 0..breadth} :
     \A i, j \in DOMAIN ranked : ranked[i].id = ranked[j].id => i = j}

Init ==
  /\ shelf = Bare /\ asked \in [user : Users, k : Nat] /\ waiting = FALSE /\ answer = <<>>

Silent == waiting' = FALSE /\ answer' = <<>>

Place(document) ==
  /\ shelf' = [shelf EXCEPT ![document.user] = @ \cup {document}]
  /\ Silent /\ UNCHANGED asked

(* A request may be refused at once. *)
Ask(user, k) ==
  /\ asked' = [user |-> user, k |-> k]
  /\ waiting' \in BOOLEAN /\ answer' = <<>>
  /\ UNCHANGED shelf

Answer ==
  /\ waiting
  /\ waiting' = FALSE
  /\ answer' \in Rankings(shelf[asked.user], Breadth(asked.k))
  /\ UNCHANGED <<shelf, asked>>

Wipe == shelf' = Bare /\ Silent /\ UNCHANGED asked

(* Another call begins, or one fails: the old answer is gone. *)
Forget == Silent /\ UNCHANGED <<shelf, asked>>

Next ==
  \/ \E document \in Documents : Place(document)
  \/ \E user \in Users, k \in Depths : Ask(user, k)
  \/ Answer
  \/ Wipe
  \/ Forget

Spec == Init /\ [][Next]_vars
=============================================================================
