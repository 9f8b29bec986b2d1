------------------------- MODULE AmbProviderProofs -------------------------
(***************************************************************************)
(* Theorems about AmbProvider, for any users, documents, deliveries and    *)
(* depths: its connections, the ids of its thoughts, and that it keeps the *)
(* banks apart as MemoryBanks promises.                                    *)
(***************************************************************************)
EXTENDS AmbProvider, SequenceTheorems, TLAPS

-----------------------------------------------------------------------------
(* Keys, deliveries and their ids. *)

USE DEF Searched

LEMMA KeyTyping == \A user \in Users \cup {NoUser} : BankKey(user) \in Keys
BY DEF Keys

(* No user, whatever its name, has the bank of another or of none. *)
LEMMA KeyInjective ==
  ASSUME NEW user \in Users \cup {NoUser}, NEW other \in Users \cup {NoUser},
         BankKey(user) = BankKey(other)
  PROVE  user = other
BY DEF BankKey

LEMMA DeliveryTyping ==
  ASSUME delivery \in Seq(Documents)
  PROVE  /\ Len(delivery) \in Nat /\ DOMAIN delivery = 1..Len(delivery)
         /\ NonBlank \subseteq DOMAIN delivery
         /\ \A i \in DOMAIN delivery :
              /\ delivery[i] \in Documents
              /\ delivery[i].user \in Users \cup {NoUser}
              /\ KeyAt(i) \in Keys
         /\ \A i \in NonBlank : PayloadAt(i) \in Texts
<1>1. Len(delivery) \in Nat /\ DOMAIN delivery = 1..Len(delivery)
  BY LenProperties
<1>2. \A i \in DOMAIN delivery : delivery[i] \in Documents
  BY <1>1, ElementOfSeq
<1>3. \A i \in DOMAIN delivery : KeyAt(i) \in Keys
  BY <1>2, KeyTyping DEF KeyAt, Documents
<1>4. \A i \in NonBlank : PayloadAt(i) \in Texts
  BY <1>2, TextAssumption DEF NonBlank, PayloadAt, Documents
<1>5. QED  BY <1>1, <1>2, <1>3, <1>4 DEF NonBlank, Documents

LEMMA IdTyping ==
  ASSUME TypeOK, NEW i \in DOMAIN plan
  PROVE  IdAt(i) \in ThoughtIds /\ i \in NonBlank /\ plan[i] \in Nat
<1>1. i \in NonBlank /\ plan[i] \in Nat
  BY DEF TypeOK
<1>2. delivery[i] \in Documents /\ KeyAt(i) \in Keys
  BY <1>1, DeliveryTyping DEF TypeOK
<1>3. QED  BY <1>1, <1>2 DEF IdAt, ThoughtId, ThoughtIds, Documents, KeyAt

LEMMA WithTyping ==
  ASSUME NEW S, NEW T, NEW map, DOMAIN map \subseteq S, map \in [DOMAIN map -> T],
         NEW id \in S, NEW value \in T
  PROVE  /\ DOMAIN With(map, id, value) = DOMAIN map \cup {id}
         /\ DOMAIN With(map, id, value) \subseteq S
         /\ With(map, id, value) \in [DOMAIN With(map, id, value) -> T]
BY DEF With

LEMMA HitsTyping ==
  ASSUME NEW S, NEW n \in Nat, NEW s \in Injection(1..n, S)
  PROVE  /\ s \in Seq(S) /\ Len(s) = n /\ DOMAIN s = 1..n
         /\ \A i, j \in 1..n : s[i] = s[j] => i = j
<1>1. s \in [1..n -> S] /\ \A i, j \in 1..n : s[i] = s[j] => i = j
  BY DEF Injection, IsInjective
<1>2. QED  BY <1>1

-----------------------------------------------------------------------------
(* Types. *)

(* The banks' own maps, of which a step changes one entry or all. *)
BanksTyped ==
  /\ conn \in [Keys -> Connections \cup {None}] /\ ordinals \in [Keys -> Nat]
  /\ \A key \in Keys :
       /\ DOMAIN known[key] \subseteq ThoughtIds
       /\ known[key] \in [DOMAIN known[key] -> Documents]
       /\ thoughts[key] \subseteq ThoughtIds
       /\ DOMAIN vectors[key] \subseteq ThoughtIds
       /\ vectors[key] \in [DOMAIN vectors[key] -> Texts]
  /\ DOMAIN known = Keys /\ DOMAIN thoughts = Keys /\ DOMAIN vectors = Keys

(* The locals and arguments of a call. *)
CallTyped ==
  /\ looped \in BOOLEAN
  /\ open \subseteq Connections /\ spoiled \subseteq Connections
  /\ closing \subseteq Connections /\ fresh \in Connections \cup {None}
  /\ pc \in {"idle", "plan", "setup", "embed", "create_thought", "store_embedding", "place",
             "close", "gone"}
  /\ op \in {"ingest", "retrieve", "cleanup", "collect"}
  /\ outcome \in {"none", "pending", "returned", "found", "released", "raised"}
  /\ delivery \in Seq(Documents) /\ at \in Nat \ {0}
  /\ DOMAIN plan \subseteq NonBlank /\ plan \in [DOMAIN plan -> Nat]
  /\ todo \subseteq DOMAIN plan /\ embedded \subseteq Texts
  /\ asked \in [user : Users \cup {NoUser}, k : Nat]
  /\ hits \in Seq(ThoughtIds) /\ ranked \in Seq(Documents)
  /\ failed \in BOOLEAN
  /\ pc = "setup" => fresh \in Connections

Typed == BanksTyped /\ CallTyped

LEMMA TypedParts == Typed => BanksTyped /\ CallTyped /\ TypeOK
BY DEF Typed, TypeOK, BanksTyped, CallTyped

LEMMA InitTyped == Init => Typed
<1> SUFFICES ASSUME Init PROVE Typed  OBVIOUS
<1>1. /\ known = [key \in Keys |-> Empty] /\ vectors = [key \in Keys |-> Empty]
      /\ thoughts = [key \in Keys |-> {}]
  BY DEF Init
<1>2. DOMAIN known = Keys /\ DOMAIN thoughts = Keys /\ DOMAIN vectors = Keys
  BY <1>1
<1>3. \A key \in Keys :
        /\ DOMAIN known[key] \subseteq ThoughtIds
        /\ known[key] \in [DOMAIN known[key] -> Documents]
        /\ thoughts[key] \subseteq ThoughtIds
        /\ DOMAIN vectors[key] \subseteq ThoughtIds
        /\ vectors[key] \in [DOMAIN vectors[key] -> Texts]
  BY <1>1 DEF Empty
<1>4. DOMAIN plan \subseteq NonBlank /\ plan \in [DOMAIN plan -> Nat] /\ todo \subseteq DOMAIN plan
  BY DEF Init, Empty
<1>5. delivery \in Seq(Documents) /\ hits \in Seq(ThoughtIds) /\ ranked \in Seq(Documents)
  BY EmptySeq DEF Init
<1>6. asked \in [user : Users \cup {NoUser}, k : Nat]
  BY DEF Init
<1>7. conn \in [Keys -> Connections \cup {None}] /\ ordinals \in [Keys -> Nat]
  BY DEF Init
<1>8. /\ open = {} /\ spoiled = {} /\ closing = {} /\ fresh = None /\ embedded = {}
      /\ pc = "idle" /\ op = "cleanup" /\ outcome = "none" /\ at = 1
  BY DEF Init
<1>9. looped \in BOOLEAN /\ failed \in BOOLEAN
  BY Zenon DEF Init
<1>10. QED
  BY <1>2, <1>3, <1>4, <1>5, <1>6, <1>7, <1>8, <1>9 DEF Typed, BanksTyped, CallTyped

LEMMA DroppedTyped == DropBanks => BanksTyped'
<1> SUFFICES ASSUME DropBanks PROVE BanksTyped'  OBVIOUS
<1>1. /\ known' = [key \in Keys |-> Empty] /\ vectors' = [key \in Keys |-> Empty]
      /\ thoughts' = [key \in Keys |-> {}]
      /\ conn' = [key \in Keys |-> None] /\ ordinals' = [key \in Keys |-> 0]
  BY DEF DropBanks
<1>2. QED  BY <1>1 DEF BanksTyped, Empty

LEMMA NextBanksTyped == Typed /\ [Next]_vars => BanksTyped'
<1> SUFFICES ASSUME Typed, [Next]_vars PROVE BanksTyped'  OBVIOUS
<1>0. BanksTyped /\ CallTyped /\ TypeOK
  BY TypedParts
<1>1. ASSUME UNCHANGED <<bankVars, engineVars>> PROVE BanksTyped'
  BY <1>0, <1>1 DEF BanksTyped, bankVars, engineVars
<1>2. CASE PlanDocument
  <2>1. UNCHANGED <<conn, known, engineVars>>
    BY <1>2 DEF PlanDocument
  <2>2. ordinals' \in [Keys -> Nat]
    BY <1>0, <1>2 DEF PlanDocument, BanksTyped, Banks
  <2>3. QED  BY <1>0, <2>1, <2>2 DEF BanksTyped, engineVars
<1>3. CASE RegisterBank
  <2>1. PICK key : key = KeyAt(at)
    BY Zenon
  <2>2. /\ conn' = [conn EXCEPT ![key] = fresh]
        /\ ordinals' = [ordinals EXCEPT ![key] = 0]
        /\ known' = [known EXCEPT ![key] = Empty]
        /\ thoughts' = [thoughts EXCEPT ![key] = {}]
        /\ vectors' = [vectors EXCEPT ![key] = Empty]
    BY <1>3, <2>1 DEF RegisterBank
  <2>3. fresh \in Connections \cup {None}
    BY <1>0 DEF CallTyped
  <2>4. DOMAIN Empty = {} /\ Empty \in [{} -> Documents] /\ Empty \in [{} -> Texts]
    BY DEF Empty
  <2>5. conn' \in [Keys -> Connections \cup {None}] /\ ordinals' \in [Keys -> Nat]
    BY <1>0, <2>2, <2>3 DEF BanksTyped
  <2>6. QED  BY <1>0, <2>2, <2>4, <2>5 DEF BanksTyped
<1>4. CASE CreateThought
  <2>1. PICK i \in todo : thoughts' = [thoughts EXCEPT ![KeyAt(i)] = @ \cup {IdAt(i)}]
    BY <1>4 DEF CreateThought
  <2>2. IdAt(i) \in ThoughtIds
    BY <1>0, IdTyping DEF CallTyped
  <2>3. UNCHANGED <<bankVars, vectors>>
    BY <1>4 DEF CreateThought
  <2>4. QED  BY <1>0, <2>1, <2>2, <2>3 DEF BanksTyped, bankVars
<1>5. CASE StoreEmbedding
  <2>1. PICK i \in todo :
          /\ vectors' = [vectors EXCEPT ![KeyAt(i)] = With(@, IdAt(i), PayloadAt(i))]
          /\ known' = [known EXCEPT ![KeyAt(i)] = With(@, IdAt(i), delivery[i])]
    BY <1>5 DEF StoreEmbedding
  <2>2. /\ IdAt(i) \in ThoughtIds /\ i \in NonBlank
        /\ delivery[i] \in Documents /\ PayloadAt(i) \in Texts /\ KeyAt(i) \in Keys
    BY <1>0, IdTyping, DeliveryTyping DEF CallTyped
  <2> DEFINE key == KeyAt(i)
             mapping == With(known[key], IdAt(i), delivery[i])
             vector == With(vectors[key], IdAt(i), PayloadAt(i))
  <2>3. DOMAIN mapping \subseteq ThoughtIds /\ mapping \in [DOMAIN mapping -> Documents]
    <3>1. PICK map, id, value : map = known[key] /\ id = IdAt(i) /\ value = delivery[i]
      BY Zenon
    <3>2. /\ DOMAIN map \subseteq ThoughtIds /\ map \in [DOMAIN map -> Documents]
          /\ id \in ThoughtIds /\ value \in Documents
      BY <1>0, <2>2, <3>1 DEF BanksTyped
    <3>3. /\ DOMAIN With(map, id, value) \subseteq ThoughtIds
          /\ With(map, id, value) \in [DOMAIN With(map, id, value) -> Documents]
      BY Zenon, <3>2, WithTyping
    <3>4. mapping = With(map, id, value)
      BY Zenon, <3>1
    <3>5. QED  BY Zenon, <3>3, <3>4
  <2>4. DOMAIN vector \subseteq ThoughtIds /\ vector \in [DOMAIN vector -> Texts]
    <3>1. PICK map, id, value : map = vectors[key] /\ id = IdAt(i) /\ value = PayloadAt(i)
      BY Zenon
    <3>2. /\ DOMAIN map \subseteq ThoughtIds /\ map \in [DOMAIN map -> Texts]
          /\ id \in ThoughtIds /\ value \in Texts
      BY <1>0, <2>2, <3>1 DEF BanksTyped
    <3>3. /\ DOMAIN With(map, id, value) \subseteq ThoughtIds
          /\ With(map, id, value) \in [DOMAIN With(map, id, value) -> Texts]
      BY Zenon, <3>2, WithTyping
    <3>4. vector = With(map, id, value)
      BY Zenon, <3>1
    <3>5. QED  BY Zenon, <3>3, <3>4
  <2>5. known' = [known EXCEPT ![key] = mapping] /\ vectors' = [vectors EXCEPT ![key] = vector]
    BY <2>1
  <2>6. UNCHANGED <<conn, ordinals, thoughts>>
    BY <1>5 DEF StoreEmbedding
  <2> HIDE DEF mapping, vector, key
  <2>7. QED  BY <1>0, <2>2, <2>3, <2>4, <2>5, <2>6 DEF BanksTyped
<1>6. ASSUME NEW call, CallCleanup(call) \/ CleanupInsideLoop(call) PROVE BanksTyped'
  BY <1>6, DroppedTyped DEF CallCleanup, CleanupInsideLoop
<1>7. CASE CallIngest \/ CallInsideLoop \/ SkipBlank \/ Connect \/ ConnectRaises \/ SetUpRaises
           \/ PlansMade \/ EmbedBatch \/ EmbedRaises \/ Embedded \/ StoreRaises \/ IngestReturns
           \/ PlaceHit \/ RetrieveReturns \/ CloseBank \/ CloseBankRaises \/ CleanupReturns
           \/ CleanupInterrupted \/ UNCHANGED vars
  BY <1>1, <1>7 DEF CallIngest, CallInsideLoop, SkipBlank, Connect, ConnectRaises, SetUpRaises,
       PlansMade, EmbedBatch, EmbedRaises, Embedded, StoreRaises, IngestReturns, PlaceHit,
       RetrieveReturns, CloseBank, CloseBankRaises, CleanupReturns, CleanupInterrupted, vars, Raises
<1>8. ASSUME NEW user, NEW k, Retrieve(user, k) \/ RetrieveRaises(user, k) PROVE BanksTyped'
  BY <1>1, <1>8 DEF Retrieve, RetrieveRaises
<1>9. QED
  BY <1>2, <1>3, <1>4, <1>5, <1>6, <1>7, <1>8 DEF Next, Ingesting, Retrieving, Cleaning

LEMMA NextCallTyped == Typed /\ [Next]_vars => CallTyped'
<1> SUFFICES ASSUME Typed, [Next]_vars PROVE CallTyped'  OBVIOUS
<1>0. BanksTyped /\ CallTyped /\ TypeOK
  BY TypedParts
<1> USE DEF CallTyped, Goto, ingestVars, searchVars, closeVars
<1>1. UNCHANGED delivery => NonBlank' = NonBlank
  BY DEF NonBlank
<1>2. ForgetAnswer => hits' \in Seq(ThoughtIds) /\ ranked' \in Seq(Documents) /\ UNCHANGED asked
  BY EmptySeq DEF ForgetAnswer
<1>3. ASSUME NEW from, Raises(from), open' \subseteq Connections, spoiled' \subseteq Connections
      PROVE CallTyped'
  BY <1>0, <1>1, <1>3 DEF Raises
<1>4. CASE ConnectRaises \/ SetUpRaises \/ EmbedRaises \/ StoreRaises
  <2>1. open' \subseteq Connections /\ spoiled' \subseteq Connections
    <3>1. CASE SetUpRaises
      BY <1>0, <3>1 DEF SetUpRaises, Spoil, Raises
    <3>2. QED  BY <1>0, <1>4, <3>1 DEF ConnectRaises, EmbedRaises, StoreRaises
  <2>2. PICK from : Raises(from)
    BY <1>4 DEF ConnectRaises, SetUpRaises, EmbedRaises, StoreRaises
  <2>3. QED  BY <1>3, <2>1, <2>2
<1>5. CASE CallIngest
  <2>1. delivery' \in Seq(Documents)
    BY <1>5, DeliveriesAssumption DEF CallIngest
  <2>2. DOMAIN plan' = {} /\ plan' \in [DOMAIN plan' -> Nat] /\ todo' = {} /\ embedded' = {}
    BY <1>5 DEF CallIngest, Empty
  <2>3. QED  BY <1>0, <1>2, <1>5, <2>1, <2>2 DEF CallIngest
<1>6. CASE CallInsideLoop
  BY <1>0, <1>1, <1>2, <1>6 DEF CallInsideLoop
<1>7. CASE SkipBlank
  BY <1>0, <1>1, <1>7 DEF SkipBlank
<1>8. CASE PlanDocument
  <2>1. at \in NonBlank /\ KeyAt(at) \in Keys
    BY <1>8 DEF PlanDocument, Banks
  <2>2. ordinals[KeyAt(at)] \in Nat
    BY <1>0, <2>1 DEF BanksTyped
  <2>3. DOMAIN plan' = DOMAIN plan \cup {at} /\ plan' \in [DOMAIN plan' -> Nat]
    BY <1>0, <1>8, <2>2 DEF PlanDocument
  <2>4. QED  BY <1>0, <1>1, <1>8, <2>1, <2>3 DEF PlanDocument
<1>9. CASE Connect \/ RegisterBank
  BY <1>0, <1>1, <1>9 DEF Connect, RegisterBank
<1>10. CASE PlansMade \/ Embedded
  BY <1>0, <1>1, <1>10 DEF PlansMade, Embedded
<1>11. CASE EmbedBatch
  <2>1. Unembedded \subseteq Texts
    BY <1>0, DeliveryTyping DEF Unembedded
  <2>2. embedded' \subseteq Texts
    BY <1>0, <1>11, <2>1 DEF EmbedBatch
  <2>3. QED  BY <1>0, <1>1, <1>11, <2>2 DEF EmbedBatch
<1>12. CASE CreateThought
  BY <1>0, <1>1, <1>12 DEF CreateThought
<1>13. CASE StoreEmbedding
  BY <1>0, <1>1, <1>13 DEF StoreEmbedding
<1>14. CASE IngestReturns
  BY <1>0, <1>1, <1>14 DEF IngestReturns
<1>15. ASSUME NEW user \in Users \cup {NoUser}, NEW k \in Depths,
              Retrieve(user, k) \/ RetrieveRaises(user, k)
       PROVE CallTyped'
  <2>1. BankKey(user) \in Keys /\ k \in Nat /\ Breadth(k) \in Nat
    BY KeyTyping, SizeAssumption DEF Breadth
  <2>2. asked' \in [user : Users \cup {NoUser}, k : Nat]
    BY <1>15, <2>1 DEF Retrieve, RetrieveRaises
  <2>3. hits' \in Seq(ThoughtIds) /\ ranked' \in Seq(Documents)
    <3>1. CASE hits' = <<>>
      BY <1>15, <3>1, EmptySeq DEF Retrieve, RetrieveRaises
    <3>2. CASE Retrieve(user, k) /\ BankKey(user) \in Banks
      <4>1. PICK n \in 0..Breadth(k) : hits' \in Injection(1..n, thoughts[BankKey(user)])
        BY <3>2 DEF Retrieve
      <4>2. n \in Nat /\ thoughts[BankKey(user)] \subseteq ThoughtIds
        BY <1>0, <2>1 DEF BanksTyped
      <4>3. hits' \in Injection(1..n, ThoughtIds)
        BY <4>1, <4>2 DEF Injection
      <4>4. hits' \in Seq(ThoughtIds)
        BY <4>2, <4>3, HitsTyping
      <4>5. QED  BY <3>2, <4>4, EmptySeq DEF Retrieve
    <3>3. QED  BY <1>15, <3>1, <3>2 DEF Retrieve, RetrieveRaises
  <2>4. /\ looped' = TRUE /\ op' = "retrieve" /\ outcome' \in {"pending", "raised"}
        /\ pc' \in {"place", "idle"} /\ at' \in {1, at}
        /\ UNCHANGED <<open, fresh, ingestVars, closeVars, spoiled>>
    BY <1>15 DEF Retrieve, RetrieveRaises
  <2>5. QED  BY <1>0, <1>1, <2>2, <2>3, <2>4
<1>16. CASE PlaceHit
  <2>1. ranked' \in Seq(Documents)
    <3>1. CASE hits[at] \in DOMAIN KnownToAsked /\ KnownToAsked[hits[at]].id \notin Placed
      <4>1. BankKey(asked.user) \in Keys
        BY <1>0, KeyTyping
      <4>2. KnownToAsked[hits[at]] \in Documents
        BY <1>0, <3>1, <4>1 DEF KnownToAsked, BanksTyped
      <4>3. QED  BY <1>0, <1>16, <3>1, <4>2, AppendProperties DEF PlaceHit
    <3>2. QED  BY <1>0, <1>16, <3>1 DEF PlaceHit
  <2>2. QED  BY <1>0, <1>1, <1>16, <2>1 DEF PlaceHit
<1>17. CASE RetrieveReturns
  BY <1>0, <1>1, <1>17 DEF RetrieveReturns
<1>18. ASSUME NEW call \in {"cleanup", "collect"}, CallCleanup(call) \/ CleanupInsideLoop(call)
       PROVE CallTyped'
  <2>1. Held \subseteq Connections
    BY <1>0 DEF Held, Banks, BanksTyped
  <2>2. open' \subseteq Connections /\ spoiled' \subseteq Connections
    BY <1>0, <1>18, <2>1 DEF CallCleanup, CleanupInsideLoop, Spoil
  <2>3. closing' \subseteq Connections /\ looped' \in BOOLEAN /\ failed' \in BOOLEAN
    BY <1>0, <1>18, <2>1 DEF CallCleanup, CleanupInsideLoop
  <2>4. QED
    BY <1>0, <1>1, <1>2, <1>18, <2>2, <2>3 DEF CallCleanup, CleanupInsideLoop, Ends
<1>19. CASE CloseBank \/ CloseBankRaises
  <2>1. open' \subseteq Connections /\ spoiled' \subseteq Connections /\ closing' \subseteq Connections
    BY <1>0, <1>19 DEF CloseBank, CloseBankRaises, Spoil
  <2>2. failed' \in BOOLEAN
    BY <1>0, <1>19, Zenon DEF CloseBank, CloseBankRaises
  <2>3. QED  BY <1>0, <1>1, <1>19, <2>1, <2>2 DEF CloseBank, CloseBankRaises
<1>20. CASE CleanupReturns \/ CleanupInterrupted
  <2>1. open' \subseteq Connections /\ spoiled' \subseteq Connections /\ closing' = {}
    BY <1>0, <1>20 DEF CleanupReturns, CleanupInterrupted, Spoil
  <2>2. outcome' \in {"raised", "released"} /\ pc' \in {"gone", "idle"}
    BY <1>20 DEF CleanupReturns, CleanupInterrupted, Ends
  <2>3. QED  BY <1>0, <1>1, <1>20, <2>1, <2>2 DEF CleanupReturns, CleanupInterrupted
<1>21. CASE UNCHANGED vars
  BY <1>0, <1>1, <1>21 DEF vars
<1>22. QED
  BY <1>4, <1>5, <1>6, <1>7, <1>8, <1>9, <1>10, <1>11, <1>12, <1>13, <1>14, <1>15, <1>16, <1>17,
     <1>18, <1>19, <1>20, <1>21 DEF Next, Ingesting, Retrieving, Cleaning

(* Every attribute, local and entry of a bank has its type, through every  *)
(* call, failure and interrupt.                                            *)
THEOREM TypeCorrect == Spec => []TypeOK
<1>1. Typed /\ [Next]_vars => Typed'
  BY NextBanksTyped, NextCallTyped DEF Typed
<1>2. Typed => TypeOK
  BY TypedParts
<1>3. QED  BY InitTyped, <1>1, <1>2, PTL DEF Spec

-----------------------------------------------------------------------------
(* The inductive invariant. *)

Working == {"plan", "setup", "embed", "create_thought", "store_embedding"}

(* Whose a connection is: a local, a bank's, a clean-up's.                 *)
Resources ==
  /\ pc # "setup" => fresh = None
  /\ pc = "setup" => at \in NonBlank /\ KeyAt(at) \notin Banks
  /\ pc # "close" => closing = {}
  /\ pc = "close" => Banks = {}
  /\ pc \in Working => looped
  /\ ~looped => Banks = {}
  /\ NoLeakWithoutFault

(* The ordinals in use stay below the counters, the ids to come are new.   *)
Numbered ==
  /\ \A key \in Keys :
       /\ \A id \in thoughts[key] : id[3] < ordinals[key]
       /\ DOMAIN known[key] \subseteq thoughts[key]
       /\ key \notin Banks => known[key] = Empty
  /\ \A i, j \in DOMAIN plan : IdAt(i) = IdAt(j) => i = j
  /\ pc \in {"plan", "setup"} => \A i \in DOMAIN plan : i < at
  /\ pc \in Working =>
       /\ \A i \in DOMAIN plan : KeyAt(i) \in Banks /\ plan[i] < ordinals[KeyAt(i)]
       /\ \A i \in todo : IdAt(i) \notin DOMAIN known[KeyAt(i)]
       /\ \A i \in todo :
            IdAt(i) \in thoughts[KeyAt(i)] <=> pc = "store_embedding" /\ IsNext(i)

(* The answer in the making, after at - 1 hits.                            *)
Answering ==
  /\ pc \notin {"idle", "gone"} => outcome = "pending"
  /\ pc = "place" =>
       /\ asked.k \in Depths
       /\ Len(hits) <= Breadth(asked.k) /\ at <= Len(hits) + 1 /\ Len(ranked) < at
       /\ \A r \in DOMAIN ranked : ranked[r] \in Shelf(asked.user)
       /\ \A r, s \in DOMAIN ranked : ranked[r].id = ranked[s].id => r = s

IInv == Typed /\ Resources /\ Numbered /\ Answering

LEMMA InitInv == Init => Resources /\ Numbered /\ Answering
<1> SUFFICES ASSUME Init PROVE Resources /\ Numbered /\ Answering  OBVIOUS
<1>1. Banks = {}
  BY DEF Init, Banks
<1>2. Resources
  BY <1>1 DEF Init, Resources, NoLeakWithoutFault, Working
<1>3. \A key \in Keys : thoughts[key] = {} /\ known[key] = Empty /\ DOMAIN Empty = {}
  BY DEF Init, Empty
<1>4. DOMAIN plan = {} /\ pc = "idle"
  BY DEF Init, Empty
<1>5. Numbered
  BY <1>3, <1>4 DEF Numbered, Working
<1>6. QED  BY <1>2, <1>4, <1>5 DEF Answering

LEMMA NextResources == IInv /\ [Next]_vars => Resources'
<1> SUFFICES ASSUME IInv, [Next]_vars PROVE Resources'  OBVIOUS
<1>0. BanksTyped /\ CallTyped /\ Resources
  BY DEF IInv, Typed
<1> USE DEF Resources, NoLeakWithoutFault, Goto, Working, ingestVars, searchVars, closeVars, bankVars
<1>1. UNCHANGED conn => Banks' = Banks /\ Held' = Held
  BY DEF Banks, Held
<1>3. DropBanks => Banks' = {}
  BY DEF DropBanks, Banks
<1>4. ASSUME NEW from, Raises(from), UNCHANGED <<open, spoiled>>,
             from \notin {"setup", "close"}
      PROVE  Resources'
  BY <1>0, <1>1, <1>4 DEF Raises
<1>5. CASE ConnectRaises \/ EmbedRaises \/ StoreRaises
  BY <1>4, <1>5 DEF ConnectRaises, EmbedRaises, StoreRaises
<1>6. CASE SetUpRaises
  BY <1>0, <1>1, <1>6 DEF SetUpRaises, Raises, Spoil
<1>7. CASE CallIngest \/ CallInsideLoop
  BY <1>0, <1>1, <1>7 DEF CallIngest, CallInsideLoop
<1>8. CASE SkipBlank \/ PlanDocument \/ PlansMade \/ EmbedBatch \/ Embedded \/ CreateThought
           \/ StoreEmbedding \/ IngestReturns \/ PlaceHit \/ RetrieveReturns
  BY <1>0, <1>1, <1>8 DEF SkipBlank, PlanDocument, PlansMade, EmbedBatch, Embedded, CreateThought,
       StoreEmbedding, IngestReturns, PlaceHit, RetrieveReturns
<1>9. CASE Connect
  <2>1. NonBlank' = NonBlank /\ KeyAt(at)' = KeyAt(at)
    BY <1>9 DEF Connect, NonBlank, KeyAt
  <2>2. QED  BY <1>0, <1>1, <1>9, <2>1, NoneAssumption DEF Connect, CallTyped
<1>10. CASE RegisterBank
  <2>1. PICK key \in Keys : key = KeyAt(at) /\ conn' = [conn EXCEPT ![key] = fresh]
    BY <1>0, <1>10, DeliveryTyping DEF RegisterBank, CallTyped
  <2>2. Held' = Held \cup {fresh} /\ fresh \in Connections /\ key \notin Banks
    BY <1>0, <1>10, <2>1, NoneAssumption DEF RegisterBank, Held, Banks, BanksTyped, CallTyped
  <2>3. QED  BY <1>0, <1>10, <2>2 DEF RegisterBank
<1>11. ASSUME NEW user, NEW k, Retrieve(user, k) \/ RetrieveRaises(user, k) PROVE Resources'
  BY <1>0, <1>1, <1>11 DEF Retrieve, RetrieveRaises
<1>12. ASSUME NEW call \in {"cleanup", "collect"}, CallCleanup(call) PROVE Resources'
  <2>1. closing' = Held
    BY <1>0, <1>12, Zenon DEF CallCleanup, Held
  <2>2. QED  BY <1>0, <1>3, <1>12, <2>1 DEF CallCleanup
<1>13. ASSUME NEW call \in {"cleanup", "collect"}, CleanupInsideLoop(call) PROVE Resources'
  BY <1>0, <1>3, <1>13 DEF CleanupInsideLoop, Spoil, Ends
<1>14. CASE CloseBank \/ CloseBankRaises
  BY <1>0, <1>1, <1>14 DEF CloseBank, CloseBankRaises, Spoil
<1>15. CASE CleanupReturns \/ CleanupInterrupted
  BY <1>0, <1>1, <1>15 DEF CleanupReturns, CleanupInterrupted, Spoil, Ends
<1>16. CASE UNCHANGED vars
  <2>1. NonBlank' = NonBlank /\ KeyAt(at)' = KeyAt(at)
    BY <1>16 DEF vars, NonBlank, KeyAt
  <2>2. QED  BY <1>0, <1>1, <1>16, <2>1 DEF vars
<1>17. QED
  BY <1>5, <1>6, <1>7, <1>8, <1>9, <1>10, <1>11, <1>12, <1>13, <1>14, <1>15, <1>16
     DEF Next, Ingesting, Retrieving, Cleaning

(* Two documents of one bank with one ordinal would have one id, no others. *)
LEMMA SameIdSameOrdinal ==
  ASSUME NEW i, NEW j, IdAt(i) = IdAt(j)
  PROVE  KeyAt(i) = KeyAt(j) /\ plan[i] = plan[j]
BY DEF IdAt, ThoughtId, KeyAt

LEMMA NextNumbered == IInv /\ [Next]_vars => Numbered'
<1> SUFFICES ASSUME IInv, [Next]_vars PROVE Numbered'  OBVIOUS
<1>0. BanksTyped /\ CallTyped /\ Resources /\ Numbered /\ TypeOK
  BY TypedParts DEF IInv, Typed
<1> USE DEF Goto, Working, ingestVars, searchVars, closeVars, bankVars, engineVars
<1>1. UNCHANGED <<delivery, plan>> => \A i : IdAt(i)' = IdAt(i)
  BY DEF IdAt
<1>2. UNCHANGED delivery => \A i : KeyAt(i)' = KeyAt(i)
  BY DEF KeyAt
<1>3. UNCHANGED todo => \A i : IsNext(i)' = IsNext(i)
  BY DEF IsNext
<1>4. UNCHANGED conn => Banks' = Banks
  BY DEF Banks
<1>5. ASSUME UNCHANGED <<bankVars, engineVars, delivery, plan, todo>>,
             pc' \in Working => pc \in Working /\ (pc' = pc \/ "store_embedding" \notin {pc, pc'}),
             pc' \in {"plan", "setup"} => pc \in {"plan", "setup"} /\ at' \in {at, at + 1}
      PROVE  Numbered'
  <2>1. /\ \A i : IdAt(i)' = IdAt(i) /\ KeyAt(i)' = KeyAt(i) /\ IsNext(i)' = IsNext(i)
        /\ Banks' = Banks
    BY <1>1, <1>2, <1>3, <1>4, <1>5
  <2>2. \A i, j \in DOMAIN plan' : IdAt(i)' = IdAt(j)' => i = j
    BY <1>0, <1>5, <2>1 DEF Numbered
  <2>3. pc' \in {"plan", "setup"} => \A i \in DOMAIN plan' : i < at'
    BY <1>0, <1>5, DeliveryTyping DEF Numbered, CallTyped
  <2>4. \A key \in Keys :
          /\ \A id \in thoughts'[key] : id[3] < ordinals'[key]
          /\ DOMAIN known'[key] \subseteq thoughts'[key]
          /\ key \notin Banks' => known'[key] = Empty
    BY <1>0, <1>5, <2>1 DEF Numbered
  <2>5. pc' \in Working =>
          /\ \A i \in DOMAIN plan' : KeyAt(i)' \in Banks' /\ plan'[i] < ordinals'[KeyAt(i)']
          /\ \A i \in todo' : IdAt(i)' \notin DOMAIN known'[KeyAt(i)']
    BY <1>0, <1>5, <2>1 DEF Numbered
  <2>6. ASSUME pc' \in Working, NEW i \in todo'
        PROVE  IdAt(i)' \in thoughts'[KeyAt(i)'] <=> pc' = "store_embedding" /\ IsNext(i)'
    <3>1. pc \in Working /\ i \in todo /\ (pc' = "store_embedding" <=> pc = "store_embedding")
      BY <1>0, <1>5, <2>6 DEF CallTyped
    <3>2. IdAt(i) \in thoughts[KeyAt(i)] <=> pc = "store_embedding" /\ IsNext(i)
      BY <1>0, <3>1 DEF Numbered
    <3>3. QED  BY <1>5, <2>1, <3>1, <3>2
  <2>7. QED  BY <2>2, <2>3, <2>4, <2>5, <2>6 DEF Numbered
<1>6. CASE CallInsideLoop \/ SkipBlank \/ Connect \/ ConnectRaises \/ SetUpRaises
           \/ PlansMade \/ EmbedBatch \/ EmbedRaises \/ Embedded \/ StoreRaises \/ IngestReturns
           \/ PlaceHit \/ RetrieveReturns \/ CloseBank \/ CloseBankRaises \/ CleanupReturns
           \/ CleanupInterrupted \/ UNCHANGED vars
  BY <1>5, <1>6 DEF CallInsideLoop, SkipBlank, Connect, ConnectRaises, SetUpRaises,
       PlansMade, EmbedBatch, EmbedRaises, Embedded, StoreRaises, IngestReturns, PlaceHit,
       RetrieveReturns, CloseBank, CloseBankRaises, CleanupReturns, CleanupInterrupted, vars,
       Raises, Ends
<1>7. ASSUME NEW user, NEW k, Retrieve(user, k) \/ RetrieveRaises(user, k) PROVE Numbered'
  BY <1>5, <1>7 DEF Retrieve, RetrieveRaises
<1>8. CASE CallIngest
  <2>1. DOMAIN plan' = {} /\ todo' = {}
    BY <1>8 DEF CallIngest, Empty
  <2>2. Banks' = Banks /\ UNCHANGED <<bankVars, engineVars>>
    BY <1>4, <1>8 DEF CallIngest
  <2>3. QED  BY <1>0, <2>1, <2>2 DEF Numbered
<1>9. ASSUME NEW call \in {"cleanup", "collect"}, CallCleanup(call) \/ CleanupInsideLoop(call)
      PROVE Numbered'
  <2>1. \A key \in Keys : thoughts'[key] = {} /\ known'[key] = Empty /\ DOMAIN Empty = {}
    BY <1>9 DEF CallCleanup, CleanupInsideLoop, DropBanks, Empty
  <2>2. UNCHANGED <<delivery, plan, todo>> /\ pc' \notin Working
    BY <1>9 DEF CallCleanup, CleanupInsideLoop, Ends
  <2>3. \A i, j \in DOMAIN plan' : IdAt(i)' = IdAt(j)' => i = j
    BY <1>0, <1>1, <2>2 DEF Numbered
  <2>4. QED  BY <2>1, <2>2, <2>3 DEF Numbered
<1>10. CASE PlanDocument
  <2>0. PICK p : p = at
    BY Zenon
  <2>1. PICK key \in Banks : key = KeyAt(p)
    BY <1>10, <2>0 DEF PlanDocument
  <2>2. PICK ordinal \in Nat : ordinal = ordinals[key]
    BY <1>0 DEF Banks, BanksTyped
  <2>3. /\ p \in NonBlank /\ p \in Nat /\ p \notin DOMAIN plan /\ pc = "plan" /\ pc' = "plan"
        /\ \A i \in DOMAIN plan : i < p /\ i \in Nat
    BY <1>0, <1>10, <2>0, DeliveryTyping DEF PlanDocument, Numbered, CallTyped
  <2>4. /\ DOMAIN plan' = DOMAIN plan \cup {p} /\ plan'[p] = ordinal
        /\ \A i \in DOMAIN plan : plan'[i] = plan[i]
        /\ todo' = todo \cup {p} /\ at' = p + 1
        /\ ordinals' = [ordinals EXCEPT ![key] = ordinal + 1]
        /\ UNCHANGED <<conn, known, thoughts, vectors, delivery>>
    BY <1>10, <2>0, <2>1, <2>2, <2>3 DEF PlanDocument
  <2>5. \A i : KeyAt(i)' = KeyAt(i)
    BY <1>2, <2>4
  <2>6. Banks' = Banks /\ Banks \subseteq Keys
    BY <1>4, <2>4 DEF Banks
  <2>7. \A i \in DOMAIN plan : IdAt(i)' = IdAt(i)
    BY <2>4 DEF IdAt
  <2>8. IdAt(p)' = <<key, delivery[p].id, ordinal, delivery[p].text>>
    BY <2>1, <2>4 DEF IdAt, ThoughtId, KeyAt
  <2>9. \A i \in DOMAIN plan : IdAt(i) = <<KeyAt(i), delivery[i].id, plan[i], delivery[i].text>>
    BY DEF IdAt, ThoughtId, KeyAt
  <2>10. \A i \in DOMAIN plan : /\ KeyAt(i) \in Banks /\ plan[i] < ordinals[KeyAt(i)]
                                /\ plan[i] \in Nat
    BY <1>0, <2>3 DEF Numbered, CallTyped
  <2>11. \A i \in DOMAIN plan : IdAt(i) # IdAt(p)'
    BY <2>2, <2>8, <2>9, <2>10
  <2>12. PICK new : new = IdAt(p)'
    BY Zenon
  <2>13. new \notin thoughts[key] /\ new \notin DOMAIN known[key]
    BY <1>0, <2>1, <2>2, <2>6, <2>8, <2>12 DEF Numbered
  <2>14. \A i, j \in DOMAIN plan' : IdAt(i)' = IdAt(j)' => i = j
    BY <1>0, <2>4, <2>7, <2>11 DEF Numbered
  <2>15. \A k \in Keys : ordinals[k] \in Nat /\ ordinals'[k] \in Nat /\ ordinals[k] <= ordinals'[k]
    BY <1>0, <2>2, <2>4 DEF BanksTyped
  <2>16. \A k \in Keys :
           /\ \A id \in thoughts'[k] : id[3] < ordinals'[k]
           /\ DOMAIN known'[k] \subseteq thoughts'[k]
           /\ k \notin Banks' => known'[k] = Empty
    <3>1. \A k \in Keys : \A id \in thoughts[k] : id[3] < ordinals[k] /\ id[3] \in Nat
      BY <1>0 DEF Numbered, BanksTyped, ThoughtIds
    <3>2. \A k \in Keys : \A id \in thoughts[k] : id[3] < ordinals'[k]
      BY <2>15, <3>1
    <3>3. QED  BY <1>0, <2>4, <2>6, <3>2 DEF Numbered
  <2>17. \A i \in DOMAIN plan' : KeyAt(i)' \in Banks' /\ plan'[i] < ordinals'[KeyAt(i)']
    <3>1. \A i \in DOMAIN plan : plan[i] < ordinals'[KeyAt(i)]
      BY <2>6, <2>10, <2>15
    <3>2. ordinals'[key] = ordinal + 1
      BY <1>0, <2>4, <2>6 DEF BanksTyped
    <3>3. QED  BY <2>1, <2>2, <2>4, <2>5, <2>6, <2>10, <3>1, <3>2
  <2>18. \A i \in todo : /\ IdAt(i)' \notin DOMAIN known'[KeyAt(i)']
                         /\ IdAt(i)' \notin thoughts'[KeyAt(i)']
    BY <1>0, <2>3, <2>4, <2>5, <2>7 DEF Numbered, CallTyped
  <2>19. \A i \in todo' : /\ IdAt(i)' \notin DOMAIN known'[KeyAt(i)']
                          /\ IdAt(i)' \notin thoughts'[KeyAt(i)']
    BY <2>1, <2>4, <2>5, <2>12, <2>13, <2>18
  <2>20. \A i \in DOMAIN plan' : i < at'
    BY <2>3, <2>4
  <2>21. QED  BY <2>3, <2>14, <2>16, <2>17, <2>19, <2>20 DEF Numbered
<1>11. CASE RegisterBank
  <2>1. PICK key \in Keys : key = KeyAt(at) /\ key \notin Banks
    BY <1>0, <1>11, DeliveryTyping DEF RegisterBank, CallTyped, Resources
  <2>2. /\ conn' = [conn EXCEPT ![key] = fresh] /\ ordinals' = [ordinals EXCEPT ![key] = 0]
        /\ known' = [known EXCEPT ![key] = Empty] /\ thoughts' = [thoughts EXCEPT ![key] = {}]
        /\ UNCHANGED <<delivery, plan, todo, at>> /\ pc = "setup" /\ pc' = "plan"
    BY <1>11, <2>1 DEF RegisterBank
  <2>3. Banks' = Banks \cup {key}
    BY <1>0, <2>2, NoneAssumption DEF Banks, BanksTyped, CallTyped
  <2>4. \A i : IdAt(i)' = IdAt(i) /\ KeyAt(i)' = KeyAt(i)
    BY <1>1, <1>2, <2>2
  <2>5. /\ known'[key] = Empty /\ thoughts'[key] = {} /\ DOMAIN Empty = {}
        /\ \A k \in Keys \ {key} : /\ known'[k] = known[k] /\ thoughts'[k] = thoughts[k]
                                   /\ ordinals'[k] = ordinals[k]
    BY <1>0, <2>2 DEF BanksTyped, Empty
  <2>6. \A k \in Keys :
          /\ \A id \in thoughts'[k] : id[3] < ordinals'[k]
          /\ DOMAIN known'[k] \subseteq thoughts'[k]
          /\ k \notin Banks' => known'[k] = Empty
    BY <1>0, <2>3, <2>5 DEF Numbered
  <2>7. \A i \in DOMAIN plan' : KeyAt(i)' \in Keys \ {key} /\ KeyAt(i)' \in Banks
    BY <1>0, <2>1, <2>2, <2>4 DEF Numbered, Banks
  <2>8. \A i \in DOMAIN plan' : KeyAt(i)' \in Banks' /\ plan'[i] < ordinals'[KeyAt(i)']
    BY <1>0, <2>2, <2>3, <2>4, <2>5, <2>7 DEF Numbered
  <2>9. \A i \in todo' : /\ IdAt(i)' \notin DOMAIN known'[KeyAt(i)']
                         /\ IdAt(i)' \notin thoughts'[KeyAt(i)']
    BY <1>0, <2>2, <2>4, <2>5, <2>7 DEF Numbered, CallTyped
  <2>10. QED  BY <1>0, <2>2, <2>4, <2>6, <2>8, <2>9 DEF Numbered
<1>12. CASE CreateThought
  <2>1. PICK i \in todo :
          IsNext(i) /\ thoughts' = [thoughts EXCEPT ![KeyAt(i)] = @ \cup {IdAt(i)}]
    BY <1>12 DEF CreateThought
  <2>2. /\ UNCHANGED <<bankVars, vectors, delivery, plan, todo, at>>
        /\ pc = "create_thought" /\ pc' = "store_embedding"
    BY <1>12 DEF CreateThought
  <2>3. \A j : IdAt(j)' = IdAt(j) /\ KeyAt(j)' = KeyAt(j) /\ (IsNext(j)' <=> IsNext(j))
    BY <1>1, <1>2, <1>3, <2>2
  <2>4. PICK key \in Keys : key = KeyAt(i)
    BY <1>0, <2>1, <2>2 DEF Numbered, CallTyped, Banks
  <2>5. PICK id : id = IdAt(i)
    BY Zenon
  <2>6. id[3] < ordinals[key]
    BY <1>0, <2>1, <2>2, <2>4, <2>5 DEF Numbered, CallTyped, IdAt, ThoughtId
  <2>7. /\ thoughts'[key] = thoughts[key] \cup {id}
        /\ \A k \in Keys \ {key} : thoughts'[k] = thoughts[k]
    BY <1>0, <2>1, <2>4, <2>5 DEF BanksTyped
  <2>8. Banks' = Banks
    BY <1>4, <2>2
  <2>9. \A j \in todo : IdAt(j) = id => j = i
    BY <1>0, <2>1, <2>5 DEF Numbered, CallTyped
  <2>10. \A j \in todo : IsNext(j) => j = i
    BY <1>0, <2>1, DeliveryTyping DEF IsNext, CallTyped
  <2>11. \A j \in todo : KeyAt(j) \in Keys /\ IdAt(j) \notin thoughts[KeyAt(j)]
    BY <1>0, <2>2 DEF Numbered, CallTyped, Banks
  <2>12. \A j \in todo : IdAt(j) \in thoughts'[KeyAt(j)] <=> IsNext(j)
    BY <2>1, <2>4, <2>5, <2>7, <2>9, <2>10, <2>11
  <2>13. \A k \in Keys :
           /\ \A other \in thoughts'[k] : other[3] < ordinals'[k]
           /\ DOMAIN known'[k] \subseteq thoughts'[k]
           /\ k \notin Banks' => known'[k] = Empty
    BY <1>0, <2>2, <2>6, <2>7, <2>8 DEF Numbered
  <2>14. QED  BY <1>0, <2>2, <2>3, <2>8, <2>12, <2>13 DEF Numbered
<1>13. CASE StoreEmbedding
  <2>1. PICK i \in todo :
          /\ IsNext(i) /\ todo' = todo \ {i}
          /\ known' = [known EXCEPT ![KeyAt(i)] = With(@, IdAt(i), delivery[i])]
    BY <1>13 DEF StoreEmbedding
  <2>2. /\ UNCHANGED <<conn, ordinals, thoughts, delivery, plan, at>>
        /\ pc = "store_embedding" /\ pc' = "create_thought"
    BY <1>13 DEF StoreEmbedding
  <2>3. \A j : IdAt(j)' = IdAt(j) /\ KeyAt(j)' = KeyAt(j)
    BY <1>1, <1>2, <2>2
  <2>4. PICK key \in Banks : key = KeyAt(i)
    BY <1>0, <2>1, <2>2 DEF Numbered, CallTyped
  <2>5. PICK id : id = IdAt(i)
    BY Zenon
  <2>6. id \in thoughts[key]
    BY <1>0, <2>1, <2>2, <2>4, <2>5 DEF Numbered
  <2>7. key \in Keys /\ Banks' = Banks
    BY <1>4, <2>2 DEF Banks
  <2>8. /\ DOMAIN known'[key] = DOMAIN known[key] \cup {id}
        /\ \A k \in Keys \ {key} : known'[k] = known[k]
    BY <1>0, <2>1, <2>4, <2>5, <2>7 DEF BanksTyped, With
  <2>9. \A j \in todo \ {i} : IdAt(j) # id
    BY <1>0, <2>1, <2>5 DEF Numbered, CallTyped
  <2>10. \A j \in todo \ {i} : ~IsNext(j)
    BY <1>0, <2>1, DeliveryTyping DEF IsNext, CallTyped
  <2>11. \A j \in todo \ {i} : /\ KeyAt(j) \in Keys /\ IdAt(j) \notin thoughts[KeyAt(j)]
                               /\ IdAt(j) \notin DOMAIN known[KeyAt(j)]
    BY <1>0, <2>2, <2>10 DEF Numbered, CallTyped, Banks
  <2>12. \A j \in todo \ {i} : IdAt(j) \notin DOMAIN known'[KeyAt(j)]
    BY <2>8, <2>9, <2>11
  <2>13. \A k \in Keys :
           /\ \A other \in thoughts'[k] : other[3] < ordinals'[k]
           /\ DOMAIN known'[k] \subseteq thoughts'[k]
           /\ k \notin Banks' => known'[k] = Empty
    BY <1>0, <2>2, <2>4, <2>6, <2>7, <2>8 DEF Numbered
  <2>14. QED  BY <1>0, <2>1, <2>2, <2>3, <2>7, <2>11, <2>12, <2>13 DEF Numbered
<1>14. QED
  BY <1>6, <1>7, <1>8, <1>9, <1>10, <1>11, <1>12, <1>13 DEF Next, Ingesting, Retrieving, Cleaning

(* What the first n hits have made of the answer.                          *)
BestFirst(n) ==
  LET mapped == {i \in 1..n : hits[i] \in DOMAIN KnownToAsked}
      DocumentOf(i) == KnownToAsked[hits[i]]
  IN  /\ \A i \in mapped : DocumentOf(i).id \in Placed
      /\ \A r \in DOMAIN ranked : \E i \in mapped :
           /\ ranked[r] = DocumentOf(i)
           /\ \A j \in mapped : j < i =>
                \E earlier \in 1..r - 1 : ranked[earlier].id = DocumentOf(j).id

LEMMA HitDocument ==
  ASSUME BanksTyped, CallTyped, NEW id \in DOMAIN KnownToAsked
  PROVE  /\ KnownToAsked[id] \in Documents
         /\ KnownToAsked[id] \in Shelf(asked.user)
<1>1. asked.user \in Users \cup {NoUser} /\ BankKey(asked.user) \in Keys
  BY KeyTyping DEF CallTyped
<1>2. QED  BY <1>1 DEF BanksTyped, KnownToAsked, Shelf

LEMMA NextAnswering ==
  IInv /\ (pc = "place" => BestFirst(at - 1)) /\ [Next]_vars
    => Answering' /\ (pc' = "place" => BestFirst(at - 1)')
<1> SUFFICES ASSUME IInv, pc = "place" => BestFirst(at - 1), [Next]_vars
             PROVE  Answering' /\ (pc' = "place" => BestFirst(at - 1)')
  OBVIOUS
<1>0. BanksTyped /\ CallTyped /\ Answering
  BY DEF IInv, Typed
<1> USE DEF Goto
<1>1. CASE pc' # "place" /\ (pc' \notin {"idle", "gone"} => outcome' = "pending")
  BY <1>1 DEF Answering
<1>2. CASE CallIngest \/ CallInsideLoop \/ SkipBlank \/ PlanDocument \/ Connect \/ ConnectRaises
           \/ RegisterBank \/ SetUpRaises \/ PlansMade \/ EmbedBatch \/ EmbedRaises \/ Embedded
           \/ CreateThought \/ StoreEmbedding \/ StoreRaises \/ IngestReturns \/ RetrieveReturns
           \/ CloseBank \/ CloseBankRaises \/ CleanupReturns \/ CleanupInterrupted
  BY <1>0, <1>1, <1>2 DEF Answering, CallIngest, CallInsideLoop, SkipBlank, PlanDocument, Connect,
       ConnectRaises, RegisterBank, SetUpRaises, PlansMade, EmbedBatch, EmbedRaises, Embedded,
       CreateThought, StoreEmbedding, StoreRaises, IngestReturns, RetrieveReturns, CloseBank,
       CloseBankRaises, CleanupReturns, CleanupInterrupted, Raises, Ends
<1>3. ASSUME NEW call \in {"cleanup", "collect"}, CallCleanup(call) \/ CleanupInsideLoop(call)
      PROVE  Answering' /\ (pc' = "place" => BestFirst(at - 1)')
  BY <1>1, <1>3 DEF CallCleanup, CleanupInsideLoop, Ends
<1>4. CASE UNCHANGED vars
  <2>1. UNCHANGED <<bankVars, pc, outcome, at, searchVars>>
    BY <1>4 DEF vars
  <2> USE DEF bankVars, searchVars
  <2>2. Shelf(asked.user)' = Shelf(asked.user)
    BY <2>1 DEF Shelf
  <2>3. BestFirst(at - 1)' <=> BestFirst(at - 1)
    BY <2>1 DEF BestFirst, Placed, KnownToAsked
  <2>4. QED  BY <1>0, <2>1, <2>2, <2>3 DEF Answering
<1>5. ASSUME NEW user \in Users \cup {NoUser}, NEW k \in Depths, RetrieveRaises(user, k)
      PROVE  Answering' /\ (pc' = "place" => BestFirst(at - 1)')
  BY <1>1, <1>5 DEF RetrieveRaises
<1>6. ASSUME NEW user \in Users \cup {NoUser}, NEW k \in Depths, Retrieve(user, k)
      PROVE  Answering' /\ (pc' = "place" => BestFirst(at - 1)')
  <2>1. /\ asked'.k = k /\ asked'.user = user /\ at' = 1 /\ ranked' = <<>> /\ outcome' = "pending"
    BY <1>6 DEF Retrieve
  <2>2. BankKey(user) \in Keys /\ k \in Nat /\ Breadth(k) \in Nat
    BY KeyTyping, SizeAssumption DEF Breadth
  <2>3. Len(hits') \in Nat /\ Len(hits') <= Breadth(k)
    <3>1. CASE hits' = <<>>
      BY <2>2, <3>1, EmptySeq
    <3>2. CASE BankKey(user) \in Banks
      <4>1. PICK n \in 0..Breadth(k) : hits' \in Injection(1..n, thoughts[BankKey(user)])
        BY <1>6, <3>2 DEF Retrieve
      <4>2. n \in Nat
        OBVIOUS
      <4>3. Len(hits') = n
        BY <4>1, <4>2, HitsTyping
      <4>4. QED  BY <2>2, <4>3
    <3>3. QED  BY <1>6, <3>1, <3>2 DEF Retrieve
  <2>4. DOMAIN ranked' = {} /\ Len(ranked') = 0
    BY <2>1
  <2>5. Answering'
    BY <2>1, <2>2, <2>3, <2>4 DEF Answering, Breadth
  <2>6. BestFirst(at - 1)'
    <3>1. 1..(at' - 1) = {}
      BY <2>1
    <3>2. QED  BY <2>4, <3>1 DEF BestFirst
  <2>7. QED  BY <2>5, <2>6
<1>7. CASE PlaceHit
  <2>1. PICK p \in Nat \ {0} : p = at /\ p \in DOMAIN hits
    BY <1>0, <1>7 DEF PlaceHit, CallTyped
  <2>2. /\ UNCHANGED <<known, asked, hits, outcome>> /\ at' = p + 1 /\ pc = "place" /\ pc' = "place"
    BY <1>7, <2>1 DEF PlaceHit, bankVars
  <2>3. Len(hits) \in Nat /\ DOMAIN hits = 1..Len(hits) /\ p <= Len(hits)
    BY <1>0, <2>1, LenProperties DEF CallTyped
  <2>4. Len(ranked) \in Nat /\ DOMAIN ranked = 1..Len(ranked) /\ ranked \in Seq(Documents)
    BY <1>0, LenProperties DEF CallTyped
  <2>5. Shelf(asked.user)' = Shelf(asked.user) /\ KnownToAsked' = KnownToAsked
    BY <2>2 DEF Shelf, KnownToAsked
  <2>6. /\ asked.k \in Depths /\ Len(hits) <= Breadth(asked.k) /\ Len(ranked) < p
        /\ \A r \in DOMAIN ranked : ranked[r] \in Shelf(asked.user)
        /\ \A r, s \in DOMAIN ranked : ranked[r].id = ranked[s].id => r = s
        /\ BestFirst(p - 1) /\ outcome = "pending"
    BY <1>0, <2>1, <2>2 DEF Answering
  <2>7. 1..(at' - 1) = 1..(p - 1) \cup {p} /\ p \notin 1..(p - 1)
    BY <2>2
  <2> DEFINE hit == hits[p]
  <2>8. CASE hit \in DOMAIN KnownToAsked /\ KnownToAsked[hit].id \notin Placed
    <3>1. PICK document : document = KnownToAsked[hit]
      BY Zenon
    <3>2. document \in Documents /\ document \in Shelf(asked.user) /\ document.id \notin Placed
      BY <1>0, <2>8, <3>1, HitDocument
    <3>3. ranked' = Append(ranked, document)
      BY <1>7, <2>1, <2>8, <3>1 DEF PlaceHit
    <3>4. PICK n \in Nat : n = Len(ranked)
      BY <2>4
    <3>5. /\ Len(ranked') = n + 1 /\ DOMAIN ranked' = 1..n + 1 /\ ranked'[n + 1] = document
          /\ \A r \in 1..n : ranked'[r] = ranked[r]
      BY <2>4, <3>2, <3>3, <3>4, AppendProperties
    <3>6. \A r \in 1..n : ranked[r].id # document.id
      BY <2>4, <3>2, <3>4 DEF Placed
    <3>7. Answering'
      <4>1. \A r \in DOMAIN ranked' : ranked'[r] \in Shelf(asked.user)
        BY <2>4, <2>6, <3>2, <3>4, <3>5
      <4>2. \A r, s \in DOMAIN ranked' : ranked'[r].id = ranked'[s].id => r = s
        BY <2>4, <2>6, <3>4, <3>5, <3>6
      <4>3. Len(ranked') < at' /\ at' <= Len(hits') + 1
        BY <2>2, <2>3, <2>6, <3>4, <3>5
      <4>4. QED  BY <2>2, <2>5, <2>6, <4>1, <4>2, <4>3 DEF Answering, Breadth
    <3>8. BestFirst(at - 1)'
      <4>1. \A i \in 1..(p - 1) : hits[i] \in DOMAIN KnownToAsked =>
              \E r \in 1..n : ranked'[r].id = KnownToAsked[hits[i]].id
        <5>1. \A i \in 1..(p - 1) : hits[i] \in DOMAIN KnownToAsked =>
                KnownToAsked[hits[i]].id \in Placed
          BY <2>6 DEF BestFirst
        <5>2. Placed = {ranked'[r].id : r \in 1..n}
          BY <2>4, <3>4, <3>5 DEF Placed
        <5>3. QED  BY <5>1, <5>2
      <4>2. \A i \in 1..p : hits[i] \in DOMAIN KnownToAsked =>
              \E r \in 1..n + 1 : ranked'[r].id = KnownToAsked[hits[i]].id
        BY <2>7, <3>1, <3>4, <3>5, <4>1, <2>2
      <4>3. ASSUME NEW r \in 1..n
            PROVE  \E i \in 1..p :
                     /\ hits[i] \in DOMAIN KnownToAsked /\ ranked'[r] = KnownToAsked[hits[i]]
                     /\ \A j \in 1..p : hits[j] \in DOMAIN KnownToAsked /\ j < i =>
                          \E earlier \in 1..r - 1 : ranked'[earlier].id = KnownToAsked[hits[j]].id
        <5>1. PICK i \in 1..(p - 1) :
                /\ hits[i] \in DOMAIN KnownToAsked /\ ranked[r] = KnownToAsked[hits[i]]
                /\ \A j \in 1..(p - 1) : hits[j] \in DOMAIN KnownToAsked /\ j < i =>
                     \E earlier \in 1..r - 1 : ranked[earlier].id = KnownToAsked[hits[j]].id
          BY <2>4, <2>6, <3>4 DEF BestFirst
        <5>2. \A j \in 1..p : j < i => j \in 1..(p - 1)
          BY <2>1
        <5>3. \A earlier \in 1..r - 1 : earlier \in 1..n
          BY <3>4
        <5>4. i \in 1..p /\ ranked'[r] = ranked[r]
          BY <2>1, <3>5
        <5>5. QED  BY <3>5, <5>1, <5>2, <5>3, <5>4
      <4>4. \A j \in 1..p : hits[j] \in DOMAIN KnownToAsked /\ j < p =>
              \E earlier \in 1..n : ranked'[earlier].id = KnownToAsked[hits[j]].id
        BY <2>1, <4>1
      <4>5. \A r \in 1..n + 1 : \E i \in 1..p :
              /\ hits[i] \in DOMAIN KnownToAsked /\ ranked'[r] = KnownToAsked[hits[i]]
              /\ \A j \in 1..p : hits[j] \in DOMAIN KnownToAsked /\ j < i =>
                   \E earlier \in 1..r - 1 : ranked'[earlier].id = KnownToAsked[hits[j]].id
        <5>1. TAKE r \in 1..n + 1
        <5>2. CASE r \in 1..n
          BY <4>3, <5>2
        <5>3. CASE r = n + 1
          <6>1. r - 1 = n /\ p \in 1..p /\ ranked'[r] = KnownToAsked[hits[p]]
            BY <2>1, <3>1, <3>4, <3>5, <5>3
          <6>2. QED  BY <2>8, <4>4, <6>1
        <5>4. QED  BY <3>4, <5>2, <5>3
      <4>6. at' - 1 = p
        BY <2>1, <2>2
      <4>7. \A i \in 1..p : hits[i] \in DOMAIN KnownToAsked => KnownToAsked[hits[i]].id \in Placed'
        BY <3>5, <4>2 DEF Placed
      <4> DEFINE mapped == {i \in 1..p : hits[i] \in DOMAIN KnownToAsked}
      <4>8. \A i \in mapped : KnownToAsked[hits[i]].id \in Placed'
        BY <4>7
      <4>9. \A r \in DOMAIN ranked' : \E i \in mapped :
              /\ ranked'[r] = KnownToAsked[hits[i]]
              /\ \A j \in mapped : j < i =>
                   \E earlier \in 1..r - 1 : ranked'[earlier].id = KnownToAsked[hits[j]].id
        BY <3>5, <4>5
      <4>10. mapped = {i \in 1..(at' - 1) : hits'[i] \in DOMAIN KnownToAsked'}
        BY <2>2, <2>5, <4>6
      <4> HIDE DEF mapped
      <4>11. QED  BY <2>2, <2>5, <4>8, <4>9, <4>10 DEF BestFirst
    <3>9. QED  BY <3>7, <3>8
  <2>9. CASE ~(hit \in DOMAIN KnownToAsked /\ KnownToAsked[hit].id \notin Placed)
    <3>1. ranked' = ranked
      BY <1>7, <2>1, <2>9 DEF PlaceHit
    <3>2. Answering'
      BY <2>1, <2>2, <2>3, <2>4, <2>5, <2>6, <3>1 DEF Answering, Breadth
    <3>3. at' - 1 = p /\ Placed' = Placed
      BY <2>1, <2>2, <3>1 DEF Placed
    <3>4. \A i \in 1..p : hits[i] \in DOMAIN KnownToAsked => KnownToAsked[hits[i]].id \in Placed
      BY <2>2, <2>6, <2>7, <2>9 DEF BestFirst
    <3>5. ASSUME NEW r \in DOMAIN ranked
          PROVE  \E i \in 1..p :
                   /\ hits[i] \in DOMAIN KnownToAsked /\ ranked[r] = KnownToAsked[hits[i]]
                   /\ \A j \in 1..p : hits[j] \in DOMAIN KnownToAsked /\ j < i =>
                        \E earlier \in 1..r - 1 : ranked[earlier].id = KnownToAsked[hits[j]].id
      <4>1. PICK i \in 1..(p - 1) :
              /\ hits[i] \in DOMAIN KnownToAsked /\ ranked[r] = KnownToAsked[hits[i]]
              /\ \A j \in 1..(p - 1) : hits[j] \in DOMAIN KnownToAsked /\ j < i =>
                   \E earlier \in 1..r - 1 : ranked[earlier].id = KnownToAsked[hits[j]].id
        BY <2>6 DEF BestFirst
      <4>2. \A j \in 1..p : j < i => j \in 1..(p - 1)
        BY <2>1
      <4>3. QED  BY <2>1, <4>1, <4>2
    <3>6. BestFirst(at - 1)'
      BY <2>2, <2>5, <3>1, <3>3, <3>4, <3>5 DEF BestFirst
    <3>7. QED  BY <3>2, <3>6
  <2>10. QED  BY <2>8, <2>9
<1>8. QED
  BY <1>2, <1>3, <1>4, <1>5, <1>6, <1>7 DEF Next, Ingesting, Retrieving, Cleaning

-----------------------------------------------------------------------------
(* What is always true. *)

LEMMA Invariance == Spec => [](IInv /\ (pc = "place" => BestFirst(at - 1)))
<1>1. Init => IInv /\ (pc = "place" => BestFirst(at - 1))
  BY InitTyped, InitInv DEF IInv, Init
<1>2. IInv /\ [Next]_vars => Typed'
  BY NextBanksTyped, NextCallTyped DEF IInv, Typed
<1>3. IInv /\ (pc = "place" => BestFirst(at - 1)) /\ [Next]_vars
        => (IInv /\ (pc = "place" => BestFirst(at - 1)))'
  BY <1>2, NextResources, NextNumbered, NextAnswering DEF IInv
<1>4. QED  BY <1>1, <1>3, PTL DEF Spec

(* No calls, failures and interrupts leave a connection open that is       *)
(* neither a bank's nor about to be closed, unless its own set-up or       *)
(* clean-up raised.                                                        *)
THEOREM ConnectionsAreReleased == Spec => []NoLeakWithoutFault
<1>1. IInv => NoLeakWithoutFault
  BY DEF IInv, Resources
<1>2. QED  BY Invariance, <1>1, PTL

(* Whatever was delivered before, in whole, in part or in vain, the ids of *)
(* a delivery are new in their banks and differ from each other.           *)
THEOREM FreshIds == Spec => []IdsAreFresh
<1>1. IInv => IdsAreFresh
  <2> SUFFICES ASSUME IInv PROVE IdsAreFresh  OBVIOUS
  <2>1. \A i, j \in DOMAIN plan : IdAt(i) = IdAt(j) => i = j
    BY DEF IInv, Numbered
  <2>2. pc = "create_thought" => \A i \in todo : IdAt(i) \notin thoughts[KeyAt(i)]
    BY DEF IInv, Numbered, Working
  <2>3. QED  BY <2>1, <2>2 DEF IdsAreFresh
<1>2. QED  BY Invariance, <1>1, PTL

LEMMA RankedSteps ==
  ASSUME IInv, pc = "place" => BestFirst(at - 1), RankedByBestHit, [Next]_vars
  PROVE  RankedByBestHit'
<1>0. CallTyped /\ Answering
  BY DEF IInv, Typed
<1> USE DEF Goto
<1>1. CASE outcome' # "found"
  BY <1>1 DEF RankedByBestHit
<1>2. CASE RetrieveReturns
  <2>1. /\ UNCHANGED <<known, asked, hits, ranked>> /\ pc = "place" /\ at \notin DOMAIN hits
    BY <1>2 DEF RetrieveReturns, bankVars, searchVars
  <2>2. Len(hits) \in Nat /\ DOMAIN hits = 1..Len(hits) /\ at \in Nat /\ at - 1 = Len(hits)
    BY <1>0, <2>1, LenProperties DEF CallTyped, Answering
  <2>3. BestFirst(Len(hits))
    BY <2>1, <2>2
  <2>4. \A r, s \in DOMAIN ranked : ranked[r].id = ranked[s].id => r = s
    BY <1>0, <2>1 DEF Answering
  <2>5. KnownToAsked' = KnownToAsked /\ Placed' = Placed
    BY <2>1 DEF KnownToAsked, Placed
  <2>6. QED  BY <2>1, <2>2, <2>3, <2>4, <2>5 DEF BestFirst, RankedByBestHit
<1>3. CASE UNCHANGED vars
  BY <1>3 DEF vars, bankVars, searchVars, RankedByBestHit, KnownToAsked, Placed
<1>4. CASE CallIngest \/ CallInsideLoop \/ SkipBlank \/ PlanDocument \/ Connect \/ ConnectRaises
           \/ RegisterBank \/ SetUpRaises \/ PlansMade \/ EmbedBatch \/ EmbedRaises \/ Embedded
           \/ CreateThought \/ StoreEmbedding \/ StoreRaises \/ IngestReturns \/ PlaceHit
           \/ CloseBank \/ CloseBankRaises \/ CleanupReturns \/ CleanupInterrupted
  BY <1>0, <1>1, <1>4 DEF Answering, CallIngest, CallInsideLoop, SkipBlank, PlanDocument, Connect,
       ConnectRaises, RegisterBank, SetUpRaises, PlansMade, EmbedBatch, EmbedRaises, Embedded,
       CreateThought, StoreEmbedding, StoreRaises, IngestReturns, PlaceHit, CloseBank,
       CloseBankRaises, CleanupReturns, CleanupInterrupted, Raises
<1>5. ASSUME NEW call, CallCleanup(call) \/ CleanupInsideLoop(call) PROVE RankedByBestHit'
  BY <1>1, <1>5 DEF CallCleanup, CleanupInsideLoop
<1>6. ASSUME NEW user, NEW k, Retrieve(user, k) \/ RetrieveRaises(user, k) PROVE RankedByBestHit'
  BY <1>1, <1>6 DEF Retrieve, RetrieveRaises
<1>7. QED
  BY <1>2, <1>3, <1>4, <1>5, <1>6 DEF Next, Ingesting, Retrieving, Cleaning

(* An answer names every document that was hit, once, in the order of each *)
(* document's best hit, as the version of that hit.                        *)
THEOREM RetrieveRanksByBestHit == Spec => []RankedByBestHit
<1>1. Init => RankedByBestHit
  BY DEF Init, RankedByBestHit
<1>2. IInv /\ (pc = "place" => BestFirst(at - 1)) /\ RankedByBestHit /\ [Next]_vars
        => RankedByBestHit'
  BY RankedSteps
<1>3. QED  BY Invariance, <1>1, <1>2, PTL DEF Spec

-----------------------------------------------------------------------------
(* What an ingest leaves behind. *)

Shelved(i) ==
  /\ KeyAt(i) \in Banks
  /\ IdAt(i) \in thoughts[KeyAt(i)]
  /\ IdAt(i) \in DOMAIN known[KeyAt(i)] /\ known[KeyAt(i)][IdAt(i)] = delivery[i]
  /\ IdAt(i) \in DOMAIN vectors[KeyAt(i)] /\ vectors[KeyAt(i)][IdAt(i)] = PayloadAt(i)

(* Every document with text is planned, and what was planned is stored or  *)
(* still to be stored.                                                     *)
Filling ==
  /\ pc \in {"plan", "setup"} => \A i \in NonBlank : i < at => i \in DOMAIN plan
  /\ pc \in {"plan", "setup", "embed"} => todo = DOMAIN plan
  /\ pc \in {"embed", "create_thought", "store_embedding"} => NonBlank \subseteq DOMAIN plan
  /\ pc \in {"create_thought", "store_embedding"} => \A i \in DOMAIN plan \ todo : Shelved(i)
  /\ outcome = "returned" => NonBlank \subseteq DOMAIN plan /\ \A i \in DOMAIN plan : Shelved(i)

LEMMA SameBanks ==
  ASSUME UNCHANGED <<conn, known, thoughts, vectors, delivery, plan>>
  PROVE  /\ \A i : Shelved(i)' <=> Shelved(i)
         /\ NonBlank' = NonBlank
BY DEF Shelved, Banks, KeyAt, IdAt, PayloadAt, NonBlank

LEMMA FillingSteps ==
  ASSUME IInv, Filling, [Next]_vars
  PROVE  Filling'
<1>0. BanksTyped /\ CallTyped /\ Numbered /\ Answering
  BY DEF IInv, Typed
<1>1. /\ Len(delivery) \in Nat /\ DOMAIN delivery = 1..Len(delivery)
      /\ NonBlank \subseteq DOMAIN delivery /\ at \in Nat \ {0}
  BY <1>0, DeliveryTyping DEF CallTyped
<1> USE DEF Goto
\* A call that is over, and not with a delivery stored, owes nothing.
<1>2. ASSUME pc' \in {"idle", "gone", "place", "close"}, outcome' # "returned"
      PROVE  Filling'
  BY <1>2 DEF Filling
<1>3. ASSUME NEW from, Raises(from) PROVE Filling'
  BY <1>2, <1>3 DEF Raises
<1>4. CASE CallIngest
  <2>1. /\ pc' = "plan" /\ outcome' = "pending" /\ at' = 1 /\ todo' = {} /\ DOMAIN plan' = {}
        /\ delivery' \in Deliveries
    BY <1>4 DEF CallIngest, Empty
  <2>2. \A i \in NonBlank' : ~(i < 1)
    <3>1. delivery' \in Seq(Documents)
      BY <2>1, DeliveriesAssumption
    <3>2. DOMAIN delivery' \subseteq Nat \ {0}
      BY <3>1, LenProperties
    <3>3. QED  BY <3>2 DEF NonBlank
  <2>3. QED  BY <2>1, <2>2 DEF Filling
<1>5. CASE SkipBlank
  <2>1. /\ pc = "plan" /\ pc' = "plan" /\ at' = at + 1 /\ at \notin NonBlank
        /\ todo' = todo /\ plan' = plan /\ delivery' = delivery /\ outcome' = outcome
    BY <1>5 DEF SkipBlank, ingestVars
  <2>2. NonBlank' = NonBlank /\ outcome = "pending"
    BY <1>0, <2>1 DEF NonBlank, Answering
  <2>3. \A i \in NonBlank : i < at + 1 => i < at
    BY <1>1, <2>1
  <2>4. QED  BY <2>1, <2>2, <2>3 DEF Filling
<1>6. CASE PlanDocument
  <2>1. /\ pc = "plan" /\ pc' = "plan" /\ at' = at + 1
        /\ todo' = todo \cup {at} /\ DOMAIN plan' = DOMAIN plan \cup {at}
        /\ delivery' = delivery /\ outcome' = outcome
    BY <1>6 DEF PlanDocument
  <2>2. NonBlank' = NonBlank /\ outcome = "pending"
    BY <1>0, <2>1 DEF NonBlank, Answering
  <2>3. \A i \in NonBlank : i < at + 1 => i < at \/ i = at
    BY <1>1
  <2>4. QED  BY <2>1, <2>2, <2>3 DEF Filling
<1>7. CASE Connect \/ RegisterBank
  <2>1. /\ pc \in {"plan", "setup"} /\ pc' \in {"plan", "setup"}
        /\ UNCHANGED <<at, todo, plan, delivery, outcome>>
    BY <1>7 DEF Connect, RegisterBank, ingestVars
  <2>2. NonBlank' = NonBlank /\ outcome = "pending"
    BY <1>0, <2>1 DEF NonBlank, Answering
  <2>3. QED  BY <2>1, <2>2 DEF Filling
<1>8. CASE PlansMade
  <2>1. /\ pc = "plan" /\ pc' = "embed" /\ at \notin DOMAIN delivery
        /\ UNCHANGED <<todo, plan, delivery, outcome>>
    BY <1>8 DEF PlansMade, ingestVars
  <2>2. NonBlank' = NonBlank /\ outcome = "pending"
    BY <1>0, <2>1 DEF NonBlank, Answering
  <2>3. \A i \in NonBlank : i < at
    BY <1>1, <2>1
  <2>4. QED  BY <2>1, <2>2, <2>3 DEF Filling
<1>9. CASE EmbedBatch \/ Embedded
  <2>1. /\ pc = "embed" /\ pc' \in {"embed", "create_thought"}
        /\ UNCHANGED <<todo, plan, delivery, outcome>>
    BY <1>9 DEF EmbedBatch, Embedded, ingestVars
  <2>2. NonBlank' = NonBlank /\ outcome = "pending"
    BY <1>0, <2>1 DEF NonBlank, Answering
  <2>3. QED  BY <2>1, <2>2 DEF Filling
<1>10. CASE CreateThought
  <2>1. PICK i \in todo : thoughts' = [thoughts EXCEPT ![KeyAt(i)] = @ \cup {IdAt(i)}]
    BY <1>10 DEF CreateThought
  <2>2. /\ pc = "create_thought" /\ pc' = "store_embedding"
        /\ UNCHANGED <<conn, known, vectors, todo, plan, delivery, outcome>>
    BY <1>10 DEF CreateThought, bankVars, ingestVars
  <2>3. NonBlank' = NonBlank /\ outcome = "pending"
    BY <1>0, <2>2 DEF NonBlank, Answering
  <2>4. \A key \in Keys : thoughts[key] \subseteq thoughts'[key]
    BY <1>0, <2>1 DEF BanksTyped
  <2>5. ASSUME NEW j \in DOMAIN plan, Shelved(j) PROVE Shelved(j)'
    <3>1. KeyAt(j)' = KeyAt(j) /\ IdAt(j)' = IdAt(j) /\ PayloadAt(j)' = PayloadAt(j) /\ Banks' = Banks
      BY <2>2 DEF KeyAt, IdAt, PayloadAt, Banks
    <3>2. KeyAt(j) \in Keys
      BY <2>5 DEF Shelved, Banks
    <3>3. QED  BY <2>2, <2>4, <2>5, <3>1, <3>2 DEF Shelved
  <2>6. QED  BY <2>2, <2>3, <2>5 DEF Filling
<1>11. CASE StoreEmbedding
  <2>1. PICK i \in todo :
          /\ IsNext(i)
          /\ vectors' = [vectors EXCEPT ![KeyAt(i)] = With(@, IdAt(i), PayloadAt(i))]
          /\ known' = [known EXCEPT ![KeyAt(i)] = With(@, IdAt(i), delivery[i])]
          /\ todo' = todo \ {i}
    BY <1>11 DEF StoreEmbedding
  <2>2. /\ pc = "store_embedding" /\ pc' = "create_thought"
        /\ UNCHANGED <<conn, thoughts, plan, delivery, outcome>>
    BY <1>11 DEF StoreEmbedding
  <2>3. NonBlank' = NonBlank /\ outcome = "pending"
    BY <1>0, <2>2 DEF NonBlank, Answering
  <2>4. /\ \A j : KeyAt(j)' = KeyAt(j) /\ IdAt(j)' = IdAt(j) /\ PayloadAt(j)' = PayloadAt(j)
        /\ Banks' = Banks
    BY <2>2 DEF KeyAt, IdAt, PayloadAt, Banks
  <2>5. i \in DOMAIN plan /\ KeyAt(i) \in Banks /\ KeyAt(i) \in Keys
        /\ IdAt(i) \in thoughts[KeyAt(i)]
    BY <1>0, <2>1, <2>2 DEF CallTyped, Numbered, Working, Banks
  <2>6. /\ vectors'[KeyAt(i)] = With(vectors[KeyAt(i)], IdAt(i), PayloadAt(i))
        /\ known'[KeyAt(i)] = With(known[KeyAt(i)], IdAt(i), delivery[i])
        /\ \A key \in Keys : key # KeyAt(i) => /\ vectors'[key] = vectors[key]
                                              /\ known'[key] = known[key]
    BY <1>0, <2>1, <2>5 DEF BanksTyped
  <2>7. Shelved(i)'
    BY <2>2, <2>4, <2>5, <2>6 DEF Shelved, With
  <2>8. ASSUME NEW j \in DOMAIN plan, j # i, Shelved(j) PROVE Shelved(j)'
    <3>1. IdAt(j) # IdAt(i)
      BY <1>0, <2>5, <2>8 DEF Numbered
    <3>2. KeyAt(j) \in Keys
      BY <2>8 DEF Shelved, Banks
    <3>3. CASE KeyAt(j) = KeyAt(i)
      BY <2>2, <2>4, <2>6, <2>8, <3>1, <3>3 DEF Shelved, With
    <3>4. CASE KeyAt(j) # KeyAt(i)
      BY <2>2, <2>4, <2>6, <2>8, <3>2, <3>4 DEF Shelved
    <3>5. QED  BY <3>3, <3>4
  <2>9. \A j \in DOMAIN plan \ todo' : Shelved(j)'
    BY <2>1, <2>2, <2>7, <2>8 DEF Filling
  <2>10. QED  BY <2>2, <2>3, <2>9 DEF Filling
<1>12. CASE IngestReturns
  <2>1. /\ pc = "create_thought" /\ pc' = "idle" /\ todo = {}
        /\ UNCHANGED <<conn, known, thoughts, vectors, delivery, plan>>
    BY <1>12 DEF IngestReturns, bankVars, engineVars, ingestVars
  <2>2. NonBlank \subseteq DOMAIN plan /\ \A i \in DOMAIN plan : Shelved(i)
    BY <2>1 DEF Filling
  <2>3. QED  BY <2>1, <2>2, SameBanks DEF Filling
<1>13. CASE UNCHANGED vars
  <2>1. UNCHANGED <<conn, known, thoughts, vectors, delivery, plan, todo, at, pc, outcome>>
    BY <1>13 DEF vars, bankVars, engineVars, ingestVars
  <2>2. QED  BY <2>1, SameBanks DEF Filling
<1>14. CASE ConnectRaises \/ SetUpRaises \/ EmbedRaises \/ StoreRaises
  BY <1>3, <1>14 DEF ConnectRaises, SetUpRaises, EmbedRaises, StoreRaises
<1>15. CASE CallInsideLoop \/ RetrieveReturns \/ CleanupReturns \/ CleanupInterrupted
  BY <1>2, <1>15 DEF CallInsideLoop, RetrieveReturns, CleanupReturns, CleanupInterrupted, Ends
<1>16. CASE PlaceHit \/ CloseBank \/ CloseBankRaises
  BY <1>0, <1>2, <1>16 DEF PlaceHit, CloseBank, CloseBankRaises, Answering
<1>17. ASSUME NEW call, CallCleanup(call) \/ CleanupInsideLoop(call) PROVE Filling'
  BY <1>2, <1>17 DEF CallCleanup, CleanupInsideLoop, Ends
<1>18. ASSUME NEW user, NEW k, Retrieve(user, k) \/ RetrieveRaises(user, k) PROVE Filling'
  BY <1>2, <1>18 DEF Retrieve, RetrieveRaises
<1>19. QED
  BY <1>4, <1>5, <1>6, <1>7, <1>8, <1>9, <1>10, <1>11, <1>12, <1>13, <1>14, <1>15, <1>16, <1>17,
     <1>18 DEF Next, Ingesting, Retrieving, Cleaning

(* An ingest that returns has stored every document that has text in the   *)
(* bank of its user, under an id of its own, with its own vector, whatever *)
(* was delivered, failed or was cleaned up before.                         *)
THEOREM IngestsAreComplete == Spec => []IngestIsComplete
<1>1. Init => Filling
  BY DEF Init, Filling
<1>2. IInv /\ Filling /\ [Next]_vars => Filling'
  BY FillingSteps
<1>3. IInv /\ Filling => IngestIsComplete
  <2> SUFFICES ASSUME IInv, Filling, outcome = "returned"
               PROVE  \E idOf \in Injection(NonBlank, UNION {thoughts[key] : key \in Keys}) :
                        \A i \in NonBlank :
                          /\ KeyAt(i) \in Banks
                          /\ idOf[i] \in thoughts[KeyAt(i)]
                          /\ idOf[i] \in DOMAIN known[KeyAt(i)]
                          /\ known[KeyAt(i)][idOf[i]] = delivery[i]
                          /\ idOf[i] \in DOMAIN vectors[KeyAt(i)]
                          /\ vectors[KeyAt(i)][idOf[i]] = PayloadAt(i)
    BY DEF IngestIsComplete
  <2> DEFINE all == UNION {thoughts[key] : key \in Keys}
             ids == [i \in NonBlank |-> IdAt(i)]
  <2>1. \A i \in NonBlank : i \in DOMAIN plan /\ Shelved(i)
    BY DEF Filling
  <2>2. \A i \in NonBlank : ids[i] = IdAt(i) /\ ids[i] \in all
    BY <2>1 DEF Shelved, Banks
  <2>3. \A i, j \in NonBlank : ids[i] = ids[j] => i = j
    BY <2>1, <2>2 DEF IInv, Numbered
  <2>4. ids \in Injection(NonBlank, all)
    BY <2>2, <2>3 DEF Injection, IsInjective
  <2>5. QED  BY <2>1, <2>2, <2>4 DEF Shelved
<1>4. QED  BY Invariance, <1>1, <1>2, <1>3, PTL DEF Spec

-----------------------------------------------------------------------------
(* The provider implements MemoryBanks. *)

LEMMA PromiseInit == Init => Promise!Init
<1> SUFFICES ASSUME Init PROVE Promise!Init  OBVIOUS
<1>1. \A user \in Users \cup {NoUser} : Shelf(user) = {}
  BY KeyTyping DEF Init, Shelf, Empty
<1>2. Answered = <<>> /\ pc # "place" /\ asked \in [user : Users \cup {NoUser}, k : Nat]
  BY DEF Init, Answered
<1>3. QED  BY <1>1, <1>2 DEF Promise!Init, Promise!Bare, Shelves

(* A shelf depends on its user's bank alone. *)
LEMMA SameShelves ==
  ASSUME \A key \in Keys : known'[key] = known[key]
  PROVE  Shelves' = Shelves
<1>1. \A user \in Users \cup {NoUser} : Shelf(user)' = Shelf(user)
  BY KeyTyping DEF Shelf
<1>2. QED  BY <1>1 DEF Shelves

LEMMA Placing ==
  ASSUME IInv, StoreEmbedding
  PROVE  \E document \in Documents : Promise!Place(document)
<1>0. BanksTyped /\ CallTyped /\ Numbered /\ Answering
  BY DEF IInv, Typed
<1>1. PICK i \in todo : known' = [known EXCEPT ![KeyAt(i)] = With(@, IdAt(i), delivery[i])]
  BY DEF StoreEmbedding
<1>2. pc = "store_embedding" /\ outcome' = outcome
  BY DEF StoreEmbedding, Goto
<1>3. PICK document \in Documents : document = delivery[i]
  BY <1>0, <1>1, DeliveryTyping DEF CallTyped
<1>4. PICK id : id = IdAt(i)
  BY Zenon
<1>5. PICK user \in Users \cup {NoUser} : user = document.user
  BY <1>3 DEF Documents
<1>6. PICK key \in Keys : key = BankKey(user) /\ key = KeyAt(i)
  BY <1>3, <1>5, KeyTyping DEF KeyAt
<1>7. id \notin DOMAIN known[key]
  BY <1>0, <1>1, <1>2, <1>4, <1>6 DEF Numbered, Working
<1>8. /\ known'[key] = With(known[key], id, document)
      /\ \A k \in Keys \ {key} : known'[k] = known[k]
  BY <1>0, <1>1, <1>3, <1>4, <1>6 DEF BanksTyped
<1>9. Shelf(user)' = Shelf(user) \cup {document}
  BY <1>6, <1>7, <1>8 DEF Shelf, With
<1>10. \A other \in (Users \cup {NoUser}) \ {user} : Shelf(other)' = Shelf(other)
  BY <1>6, <1>8, KeyTyping, KeyInjective, ZenonT(30) DEF Shelf
<1>11. Shelves' = [Shelves EXCEPT ![user] = @ \cup {document}]
  BY <1>9, <1>10 DEF Shelves
<1>12. Answered' = <<>>
  BY <1>0, <1>2 DEF Answering, Answered
<1>13. asked' = asked /\ pc' = "create_thought"
  BY DEF StoreEmbedding, Goto, searchVars
<1>14. QED  BY <1>5, <1>11, <1>12, <1>13 DEF Promise!Place, Promise!Silent

LEMMA Answers ==
  ASSUME IInv, RetrieveReturns
  PROVE  Promise!Answer
<1>0. CallTyped /\ Answering /\ pc = "place"
  BY DEF IInv, Typed, RetrieveReturns, Goto
<1>1. Shelves' = Shelves /\ asked' = asked /\ Answered' = ranked /\ pc' = "idle"
  BY SameShelves DEF RetrieveReturns, Goto, bankVars, searchVars, Answered
<1>2. Shelves[asked.user] = Shelf(asked.user)
  BY <1>0 DEF CallTyped, Shelves
<1>3. asked.k \in Nat /\ Breadth(asked.k) \in Nat
  BY <1>0, SizeAssumption DEF CallTyped, Breadth
<1>4. PICK n \in Nat : n = Len(ranked) /\ DOMAIN ranked = 1..n
  BY <1>0, LenProperties DEF CallTyped
<1>5. Len(hits) \in Nat /\ n <= Breadth(asked.k)
  BY <1>0, <1>3, <1>4, LenProperties DEF CallTyped, Answering
<1>6. ranked \in [1..n -> Shelf(asked.user)]
  BY <1>0, <1>4 DEF Answering, CallTyped
<1>7. \A i, j \in DOMAIN ranked : ranked[i].id = ranked[j].id => i = j
  BY <1>0 DEF Answering
<1>8. n \in 0..Breadth(asked.k)
  BY <1>3, <1>5
<1>9. ranked \in Promise!Rankings(Shelf(asked.user), Breadth(asked.k))
  BY <1>6, <1>7, <1>8 DEF Promise!Rankings
<1>10. QED  BY <1>0, <1>1, <1>2, <1>9 DEF Promise!Answer, Promise!Breadth, Breadth

LEMMA PromiseStep == IInv /\ [Next]_vars => [Promise!Next]_(Promise!vars)
<1> SUFFICES ASSUME IInv, [Next]_vars PROVE [Promise!Next]_(Promise!vars)  OBVIOUS
<1>0. BanksTyped /\ CallTyped /\ Resources /\ Numbered /\ Answering
  BY DEF IInv, Typed
<1>1. ASSUME outcome' # "found", \A key \in Keys : known'[key] = known[key],
             asked' = asked, pc' # "place"
      PROVE  Promise!Next
  <2>1. Promise!Forget
    BY <1>1, SameShelves DEF Promise!Forget, Promise!Silent, Answered
  <2>2. QED  BY <2>1 DEF Promise!Next
<1>2. CASE CallIngest \/ CallInsideLoop \/ SkipBlank \/ PlanDocument \/ Connect \/ ConnectRaises
           \/ SetUpRaises \/ PlansMade \/ EmbedBatch \/ EmbedRaises \/ Embedded
           \/ CreateThought \/ StoreRaises \/ IngestReturns
           \/ CloseBank \/ CloseBankRaises \/ CleanupReturns \/ CleanupInterrupted
  <2>1. UNCHANGED <<known, asked>> /\ outcome' # "found" /\ pc' # "place"
    BY <1>0, <1>2 DEF bankVars, searchVars, Goto, Answering, ForgetAnswer, Ends, CallIngest,
       CallInsideLoop, SkipBlank, PlanDocument, Connect, ConnectRaises, SetUpRaises, PlansMade,
       EmbedBatch, EmbedRaises, Embedded, CreateThought, StoreRaises, IngestReturns, CloseBank,
       CloseBankRaises, CleanupReturns, CleanupInterrupted, Raises
  <2>2. QED  BY <1>1, <2>1
<1>3. CASE PlaceHit
  <2>1. UNCHANGED <<known, asked>> /\ pc = "place" /\ pc' = "place"
    BY <1>3 DEF PlaceHit, Goto, bankVars
  <2>2. outcome # "found" /\ outcome' # "found"
    BY <1>0, <1>3, <2>1 DEF PlaceHit, Answering
  <2>3. QED  BY <2>1, <2>2, SameShelves DEF Promise!vars, Answered
<1>4. CASE RegisterBank
  <2>1. PICK key \in Keys : key = KeyAt(at) /\ key \notin Banks
    BY <1>0, <1>4, DeliveryTyping DEF RegisterBank, Goto, Resources, CallTyped
  <2>2. known' = [known EXCEPT ![key] = Empty] /\ known[key] = Empty
    BY <1>0, <1>4, <2>1 DEF RegisterBank, Numbered
  <2>3. \A k \in Keys : known'[k] = known[k]
    BY <1>0, <2>2 DEF BanksTyped
  <2>4. outcome' # "found" /\ asked' = asked /\ pc' # "place"
    BY <1>0, <1>4 DEF RegisterBank, Goto, Answering, searchVars
  <2>5. QED  BY <1>1, <2>3, <2>4
<1>5. CASE StoreEmbedding
  BY <1>5, Placing DEF Promise!Next
<1>6. CASE RetrieveReturns
  BY <1>6, Answers DEF Promise!Next
<1>7. ASSUME NEW user \in Users \cup {NoUser}, NEW k \in Depths,
             Retrieve(user, k) \/ RetrieveRaises(user, k)
      PROVE  Promise!Next
  <2>1. UNCHANGED known /\ outcome' # "found" /\ asked' = [user |-> user, k |-> k]
    BY <1>7 DEF Retrieve, RetrieveRaises, bankVars
  <2>2. Promise!Ask(user, k)
    BY <2>1, SameShelves, Zenon DEF Promise!Ask, Answered
  <2>3. QED  BY <2>2 DEF Promise!Next
<1>8. ASSUME NEW call, CallCleanup(call) \/ CleanupInsideLoop(call)
      PROVE  Promise!Next
  <2>1. DropBanks /\ outcome' # "found" /\ asked' = asked /\ pc' # "place"
    BY <1>8 DEF CallCleanup, CleanupInsideLoop, ForgetAnswer, Goto, Ends
  <2>2. \A user \in Users \cup {NoUser} : Shelf(user)' = {}
    BY <2>1, KeyTyping DEF DropBanks, Shelf, Empty
  <2>3. Promise!Wipe
    BY <2>1, <2>2 DEF Promise!Wipe, Promise!Silent, Promise!Bare, Shelves, Answered
  <2>4. QED  BY <2>3 DEF Promise!Next
<1>9. CASE UNCHANGED vars
  <2>1. Shelves' = Shelves /\ Answered' = Answered /\ asked' = asked /\ pc' = pc
    BY <1>9, SameShelves DEF vars, bankVars, searchVars, Answered
  <2>2. QED  BY <2>1 DEF Promise!vars
<1>10. QED
  BY <1>2, <1>3, <1>4, <1>5, <1>6, <1>7, <1>8, <1>9 DEF Next, Ingesting, Retrieving, Cleaning

(***************************************************************************)
(* For any users, names and documents, and a harness that calls what it    *)
(* likes: a document can be answered to its own user only, from the moment *)
(* it is stored whole until the banks are dropped; a retrieve answers with *)
(* documents of the user it was called for, and no answer repeats an id or *)
(* is longer than was asked for.                                           *)
(***************************************************************************)
THEOREM BanksAreApart == Spec => KeepsBanksApart
BY Invariance, PromiseInit, PromiseStep, PTL DEF Spec, KeepsBanksApart, Promise!Spec
=============================================================================
