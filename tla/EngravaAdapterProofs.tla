------------------------ MODULE EngravaAdapterProofs ------------------------
(***************************************************************************)
(* Theorems about EngravaAdapter, for any corpora, breadth, batch size and *)
(* number of connections and loops: its resources, what an ingest leaves   *)
(* in the store, and that it keeps the promise of MemoryAdapter.           *)
(***************************************************************************)
EXTENDS EngravaAdapter, SequenceTheorems, TLAPS

-----------------------------------------------------------------------------
(* The ids of a corpus. *)

LEMMA TurnTyping ==
  ASSUME NEW c \in Corpora \cup {<<>>}
  PROVE  /\ Len(c) \in Nat /\ DOMAIN c = 1..Len(c)
         /\ \A i \in DOMAIN c : c[i] \in Turn
         /\ NonBlank(c) \subseteq DOMAIN c
         /\ \A i \in NonBlank(c) : i \in Nat \ {0}
<1>1. c \in Seq(Turn)
  BY CorporaAssumption, EmptySeq
<1>2. Len(c) \in Nat /\ DOMAIN c = 1..Len(c)
  BY <1>1, LenProperties
<1>3. \A i \in DOMAIN c : c[i] \in Turn
  BY <1>1, <1>2, ElementOfSeq
<1>4. QED  BY <1>2, <1>3 DEF NonBlank

(* The salt is a position, and only a later one of two equal turns has it. *)
LEMMA IdOfInjective ==
  ASSUME NEW c \in Corpora \cup {<<>>}, NEW i \in NonBlank(c), NEW j \in NonBlank(c),
         IdOf(c, i) = IdOf(c, j)
  PROVE  i = j
<1>1. i \in Nat \ {0} /\ j \in Nat \ {0}
  BY TurnTyping
<1>2. SameTurn(c, i, j) /\ SameTurn(c, j, i)
  BY DEF IdOf, SameTurn
<1>3. ASSUME i < j PROVE FALSE
  BY <1>1, <1>2, <1>3 DEF IdOf
<1>4. ASSUME j < i PROVE FALSE
  BY <1>1, <1>2, <1>4 DEF IdOf
<1>5. QED  BY <1>1, <1>3, <1>4

LEMMA PlanOfId ==
  ASSUME NEW c \in Corpora \cup {<<>>}, NEW i \in NonBlank(c)
  PROVE  /\ IdOf(c, i) \in PlannedIds(c) /\ IdOf(c, i) \in ThoughtIds
         /\ PlanAt(c, IdOf(c, i)) = i
         /\ IdMap(c)[IdOf(c, i)] = c[i].unit
<1>1. IdOf(c, i) \in PlannedIds(c)
  BY DEF PlannedIds
<1>2. PlanAt(c, IdOf(c, i)) = i
  BY IdOfInjective DEF PlanAt
<1>3. IdOf(c, i) \in ThoughtIds
  BY TurnTyping DEF IdOf, ThoughtIds, Turn
<1>4. QED  BY <1>1, <1>2, <1>3 DEF IdMap

LEMMA PlannedTyping ==
  ASSUME NEW c \in Corpora \cup {<<>>}
  PROVE  /\ PlannedIds(c) \subseteq ThoughtIds
         /\ \A id \in PlannedIds(c) : PlanAt(c, id) \in NonBlank(c) /\ IdOf(c, PlanAt(c, id)) = id
         /\ IdMap(c) \in [PlannedIds(c) -> Units]
<1>1. \A id \in PlannedIds(c) : PlanAt(c, id) \in NonBlank(c) /\ IdOf(c, PlanAt(c, id)) = id
  BY PlanOfId DEF PlannedIds
<1>2. \A i \in NonBlank(c) : c[i].unit \in Units
  BY TurnTyping DEF Turn
<1>3. IdMap(c) \in [PlannedIds(c) -> Units]
  BY <1>1, <1>2 DEF IdMap
<1>4. QED  BY <1>1, <1>3, PlanOfId DEF PlannedIds

LEMMA PayloadTyping ==
  ASSUME NEW c \in Corpora \cup {<<>>}, NEW i \in NonBlank(c)
  PROVE  /\ PayloadAt(c, i) \in Texts
         /\ [unit |-> c[i].unit, text |-> c[i].text] \in Thought
<1>1. c[i] \in Turn /\ c[i].text # Blank
  BY TurnTyping DEF NonBlank
<1>2. QED  BY <1>1, EmbedAssumption DEF PayloadAt, Turn, Thought

-----------------------------------------------------------------------------
(* Types. *)

LEMMA InitTyped == Init => TypeOK
BY EmptySeq DEF Init, TypeOK, Empty, NonBlank

LEMMA NextTyped == TypeOK /\ [Next]_vars => TypeOK'
<1> SUFFICES ASSUME TypeOK, [Next]_vars PROVE TypeOK'  OBVIOUS
<1> USE DEF TypeOK, adapterVars, engineVars, localVars, searchVars, Goto, OnTheLoop, Drop, Spoil
<1> DEFINE Fresh == hits' = <<>> /\ at' = 0 /\ ranked' = <<>>
<1>1. Fresh => hits' \in Seq(ThoughtIds) /\ at' \in 0..Len(hits') /\ ranked' \in Seq(Units)
  BY EmptySeq
<1>2. CASE UNCHANGED vars
  BY <1>2 DEF vars
<1>3. CASE CallIngest
  BY <1>1, <1>3 DEF CallIngest
<1>4. CASE CallInsideLoop
  BY <1>1, <1>4 DEF CallInsideLoop
<1>5. CASE Connect
  BY <1>5 DEF Connect
<1>6. CASE EnsureSchema
  <2>1. idToUnit' = IdMap(corpus)
    BY <1>6 DEF EnsureSchema
  <2>2. DOMAIN idToUnit' \subseteq ThoughtIds /\ idToUnit' \in [DOMAIN idToUnit' -> Units]
    BY <2>1, PlannedTyping
  <2>3. DOMAIN thoughts' = {} /\ thoughts' = Empty /\ DOMAIN vectors' = {} /\ vectors' = Empty
    BY <1>6 DEF EnsureSchema, Empty
  <2>4. thoughts' \in [{} -> Thought] /\ vectors' \in [{} -> Texts]
    BY <2>3 DEF Empty
  <2>5. /\ fresh' \in Connections \cup {None} /\ store' \in Connections \cup {None}
        /\ conn' \in Connections \cup {None} /\ home' \in Loops \cup {None}
        /\ held' \in Corpora \cup {<<>>} /\ todo' \subseteq NonBlank(held') /\ embedded' \subseteq Texts
    BY <1>6 DEF EnsureSchema
  <2>6. QED  BY <1>6, <2>2, <2>3, <2>4, <2>5 DEF EnsureSchema
<1>7. ASSUME NEW from, Raises(from), open' \subseteq Connections, spoiled' \subseteq Connections
      PROVE TypeOK'
  BY <1>7 DEF Raises
<1>8. CASE ConnectRaises \/ EnsureSchemaRaises \/ EmbedBatchRaises \/ StoreRaises
           \/ CloseStoreRaises \/ CloseConnRaises
  <2>1. open' \subseteq Connections /\ spoiled' \subseteq Connections
    BY <1>8 DEF ConnectRaises, EnsureSchemaRaises, EmbedBatchRaises, StoreRaises,
         CloseStoreRaises, CloseConnRaises
  <2>2. PICK from : Raises(from)
    BY <1>8 DEF ConnectRaises, EnsureSchemaRaises, EmbedBatchRaises, StoreRaises,
         CloseStoreRaises, CloseConnRaises
  <2>3. QED  BY <1>7, <2>1, <2>2
<1>9. CASE EmbedBatch
  <2>1. NextBatch(held) \subseteq Texts
    BY PayloadTyping DEF NextBatch, Unembedded
  <2>2. embedded' \subseteq Texts
    BY <1>9, <2>1 DEF EmbedBatch
  <2>3. pc' \in {"create_thought", "embed"}
    BY <1>9 DEF EmbedBatch
  <2>4. QED  BY <1>9, <2>2, <2>3 DEF EmbedBatch
<1>10. CASE CreateThought
  <2>1. PICK i \in todo :
          thoughts' = [id \in DOMAIN thoughts \cup {IdOf(held, i)} |->
            IF id = IdOf(held, i) THEN [unit |-> held[i].unit, text |-> held[i].text]
            ELSE thoughts[id]]
    BY <1>10 DEF CreateThought
  <2>2. IdOf(held, i) \in ThoughtIds /\ [unit |-> held[i].unit, text |-> held[i].text] \in Thought
    BY PlanOfId, PayloadTyping
  <2>3. DOMAIN thoughts' \subseteq ThoughtIds /\ thoughts' \in [DOMAIN thoughts' -> Thought]
    BY <2>1, <2>2
  <2>4. QED  BY <1>10, <2>3 DEF CreateThought
<1>11. CASE StoreEmbedding
  <2>1. PICK i \in todo :
          /\ vectors' = [id \in DOMAIN vectors \cup {IdOf(held, i)} |->
               IF id = IdOf(held, i) THEN PayloadAt(held, i) ELSE vectors[id]]
          /\ todo' = todo \ {i}
    BY <1>11 DEF StoreEmbedding
  <2>2. IdOf(held, i) \in ThoughtIds /\ PayloadAt(held, i) \in Texts
    BY PlanOfId, PayloadTyping
  <2>3. DOMAIN vectors' \subseteq ThoughtIds /\ vectors' \in [DOMAIN vectors' -> Texts]
    BY <2>1, <2>2
  <2>4. QED  BY <1>11, <2>1, <2>3 DEF StoreEmbedding
<1>12. CASE IngestReturns
  BY <1>12 DEF IngestReturns
<1>13. CASE Search
  <2>1. PICK n \in 0..TopK : hits' \in Injection(1..n, DOMAIN thoughts)
    BY <1>13 DEF Search
  <2>a. hits' \in [1..n -> DOMAIN thoughts] /\ DOMAIN thoughts \subseteq ThoughtIds
    BY Zenon, <2>1 DEF Injection
  <2>2. n \in Nat /\ hits' \in [1..n -> ThoughtIds]
    BY <2>a, SizeAssumption
  <2>3. hits' \in Seq(ThoughtIds) /\ Len(hits') \in Nat
    BY <2>2, LenProperties
  <2>4. QED  BY <1>13, <2>3, EmptySeq DEF Search
<1>14. CASE SearchRaises
  BY <1>1, <1>14 DEF SearchRaises
<1>15. CASE PlaceHit
  <2>1. Len(hits) \in Nat /\ at' \in 0..Len(hits') /\ hits' = hits
    BY <1>15, LenProperties DEF PlaceHit
  <2>2. ranked' = ranked \/ \E id \in DOMAIN idToUnit : ranked' = Append(ranked, idToUnit[id])
    BY <1>15 DEF PlaceHit
  <2>3. ranked' \in Seq(Units)
    BY <2>2, AppendProperties
  <2>4. QED  BY <1>15, <2>1, <2>3 DEF PlaceHit
<1>16. CASE SearchReturns
  BY <1>16 DEF SearchReturns
<1>17. CASE CallClose
  BY <1>1, <1>17 DEF CallClose
<1>18. CASE CloseInsideLoop
  BY <1>1, <1>18 DEF CloseInsideLoop
<1>19. CASE Collect
  BY <1>19 DEF Collect
<1>20. CASE CloseStore
  BY <1>20 DEF CloseStore
<1>21. CASE CloseConn
  BY <1>21 DEF CloseConn
<1>22. QED
  BY <1>2, <1>3, <1>4, <1>5, <1>6, <1>8, <1>9, <1>10, <1>11, <1>12, <1>13, <1>14, <1>15, <1>16,
     <1>17, <1>18, <1>19, <1>20, <1>21 DEF Next, Ingesting, Searching, Closing

(***************************************************************************)
(* Whatever is called and whatever fails, every attribute and local of the *)
(* adapter has its type; in particular what is left to store is always     *)
(* part of the corpus the present store was created for.                   *)
(***************************************************************************)
THEOREM TypeCorrect == Spec => []TypeOK
BY InitTyped, NextTyped, PTL DEF Spec

-----------------------------------------------------------------------------
(* The inductive invariant. *)

(* What each await may rely on. *)
Shape ==
  /\ pc \notin {"idle", "gone"} => outcome = "pending" /\ loop # None
  /\ pc \in {"close_store", "close_conn"} => op \in {"ingest", "close"}
  /\ pc \in {"close_conn", "connect", "ensure_schema"} => store = None
  /\ pc \in {"connect", "ensure_schema"} => conn = None /\ op = "ingest"
  /\ fresh # None <=> pc = "ensure_schema"
  /\ pc \in {"embed", "create_thought", "store_embedding"} =>
       op = "ingest" /\ store # None /\ held = corpus
  /\ pc = "place" => op = "search" /\ store # None
  /\ pc \in {"close_store", "close_conn", "connect", "ensure_schema"} /\ op = "ingest" =>
       corpus \in Corpora

(* Every connection that is open has someone to answer for it. *)
Resources ==
  /\ NoLeakWithoutFault /\ HeldOnItsLoop
  /\ store # None => store \in open
  /\ fresh # None => fresh \in open

TurnOf(id) == held[PlanAt(held, id)]

(* While there is a store: what is in it is planned, and what is planned   *)
(* and not left to store is in it.                                         *)
Contents ==
  store # None =>
    /\ held \in Corpora
    /\ idToUnit = IdMap(held)
    /\ DOMAIN thoughts \subseteq PlannedIds(held) /\ DOMAIN vectors \subseteq PlannedIds(held)
    /\ \A id \in DOMAIN thoughts :
         thoughts[id] = [unit |-> TurnOf(id).unit, text |-> TurnOf(id).text]
    /\ \A id \in DOMAIN vectors : vectors[id] = PayloadAt(held, PlanAt(held, id))
    /\ \A i \in NonBlank(held) \ todo :
         IdOf(held, i) \in DOMAIN thoughts /\ IdOf(held, i) \in DOMAIN vectors
    /\ pc = "store_embedding" => \A i \in todo : IsNext(i) => IdOf(held, i) \in DOMAIN thoughts

(* r ranks the first a of the units, each once and at its best copy. *)
BestFirst(units, a, r) ==
  /\ Len(r) <= a
  /\ \A k, l \in 1..Len(r) : r[k] = r[l] => k = l
  /\ \A i \in 1..a : \E k \in 1..Len(r) : k <= i /\ r[k] = units[i]
  /\ \A k \in 1..Len(r) : \E i \in 1..a :
       r[k] = units[i] /\ \A l \in k + 1..Len(r), j \in 1..i : r[l] # units[j]

HitUnits == [i \in 1..Len(hits) |-> UnitHit(i)]

(* While a search runs, and after it: what is placed ranks the hits that   *)
(* have been looked at.                                                    *)
Placing ==
  pc = "place" \/ outcome = "found" =>
    /\ store # None
    /\ Len(hits) <= TopK
    /\ \A i \in 1..Len(hits) : hits[i] \in DOMAIN thoughts
    /\ BestFirst(HitUnits, at, ranked)

Finished ==
  /\ outcome = "found" => pc = "idle" /\ at = Len(hits)
  /\ op = "ingest" /\ outcome = "returned" => pc = "idle" /\ Ready /\ held = corpus

LEMMA NextShape == TypeOK /\ Shape /\ [Next]_vars => Shape'
<1> SUFFICES ASSUME TypeOK, Shape, [Next]_vars PROVE Shape'  OBVIOUS
<1> USE NoneAssumption DEF TypeOK, Shape, Goto, OnTheLoop, Drop, adapterVars, engineVars, localVars,
      searchVars
<1>1. CASE UNCHANGED vars
  BY <1>1 DEF vars
<1>2. CASE CallIngest
  BY <1>2 DEF CallIngest
<1>3. CASE CallInsideLoop
  BY <1>3 DEF CallInsideLoop
<1>4. CASE Connect
  BY <1>4 DEF Connect
<1>5. CASE ConnectRaises
  BY <1>5 DEF ConnectRaises, Raises
<1>6. CASE EnsureSchema
  BY <1>6 DEF EnsureSchema
<1>7. CASE EnsureSchemaRaises
  BY <1>7 DEF EnsureSchemaRaises, Raises
<1>8. CASE EmbedBatch
  BY <1>8 DEF EmbedBatch
<1>9. CASE EmbedBatchRaises
  BY <1>9 DEF EmbedBatchRaises, Raises
<1>10. CASE CreateThought
  BY <1>10 DEF CreateThought
<1>11. CASE StoreEmbedding
  BY <1>11 DEF StoreEmbedding
<1>12. CASE StoreRaises
  BY <1>12 DEF StoreRaises, Raises
<1>13. CASE IngestReturns
  BY <1>13 DEF IngestReturns
<1>14. CASE Search
  BY <1>14 DEF Search
<1>15. CASE SearchRaises
  BY <1>15 DEF SearchRaises
<1>16. CASE PlaceHit
  BY <1>16 DEF PlaceHit
<1>17. CASE SearchReturns
  BY <1>17 DEF SearchReturns
<1>18. CASE CallClose
  BY <1>18 DEF CallClose
<1>19. CASE CloseInsideLoop
  BY <1>19 DEF CloseInsideLoop
<1>20. CASE Collect
  BY <1>20 DEF Collect
<1>21. CASE CloseStore
  BY <1>21 DEF CloseStore
<1>22. CASE CloseStoreRaises
  BY <1>22 DEF CloseStoreRaises, Raises
<1>23. CASE CloseConn
  BY <1>23 DEF CloseConn
<1>24. CASE CloseConnRaises
  BY <1>24 DEF CloseConnRaises, Raises
<1>25. QED
  BY <1>1, <1>2, <1>3, <1>4, <1>5, <1>6, <1>7, <1>8, <1>9, <1>10, <1>11, <1>12, <1>13,
     <1>14, <1>15, <1>16, <1>17, <1>18, <1>19, <1>20, <1>21, <1>22, <1>23, <1>24
  DEF Next, Ingesting, Searching, Closing

LEMMA NextResources == TypeOK /\ Shape /\ Resources /\ [Next]_vars => Resources'
<1> SUFFICES ASSUME TypeOK, Shape, Resources, [Next]_vars PROVE Resources'  OBVIOUS
<1> USE NoneAssumption DEF TypeOK, Shape, Resources, NoLeakWithoutFault, HeldOnItsLoop, Goto, OnTheLoop,
      Drop, Spoil, adapterVars, engineVars, localVars, searchVars
<1>1. CASE UNCHANGED vars
  BY <1>1 DEF vars
<1>2. CASE CallIngest
  BY <1>2 DEF CallIngest
<1>3. CASE CallInsideLoop
  BY <1>3 DEF CallInsideLoop
<1>4. CASE Connect
  BY <1>4 DEF Connect
<1>5. CASE ConnectRaises
  BY <1>5 DEF ConnectRaises, Raises
<1>6. CASE EnsureSchema
  BY <1>6 DEF EnsureSchema
<1>7. CASE EnsureSchemaRaises
  BY <1>7 DEF EnsureSchemaRaises, Raises
<1>8. CASE EmbedBatch
  BY <1>8 DEF EmbedBatch
<1>9. CASE EmbedBatchRaises
  BY <1>9 DEF EmbedBatchRaises, Raises
<1>10. CASE CreateThought
  BY <1>10 DEF CreateThought
<1>11. CASE StoreEmbedding
  BY <1>11 DEF StoreEmbedding
<1>12. CASE StoreRaises
  BY <1>12 DEF StoreRaises, Raises
<1>13. CASE IngestReturns
  BY <1>13 DEF IngestReturns
<1>14. CASE Search
  BY <1>14 DEF Search
<1>15. CASE SearchRaises
  BY <1>15 DEF SearchRaises
<1>16. CASE PlaceHit
  BY <1>16 DEF PlaceHit
<1>17. CASE SearchReturns
  BY <1>17 DEF SearchReturns
<1>18. CASE CallClose
  BY <1>18 DEF CallClose
<1>19. CASE CloseInsideLoop
  BY <1>19 DEF CloseInsideLoop
<1>20. CASE Collect
  BY <1>20 DEF Collect
<1>21. CASE CloseStore
  BY <1>21 DEF CloseStore
<1>22. CASE CloseStoreRaises
  BY <1>22 DEF CloseStoreRaises, Raises
<1>23. CASE CloseConn
  BY <1>23 DEF CloseConn
<1>24. CASE CloseConnRaises
  BY <1>24 DEF CloseConnRaises, Raises
<1>25. QED
  BY <1>1, <1>2, <1>3, <1>4, <1>5, <1>6, <1>7, <1>8, <1>9, <1>10, <1>11, <1>12, <1>13,
     <1>14, <1>15, <1>16, <1>17, <1>18, <1>19, <1>20, <1>21, <1>22, <1>23, <1>24
  DEF Next, Ingesting, Searching, Closing

LEMMA NextContents == TypeOK /\ Shape /\ Contents /\ [Next]_vars => Contents'
<1> SUFFICES ASSUME TypeOK, Shape, Contents, [Next]_vars PROVE Contents'  OBVIOUS
<1> USE DEF Goto
<1>1. CASE /\ UNCHANGED <<held, idToUnit, thoughts, vectors, todo>>
           /\ store' \in {store, None}
           /\ pc' # "store_embedding" \/ pc = "store_embedding"
  BY <1>1 DEF Contents, TurnOf, IsNext
<1>2. CASE EnsureSchema
  <2>1. held' = corpus /\ corpus \in Corpora /\ pc' = "embed" /\ idToUnit' = IdMap(corpus)
    BY <1>2 DEF EnsureSchema, Shape
  <2>2. DOMAIN thoughts' = {} /\ DOMAIN vectors' = {} /\ todo' = NonBlank(corpus)
    BY <1>2 DEF EnsureSchema, Empty
  <2>3. QED  BY <2>1, <2>2 DEF Contents
<1>3. CASE CreateThought
  <2>1. PICK i \in todo :
          /\ IsNext(i)
          /\ thoughts' = [id \in DOMAIN thoughts \cup {IdOf(held, i)} |->
               IF id = IdOf(held, i) THEN [unit |-> held[i].unit, text |-> held[i].text]
               ELSE thoughts[id]]
    BY <1>3 DEF CreateThought
  <2>2. UNCHANGED <<store, held, idToUnit, vectors, todo>> /\ store # None
    BY <1>3 DEF CreateThought, Shape, adapterVars, localVars
  <2>3. i \in NonBlank(held) /\ IdOf(held, i) \in PlannedIds(held)
        /\ PlanAt(held, IdOf(held, i)) = i
    BY PlanOfId DEF TypeOK
  <2>4. \A id \in DOMAIN thoughts' :
           id \in PlannedIds(held) /\ thoughts'[id] = [unit |-> TurnOf(id).unit, text |-> TurnOf(id).text]
    BY <2>1, <2>2, <2>3 DEF Contents, TurnOf
  <2>5. \A j \in todo : IsNext(j) => j = i
    BY <2>1, TurnTyping DEF IsNext, TypeOK
  <2>6. QED  BY <2>1, <2>2, <2>4, <2>5 DEF Contents, TurnOf, IsNext
<1>4. CASE StoreEmbedding
  <2>1. PICK i \in todo :
          /\ IsNext(i)
          /\ vectors' = [id \in DOMAIN vectors \cup {IdOf(held, i)} |->
               IF id = IdOf(held, i) THEN PayloadAt(held, i) ELSE vectors[id]]
          /\ todo' = todo \ {i}
    BY <1>4 DEF StoreEmbedding
  <2>2. UNCHANGED <<store, held, idToUnit, thoughts>> /\ store # None /\ pc' = "create_thought"
    BY <1>4 DEF StoreEmbedding, Shape, adapterVars
  <2>3. i \in NonBlank(held) /\ IdOf(held, i) \in PlannedIds(held)
        /\ PlanAt(held, IdOf(held, i)) = i /\ IdOf(held, i) \in DOMAIN thoughts
    BY <1>4, <2>1, <2>2, PlanOfId DEF TypeOK, Contents, StoreEmbedding
  <2>4. \A id \in DOMAIN vectors' :
           id \in PlannedIds(held) /\ vectors'[id] = PayloadAt(held, PlanAt(held, id))
    BY <2>1, <2>2, <2>3 DEF Contents
  <2>5. \A j \in NonBlank(held) \ todo' : IdOf(held, j) \in DOMAIN thoughts /\ IdOf(held, j) \in DOMAIN vectors'
    BY <2>1, <2>2, <2>3 DEF Contents
  <2>6. QED  BY <2>2, <2>4, <2>5 DEF Contents, TurnOf
<1>5. QED
  BY <1>1, <1>2, <1>3, <1>4 DEF vars, adapterVars, engineVars, localVars, searchVars, Next, Ingesting,
     Searching, Closing, Raises, Drop, CallIngest, CallInsideLoop, Connect, ConnectRaises,
     EnsureSchemaRaises, EmbedBatch, EmbedBatchRaises, StoreRaises, IngestReturns, Search, SearchRaises,
     PlaceHit, SearchReturns, CallClose, CloseInsideLoop, Collect, CloseStore, CloseStoreRaises,
     CloseConn, CloseConnRaises

(* A hit is a stored thought, so it is known and has its own turn's unit. *)
LEMMA HitIsKnown ==
  ASSUME TypeOK, Contents, store # None, NEW i \in 1..Len(hits), hits[i] \in DOMAIN thoughts
  PROVE  /\ hits[i] \in DOMAIN idToUnit /\ idToUnit[hits[i]] = UnitHit(i)
         /\ UnitHit(i) \in {held[k].unit : k \in DOMAIN held}
<1> DEFINE id == hits[i]
<1>1. id \in PlannedIds(held) /\ idToUnit = IdMap(held) /\ UnitHit(i) = TurnOf(id).unit
  BY DEF Contents, UnitHit
<1>2. PlanAt(held, id) \in DOMAIN held
  BY <1>1, PlannedTyping, TurnTyping DEF TypeOK
<1>3. QED  BY <1>1, <1>2 DEF IdMap, TurnOf

(* Looking at one more unit, which is placed already. *)
LEMMA PlacedAlready ==
  ASSUME NEW units, NEW a \in Nat, NEW S, NEW r \in Seq(S), BestFirst(units, a, r),
         NEW m \in 1..Len(r), r[m] = units[a + 1]
  PROVE  BestFirst(units, a + 1, r)
<1>1. Len(r) \in Nat /\ Len(r) <= a
  BY LenProperties DEF BestFirst
<1>2. \A i \in 1..a + 1 : \E k \in 1..Len(r) : k <= i /\ r[k] = units[i]
  <2> TAKE i \in 1..a + 1
  <2>1. CASE i \in 1..a
    BY <2>1 DEF BestFirst
  <2>2. CASE i = a + 1
    BY <1>1, <2>2
  <2>3. QED  BY <2>1, <2>2
<1>3. \A k \in 1..Len(r) : \E i \in 1..a + 1 :
        r[k] = units[i] /\ \A l \in k + 1..Len(r), j \in 1..i : r[l] # units[j]
  <2> TAKE k \in 1..Len(r)
  <2>1. PICK i \in 1..a :
          r[k] = units[i] /\ \A l \in k + 1..Len(r), j \in 1..i : r[l] # units[j]
    BY DEF BestFirst
  <2>2. i \in 1..a + 1
    OBVIOUS
  <2>3. QED  BY <2>1, <2>2
<1>4. Len(r) <= a + 1 /\ \A k, l \in 1..Len(r) : r[k] = r[l] => k = l
  BY <1>1 DEF BestFirst
<1>5. QED  BY <1>2, <1>3, <1>4 DEF BestFirst

(* Looking at one more unit, which is new. *)
LEMMA PlacedNow ==
  ASSUME NEW units, NEW a \in Nat, NEW S, NEW r \in Seq(S), BestFirst(units, a, r),
         NEW u \in S, u = units[a + 1], \A k \in 1..Len(r) : r[k] # u
  PROVE  BestFirst(units, a + 1, Append(r, u))
<1> DEFINE n == Len(r)
           s == Append(r, u)
<1>1. n \in Nat /\ n <= a
  BY LenProperties DEF BestFirst
<1>2. /\ Len(s) = n + 1 /\ s[n + 1] = u
      /\ \A k \in 1..n : s[k] = r[k]
  BY <1>1, AppendProperties
<1> HIDE DEF s
<1>3. \A i \in 1..a : \E k \in 1..n : k <= i /\ s[k] = units[i]
  <2> TAKE i \in 1..a
  <2>1. PICK k \in 1..n : k <= i /\ r[k] = units[i]
    BY DEF BestFirst
  <2>2. QED  BY <1>2, <2>1
<1>4. \A i \in 1..a + 1 : \E k \in 1..n + 1 : k <= i /\ s[k] = units[i]
  <2> TAKE i \in 1..a + 1
  <2>1. CASE i \in 1..a
    <3>1. PICK k \in 1..n : k <= i /\ s[k] = units[i]
      BY <1>3, <2>1
    <3>2. k \in 1..n + 1
      BY <1>1
    <3>3. QED  BY <3>1, <3>2
  <2>2. CASE i = a + 1
    <3>1. n + 1 \in 1..n + 1 /\ n + 1 <= i
      BY <1>1, <2>2
    <3>2. QED  BY <1>2, <2>2, <3>1
  <2>3. QED  BY <2>1, <2>2
<1>5. \A j \in 1..a : units[j] # u
  BY <1>2, <1>3
<1>6. \A k \in 1..n + 1 : \E i \in 1..a + 1 :
        s[k] = units[i] /\ \A l \in k + 1..n + 1, j \in 1..i : s[l] # units[j]
  <2> TAKE k \in 1..n + 1
  <2>1. CASE k = n + 1
    <3>1. a + 1 \in 1..a + 1 /\ k + 1..n + 1 = {}
      BY <1>1, <2>1
    <3>2. QED  BY <1>2, <2>1, <3>1
  <2>2. CASE k \in 1..n
    <3>1. PICK i \in 1..a :
            r[k] = units[i] /\ \A l \in k + 1..n, j \in 1..i : r[l] # units[j]
      BY <2>2 DEF BestFirst
    <3>2. \A l \in k + 1..n + 1, j \in 1..i : s[l] # units[j]
      <4> TAKE l \in k + 1..n + 1, j \in 1..i
      <4>1. CASE l \in k + 1..n
        <5>1. l \in 1..n
          BY <1>1, <2>2, <4>1
        <5>2. QED  BY <1>2, <3>1, <4>1, <5>1
      <4>2. CASE l = n + 1
        <5>1. j \in 1..a
          BY <3>1
        <5>2. QED  BY <1>2, <1>5, <4>2, <5>1
      <4>3. QED  BY <1>1, <2>2, <4>1, <4>2
    <3>3. i \in 1..a + 1 /\ s[k] = units[i]
      BY <1>2, <2>2, <3>1
    <3>4. QED  BY <3>2, <3>3
  <2>3. QED  BY <1>1, <2>1, <2>2
<1>7. \A k, l \in 1..n + 1 : s[k] = s[l] => k = l
  <2> SUFFICES ASSUME NEW k \in 1..n + 1, NEW l \in 1..n + 1, s[k] = s[l] PROVE k = l
    OBVIOUS
  <2>1. CASE k \in 1..n /\ l \in 1..n
    BY <1>2, <2>1 DEF BestFirst
  <2>2. CASE k = n + 1 \/ l = n + 1
    BY <1>1, <1>2, <2>2
  <2>3. QED  BY <1>1, <2>1, <2>2
<1>8. QED
  <2>1. Len(s) <= a + 1 /\ Len(s) = n + 1
    BY <1>1, <1>2
  <2>2. \A i \in 1..a + 1 : \E k \in 1..Len(s) : k <= i /\ s[k] = units[i]
    BY <1>4, <2>1, Zenon
  <2>3. \A k \in 1..Len(s) : \E i \in 1..a + 1 :
          s[k] = units[i] /\ \A l \in k + 1..Len(s), j \in 1..i : s[l] # units[j]
    <3> TAKE k \in 1..Len(s)
    <3>1. k \in 1..n + 1 /\ k + 1..Len(s) = k + 1..n + 1
      BY <2>1
    <3>2. PICK i \in 1..a + 1 :
            s[k] = units[i] /\ \A l \in k + 1..n + 1, j \in 1..i : s[l] # units[j]
      BY <1>6, <3>1
    <3>3. QED  BY <3>1, <3>2
  <2>4. \A k, l \in 1..Len(s) : s[k] = s[l] => k = l
    BY <1>7, <2>1, Zenon
  <2>5. BestFirst(units, a + 1, s)
    BY <2>1, <2>2, <2>3, <2>4, Zenon DEF BestFirst
  <2>6. QED  BY <2>5 DEF s

LEMMA NextPlacing ==
  TypeOK /\ Shape /\ Contents /\ Placing /\ [Next]_vars => Placing'
<1> SUFFICES ASSUME TypeOK, Shape, Contents, Placing, [Next]_vars PROVE Placing'  OBVIOUS
<1> USE DEF Goto
<1>1. CASE pc' # "place" /\ outcome' # "found"
  BY <1>1 DEF Placing
<1>2. ASSUME UNCHANGED <<hits, thoughts>>
      PROVE  HitUnits' = HitUnits
  BY <1>2 DEF HitUnits, UnitHit
<1>3. ASSUME UNCHANGED <<store, thoughts, searchVars>>, pc = "place" \/ outcome = "found"
      PROVE  Placing'
  BY <1>2, <1>3 DEF searchVars, Placing
<1>4. CASE UNCHANGED vars
  BY <1>1, <1>3, <1>4 DEF vars, engineVars, adapterVars
<1>5. CASE Search
  <2>1. PICK n \in 0..TopK : hits' \in Injection(1..n, DOMAIN thoughts)
    BY <1>5 DEF Search
  <2>2. n \in Nat /\ n <= TopK /\ hits' \in [1..n -> DOMAIN thoughts]
    BY <2>1, SizeAssumption DEF Injection
  <2>3. hits' \in Seq(DOMAIN thoughts)
    BY <2>2
  <2>4. Len(hits') = n
    BY <2>2, <2>3, LenProperties
  <2>5. store' # None /\ at' = 0 /\ ranked' = <<>> /\ thoughts' = thoughts
    BY <1>5 DEF Search, engineVars
  <2>6. BestFirst(HitUnits', at', ranked')
    BY <2>5 DEF BestFirst
  <2>7. QED  BY <2>2, <2>4, <2>5, <2>6 DEF Placing
<1>6. CASE PlaceHit
  <2> DEFINE u == UnitHit(at + 1)
  <2>1. /\ UNCHANGED <<store, thoughts, hits>> /\ at' = at + 1 /\ at < Len(hits) /\ pc = "place"
    BY <1>6 DEF PlaceHit, adapterVars, engineVars
  <2>2. Len(hits) \in Nat /\ at \in Nat /\ at + 1 \in 1..Len(hits)
    BY <2>1, LenProperties DEF TypeOK
  <2>3. /\ hits[at + 1] \in DOMAIN idToUnit /\ idToUnit[hits[at + 1]] = u
        /\ HitUnits[at + 1] = u /\ u \in Units
    <3>1. hits[at + 1] \in DOMAIN idToUnit /\ idToUnit[hits[at + 1]] = u
      BY <2>1, <2>2, HitIsKnown DEF Placing
    <3>2. u \in Units
      BY <3>1 DEF TypeOK
    <3>3. QED  BY <2>2, <3>1, <3>2 DEF HitUnits
  <2>4. BestFirst(HitUnits, at, ranked) /\ ranked \in Seq(Units)
    BY <2>1 DEF Placing, TypeOK
  <2>5. BestFirst(HitUnits, at + 1, ranked')
    <3>1. CASE u \in Placed
      <4>1. ranked' = ranked
        BY <1>6, <2>3, <3>1 DEF PlaceHit
      <4>2. PICK m \in 1..Len(ranked) : ranked[m] = u
        BY <2>4, <3>1, LenProperties DEF Placed
      <4>3. QED  BY <2>2, <2>3, <2>4, <4>1, <4>2, PlacedAlready
    <3>2. CASE u \notin Placed
      <4>1. ranked' = Append(ranked, u)
        BY <1>6, <2>3, <3>2 DEF PlaceHit
      <4>2. \A k \in 1..Len(ranked) : ranked[k] # u
        BY <2>4, <3>2, LenProperties DEF Placed
      <4>3. QED  BY <2>2, <2>3, <2>4, <4>1, <4>2, PlacedNow
    <3>3. QED  BY <3>1, <3>2
  <2>6. QED  BY <1>2, <2>1, <2>5 DEF Placing
<1>7. CASE SearchReturns
  BY <1>3, <1>7 DEF SearchReturns, adapterVars, engineVars
<1>8. QED
  BY <1>1, <1>4, <1>5, <1>6, <1>7 DEF Shape, Next, Ingesting, Searching, Closing, Raises, CallIngest,
     CallInsideLoop, Connect, ConnectRaises, EnsureSchema, EnsureSchemaRaises, EmbedBatch,
     EmbedBatchRaises, CreateThought, StoreEmbedding, StoreRaises, IngestReturns, SearchRaises,
     CallClose, CloseInsideLoop, Collect, CloseStore, CloseStoreRaises, CloseConn, CloseConnRaises

LEMMA NextFinished == TypeOK /\ Shape /\ Finished /\ [Next]_vars => Finished'
<1> SUFFICES ASSUME TypeOK, Shape, Finished, [Next]_vars PROVE Finished'  OBVIOUS
<1> USE DEF Goto, Finished, Ready
<1>1. CASE outcome' \notin {"found", "returned"}
  BY <1>1
<1>2. CASE UNCHANGED vars
  BY <1>2 DEF vars, adapterVars, localVars, searchVars
<1>3. CASE SearchReturns
  BY <1>3 DEF SearchReturns, searchVars
<1>4. CASE IngestReturns
  BY <1>4 DEF IngestReturns, Shape, adapterVars, localVars
<1>5. QED
  BY <1>1, <1>2, <1>3, <1>4 DEF Shape, Next, Ingesting, Searching, Closing, Raises, CallIngest,
     CallInsideLoop, Connect, ConnectRaises, EnsureSchema, EnsureSchemaRaises, EmbedBatch,
     EmbedBatchRaises, CreateThought, StoreEmbedding, StoreRaises, Search, SearchRaises, PlaceHit,
     CallClose, CloseInsideLoop, Collect, CloseStore, CloseStoreRaises, CloseConn, CloseConnRaises

AdapterInv == TypeOK /\ Shape /\ Resources /\ Contents /\ Placing /\ Finished

LEMMA InitInv == Init => AdapterInv
<1> SUFFICES ASSUME Init PROVE AdapterInv  OBVIOUS
<1>1. TypeOK
  BY InitTyped
<1>2. Shape /\ Resources /\ Contents /\ Placing /\ Finished
  BY DEF Init, Shape, Resources, NoLeakWithoutFault, HeldOnItsLoop, Contents, Placing, Finished
<1>3. QED  BY <1>1, <1>2 DEF AdapterInv

LEMMA NextInv == AdapterInv /\ [Next]_vars => AdapterInv'
BY NextTyped, NextShape, NextResources, NextContents, NextPlacing, NextFinished DEF AdapterInv

LEMMA Invariance == Spec => []AdapterInv
BY InitInv, NextInv, PTL DEF Spec

-----------------------------------------------------------------------------
(* What follows from the invariant. *)

(***************************************************************************)
(* No sequence of calls and failures leaves a connection open that nobody  *)
(* holds, unless the set-up or clean-up of that very connection raised or  *)
(* was skipped: _close and _create_store hand every other one on.          *)
(***************************************************************************)
THEOREM ConnectionsAreReleased == Spec => []NoLeakWithoutFault
<1>1. AdapterInv => NoLeakWithoutFault
  BY DEF AdapterInv, Resources
<1>2. QED  BY <1>1, Invariance, PTL

(***************************************************************************)
(* _run_sync drives a held connection only on the event loop it was opened *)
(* on, and close() leaves no reference behind when it drops that loop.     *)
(***************************************************************************)
THEOREM OneLoopPerConnection == Spec => []HeldOnItsLoop
<1>1. AdapterInv => HeldOnItsLoop
  BY DEF AdapterInv, Resources
<1>2. QED  BY <1>1, Invariance, PTL

(* A store with nothing left to put in it holds its corpus exactly. *)
LEMMA ReadyIsExact ==
  ASSUME AdapterInv, Ready
  PROVE  HoldsExactly(held)
<1> DEFINE turnOf == [id \in DOMAIN thoughts |-> PlanAt(held, id)]
<1>1. held \in Corpora \cup {<<>>} /\ Contents /\ store # None
  BY DEF AdapterInv, TypeOK, Ready
<1>2. \A id \in DOMAIN thoughts : turnOf[id] \in NonBlank(held) /\ IdOf(held, turnOf[id]) = id
  BY <1>1, PlannedTyping DEF Contents
<1>3. turnOf \in Injection(DOMAIN thoughts, NonBlank(held))
  BY <1>2 DEF Injection, IsInjective
<1>4. \A i \in NonBlank(held) : \E id \in DOMAIN thoughts : turnOf[id] = i
  <2> TAKE i \in NonBlank(held)
  <2>1. IdOf(held, i) \in DOMAIN thoughts /\ PlanAt(held, IdOf(held, i)) = i
    BY <1>1, PlanOfId DEF Contents, Ready
  <2>2. QED  BY <2>1
<1>5. turnOf \in Bijection(DOMAIN thoughts, NonBlank(held))
  BY <1>2, <1>3, <1>4 DEF Bijection, Surjection
<1>6. ASSUME NEW id \in DOMAIN thoughts
      PROVE  /\ thoughts[id] = [unit |-> held[turnOf[id]].unit, text |-> held[turnOf[id]].text]
             /\ id \in DOMAIN idToUnit /\ idToUnit[id] = held[turnOf[id]].unit
             /\ id \in DOMAIN vectors /\ vectors[id] = PayloadAt(held, turnOf[id])
  <2>1. id \in PlannedIds(held) /\ turnOf[id] = PlanAt(held, id)
    BY <1>1 DEF Contents
  <2>2. thoughts[id] = [unit |-> held[turnOf[id]].unit, text |-> held[turnOf[id]].text]
    BY <1>1, <2>1 DEF Contents, TurnOf
  <2>3. id \in DOMAIN idToUnit /\ idToUnit[id] = held[turnOf[id]].unit
    BY <1>1, <2>1 DEF Contents, IdMap
  <2>4. id \in DOMAIN vectors
    BY <1>1, <1>2 DEF Contents, Ready
  <2>5. QED  BY <1>1, <2>1, <2>2, <2>3, <2>4 DEF Contents
<1>7. QED  BY <1>5, <1>6 DEF HoldsExactly

(***************************************************************************)
(* When ingest returns, the store holds one thought for each turn with     *)
(* text, with its own unit, content and vector, and nothing else, however  *)
(* turns repeat or share a payload and whatever was called before.         *)
(***************************************************************************)
THEOREM IngestIsExact == Spec => []IngestIsComplete
<1>1. AdapterInv => IngestIsComplete
  BY ReadyIsExact DEF AdapterInv, Finished, IngestIsComplete, Resources, Ready
<1>2. QED  BY <1>1, Invariance, PTL

(***************************************************************************)
(* A search's answer names every unit that was hit, once, in the order of  *)
(* each unit's best copy, although a repeated turn is stored twice.        *)
(***************************************************************************)
THEOREM SearchRanksByBestCopy == Spec => []RankedByBestCopy
<1>1. AdapterInv => RankedByBestCopy
  <2> SUFFICES ASSUME AdapterInv, outcome = "found" PROVE RankedByBestCopy
    BY DEF RankedByBestCopy
  <2>1. BestFirst(HitUnits, Len(hits), ranked)
    BY DEF AdapterInv, Placing, Finished
  <2>2. \A i \in 1..Len(hits) : HitUnits[i] = UnitHit(i)
    BY DEF HitUnits
  <2>3. \A i \in 1..Len(hits) : \E k \in 1..Len(ranked) : k <= i /\ ranked[k] = UnitHit(i)
    BY <2>1, <2>2 DEF BestFirst
  <2>4. ASSUME NEW k \in 1..Len(ranked)
        PROVE  \E i \in 1..Len(hits) :
                 /\ ranked[k] = UnitHit(i)
                 /\ \A l \in k + 1..Len(ranked), j \in 1..i : ranked[l] # UnitHit(j)
    <3>1. PICK i \in 1..Len(hits) :
            ranked[k] = HitUnits[i]
            /\ \A l \in k + 1..Len(ranked), j \in 1..i : ranked[l] # HitUnits[j]
      BY <2>1 DEF BestFirst
    <3>2. \A j \in 1..i : j \in 1..Len(hits)
      BY <3>1, LenProperties DEF AdapterInv, TypeOK
    <3>3. QED  BY <2>2, <3>1, <3>2
  <2>5. QED  BY <2>3, <2>4 DEF RankedByBestCopy
<1>2. QED  BY <1>1, Invariance, PTL

-----------------------------------------------------------------------------
(* The adapter implements MemoryAdapter. *)

StoredUnits == {thoughts[id].unit : id \in DOMAIN thoughts}

(* What an answer ranks had been put in the store, all of it or in part. *)
AnswerIsRanking == outcome = "found" => store # None /\ ranked \in Promise!Rankings(StoredUnits)

LEMMA Answers == AdapterInv => AnswerIsRanking
<1> SUFFICES ASSUME AdapterInv, outcome = "found"
             PROVE  store # None /\ ranked \in Promise!Rankings(StoredUnits)
  BY DEF AnswerIsRanking
<1>1. /\ TypeOK /\ store # None /\ at = Len(hits) /\ Len(hits) <= TopK
      /\ BestFirst(HitUnits, Len(hits), ranked)
  BY DEF AdapterInv, Placing, Finished
<1>2. Len(ranked) \in 0..TopK /\ Len(hits) \in Nat
  BY <1>1, LenProperties, SizeAssumption DEF TypeOK, BestFirst
<1>3. ASSUME NEW k \in 1..Len(ranked)
      PROVE  ranked[k] \in StoredUnits
  <2>1. PICK i \in 1..Len(hits) : ranked[k] = HitUnits[i]
    BY <1>1 DEF BestFirst
  <2>2. hits[i] \in DOMAIN thoughts
    BY DEF AdapterInv, Placing
  <2>3. QED  BY <2>1, <2>2 DEF HitUnits, UnitHit, StoredUnits
<1>4. ranked \in [1..Len(ranked) -> StoredUnits]
  BY <1>1, <1>3, LenProperties DEF TypeOK
<1>5. \A k, l \in 1..Len(ranked) : ranked[k] = ranked[l] => k = l
  BY <1>1 DEF BestFirst
<1>6. ranked \in Promise!Injection(1..Len(ranked), StoredUnits)
  BY <1>4, <1>5 DEF Promise!Injection, Promise!IsInjective
<1>7. QED  BY <1>1, <1>2, <1>6 DEF Promise!Rankings

(* The store is whole when nothing is left to put in it. *)
WholeIfDone ==
  store # None =>
    /\ held \in Corpora
    /\ StoredUnits \in SUBSET Promise!UnitsOf(held)
    /\ todo = {} => Promise!TextUnits(held) \subseteq StoredUnits

LEMMA WholeWhenDone == AdapterInv => WholeIfDone
<1> SUFFICES ASSUME AdapterInv, store # None
             PROVE  /\ held \in Corpora
                    /\ StoredUnits \in SUBSET Promise!UnitsOf(held)
                    /\ todo = {} => Promise!TextUnits(held) \subseteq StoredUnits
  BY DEF WholeIfDone
<1>1. TypeOK /\ Contents /\ held \in Corpora \cup {<<>>} /\ held \in Corpora
  BY DEF AdapterInv, TypeOK, Contents
<1>2. ASSUME NEW id \in DOMAIN thoughts
      PROVE  thoughts[id].unit \in Promise!UnitsOf(held)
  <2>1. PlanAt(held, id) \in DOMAIN held /\ thoughts[id].unit = held[PlanAt(held, id)].unit
    BY <1>1, PlannedTyping, TurnTyping DEF Contents, TurnOf
  <2>2. QED  BY <2>1 DEF Promise!UnitsOf
<1>3. ASSUME todo = {}, NEW i \in DOMAIN held, held[i].text # Blank
      PROVE  held[i].unit \in StoredUnits
  <2>1. i \in NonBlank(held)
    BY <1>3 DEF NonBlank
  <2>2. IdOf(held, i) \in DOMAIN thoughts /\ PlanAt(held, IdOf(held, i)) = i
    BY <1>1, <1>3, <2>1, PlanOfId DEF Contents
  <2>3. thoughts[IdOf(held, i)].unit = held[i].unit
    BY <1>1, <2>2 DEF Contents, TurnOf
  <2>4. QED  BY <2>2, <2>3 DEF StoredUnits
<1>4. QED  BY <1>1, <1>2, <1>3 DEF StoredUnits, Promise!TextUnits

(* A store is made by EnsureSchema only, and only CreateThought and        *)
(* StoreEmbedding change what is in it or what is left to put in it.       *)
LEMMA StoreSteps ==
  ASSUME AdapterInv, [Next]_vars, store' # None
  PROVE  \/ store = None /\ EnsureSchema
         \/ store # None /\ held' = held /\ UNCHANGED <<thoughts, todo>>
         \/ store # None /\ held' = held /\ (CreateThought \/ StoreEmbedding)
<1> USE DEF Goto
<1>1. Shape
  BY DEF AdapterInv
<1>2. CASE EnsureSchema
  BY <1>1, <1>2 DEF EnsureSchema, Shape
<1>3. CASE CreateThought \/ StoreEmbedding
  BY <1>1, <1>3 DEF CreateThought, StoreEmbedding, Shape, adapterVars, localVars
<1>4. CASE UNCHANGED <<held, thoughts, todo>> /\ store' \in {store, None}
  BY <1>4
<1>5. QED
  BY <1>2, <1>3, <1>4 DEF vars, adapterVars, engineVars, localVars, searchVars, Next, Ingesting,
     Searching, Closing, Raises, Drop, CallIngest, CallInsideLoop, Connect, ConnectRaises,
     EnsureSchemaRaises, EmbedBatch, EmbedBatchRaises, StoreRaises, IngestReturns,
     Search, SearchRaises, PlaceHit, SearchReturns, CallClose, CloseInsideLoop, Collect, CloseStore,
     CloseStoreRaises, CloseConn, CloseConnRaises

LEMMA EnsureSchemaBegins ==
  ASSUME AdapterInv, AdapterInv', EnsureSchema, NEW c, c = corpus
  PROVE  Promise!Begin(c)
<1>1. /\ store' # None /\ held' = c /\ todo' = NonBlank(c) /\ outcome' = "pending"
      /\ DOMAIN thoughts' = {}
  BY NoneAssumption DEF EnsureSchema, Goto, AdapterInv, Shape, Empty
<1>2. Promise!TextUnits(c) = {} <=> NonBlank(c) = {}
  BY DEF Promise!TextUnits, NonBlank
<1>3. {thoughts'[id].unit : id \in DOMAIN thoughts'} = {}
  BY <1>1
<1>4. QED  BY <1>1, <1>2, <1>3 DEF Promise!Begin

LEMMA StoringTakes ==
  ASSUME AdapterInv, AdapterInv', store # None, store' # None, held' = held,
         CreateThought \/ StoreEmbedding
  PROVE  Promise!Take
<1>1. /\ outcome = "pending" /\ outcome' = "pending"
      /\ thoughts' = thoughts \/ CreateThought
      /\ todo' \subseteq todo
  BY DEF CreateThought, StoreEmbedding, Goto, AdapterInv, Shape, adapterVars, localVars
<1>2. StoredUnits \subseteq StoredUnits'
  <2>1. CASE thoughts' = thoughts
    BY <2>1 DEF StoredUnits
  <2>2. CASE CreateThought
    <3>1. PICK i \in todo : thoughts' = [id \in DOMAIN thoughts \cup {IdOf(held, i)} |->
            IF id = IdOf(held, i) THEN [unit |-> held[i].unit, text |-> held[i].text]
            ELSE thoughts[id]]
      BY <2>2 DEF CreateThought
    <3>2. /\ held \in Corpora /\ DOMAIN thoughts \subseteq PlannedIds(held)
          /\ i \in NonBlank(held)
          /\ \A id \in DOMAIN thoughts : thoughts[id].unit = held[PlanAt(held, id)].unit
      BY DEF AdapterInv, TypeOK, Contents, TurnOf
    <3>3. PlanAt(held, IdOf(held, i)) = i
      BY <3>2, PlanOfId
    <3>4. \A id \in DOMAIN thoughts : id \in DOMAIN thoughts' /\ thoughts'[id].unit = thoughts[id].unit
      BY <3>1, <3>2, <3>3
    <3>5. QED  BY <3>4 DEF StoredUnits
  <2>3. QED  BY <1>1, <2>1, <2>2
<1>3. /\ StoredUnits' \in SUBSET Promise!UnitsOf(held)
      /\ todo' = {} => Promise!TextUnits(held) \subseteq StoredUnits'
  <2>1. WholeIfDone'
    BY WholeWhenDone, PTL
  <2>2. QED  BY <2>1 DEF WholeIfDone, Promise!UnitsOf, Promise!TextUnits
<1>4. todo = {} => todo' = {}
  BY <1>1
<1>5. QED  BY <1>1, <1>2, <1>3, <1>4 DEF Promise!Take, StoredUnits

LEMMA PromiseStep ==
  AdapterInv /\ AdapterInv' /\ [Next]_vars => [Promise!Next]_(Promise!vars)
<1> SUFFICES ASSUME AdapterInv, AdapterInv', [Next]_vars
             PROVE  [Promise!Next]_(Promise!vars)
  OBVIOUS
<1>1. AnswerIsRanking /\ AnswerIsRanking'
  BY Answers, PTL
<1>2. CASE store' = None
  <2>1. outcome' # "found"
    BY <1>1, <1>2 DEF AnswerIsRanking
  <2>2. Promise!Discard
    BY <1>2, <2>1 DEF Promise!Discard
  <2>3. QED  BY <2>2 DEF Promise!Next
<1>3. CASE store' # None /\ EnsureSchema
  <2>1. PICK c \in Corpora : c = corpus
    BY <1>3 DEF EnsureSchema, Goto, AdapterInv, Shape
  <2>2. QED  BY <1>3, <2>1, EnsureSchemaBegins DEF Promise!Next
<1>4. CASE store # None /\ store' # None /\ held' = held /\ (CreateThought \/ StoreEmbedding)
  BY <1>4, StoringTakes DEF Promise!Next
<1>5. CASE store # None /\ store' # None /\ held' = held /\ UNCHANGED <<thoughts, todo>>
  <2>1. CASE outcome' = "found"
    <3>1. ranked' \in Promise!Rankings(StoredUnits)
      BY <1>1, <1>5, <2>1 DEF AnswerIsRanking, StoredUnits
    <3>2. Promise!Search
      BY <1>5, <2>1, <3>1 DEF Promise!Search, StoredUnits
    <3>3. QED  BY <3>2 DEF Promise!Next
  <2>2. CASE outcome' # "found"
    <3>1. Promise!Forget
      BY <1>5, <2>2 DEF Promise!Forget
    <3>2. QED  BY <3>1 DEF Promise!Next
  <2>3. QED  BY <2>1, <2>2
<1>6. QED  BY <1>2, <1>3, <1>4, <1>5, StoreSteps

LEMMA PromiseInit == Init => Promise!Init
BY DEF Init, Promise!Init

(***************************************************************************)
(* With every await a step that may fail, and a caller that calls what it  *)
(* likes, the adapter behaves as adapters/base.py promises: it holds one   *)
(* corpus at most, is whole only when every text of it is stored, and      *)
(* each answer, from a half-filled store too, ranks different units of     *)
(* what is stored of that corpus and of no other.                          *)
(***************************************************************************)
THEOREM AdapterKeepsPromise == Spec => KeepsPromise
BY Invariance, PromiseInit, PromiseStep, PTL DEF Spec, KeepsPromise, Promise!Spec
=============================================================================
