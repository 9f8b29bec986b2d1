------------------------- MODULE V2ScreeningProofs -------------------------
(***************************************************************************)
(* Theorems about the LongMemEval-V2 memory and runner, for any questions, *)
(* trajectories, connections and harness: what the memory holds on to,     *)
(* stores and gives to the reader, what the harness is told, what the      *)
(* retrieval log records and what the verdict on it means.                 *)
(***************************************************************************)
EXTENDS V2Screening, SortingProofs

-----------------------------------------------------------------------------
(* The memory moves by its own steps, by the harness's calls and when the  *)
(* harness makes a new one.                                                *)

Renew ==
  /\ pc = "idle" /\ op = "close"
  /\ looped' = NewMemory.looped /\ conn' = NewMemory.conn /\ known' = NewMemory.known
  /\ thoughts' = NewMemory.thoughts /\ vectors' = NewMemory.vectors /\ past' = NewMemory.past
  /\ op' = NewMemory.op /\ outcome' = NewMemory.outcome
  /\ trajectory' = NewMemory.trajectory /\ todo' = NewMemory.todo /\ items' = NewMemory.items
  /\ UNCHANGED <<pc, fresh, open, spoiled>>

Formatted(t) ==
  DOMAIN t.states \subseteq Nat /\ \A i \in DOMAIN t.states : t.states[i].text \in Texts

MemoryNext ==
  \/ MemoryStep
  \/ \E t : Formatted(t) /\ Insert(t)
  \/ Query \/ CallInsideLoop
  \/ CallClose \/ CloseInsideLoop
  \/ Renew

AskedFormatted == \A k \in DOMAIN asked : \A t \in asked[k].haystack : Formatted(t)

LEMMA MemoryMoves ==
  ASSUME AskedFormatted, [Next]_vars
  PROVE  [MemoryNext]_memoryVars
<1>1. CASE HarnessCalls
  BY <1>1 DEF HarnessCalls, AtTurn, MemoryNext, AskedFormatted
<1>2. CASE MemoryRuns
  BY <1>2 DEF MemoryRuns, MemoryNext
<1>3. CASE HarnessWritesRow \/ HarnessCloses
  BY <1>3 DEF HarnessWritesRow, HarnessCloses, MemoryNext
<1>4. CASE HarnessGoesOn
  BY <1>4 DEF HarnessGoesOn, MemoryNext, Renew
<1>5. CASE ~(HarnessCalls \/ MemoryRuns \/ HarnessWritesRow \/ HarnessCloses \/ HarnessGoesOn)
  BY <1>5 DEF Next, vars, Start, Refuse, Subset, SubsetRaises, Launch, RefuseConfig, HarnessExits,
     HarnessFails, WriteTemporary, ExtractRaises, Replace, Diff, NoBaseline, BaselineRaises, Killed
<1>6. QED  BY <1>1, <1>2, <1>3, <1>4, <1>5

LEMMA AskedKept ==
  ASSUME AskedFormatted, [Next]_vars
  PROVE  AskedFormatted'
<1> DEFINE S == {Questions[k] : k \in DOMAIN Questions}
<1>1. CASE Subset
  <2>1. \A k \in DOMAIN Questions : \A t \in Questions[k].haystack : Formatted(t)
    BY QuestionsAssumption DEF Formatted
  <2>2. \A x \in S : \A t \in x.haystack : Formatted(t)
    BY <2>1
  <2>3. Questions \in Seq(S) /\ SmokeLimit \in Nat
    BY QuestionsAssumption DEF IsSeq
  <2>4. \/ asked' = Questions
        \/ asked' = SubSeq(Questions, 1, SmokeLimit) /\ SmokeLimit < Len(Questions)
    <3>1. CASE mode = "smoke" /\ SmokeLimit < Len(Questions)
      BY Zenon, <1>1, <3>1 DEF Subset
    <3>2. CASE ~(mode = "smoke" /\ SmokeLimit < Len(Questions))
      BY Zenon, <1>1, <3>2 DEF Subset
    <3>3. QED  BY <3>1, <3>2
  <2> HIDE DEF S
  <2>5. asked' \in Seq(S)
    BY <2>3, <2>4
  <2>6. \A k \in DOMAIN asked' : asked'[k] \in S
    BY <2>5
  <2>7. QED  BY <2>2, <2>6 DEF AskedFormatted
<1>2. CASE asked' = asked
  BY <1>2 DEF AskedFormatted
<1>3. QED
  BY <1>1, <1>2 DEF Next, vars, runVars, Start, Refuse, SubsetRaises, Launch, RefuseConfig,
     HarnessCalls, MemoryRuns, HarnessWritesRow, HarnessCloses, HarnessGoesOn, HarnessExits,
     HarnessFails, WriteTemporary, ExtractRaises, Replace, Diff, NoBaseline, BaselineRaises, Killed

-----------------------------------------------------------------------------
(* The connection. *)

\* The awaits of an insert or a query that has its store.
Working == {"check", "embed", "create_thought", "store_embedding", "search"}

\* Who holds the connection, call by call.
Handles ==
  /\ pc = "ensure_schema" <=> fresh # None
  /\ pc \in Working => conn # None
  /\ pc \in {"connect", "ensure_schema"} => conn = None /\ looped
  /\ pc \in {"close_store", "close_conn"} => op = "close"
  /\ op = "close" => pc \in {"idle", "close_store", "close_conn"}
  /\ op = "close" /\ pc = "idle" => conn = None
  /\ conn # None => looped
  /\ open \subseteq Connections /\ {conn, fresh} \subseteq Connections \cup {None}
  /\ NoLeakWithoutFault

LEMMA HandlesKept ==
  ASSUME Handles, [MemoryNext]_memoryVars
  PROVE  Handles'
<1> USE DEF Handles, NoLeakWithoutFault, Goto, Working
<1>1. CASE UNCHANGED memoryVars
  BY <1>1 DEF memoryVars, attributeVars
<1>2. CASE (\E t : Formatted(t) /\ Insert(t)) \/ Query \/ CallInsideLoop
  BY <1>2 DEF Insert, Query, Call, CallInsideLoop, AfterStore, attributeVars
<1>3. CASE Connect \/ EnsureSchema
  BY <1>3, ConnectionAssumption DEF Connect, EnsureSchema, AfterStore, attributeVars
<1>4. CASE ConnectRaises \/ EnsureSchemaRaises
  BY <1>4 DEF ConnectRaises, EnsureSchemaRaises, Raises, Spoil, attributeVars
<1>5. CASE RefuseTrajectory \/ EmbedRaises \/ StoreRaises \/ SearchRaises
  BY <1>5 DEF RefuseTrajectory, EmbedRaises, StoreRaises, SearchRaises, Raises, attributeVars
<1>6. CASE PlanStates \/ Embed \/ CreateThought \/ StoreEmbedding \/ InsertReturns \/ Search
  BY <1>6 DEF PlanStates, Embed, CreateThought, StoreEmbedding, InsertReturns, Search, attributeVars
<1>7. CASE CloseStore \/ CloseConn
  BY <1>7 DEF CloseStore, CloseConn, Drop, attributeVars
<1>8. CASE CloseRaises
  BY <1>8 DEF CloseRaises, Raises, Drop, Spoil
<1>9. CASE CallClose \/ CloseInsideLoop
  BY <1>9 DEF CallClose, CloseInsideLoop, Drop, Spoil, attributeVars
<1>10. CASE Renew
  BY <1>10 DEF Renew, NewMemory
<1>11. QED
  BY <1>1, <1>2, <1>3, <1>4, <1>5, <1>6, <1>7, <1>8, <1>9, <1>10 DEF MemoryNext, MemoryStep

-----------------------------------------------------------------------------
(* What an insert stores. *)

HasThought(i) ==
  /\ StateId(trajectory, i) \in DOMAIN thoughts
  /\ thoughts[StateId(trajectory, i)] = trajectory.states[i].text

HasVector(i) ==
  /\ StateId(trajectory, i) \in vectors
  /\ StateId(trajectory, i) \in DOMAIN known
  /\ known[StateId(trajectory, i)] = Limit[trajectory.states[i].text]

Stored(i) == HasThought(i) /\ HasVector(i)

\* States are stored in order; the one at hand has its thought first.
Storing ==
  /\ Formatted(trajectory)
  /\ todo \subseteq Nat
  /\ pc = "embed" => todo = DOMAIN trajectory.states
  /\ pc \in {"create_thought", "store_embedding"} =>
       \A i \in DOMAIN trajectory.states \ todo : Stored(i)
  /\ pc = "store_embedding" => \A i \in todo : IsNext(i) => HasThought(i)
  /\ outcome = "inserted" => pc = "idle" /\ \A i \in DOMAIN trajectory.states : Stored(i)

LEMMA OneIsNext ==
  ASSUME todo \subseteq Nat, NEW i, NEW j, IsNext(i), IsNext(j)
  PROVE  i = j
BY DEF IsNext

LEMMA IdsDiffer ==
  ASSUME NEW t, NEW i, NEW j, i # j
  PROVE  StateId(t, i) # StateId(t, j)
BY DEF StateId

LEMMA StoredUnchanged ==
  ASSUME thoughts' = thoughts, vectors' = vectors, known' = known, trajectory' = trajectory
  PROVE  \A i : (Stored(i)' <=> Stored(i)) /\ (HasThought(i)' <=> HasThought(i))
BY DEF Stored, HasThought, HasVector, StateId

LEMMA StoringKept ==
  ASSUME Storing, [MemoryNext]_memoryVars
  PROVE  Storing'
<1>0. /\ Formatted(trajectory) /\ todo \subseteq Nat
      /\ outcome = "inserted" => pc = "idle" /\ \A i \in DOMAIN trajectory.states : Stored(i)
  BY DEF Storing
<1> USE DEF Goto
<1>1. CASE UNCHANGED memoryVars
  <2>1. /\ thoughts' = thoughts /\ vectors' = vectors /\ known' = known /\ trajectory' = trajectory
        /\ todo' = todo /\ pc' = pc /\ outcome' = outcome
    BY <1>1 DEF memoryVars, attributeVars, storeVars
  <2>2. \A i : IsNext(i)' <=> IsNext(i)
    BY <2>1 DEF IsNext
  <2>3. QED  BY <2>1, <2>2, StoredUnchanged DEF Storing, Formatted
\* A step that leaves no state in the middle of being stored, and does not
\* report an insert, owes nothing but the numbers.
<1>2. ASSUME Formatted(trajectory)', todo' \subseteq Nat, outcome' # "inserted",
             pc' \notin {"embed", "create_thought", "store_embedding"}
      PROVE  Storing'
  BY <1>2 DEF Storing
<1>3. CASE (\E t : Formatted(t) /\ Insert(t)) \/ Query
  <2>1. todo' = {} /\ outcome' = "pending" /\ pc' \in {"connect", "check", "search"}
    BY <1>3 DEF Insert, Query, Call, AfterStore
  <2>2. Formatted(trajectory)'
    BY <1>0, <1>3 DEF Insert, Query, Formatted
  <2>3. QED  BY <1>2, <2>1, <2>2
<1>4. CASE CallInsideLoop \/ CallClose \/ CloseInsideLoop
  <2>1. /\ todo' = todo /\ trajectory' = trajectory /\ outcome' \in {"raised", "pending", "released"}
        /\ pc' \in {"idle", "close_store"}
    BY <1>4 DEF CallInsideLoop, CallClose, CloseInsideLoop
  <2>2. QED  BY <1>0, <1>2, <2>1 DEF Formatted
<1>5. CASE Renew
  <2>1. todo' = {} /\ trajectory'.states = <<>> /\ outcome' = "none" /\ pc' = "idle"
    BY <1>5 DEF Renew, NewMemory
  <2>2. QED  BY <1>2, <2>1 DEF Formatted
<1>6. ASSUME NEW from, from \in {"connect", "ensure_schema", "check", "embed", "create_thought",
               "store_embedding", "search", "close_store", "close_conn"}, Raises(from)
      PROVE  Storing'
  <2>1. todo' = todo /\ trajectory' = trajectory /\ outcome' = "raised" /\ pc' = "idle"
    BY <1>6 DEF Raises
  <2>2. QED  BY <1>0, <1>2, <2>1 DEF Formatted
<1>7. CASE Connect \/ EnsureSchema \/ Search \/ CloseStore \/ CloseConn
  <2>1. /\ todo' = todo /\ trajectory' = trajectory /\ outcome' # "inserted"
        /\ pc' \in {"ensure_schema", "check", "search", "idle", "close_conn"}
    BY <1>0, <1>7 DEF Connect, EnsureSchema, AfterStore, Search, CloseStore, CloseConn
  <2>2. QED  BY <1>0, <1>2, <2>1 DEF Formatted
<1>8. CASE PlanStates
  <2>1. /\ todo' = DOMAIN trajectory.states /\ trajectory' = trajectory
        /\ outcome' # "inserted" /\ pc' = "embed"
    BY <1>0, <1>8 DEF PlanStates
  <2>2. QED  BY <1>0, <2>1 DEF Storing, Formatted
<1>9. CASE Embed
  <2>1. /\ todo' = todo /\ todo = DOMAIN trajectory.states /\ trajectory' = trajectory
        /\ outcome' # "inserted" /\ pc' = "create_thought"
    BY <1>0, <1>9 DEF Embed, Storing
  <2>2. QED  BY <1>0, <2>1 DEF Storing, Formatted
<1>10. CASE CreateThought
  <2>1. PICK i \in todo :
          /\ IsNext(i)
          /\ StateId(trajectory, i) \notin DOMAIN thoughts
          /\ thoughts' = With(thoughts, StateId(trajectory, i), trajectory.states[i].text)
    BY <1>10 DEF CreateThought
  <2> DEFINE id == StateId(trajectory, i)
  <2>a. /\ DOMAIN thoughts' = DOMAIN thoughts \cup {id}
        /\ thoughts'[id] = trajectory.states[i].text
        /\ \A key \in DOMAIN thoughts : thoughts'[key] = thoughts[key]
    <3> DEFINE new == With(thoughts, id, trajectory.states[i].text)
    <3>1. /\ DOMAIN new = DOMAIN thoughts \cup {id}
          /\ new[id] = trajectory.states[i].text
          /\ \A key \in DOMAIN thoughts : key # id => new[key] = thoughts[key]
      BY DEF With
    <3>2. thoughts' = new /\ id \notin DOMAIN thoughts
      BY <2>1
    <3> HIDE DEF new
    <3>3. QED  BY <3>1, <3>2
  <2> HIDE DEF id
  <2>2. /\ todo' = todo /\ trajectory' = trajectory /\ vectors' = vectors /\ known' = known
        /\ pc = "create_thought" /\ pc' = "store_embedding" /\ outcome' # "inserted"
    BY <1>0, <1>10 DEF CreateThought, attributeVars
  <2>3. \A j \in DOMAIN trajectory.states \ todo : Stored(j)'
    <3>1. SUFFICES ASSUME NEW j \in DOMAIN trajectory.states \ todo PROVE Stored(j)'
      OBVIOUS
    <3>2. Stored(j)
      BY <2>2 DEF Storing
    <3>3. StateId(trajectory, j)' = StateId(trajectory, j)
      BY <2>2 DEF StateId
    <3>4. QED
      BY <2>a, <2>2, <3>2, <3>3 DEF Stored, HasThought, HasVector
  <2>4. \A j \in todo' : IsNext(j)' => HasThought(j)'
    <3>1. SUFFICES ASSUME NEW j \in todo', IsNext(j)' PROVE HasThought(j)'
      OBVIOUS
    <3>2. IsNext(j)
      BY <2>2, <3>1 DEF IsNext
    <3>3. j = i
      BY <1>0, <2>1, <3>2, OneIsNext
    <3>4. QED
      BY <2>a, <2>2, <3>3 DEF HasThought, StateId, id
  <2>5. QED
    BY <1>0, <2>2, <2>3, <2>4 DEF Storing, Formatted
<1>11. CASE StoreEmbedding
  <2>1. PICK i \in todo :
          /\ IsNext(i)
          /\ vectors' = vectors \cup {StateId(trajectory, i)}
          /\ known' = With(known, StateId(trajectory, i), Limit[trajectory.states[i].text])
          /\ todo' = todo \ {i}
    BY <1>11 DEF StoreEmbedding
  <2> DEFINE id == StateId(trajectory, i)
  <2>a. /\ DOMAIN known' = DOMAIN known \cup {id}
        /\ known'[id] = Limit[trajectory.states[i].text]
        /\ \A key \in DOMAIN known : key # id => known'[key] = known[key]
    <3> DEFINE new == With(known, id, Limit[trajectory.states[i].text])
    <3>1. /\ DOMAIN new = DOMAIN known \cup {id}
          /\ new[id] = Limit[trajectory.states[i].text]
          /\ \A key \in DOMAIN known : key # id => new[key] = known[key]
      BY DEF With
    <3>2. known' = new
      BY <2>1
    <3> HIDE DEF new
    <3>3. QED  BY <3>1, <3>2
  <2>b. vectors' = vectors \cup {id}
    BY <2>1
  <2> HIDE DEF id
  <2>2. /\ trajectory' = trajectory /\ thoughts' = thoughts
        /\ pc = "store_embedding" /\ pc' = "create_thought" /\ outcome' # "inserted"
    BY <1>0, <1>11 DEF StoreEmbedding
  <2>3. \A j \in DOMAIN trajectory.states \ todo' : Stored(j)'
    <3>1. SUFFICES ASSUME NEW j \in DOMAIN trajectory.states, j = i \/ j \notin todo
                   PROVE  Stored(j)'
      BY <2>1
    <3>2. CASE j = i
      <4>1. HasThought(i)
        BY <2>1, <2>2 DEF Storing
      <4>2. QED
        BY <2>a, <2>b, <2>2, <3>2, <4>1 DEF Stored, HasThought, HasVector, StateId, id
    <3>3. CASE j # i
      <4>1. Stored(j)
        BY <2>2, <3>1, <3>3 DEF Storing
      <4>2. StateId(trajectory, j) # StateId(trajectory, i)
        BY <3>3, IdsDiffer
      <4>3. StateId(trajectory, j)' = StateId(trajectory, j)
        BY <2>2 DEF StateId
      <4>4. QED
        BY <2>a, <2>b, <2>2, <4>1, <4>2, <4>3 DEF Stored, HasThought, HasVector, id
    <3>4. QED  BY <3>2, <3>3
  <2>4. QED
    BY <1>0, <2>1, <2>2, <2>3 DEF Storing, Formatted
<1>12. CASE InsertReturns
  <2>1. /\ todo' = todo /\ todo = {} /\ trajectory' = trajectory
        /\ thoughts' = thoughts /\ vectors' = vectors /\ known' = known
        /\ pc = "create_thought" /\ pc' = "idle"
    BY <1>12 DEF InsertReturns, attributeVars, storeVars
  <2>2. \A i \in DOMAIN trajectory.states : Stored(i)
    BY <2>1 DEF Storing
  <2>3. QED
    BY <1>0, <2>1, <2>2, StoredUnchanged DEF Storing, Formatted
<1>13. CASE MemoryStep
  BY <1>6, <1>7, <1>8, <1>9, <1>10, <1>11, <1>12, <1>13 DEF MemoryStep, ConnectRaises,
     EnsureSchemaRaises, RefuseTrajectory, EmbedRaises, StoreRaises, SearchRaises, CloseRaises
<1>14. QED
  BY <1>1, <1>3, <1>4, <1>5, <1>13 DEF MemoryNext

-----------------------------------------------------------------------------
(* What a query gives. *)

StoredWhole(id) == id \in DOMAIN thoughts /\ id \in vectors /\ known[id] = Limit[thoughts[id]]

OfThePast(id) == id \in DOMAIN past /\ id \notin vectors /\ known[id] = past[id]

\* What is mapped is stored whole, or was mapped before the store was made.
Mapped == conn # None => \A id \in DOMAIN known : StoredWhole(id) \/ OfThePast(id)

Found ==
  /\ IsSeq(items)
  /\ outcome = "found" => pc = "idle"
  /\ ItemsAreStored

LEMMA ContextsAreDifferent ==
  ASSUME NEW n \in Nat, NEW hits \in [1 .. n -> DOMAIN thoughts],
         NEW found, found = Contexts(hits)
  PROVE  /\ IsSeq(found)
         /\ \A k \in DOMAIN found :
              \E id \in DOMAIN thoughts \cap DOMAIN known : found[k] = known[id]
         /\ \A k, l \in DOMAIN found : found[k] = found[l] => k = l
<1> DEFINE firsts == {i \in DOMAIN hits :
             /\ hits[i] \in DOMAIN known
             /\ \A j \in 1 .. i - 1 : hits[j] \in DOMAIN known => known[hits[j]] # known[hits[i]]}
           m == Cardinality(firsts)
           place == Listed(firsts)
           S == {known[id] : id \in DOMAIN known}
<1>1. /\ firsts \in SUBSET (1 .. n)
      /\ \A i \in firsts : hits[i] \in DOMAIN known
      /\ \A i \in firsts : \A j \in 1 .. i - 1 :
           hits[j] \in DOMAIN known => known[hits[j]] # known[hits[i]]
  OBVIOUS
<1>2. found = [k \in 1 .. m |-> known[hits[place[k]]]]
  BY DEF Contexts
<1> HIDE DEF firsts
<1>3. firsts \in SUBSET Nat /\ IsFiniteSet(firsts)
  <2>1. IsFiniteSet(1 .. n)
    BY FS_Interval
  <2>2. QED
    BY <1>1, <2>1, FS_Subset
<1>4. /\ m \in Nat /\ place \in [1 .. m -> firsts]
      /\ \A i, j \in 1 .. m : i < j => place[i] < place[j]
  BY <1>3, ListedIsListing
<1> HIDE DEF m, place
<1>5. \A k \in 1 .. m : found[k] = known[hits[place[k]]] /\ hits[place[k]] \in DOMAIN known
  BY <1>1, <1>2, <1>4
<1>a. \A k \in 1 .. m : hits[place[k]] \in DOMAIN thoughts \cap DOMAIN known
  <2>1. \A k \in 1 .. m : place[k] \in 1 .. n
    BY <1>1, <1>4
  <2>2. QED
    BY <1>5, <2>1
<1>6. found \in [1 .. m -> S]
  <2>1. \A k \in 1 .. m : known[hits[place[k]]] \in S
    BY <1>5
  <2> HIDE DEF S
  <2>2. QED
    BY <1>2, <2>1
<1> HIDE DEF S
<1>7. IsSeq(found) /\ DOMAIN found = 1 .. m
  BY <1>4, <1>6, FunctionSeq
<1>8. ASSUME NEW k \in 1 .. m, NEW l \in 1 .. m, k < l
      PROVE  found[k] # found[l]
  <2>1. place[k] \in firsts /\ place[l] \in firsts /\ place[k] < place[l]
    BY <1>4, <1>8
  <2>2. place[k] \in 1 .. n /\ place[l] \in 1 .. n
    BY <1>1, <2>1
  <2>a. place[k] \in 1 .. place[l] - 1
    BY <2>1, <2>2
  <2>3. known[hits[place[k]]] # known[hits[place[l]]]
    BY <1>1, <1>5, <2>1, <2>a
  <2>4. QED
    BY <1>5, <2>3
<1>9. \A k, l \in 1 .. m : found[k] = found[l] => k = l
  <2>1. SUFFICES ASSUME NEW k \in 1 .. m, NEW l \in 1 .. m, k # l PROVE found[k] # found[l]
    OBVIOUS
  <2>2. k < l \/ l < k
    BY <1>4, <2>1
  <2>3. QED
    BY <1>8, <2>2
<1>10. QED
  BY <1>5, <1>a, <1>7, <1>9

LEMMA MappedKept ==
  ASSUME Handles, Storing, Mapped, [MemoryNext]_memoryVars
  PROVE  Mapped'
<1> USE DEF Goto
<1>1. ASSUME UNCHANGED <<known, storeVars>>, conn' = conn \/ conn' = None
      PROVE  Mapped'
  BY <1>1 DEF Mapped, StoredWhole, OfThePast, storeVars
<1>2. CASE UNCHANGED memoryVars
  BY <1>1, <1>2 DEF memoryVars, attributeVars
<1>3. CASE (\E t : Formatted(t) /\ Insert(t)) \/ Query \/ CallInsideLoop
  BY <1>1, <1>3 DEF Insert, Query, Call, CallInsideLoop, attributeVars
<1>4. CASE Connect \/ PlanStates \/ Embed \/ InsertReturns \/ Search \/ CloseStore
  BY <1>1, <1>4 DEF Connect, PlanStates, Embed, InsertReturns, Search, CloseStore, attributeVars
<1>5. ASSUME NEW from, Raises(from)
      PROVE  Mapped'
  BY <1>1, <1>5 DEF Raises, Drop, attributeVars
<1>6. CASE EnsureSchema
  BY <1>6 DEF EnsureSchema, Mapped, OfThePast
<1>7. CASE CreateThought
  <2>1. PICK i \in todo :
          /\ StateId(trajectory, i) \notin DOMAIN thoughts
          /\ thoughts' = With(thoughts, StateId(trajectory, i), trajectory.states[i].text)
    BY <1>7 DEF CreateThought
  <2> DEFINE id == StateId(trajectory, i)
             new == With(thoughts, id, trajectory.states[i].text)
  <2>2. /\ DOMAIN new = DOMAIN thoughts \cup {id}
        /\ \A key \in DOMAIN thoughts : key # id => new[key] = thoughts[key]
    BY DEF With
  <2>3. thoughts' = new /\ id \notin DOMAIN thoughts
    BY <2>1
  <2> HIDE DEF new, id
  <2>4. UNCHANGED <<known, vectors, past, conn>>
    BY <1>7 DEF CreateThought, attributeVars
  <2>5. QED
    BY <2>2, <2>3, <2>4 DEF Mapped, StoredWhole, OfThePast
<1>8. CASE StoreEmbedding
  <2>1. PICK i \in todo :
          /\ IsNext(i)
          /\ vectors' = vectors \cup {StateId(trajectory, i)}
          /\ known' = With(known, StateId(trajectory, i), Limit[trajectory.states[i].text])
    BY <1>8 DEF StoreEmbedding
  <2> DEFINE id == StateId(trajectory, i)
             new == With(known, id, Limit[trajectory.states[i].text])
  <2>2. /\ DOMAIN new = DOMAIN known \cup {id}
        /\ new[id] = Limit[trajectory.states[i].text]
        /\ \A key \in DOMAIN known : key # id => new[key] = known[key]
    BY DEF With
  <2>3. id \in DOMAIN thoughts /\ thoughts[id] = trajectory.states[i].text
    BY <1>8, <2>1 DEF StoreEmbedding, Storing, HasThought
  <2>4. known' = new /\ vectors' = vectors \cup {id}
    BY <2>1
  <2> HIDE DEF new, id
  <2>5. UNCHANGED <<thoughts, past, conn>> /\ pc = "store_embedding"
    BY <1>8 DEF StoreEmbedding
  <2>6. \A key \in DOMAIN known : StoredWhole(key) \/ OfThePast(key)
    BY <2>5 DEF Mapped, Handles, Working
  <2>7. \A key \in DOMAIN known' : StoredWhole(key)' \/ OfThePast(key)'
    BY <2>2, <2>3, <2>4, <2>5, <2>6 DEF StoredWhole, OfThePast
  <2>8. QED
    BY <2>7 DEF Mapped
<1>9. CASE CloseConn \/ CallClose \/ CloseInsideLoop
  BY <1>1, <1>9 DEF CloseConn, CallClose, CloseInsideLoop, Drop, attributeVars
<1>10. CASE Renew
  BY <1>10 DEF Renew, NewMemory, Mapped
<1>11. QED
  BY <1>2, <1>3, <1>4, <1>5, <1>6, <1>7, <1>8, <1>9, <1>10 DEF MemoryNext, MemoryStep,
     ConnectRaises, EnsureSchemaRaises, RefuseTrajectory, EmbedRaises, StoreRaises, SearchRaises,
     CloseRaises

LEMMA FoundKept ==
  ASSUME Handles, Mapped, Found, [MemoryNext]_memoryVars
  PROVE  Found'
<1> USE DEF Goto
<1>1. ASSUME items' = items \/ items' = <<>>, outcome' # "found" \/ op' # "query",
             outcome' = "found" => pc' = "idle"
      PROVE  Found'
  <2>1. IsSeq(items')
    BY <1>1, EmptyIsSeq DEF Found
  <2>2. QED
    BY <1>1, <2>1 DEF Found, ItemsAreStored
<1>2. CASE UNCHANGED memoryVars
  <2>1. UNCHANGED <<items, outcome, pc, op, thoughts, vectors, past>>
    BY <1>2 DEF memoryVars, storeVars
  <2>2. QED
    BY <2>1 DEF Found, ItemsAreStored
<1>3. CASE Search
  <2>1. PICK n \in 0 .. MemoryTopK : \E hits \in Injection(1 .. n, DOMAIN thoughts) :
          items' = Contexts(hits)
    BY <1>3 DEF Search
  <2>2. PICK hits \in [1 .. n -> DOMAIN thoughts] : items' = Contexts(hits)
    BY <2>1 DEF Injection
  <2>3. n \in Nat
    BY <2>1
  <2>4. /\ IsSeq(items')
        /\ \A k \in DOMAIN items' :
             \E id \in DOMAIN thoughts \cap DOMAIN known : items'[k] = known[id]
        /\ \A k, l \in DOMAIN items' : items'[k] = items'[l] => k = l
    BY <2>2, <2>3, ContextsAreDifferent
  <2>5. UNCHANGED <<thoughts, vectors, past>> /\ pc = "search" /\ pc' = "idle"
    BY <1>3 DEF Search, storeVars
  <2>a. \A id \in DOMAIN known : StoredWhole(id) \/ OfThePast(id)
    BY <2>5 DEF Mapped, Handles, Working
  <2>6. \A k \in DOMAIN items' : \E id \in DOMAIN thoughts :
          \/ id \in vectors /\ items'[k] = Limit[thoughts[id]]
          \/ id \in DOMAIN past \ vectors /\ items'[k] = past[id]
    BY <2>4, <2>a DEF StoredWhole, OfThePast
  <2>7. QED
    BY <2>4, <2>5, <2>6 DEF Found, ItemsAreStored
<1>4. ASSUME NEW from, Raises(from)
      PROVE  Found'
  BY <1>1, <1>4 DEF Raises
<1>5. CASE (\E t : Formatted(t) /\ Insert(t)) \/ Query \/ CallInsideLoop \/ CallClose \/ CloseInsideLoop
  BY <1>1, <1>5 DEF Insert, Query, Call, CallInsideLoop, CallClose, CloseInsideLoop
<1>6. CASE Connect \/ EnsureSchema \/ PlanStates \/ Embed \/ CreateThought \/ StoreEmbedding
           \/ InsertReturns \/ CloseStore \/ CloseConn
  <2>1. items' = items /\ pc # "idle" /\ (outcome' = outcome \/ outcome' \in {"inserted", "released"})
    BY <1>6 DEF Connect, EnsureSchema, PlanStates, Embed, CreateThought, StoreEmbedding,
       InsertReturns, CloseStore, CloseConn
  <2>2. outcome' # "found"
    BY <2>1 DEF Found
  <2>3. QED
    BY <1>1, <2>1, <2>2
<1>7. CASE Renew
  BY <1>1, <1>7 DEF Renew, NewMemory
<1>8. QED
  BY <1>2, <1>3, <1>4, <1>5, <1>6, <1>7 DEF MemoryNext, MemoryStep, ConnectRaises,
     EnsureSchemaRaises, RefuseTrajectory, EmbedRaises, StoreRaises, SearchRaises, CloseRaises

-----------------------------------------------------------------------------
MemoryInv == AskedFormatted /\ Handles /\ Storing /\ Mapped /\ Found

LEMMA MemoryInvariant == Spec => []MemoryInv
<1>1. Init => MemoryInv
  BY EmptyIsSeq DEF Init, MemoryInit, NewMemory, MemoryInv, AskedFormatted, Handles, NoLeakWithoutFault,
     Storing, Formatted, Working, Mapped, Empty, Found, ItemsAreStored
<1>2. MemoryInv /\ [Next]_vars => MemoryInv'
  BY AskedKept, MemoryMoves, HandlesKept, StoringKept, MappedKept, FoundKept DEF MemoryInv
<1>3. QED  BY <1>1, <1>2, PTL DEF Spec

(***************************************************************************)
(* Whatever the harness calls and whichever await raises, a connection     *)
(* that is open is the memory's own or being set up, unless its own set-up *)
(* or clean-up failed.                                                     *)
(***************************************************************************)
THEOREM ConnectionsAreReleased == Spec => []NoLeakWithoutFault
<1>1. MemoryInv => NoLeakWithoutFault
  BY DEF MemoryInv, Handles
<1>2. QED  BY <1>1, MemoryInvariant, PTL

(***************************************************************************)
(* An insert that returns has stored every state of its trajectory with    *)
(* its vector and its limited context, whatever inserts failed half-way    *)
(* before it and however often the trajectory is repeated.                 *)
(***************************************************************************)
THEOREM InsertsAreComplete == Spec => []InsertIsComplete
<1>1. MemoryInv => InsertIsComplete
  BY DEF MemoryInv, Storing, InsertIsComplete, Stored, HasThought, HasVector
<1>2. QED  BY <1>1, MemoryInvariant, PTL

(***************************************************************************)
(* A query gives different texts, each of a thought in the store: its own, *)
(* with its vector, or, of a thought whose vector failed, the one its id   *)
(* had before the memory was closed and filled again.  That holds for any  *)
(* calls in any order, whatever inserts failed half-way, whatever the      *)
(* store ranks and whatever texts collapse when limited.                   *)
(***************************************************************************)
THEOREM QueriesGiveWhatIsStored == Spec => []ItemsAreStored
<1>1. MemoryInv => ItemsAreStored
  BY DEF MemoryInv, Found
<1>2. QED  BY <1>1, MemoryInvariant, PTL

-----------------------------------------------------------------------------
(* What the harness is told, and what the log records of it. *)

Before == {"start", "subset", "config"}
Since == {"harness", "handle", "replace", "diff"}

Commanded ==
  /\ step \in Before => command = NotStarted
  /\ step \in Since => command # NotStarted
  /\ step \in (Before \ {"start"}) \cup Since => mode \in Modes
  /\ command # NotStarted =>
       /\ command \in [backend : Given, reader : BOOLEAN]
       /\ Matches(command.backend)
       /\ command.reader = (mode = "score")

\* Rows are taken for this run's only when they are, and only in time.
Logged ==
  /\ IsCurrent => promptRows.rows = rows
  /\ step \in {"handle", "replace", "diff"} => mode = "retrieval"
  /\ step \in Before \cup {"harness"} => log \in {NoFile, OldLog}
  /\ step = "replace" => tmp = LogOf(rows) /\ Extractable(rows)
  /\ LogIsOfThisRun

RunnerInv == Commanded /\ Logged

LEMMA LogHasEveryRow ==
  ASSUME NEW written, Extractable(written)
  PROVE  /\ DOMAIN LogOf(written) = {written[k].id : k \in DOMAIN written}
         /\ \A k \in DOMAIN written :
              LogOf(written)[written[k].id] =
                [i \in DOMAIN written[k].context |-> KeyOf[written[k].context[i]]]
<1>1. SUFFICES ASSUME NEW k \in DOMAIN written
               PROVE  LogOf(written)[written[k].id] =
                        [i \in DOMAIN written[k].context |-> KeyOf[written[k].context[i]]]
  BY DEF LogOf
<1>2. RowOf(written, written[k].id) = k
  <2> DEFINE Is(j) == j \in DOMAIN written /\ written[j].id = written[k].id
  <2>1. Is(k) /\ \A j : Is(j) => j = k
    BY DEF Extractable
  <2>2. (CHOOSE j \in DOMAIN written : written[j].id = written[k].id) = k
    BY <2>1
  <2>3. QED  BY <2>2 DEF RowOf
<1>3. written[k].id \in {written[j].id : j \in DOMAIN written}
  OBVIOUS
<1>4. QED  BY <1>2, <1>3 DEF LogOf

LEMMA CommandedKept ==
  ASSUME Commanded, [Next]_vars
  PROVE  Commanded'
<1>1. CASE Start
  <2>1. /\ mode' \in Modes
        /\ step = "start" /\ step' = "subset" /\ command' = command
    BY <1>1 DEF Start, To
  <2>2. QED  BY <2>1 DEF Commanded, Before, Since
<1>2. CASE Launch
  <2>1. step = "config" /\ step' = "harness" /\ mode' = mode
    BY <1>2 DEF Launch, To
  <2>2. PICK backend \in {Written(mode)} \cup {given \in Given : Matches(given)} :
          command' = [backend |-> backend, reader |-> mode = "score"]
    BY <1>2 DEF Launch
  <2>3. Backend("deterministic") # Backend("openai-compatible")
    BY DEF Backend
  <2>4. backend \in Given /\ Matches(backend)
    BY <2>2, <2>3 DEF Matches, Written, Given
  <2>5. command' \in [backend : Given, reader : BOOLEAN]
    <3>1. (mode = "score") \in BOOLEAN
      OBVIOUS
    <3>2. QED  BY Zenon, <2>2, <2>4, <3>1
  <2>6. command'.backend = backend /\ command'.reader = (mode = "score")
    BY Zenon, <2>2
  <2>7. command' # NotStarted
    <3>1. \A given \in Given : given # Backend("none")
      BY DEF Given, Backend
    <3>2. NotStarted.backend = Backend("none")
      BY DEF NotStarted
    <3>3. QED  BY <2>4, <2>6, <3>1, <3>2
  <2>8. mode \in Modes
    BY <2>1 DEF Commanded, Before
  <2>9. Matches(command.backend)'
    BY <2>1, <2>4, <2>6 DEF Matches
  <2>10. QED
    BY <2>1, <2>5, <2>6, <2>7, <2>8, <2>9 DEF Commanded, Before, Since
<1>3. ASSUME UNCHANGED <<mode, command>>,
             \/ step' = step \/ step' = "done"
             \/ step = "subset" /\ step' = "config"
             \/ step \in Since /\ step' \in Since
      PROVE  Commanded'
  BY <1>3 DEF Commanded, Before, Since, Matches
<1>4. CASE Subset \/ Refuse \/ SubsetRaises \/ RefuseConfig
  BY <1>3, <1>4 DEF Subset, Refuse, SubsetRaises, RefuseConfig, To, Ends, runVars
<1>5. CASE HarnessCalls \/ MemoryRuns \/ HarnessWritesRow \/ HarnessCloses \/ HarnessGoesOn
  BY <1>3, <1>5 DEF HarnessCalls, MemoryRuns, HarnessWritesRow, HarnessCloses, HarnessGoesOn, runVars
<1>6. CASE HarnessExits \/ HarnessFails
  BY <1>3, <1>6 DEF HarnessExits, HarnessFails, To, Ends, runVars, Since
<1>7. CASE WriteTemporary \/ ExtractRaises \/ Replace \/ Diff \/ NoBaseline \/ BaselineRaises \/ Killed
  BY <1>3, <1>7 DEF WriteTemporary, ExtractRaises, Replace, Diff, NoBaseline, BaselineRaises, Killed,
     To, Ends, runVars, Since
<1>8. CASE UNCHANGED vars
  BY <1>3, <1>8 DEF vars, runVars
<1>9. QED  BY <1>1, <1>2, <1>4, <1>5, <1>6, <1>7, <1>8 DEF Next

LEMMA LoggedKept ==
  ASSUME Commanded, Logged, [Next]_vars
  PROVE  Logged'
\* Neither the rows nor the log change, nor what the log says of the run.
<1>1. ASSUME UNCHANGED <<rows, promptRows, log>>,
             step \notin Before => UNCHANGED <<mode, command>>,
             step' = "replace" => tmp' = LogOf(rows) /\ Extractable(rows),
             step' \in {"handle", "replace", "diff"} => mode' = "retrieval",
             step' \in Before \cup {"harness"} => step \in Before \cup {"harness"}
      PROVE  Logged'
  BY <1>1 DEF Logged, LogIsOfThisRun, IsCurrent, LogOf, RowOf, Extractable, Matches
<1> USE DEF To, Ends, Before
<1>2. CASE Start \/ Refuse \/ Subset \/ SubsetRaises \/ Launch \/ RefuseConfig
  BY <1>1, <1>2 DEF Start, Refuse, Subset, SubsetRaises, Launch, RefuseConfig, harnessVars, logVars
<1>3. CASE HarnessCalls \/ MemoryRuns \/ HarnessCloses \/ HarnessGoesOn
  <2>1. /\ UNCHANGED <<rows, promptRows, log, mode, command>>
        /\ step = "harness" /\ step' = step
    BY <1>3 DEF HarnessCalls, MemoryRuns, HarnessCloses, HarnessGoesOn, AtTurn, runVars, harnessVars,
       logVars
  <2>2. QED  BY <1>1, <2>1
<1>4. CASE HarnessExits \/ HarnessFails
  <2>1. /\ UNCHANGED <<rows, promptRows, log, mode, command>>
        /\ step = "harness" /\ step' \in {"handle", "done"}
        /\ step' = "handle" => mode = "retrieval"
    BY <1>4 DEF HarnessExits, HarnessFails, runVars, harnessVars, logVars
  <2>2. QED  BY <1>1, <2>1
<1>5. CASE HarnessWritesRow
  <2>1. /\ step = "harness" /\ step' = "harness" /\ log' = log
        /\ promptRows' = [rows |-> rows', current |-> TRUE]
    BY <1>5 DEF HarnessWritesRow, AtTurn, logVars
  <2>2. log' \in {NoFile, OldLog}
    BY <2>1 DEF Logged
  <2>3. QED  BY <2>1, <2>2 DEF Logged, LogIsOfThisRun, IsCurrent
<1>6. CASE WriteTemporary
  <2>1. /\ UNCHANGED <<rows, promptRows, log, mode, command>>
        /\ step = "handle" /\ step' = "replace"
        /\ IsCurrent /\ Extractable(promptRows.rows) /\ tmp' = LogOf(promptRows.rows)
    BY <1>6 DEF WriteTemporary, runVars, harnessVars
  <2>2. promptRows.rows = rows /\ mode = "retrieval"
    BY <2>1 DEF Logged
  <2>3. QED  BY <1>1, <2>1, <2>2
<1>7. CASE Replace
  <2>1. /\ step = "replace" /\ step' = "diff" /\ log' = tmp
        /\ UNCHANGED <<mode, command, rows, promptRows>>
    BY <1>7 DEF Replace, runVars, harnessVars
  <2>2. /\ mode = "retrieval" /\ tmp = LogOf(rows) /\ Extractable(rows)
        /\ IsCurrent => promptRows.rows = rows
    BY <2>1 DEF Logged
  <2>3. Matches(command.backend) /\ ~command.reader
    BY <2>1, <2>2 DEF Commanded, Since
  <2>4. LogIsOfThisRun'
    <3>1. /\ DOMAIN LogOf(rows) = {rows[k].id : k \in DOMAIN rows}
          /\ \A k \in DOMAIN rows :
               LogOf(rows)[rows[k].id] =
                 [i \in DOMAIN rows[k].context |-> KeyOf[rows[k].context[i]]]
      BY <2>2, LogHasEveryRow
    <3>2. /\ DOMAIN log' = {rows'[k].id : k \in DOMAIN rows'}
          /\ \A k \in DOMAIN rows' :
               log'[rows'[k].id] =
                 [i \in DOMAIN rows'[k].context |-> KeyOf[rows'[k].context[i]]]
      BY <2>1, <2>2, <3>1
    <3>3. \A k \in DOMAIN rows' :
            /\ DOMAIN log'[rows'[k].id] = DOMAIN rows'[k].context
            /\ \A i \in DOMAIN rows'[k].context :
                 log'[rows'[k].id][i] = KeyOf[rows'[k].context[i]]
      BY <3>2
    <3>4. QED
      BY <2>1, <2>2, <2>3, <3>2, <3>3 DEF LogIsOfThisRun, Matches
  <2>5. QED  BY <2>1, <2>2, <2>4 DEF Logged, IsCurrent
<1>8. CASE ExtractRaises \/ Diff \/ NoBaseline \/ BaselineRaises \/ Killed
  <2>1. UNCHANGED <<rows, promptRows, log, mode, command>> /\ step' = "done"
    BY <1>8 DEF ExtractRaises, Diff, NoBaseline, BaselineRaises, Killed, runVars, harnessVars, logVars
  <2>2. QED  BY <1>1, <2>1
<1>9. CASE UNCHANGED vars
  <2>1. UNCHANGED <<rows, promptRows, log, tmp, mode, command, step>>
    BY <1>9 DEF vars, runVars, harnessVars, logVars
  <2>2. QED  BY <1>1, <2>1 DEF Logged
<1>10. QED
  BY <1>2, <1>3, <1>4, <1>5, <1>6, <1>7, <1>8, <1>9 DEF Next

LEMMA RunnerInvariant == Spec => []RunnerInv
<1>1. Init => RunnerInv
  <2> SUFFICES ASSUME Init PROVE RunnerInv
    OBVIOUS
  <2>1. Commanded
    BY DEF Init, Commanded, Before, Since
  <2>2. ~IsCurrent
    BY DEF Init, IsCurrent
  <2>3. Logged
    BY <2>2 DEF Init, Logged, LogIsOfThisRun
  <2>4. QED  BY <2>1, <2>3 DEF RunnerInv
<1>2. RunnerInv /\ [Next]_vars => RunnerInv'
  <2> SUFFICES ASSUME RunnerInv, [Next]_vars PROVE RunnerInv'
    OBVIOUS
  <2>1. Commanded /\ Logged
    BY DEF RunnerInv
  <2>2. Commanded' /\ Logged'
    BY <2>1, CommandedKept, LoggedKept
  <2>3. QED  BY <2>2 DEF RunnerInv
<1>3. QED  BY <1>1, <1>2, PTL DEF Spec

(***************************************************************************)
(* Whatever config is given, an offline mode makes its memories with the   *)
(* deterministic embedder and starts no reader; a retrieval or a score     *)
(* makes them with it only if the given config names it between blanks,    *)
(* which the check of the runner does not strip and the memory does.       *)
(***************************************************************************)
THEOREM ModesAreKept == Spec => []CommandKeepsMode
<1>1. RunnerInv => CommandKeepsMode
  <2> SUFFICES ASSUME RunnerInv, command # NotStarted
               PROVE  LET backend == command.backend IN
                 /\ mode \in LocalModes => Provider(backend) = "deterministic" /\ ~command.reader
                 /\ mode \in {"retrieval", "score"} /\ ~backend.padded =>
                      Provider(backend) # "deterministic"
    BY DEF CommandKeepsMode
  <2> DEFINE backend == command.backend
  <2>1. backend \in Given /\ Matches(backend) /\ command.reader = (mode = "score")
    BY DEF RunnerInv, Commanded
  <2> HIDE DEF backend
  <2>2. /\ Provider(Backend("deterministic")) = "deterministic"
        /\ Provider(Backend("openai-compatible")) = "real"
        /\ Provider(Backend("other")) = "none"
    BY DEF Provider, Backend
  <2>3. backend # Backend("deterministic") /\ ~backend.padded => Provider(backend) # "deterministic"
    BY <2>1, <2>2 DEF Given
  <2>4. mode \in LocalModes => backend = Backend("deterministic") /\ ~command.reader
    BY <2>1 DEF Matches, LocalModes
  <2>5. mode \in {"retrieval", "score"} => backend # Backend("deterministic")
    BY <2>1 DEF Matches, LocalModes
  <2>6. QED  BY <2>2, <2>3, <2>4, <2>5 DEF backend
<1>2. QED  BY <1>1, RunnerInvariant, PTL

(***************************************************************************)
(* Whatever the harness writes, whatever an earlier invocation left and    *)
(* wherever the runner is killed, the retrieval log is the earlier one or  *)
(* all of this screening's rows.                                           *)
(***************************************************************************)
THEOREM LogIsWholeAndOwn == Spec => []LogIsOfThisRun
<1>1. RunnerInv => LogIsOfThisRun
  BY DEF RunnerInv, Logged
<1>2. QED  BY <1>1, RunnerInvariant, PTL

-----------------------------------------------------------------------------
(* The diff of two retrieval logs. *)

SameItems(c, b, id) == ItemsOf(c[id]) = ItemsOf(b[id])

SameBody(c, b, id) ==
  /\ Len(c[id]) = Len(b[id])
  /\ \A i \in 1 .. Len(c[id]) - 1 : \E j \in 1 .. Len(c[id]) - 1 : c[id][i] = b[id][j]

LEMMA BodyOf ==
  ASSUME NEW s, IsSeq(s), Len(s) >= 1
  PROVE  /\ DOMAIN Body(s) = 1 .. Len(s) - 1
         /\ \A i \in 1 .. Len(s) - 1 : Body(s)[i] = s[i]
<1> DEFINE S == {s[k] : k \in DOMAIN s}
<1>1. s \in Seq(S)
  BY DEF IsSeq
<1> HIDE DEF S
<1>2. Len(s) \in Nat /\ Len(s) - 1 \in Nat
  BY <1>1
<1>3. QED
  BY <1>1, <1>2 DEF Body

\* What each class says of the two rankings of a question.
LEMMA ClassesMean ==
  ASSUME NEW c, NEW b, IsSeq(c), IsSeq(b), NEW class, class = Classify(c, b)
  PROVE  /\ class \in {"identical", "reordered"} <=> ItemsOf(c) = ItemsOf(b)
         /\ class \in {"identical", "reordered", "boundary", "changed"}
         /\ class = "boundary" =>
              /\ Len(c) = Len(b)
              /\ \A i \in 1 .. Len(c) - 1 : \E j \in 1 .. Len(c) - 1 : c[i] = b[j]
<1>1. /\ class \in {"identical", "reordered"} <=> ItemsOf(c) = ItemsOf(b)
      /\ class \in {"identical", "reordered", "boundary", "changed"}
      /\ class = "boundary" => AtBoundary(c, b)
  BY DEF Classify
<1>2. ASSUME AtBoundary(c, b), NEW i \in 1 .. Len(c) - 1
      PROVE  \E j \in 1 .. Len(c) - 1 : c[i] = b[j]
  <2>1. /\ Len(c) = Len(b) /\ Len(c) >= 2
        /\ ItemsOf(Body(c)) = ItemsOf(Body(b))
    BY <1>2 DEF AtBoundary
  <2>2. Len(c) >= 1 /\ Len(b) >= 1
    BY <2>1, SeqOver DEF IsSeq
  <2>3. Body(c)[i] = c[i] /\ i \in DOMAIN Body(c)
    BY <2>2, BodyOf
  <2>4. PICK j \in DOMAIN Body(b) : Body(b)[j] = c[i]
    BY <2>1, <2>3 DEF ItemsOf
  <2>5. j \in 1 .. Len(c) - 1 /\ Body(b)[j] = b[j]
    BY <2>1, <2>2, BodyOf
  <2>6. QED
    BY <2>4, <2>5
<1>3. QED
  BY <1>1, <1>2 DEF AtBoundary

LEMMA VerdictMeans ==
  ASSUME NEW c, NEW b, IsFiniteSet(DOMAIN c),
         \A id \in DOMAIN c : IsSeq(c[id]), \A id \in DOMAIN b : IsSeq(b[id]),
         NEW result, result = Verdict(c, b)
  PROVE  /\ result \in {"GREEN", "YELLOW", "RED"}
         /\ result # "RED" => DOMAIN c = DOMAIN b
         /\ result = "GREEN" =>
              /\ \A id \in DOMAIN c : SameItems(c, b, id) \/ SameBody(c, b, id)
              /\ 100 * Cardinality({id \in DOMAIN c : ~SameItems(c, b, id)})
                   <= GreenPercent * Cardinality(DOMAIN c)
         /\ result = "YELLOW" =>
              100 * Cardinality({id \in DOMAIN c : ~SameItems(c, b, id) /\ ~SameBody(c, b, id)})
                <= YellowPercent * Cardinality(DOMAIN c)
<1> DEFINE D == DOMAIN c
           Class(id) == Classify(c[id], b[id])
           changed == Classified("changed", c, b)
           boundary == Classified("boundary", c, b)
           worse == {id \in D : ~SameItems(c, b, id) /\ ~SameBody(c, b, id)}
<1>1. /\ result \in {"GREEN", "YELLOW", "RED"}
      /\ result # "RED" => Missing(c, b) = {}
      /\ result = "GREEN" => changed = {} /\ AtMost(GreenPercent, boundary, c, b)
      /\ result = "YELLOW" => AtMost(YellowPercent, changed, c, b)
  BY DEF Verdict
<1>2. Missing(c, b) = {} => DOMAIN c = DOMAIN b
  BY DEF Missing, Differing
<1>3. ASSUME DOMAIN c = DOMAIN b, NEW id \in D
      PROVE  /\ Class(id) \in {"identical", "reordered"} <=> SameItems(c, b, id)
             /\ Class(id) \in {"identical", "reordered", "boundary", "changed"}
             /\ Class(id) = "boundary" => SameBody(c, b, id)
  BY <1>3, ClassesMean DEF SameItems, SameBody
<1>4. ASSUME DOMAIN c = DOMAIN b
      PROVE  /\ changed = {id \in D : Class(id) = "changed"}
             /\ boundary = {id \in D : Class(id) = "boundary"}
             /\ \A percent, S : AtMost(percent, S, c, b) <=>
                                 100 * Cardinality(S) <= percent * Cardinality(D)
  <2>1. DOMAIN c \cap DOMAIN b = D /\ DOMAIN c \cup DOMAIN b = D
    BY <1>4
  <2>2. QED
    BY <2>1 DEF Classified, AtMost
<1> HIDE DEF Class, changed, boundary
<1>5. ASSUME result = "GREEN"
      PROVE  /\ \A id \in D : SameItems(c, b, id) \/ SameBody(c, b, id)
             /\ 100 * Cardinality({id \in D : ~SameItems(c, b, id)})
                  <= GreenPercent * Cardinality(D)
  <2>1. DOMAIN c = DOMAIN b /\ changed = {} /\ AtMost(GreenPercent, boundary, c, b)
    BY <1>1, <1>2, <1>5
  <2>2. \A id \in D : Class(id) # "changed"
    BY <1>4, <2>1
  <2>3. \A id \in D : SameItems(c, b, id) \/ SameBody(c, b, id)
    BY <1>3, <2>1, <2>2
  <2>4. boundary = {id \in D : ~SameItems(c, b, id)}
    BY <1>3, <1>4, <2>1, <2>2
  <2>5. QED
    BY <1>4, <2>1, <2>3, <2>4
<1>6. ASSUME result = "YELLOW"
      PROVE  100 * Cardinality(worse) <= YellowPercent * Cardinality(D)
  <2>1. DOMAIN c = DOMAIN b /\ AtMost(YellowPercent, changed, c, b)
    BY <1>1, <1>2, <1>6
  <2>2. worse \subseteq changed /\ changed \subseteq D
    BY <1>3, <1>4, <2>1
  <2>3. 100 * Cardinality(changed) <= YellowPercent * Cardinality(D)
    BY <1>4, <2>1
  <2> HIDE DEF worse, D
  <2>4. IsFiniteSet(D)
    BY DEF D
  <2>5. IsFiniteSet(changed)
    BY <2>2, <2>4, FS_Subset
  <2>6. Cardinality(worse) <= Cardinality(changed) /\ IsFiniteSet(worse)
    BY <2>2, <2>5, FS_Subset
  <2>7. /\ Cardinality(worse) \in Nat /\ Cardinality(changed) \in Nat
        /\ YellowPercent * Cardinality(D) \in Nat
    <3>1. Cardinality(D) \in Nat /\ YellowPercent \in Nat
      BY <2>4, FS_CardinalityType, PercentAssumption
    <3>2. QED
      BY <2>5, <2>6, <3>1, FS_CardinalityType
  <2>8. QED
    BY <2>3, <2>6, <2>7
<1>7. QED
  BY <1>1, <1>2, <1>5, <1>6

LEMMA LogHasLists ==
  ASSUME NEW written, Extractable(written), IsSeq(written),
         \A k \in DOMAIN written : written[k].context = NoFile \/ IsSeq(written[k].context)
  PROVE  /\ IsFiniteSet(DOMAIN LogOf(written))
         /\ \A id \in DOMAIN LogOf(written) : IsSeq(LogOf(written)[id])
<1> DEFINE ids == {written[k].id : k \in DOMAIN written}
           n == Len(written)
           f == [k \in 1 .. n |-> written[k].id]
<1>1. /\ DOMAIN LogOf(written) = ids
      /\ \A k \in DOMAIN written :
           LogOf(written)[written[k].id] =
             [i \in DOMAIN written[k].context |-> KeyOf[written[k].context[i]]]
  BY LogHasEveryRow
<1>2. n \in Nat /\ DOMAIN written = 1 .. n
  BY DEF IsSeq
<1>3. IsFiniteSet(ids)
  <2>1. f \in Surjection(1 .. n, ids)
    <3>1. f \in [1 .. n -> ids] /\ \A x \in ids : \E k \in 1 .. n : f[k] = x
      BY <1>2
    <3> HIDE DEF f, ids
    <3>2. QED
      BY <3>1, Zenon DEF Surjection
  <2>2. IsFiniteSet(1 .. n)
    <3>1. n \in Nat
      BY <1>2
    <3> HIDE DEF n
    <3>2. QED
      BY <3>1, FS_Interval
  <2>3. QED
    BY <2>1, <2>2, FS_Surjection
<1>4. ASSUME NEW k \in DOMAIN written
      PROVE  IsSeq(LogOf(written)[written[k].id])
  <2> DEFINE context == written[k].context
             keys == [i \in DOMAIN context |-> KeyOf[context[i]]]
             S == {KeyOf[context[i]] : i \in DOMAIN context}
  <2>1. IsSeq(context)
    BY DEF Extractable
  <2>2. LogOf(written)[written[k].id] = keys
    BY <1>1
  <2> HIDE DEF context
  <2>3. DOMAIN context = 1 .. Len(context) /\ Len(context) \in Nat
    BY <2>1 DEF IsSeq
  <2>4. keys \in [1 .. Len(context) -> S]
    BY <2>3
  <2> HIDE DEF keys, S
  <2>5. QED
    BY <2>2, <2>3, <2>4, FunctionSeq
<1>5. QED
  BY <1>1, <1>3, <1>4

Codes == {0, 1, 2, 3, 137}

\* What is compared are lists, and once a verdict is given nothing follows.
Screened ==
  /\ IsSeq(rows)
  /\ \A k \in DOMAIN rows : rows[k].context = NoFile \/ IsSeq(rows[k].context)
  /\ step = "diff" => log = LogOf(rows) /\ Extractable(rows)
  /\ verdict \in {"none", "GREEN", "YELLOW", "RED"} /\ exit \in Codes
  /\ verdict # "none" => step = "done"
  /\ VerdictIsSound

LEMMA ScreenedKept ==
  ASSUME Found, Logged, Screened, [Next]_vars
  PROVE  Screened'
<1> USE DEF To, Ends
\* Before the diff there is no verdict to keep.
<1>1. ASSUME step # "done", UNCHANGED <<rows, verdict>>, step' # "diff", exit' \in Codes
      PROVE  Screened'
  BY <1>1 DEF Screened, VerdictIsSound
<1>2. CASE Start \/ Refuse \/ Subset \/ SubsetRaises \/ Launch \/ RefuseConfig
  <2>1. /\ step \in {"start", "subset", "config"} /\ UNCHANGED <<rows, verdict>>
        /\ step' # "diff" /\ (exit' = exit \/ exit' \in {1, 2})
    BY <1>2 DEF Start, Refuse, Subset, SubsetRaises, Launch, RefuseConfig, harnessVars, endVars
  <2>2. exit' \in Codes
    BY <2>1 DEF Screened, Codes
  <2>3. QED
    BY <1>1, <2>1, <2>2
<1>3. CASE HarnessCalls \/ MemoryRuns \/ HarnessCloses \/ HarnessGoesOn \/ HarnessExits \/ HarnessFails
  <2>1. /\ step = "harness" /\ UNCHANGED <<rows, verdict>>
        /\ step' # "diff" /\ (exit' = exit \/ exit' = 3)
    BY <1>3 DEF HarnessCalls, MemoryRuns, HarnessCloses, HarnessGoesOn, HarnessExits, HarnessFails,
       AtTurn, harnessVars, endVars
  <2>2. exit' \in Codes
    BY <2>1 DEF Screened, Codes
  <2>3. QED
    BY <1>1, <2>1, <2>2
<1>4. CASE HarnessWritesRow
  <2>1. /\ step = "harness" /\ step' = "harness" /\ verdict' = verdict /\ exit' = exit
        /\ IsSeq(items)
    BY <1>4 DEF HarnessWritesRow, AtTurn, endVars, Found
  <2>2. PICK context \in {items, NoFile} :
          rows' = Append(rows, [id |-> asked[turn].id, context |-> context])
    BY <1>4 DEF HarnessWritesRow
  <2> DEFINE row == [id |-> asked[turn].id, context |-> context]
  <2>3. row.context = NoFile \/ IsSeq(row.context)
    BY <2>1, <2>2
  <2> HIDE DEF row
  <2>4. /\ IsSeq(rows') /\ Len(rows) \in Nat /\ Len(rows') = Len(rows) + 1
        /\ \A k \in 1 .. Len(rows) : rows'[k] = rows[k]
        /\ rows'[Len(rows) + 1] = row
    <3>1. rows' = Append(rows, row)
      BY <2>2 DEF row
    <3>2. QED
      BY <3>1, AppendSeq DEF Screened
  <2>5. DOMAIN rows = 1 .. Len(rows) /\ DOMAIN rows' = 1 .. Len(rows')
    BY <2>4 DEF Screened, IsSeq
  <2>6. \A k \in DOMAIN rows' : rows'[k].context = NoFile \/ IsSeq(rows'[k].context)
    <3>1. SUFFICES ASSUME NEW k \in 1 .. Len(rows) + 1
                   PROVE  rows'[k].context = NoFile \/ IsSeq(rows'[k].context)
      BY <2>4, <2>5
    <3>2. CASE k = Len(rows) + 1
      BY <2>3, <2>4, <3>2
    <3>3. CASE k # Len(rows) + 1
      <4>1. k \in 1 .. Len(rows)
        BY <2>4, <3>3
      <4>2. QED
        BY <2>4, <2>5, <4>1 DEF Screened
    <3>4. QED
      BY <3>2, <3>3
  <2>7. QED
    BY <2>1, <2>4, <2>6 DEF Screened, VerdictIsSound
<1>5. CASE WriteTemporary \/ ExtractRaises
  <2>1. /\ step = "handle" /\ UNCHANGED <<rows, verdict>>
        /\ step' # "diff" /\ (exit' = exit \/ exit' = 1)
    BY <1>5 DEF WriteTemporary, ExtractRaises, harnessVars, endVars
  <2>2. exit' \in Codes
    BY <2>1 DEF Screened, Codes
  <2>3. QED
    BY <1>1, <2>1, <2>2
<1>6. CASE Replace
  <2>1. /\ step = "replace" /\ step' = "diff" /\ log' = tmp
        /\ UNCHANGED <<rows, verdict, exit>>
    BY <1>6 DEF Replace, harnessVars, endVars
  <2>2. tmp = LogOf(rows) /\ Extractable(rows)
    BY <2>1 DEF Logged
  <2>3. LogOf(rows)' = LogOf(rows) /\ (Extractable(rows)' <=> Extractable(rows))
    BY <2>1 DEF LogOf, RowOf, Extractable
  <2>4. QED
    BY <2>1, <2>2, <2>3 DEF Screened, VerdictIsSound
<1>7. CASE Diff
  <2>1. /\ step = "diff" /\ step' = "done" /\ UNCHANGED <<rows, log>>
        /\ against' \in Baselines \cup {log} /\ verdict' = Verdict(log, against')
        /\ exit' = IF verdict' = "RED" THEN 1 ELSE 0
    BY <1>7 DEF Diff, harnessVars, logVars
  <2>2. IsFiniteSet(DOMAIN log) /\ \A id \in DOMAIN log : IsSeq(log[id])
    BY <2>1, LogHasLists DEF Screened
  <2>3. \A id \in DOMAIN against' : IsSeq(against'[id])
    BY <2>1, <2>2, BaselinesAssumption
  <2>4. /\ verdict' \in {"GREEN", "YELLOW", "RED"}
        /\ verdict' # "RED" => DOMAIN log = DOMAIN against'
        /\ verdict' = "GREEN" =>
             /\ \A id \in DOMAIN log : SameItems(log, against', id) \/ SameBody(log, against', id)
             /\ 100 * Cardinality({id \in DOMAIN log : ~SameItems(log, against', id)})
                  <= GreenPercent * Cardinality(DOMAIN log)
        /\ verdict' = "YELLOW" =>
             100 * Cardinality({id \in DOMAIN log :
                                 ~SameItems(log, against', id) /\ ~SameBody(log, against', id)})
               <= YellowPercent * Cardinality(DOMAIN log)
    BY <2>1, <2>2, <2>3, VerdictMeans
  <2>5. VerdictIsSound'
    <3>1. \A id : (Kept(id)' <=> SameItems(log, against', id))
                /\ (BodyKept(id)' <=> SameBody(log, against', id))
      BY <2>1 DEF Kept, BodyKept, SameItems, SameBody
    <3>2. /\ {id \in DOMAIN log : ~Kept(id)'} = {id \in DOMAIN log : ~SameItems(log, against', id)}
          /\ {id \in DOMAIN log : ~Kept(id)' /\ ~BodyKept(id)'}
               = {id \in DOMAIN log : ~SameItems(log, against', id) /\ ~SameBody(log, against', id)}
      BY <3>1
    <3>3. log' = log
      BY <2>1
    <3>4. QED
      BY <2>1, <2>4, <3>1, <3>2, <3>3 DEF VerdictIsSound
  <2>6. exit' \in Codes
    BY <2>1 DEF Codes
  <2>7. QED
    BY <2>1, <2>4, <2>5, <2>6 DEF Screened
<1>8. CASE NoBaseline \/ BaselineRaises \/ Killed
  <2>1. /\ step # "done" /\ UNCHANGED <<rows, verdict>>
        /\ step' = "done" /\ (exit' = exit \/ exit' \in {1, 137})
    BY <1>8 DEF NoBaseline, BaselineRaises, Killed, harnessVars, endVars
  <2>2. exit' \in Codes
    BY <2>1 DEF Screened, Codes
  <2>3. QED
    BY <1>1, <2>1, <2>2
<1>9. CASE UNCHANGED vars
  <2>1. UNCHANGED <<rows, log, against, verdict, step, exit>>
    BY <1>9 DEF vars, harnessVars, logVars, endVars
  <2>2. LogOf(rows)' = LogOf(rows) /\ (Extractable(rows)' <=> Extractable(rows))
    BY <2>1 DEF LogOf, RowOf, Extractable
  <2>3. QED
    BY <2>1, <2>2 DEF Screened, VerdictIsSound, Kept, BodyKept
<1>10. QED
  BY <1>2, <1>3, <1>4, <1>5, <1>6, <1>7, <1>8, <1>9 DEF Next

LEMMA ScreenInvariant == Spec => []Screened
<1>1. Init => Screened
  BY EmptyIsSeq DEF Init, Screened, VerdictIsSound, Codes
<1>2. MemoryInv /\ RunnerInv /\ Screened /\ [Next]_vars => Screened'
  BY ScreenedKept DEF MemoryInv, RunnerInv
<1>3. QED  BY <1>1, <1>2, MemoryInvariant, RunnerInvariant, PTL DEF Spec

(***************************************************************************)
(* For any logs and thresholds: no verdict but RED hides a question that   *)
(* one log lacks, GREEN lets no question lose more than its last rank, and *)
(* the shares it and YELLOW allow are of all questions.                    *)
(***************************************************************************)
THEOREM VerdictsAreSound == Spec => []VerdictIsSound
<1>1. Screened => VerdictIsSound
  BY DEF Screened
<1>2. QED  BY <1>1, ScreenInvariant, PTL

-----------------------------------------------------------------------------
(* Types. *)

\* What of MemoryTypeOK is not said of the connections.
StoreTyped ==
  /\ looped \in BOOLEAN /\ spoiled \subseteq Connections
  /\ vectors \subseteq DOMAIN thoughts
  /\ \A id \in DOMAIN known : known[id] \in Texts
  /\ \A id \in DOMAIN past : past[id] \in Texts
  /\ \A id \in DOMAIN thoughts : thoughts[id] \in Texts
  /\ pc \in {"idle", "connect", "ensure_schema", "close_store", "close_conn"} \cup Working
  /\ op \in {"init", "insert", "query", "close"}
  /\ outcome \in {"none", "pending", "inserted", "found", "released", "raised"}
  /\ todo \subseteq DOMAIN trajectory.states
  /\ \A k \in DOMAIN items : items[k] \in Texts

LEMMA StoreTypedKept ==
  ASSUME Handles, Storing, StoreTyped, [MemoryNext]_memoryVars
  PROVE  StoreTyped'
<1> USE DEF Goto, Working
<1>0. /\ \A i \in DOMAIN trajectory.states : trajectory.states[i].text \in Texts
      /\ \A text \in Texts : Limit[text] \in Texts
      /\ spoiled \subseteq Connections /\ {conn, fresh} \subseteq Connections \cup {None}
  BY LimitAssumption DEF Storing, Formatted, StoreTyped, Handles
<1>1. CASE UNCHANGED memoryVars
  BY <1>1 DEF memoryVars, attributeVars, storeVars, StoreTyped
<1>2. CASE (\E t : Formatted(t) /\ Insert(t)) \/ Query
  <2>1. /\ looped' = TRUE /\ outcome' = "pending" /\ items' = <<>> /\ todo' = {}
        /\ op' \in {"insert", "query"} /\ pc' \in {"connect", "check", "search"}
        /\ UNCHANGED <<known, past, thoughts, vectors, spoiled>>
    BY <1>2 DEF Insert, Query, Call, AfterStore, storeVars
  <2>2. QED
    BY <2>1 DEF StoreTyped
<1>3. CASE CallInsideLoop
  BY <1>3 DEF CallInsideLoop, attributeVars, storeVars, StoreTyped
<1>4. CASE CallClose \/ CloseInsideLoop
  <2>1. /\ (looped' = looped \/ looped' = FALSE) /\ outcome' \in {"pending", "released", "raised"}
        /\ items' = <<>> /\ op' = "close" /\ pc' \in {"idle", "close_store"}
        /\ UNCHANGED <<known, past, thoughts, vectors, todo, trajectory>>
    BY <1>4 DEF CallClose, CloseInsideLoop, Drop, attributeVars, storeVars
  <2>2. spoiled' \subseteq Connections
    BY <1>0, <1>4 DEF CallClose, CloseInsideLoop, Spoil
  <2>3. looped' \in BOOLEAN
    BY Zenon, <2>1 DEF StoreTyped
  <2>4. /\ vectors' \subseteq DOMAIN thoughts' /\ todo' \subseteq DOMAIN trajectory'.states
        /\ \A id \in DOMAIN known' : known'[id] \in Texts
        /\ \A id \in DOMAIN past' : past'[id] \in Texts
        /\ \A id \in DOMAIN thoughts' : thoughts'[id] \in Texts
        /\ \A k \in DOMAIN items' : items'[k] \in Texts
    BY <2>1 DEF StoreTyped
  <2>5. QED
    BY <2>1, <2>2, <2>3, <2>4 DEF StoreTyped
<1>5. CASE Renew
  BY <1>5 DEF Renew, NewMemory, Empty, StoreTyped
<1>6. ASSUME NEW from, Raises(from), spoiled' \subseteq Connections
      PROVE  StoreTyped'
  BY <1>6 DEF Raises, Drop, attributeVars, storeVars, StoreTyped
<1>7. CASE ConnectRaises \/ EnsureSchemaRaises \/ RefuseTrajectory \/ EmbedRaises \/ StoreRaises
           \/ SearchRaises \/ CloseRaises
  <2>1. spoiled' \subseteq Connections
    BY <1>0, <1>7 DEF ConnectRaises, EnsureSchemaRaises, RefuseTrajectory, EmbedRaises, StoreRaises,
       SearchRaises, CloseRaises, Spoil
  <2>2. QED
    BY <1>6, <1>7, <2>1 DEF ConnectRaises, EnsureSchemaRaises, RefuseTrajectory, EmbedRaises,
       StoreRaises, SearchRaises, CloseRaises
<1>8. CASE Connect
  BY <1>8 DEF Connect, attributeVars, storeVars, StoreTyped
<1>9. CASE EnsureSchema
  BY <1>9 DEF EnsureSchema, AfterStore, Empty, StoreTyped
<1>10. CASE PlanStates \/ Embed \/ InsertReturns \/ CloseStore
  BY <1>10 DEF PlanStates, Embed, InsertReturns, CloseStore, attributeVars, storeVars, StoreTyped
<1>11. CASE CloseConn
  BY <1>11 DEF CloseConn, Drop, storeVars, StoreTyped
<1>12. CASE CreateThought
  <2>1. PICK i \in todo :
          thoughts' = With(thoughts, StateId(trajectory, i), trajectory.states[i].text)
    BY <1>12 DEF CreateThought
  <2> DEFINE id == StateId(trajectory, i)
             new == With(thoughts, id, trajectory.states[i].text)
  <2>2. /\ DOMAIN new = DOMAIN thoughts \cup {id}
        /\ new[id] = trajectory.states[i].text
        /\ \A key \in DOMAIN thoughts : key # id => new[key] = thoughts[key]
    BY DEF With
  <2>3. thoughts' = new
    BY <2>1
  <2> HIDE DEF new, id
  <2>4. i \in DOMAIN trajectory.states
    BY DEF StoreTyped
  <2>5. \A key \in DOMAIN thoughts' : thoughts'[key] \in Texts
    BY <1>0, <2>2, <2>3, <2>4 DEF StoreTyped
  <2>6. vectors' \subseteq DOMAIN thoughts'
    BY <1>12, <2>2, <2>3 DEF CreateThought, StoreTyped
  <2>7. /\ UNCHANGED <<looped, known, past, spoiled, op, outcome, trajectory, todo, items>>
        /\ pc' = "store_embedding"
    BY <1>12 DEF CreateThought, attributeVars
  <2>8. QED
    BY <2>5, <2>6, <2>7 DEF StoreTyped
<1>13. CASE StoreEmbedding
  <2>1. PICK i \in todo :
          /\ IsNext(i)
          /\ vectors' = vectors \cup {StateId(trajectory, i)}
          /\ known' = With(known, StateId(trajectory, i), Limit[trajectory.states[i].text])
          /\ todo' = todo \ {i}
    BY <1>13 DEF StoreEmbedding
  <2> DEFINE id == StateId(trajectory, i)
             new == With(known, id, Limit[trajectory.states[i].text])
  <2>2. /\ DOMAIN new = DOMAIN known \cup {id}
        /\ new[id] = Limit[trajectory.states[i].text]
        /\ \A key \in DOMAIN known : key # id => new[key] = known[key]
    BY DEF With
  <2>3. known' = new /\ vectors' = vectors \cup {id}
    BY <2>1
  <2>4. id \in DOMAIN thoughts
    BY <1>13, <2>1 DEF StoreEmbedding, Storing, HasThought
  <2> HIDE DEF new, id
  <2>5. i \in DOMAIN trajectory.states
    BY DEF StoreTyped
  <2>6. \A key \in DOMAIN known' : known'[key] \in Texts
    BY <1>0, <2>2, <2>3, <2>5 DEF StoreTyped
  <2>7. /\ UNCHANGED <<looped, past, thoughts, spoiled, op, outcome, trajectory, items>>
        /\ pc' = "create_thought"
    BY <1>13 DEF StoreEmbedding
  <2>8. vectors' \subseteq DOMAIN thoughts' /\ todo' \subseteq DOMAIN trajectory'.states
    BY <2>1, <2>3, <2>4, <2>7 DEF StoreTyped
  <2>9. QED
    BY <2>6, <2>7, <2>8 DEF StoreTyped
<1>14. CASE Search
  <2>1. PICK n \in 0 .. MemoryTopK : \E hits \in Injection(1 .. n, DOMAIN thoughts) :
          items' = Contexts(hits)
    BY <1>14 DEF Search
  <2>2. PICK hits \in [1 .. n -> DOMAIN thoughts] : items' = Contexts(hits)
    BY <2>1 DEF Injection
  <2>3. n \in Nat
    BY <2>1
  <2>4. \A k \in DOMAIN items' : \E id \in DOMAIN known : items'[k] = known[id]
    BY <2>2, <2>3, ContextsAreDifferent
  <2>5. /\ UNCHANGED <<looped, known, past, thoughts, vectors, spoiled, op, trajectory, todo>>
        /\ pc' = "idle" /\ outcome' = "found"
    BY <1>14 DEF Search, attributeVars, storeVars
  <2>6. QED
    BY <2>4, <2>5 DEF StoreTyped
<1>15. QED
  BY <1>1, <1>2, <1>3, <1>4, <1>5, <1>7, <1>8, <1>9, <1>10, <1>11, <1>12, <1>13, <1>14
     DEF MemoryNext, MemoryStep

\* Where main() and the harness are.
Counted ==
  /\ step \in {"done"} \cup Before \cup Since
  /\ mode \in Modes \cup {"none"}
  /\ IsSeq(asked) /\ Len(asked) <= Len(Questions)
  /\ turn \in 1..Len(Questions) + 1 /\ calls \in 0..MaxCalls
  /\ Len(rows) <= MaxRows

LEMMA HeadOfQuestions ==
  ASSUME Len(Questions) > SmokeLimit
  PROVE  LET head == SubSeq(Questions, 1, SmokeLimit)
         IN  IsSeq(head) /\ Len(head) <= Len(Questions)
<1> DEFINE S == {Questions[k] : k \in DOMAIN Questions}
<1>1. Questions \in Seq(S) /\ SmokeLimit \in Nat /\ Len(Questions) \in Nat
  BY QuestionsAssumption DEF IsSeq
<1>2. \A k \in 1 .. SmokeLimit : Questions[k] \in S
  BY <1>1
<1> HIDE DEF S
<1>3. SubSeq(Questions, 1, SmokeLimit) \in Seq(S) /\ Len(SubSeq(Questions, 1, SmokeLimit)) = SmokeLimit
  BY <1>1, <1>2
<1>4. IsSeq(SubSeq(Questions, 1, SmokeLimit))
  BY <1>3, SeqOver
<1>5. QED
  BY <1>1, <1>3, <1>4

LEMMA CountedKept ==
  ASSUME Screened, Counted, [Next]_vars
  PROVE  Counted'
<1> USE DEF To, Ends, Before, Since
<1>0. /\ Len(rows) \in Nat /\ turn \in Nat /\ calls \in Nat /\ Len(Questions) \in Nat
      /\ MaxCalls \in Nat /\ MaxRows \in Nat /\ Len(asked) \in Nat
  BY QuestionsAssumption DEF Screened, Counted, IsSeq
<1>1. ASSUME UNCHANGED <<mode, asked, turn, calls, rows>>,
             step' \in {"done"} \cup Before \cup Since
      PROVE  Counted'
  BY <1>1 DEF Counted
<1>2. CASE Start
  BY <1>2 DEF Start, memoryVars, harnessVars, Counted
<1>3. CASE Subset
  <2>1. IsSeq(asked') /\ Len(asked') <= Len(Questions)
    <3>1. CASE mode = "smoke" /\ SmokeLimit < Len(Questions)
      <4>1. asked' = SubSeq(Questions, 1, SmokeLimit)
        BY Zenon, <1>3, <3>1 DEF Subset
      <4>2. Len(Questions) > SmokeLimit
        BY <3>1
      <4>3. QED
        BY <4>1, <4>2, HeadOfQuestions
    <3>2. CASE ~(mode = "smoke" /\ SmokeLimit < Len(Questions))
      <4>1. asked' = Questions
        BY Zenon, <1>3, <3>2 DEF Subset
      <4>2. QED
        BY <1>0, <4>1, QuestionsAssumption
    <3>3. QED
      BY <3>1, <3>2
  <2>2. /\ UNCHANGED <<mode, turn, calls, rows>> /\ step' = "config"
    BY <1>3 DEF Subset, memoryVars, harnessVars
  <2>3. QED
    BY <2>1, <2>2 DEF Counted
<1>4. CASE Refuse \/ SubsetRaises \/ Launch \/ RefuseConfig
  BY <1>1, <1>4 DEF Refuse, SubsetRaises, Launch, RefuseConfig, memoryVars, runVars, harnessVars
<1>5. CASE HarnessCalls
  <2>1. /\ calls' = calls + 1 /\ calls < MaxCalls
        /\ UNCHANGED <<step, mode, asked, turn, rows>>
    BY <1>5 DEF HarnessCalls, runVars
  <2>2. calls' \in 0 .. MaxCalls
    BY <1>0, <2>1
  <2>3. QED
    BY <2>1, <2>2 DEF Counted
<1>6. CASE MemoryRuns \/ HarnessCloses
  BY <1>1, <1>6 DEF MemoryRuns, HarnessCloses, runVars, harnessVars, Counted
<1>7. CASE HarnessWritesRow
  <2>1. PICK row : rows' = Append(rows, row)
    BY <1>7 DEF HarnessWritesRow
  <2>2. Len(rows') = Len(rows) + 1
    BY <2>1, AppendSeq DEF Screened
  <2>3. /\ Len(rows) < MaxRows
        /\ UNCHANGED <<mode, asked, turn, calls, step>>
    BY <1>7 DEF HarnessWritesRow, runVars
  <2>4. Len(rows') <= MaxRows
    BY <1>0, <2>2, <2>3
  <2>5. QED
    BY <2>3, <2>4 DEF Counted
<1>9. CASE HarnessGoesOn
  <2>1. /\ turn \in DOMAIN asked /\ turn' = turn + 1 /\ calls' = 0
        /\ UNCHANGED <<mode, asked, rows, step>>
    BY <1>9 DEF HarnessGoesOn, AtTurn, runVars
  <2>2. turn \in 1 .. Len(asked)
    BY <2>1 DEF Counted, IsSeq
  <2>3. turn' \in 1 .. Len(Questions) + 1 /\ calls' \in 0 .. MaxCalls
    BY <1>0, <2>1, <2>2 DEF Counted
  <2>4. QED
    BY <2>1, <2>3 DEF Counted
<1>10. CASE HarnessExits \/ HarnessFails
  BY <1>1, <1>10 DEF HarnessExits, HarnessFails, memoryVars, runVars, harnessVars
<1>11. CASE WriteTemporary \/ ExtractRaises \/ Replace \/ Diff \/ NoBaseline \/ BaselineRaises \/ Killed
  BY <1>1, <1>11 DEF WriteTemporary, ExtractRaises, Replace, Diff, NoBaseline, BaselineRaises, Killed,
     memoryVars, runVars, harnessVars
<1>12. CASE UNCHANGED vars
  BY <1>12 DEF vars, memoryVars, runVars, harnessVars, Counted
<1>13. QED
  BY <1>2, <1>3, <1>4, <1>5, <1>6, <1>7, <1>9, <1>10, <1>11, <1>12 DEF Next

(***************************************************************************)
(* Every variable of the runner and of the memories keeps its type: the    *)
(* harness stays within the questions and its bounds, each embedding       *)
(* belongs to a thought, what is known, was known, is stored and is given  *)
(* are texts, and a command is one of the commands there are.              *)
(***************************************************************************)
THEOREM StateIsTyped == Spec => []TypeOK
<1>1. Init => StoreTyped /\ Counted
  <2>1. ASSUME Init
        PROVE  StoreTyped
    BY <2>1 DEF Init, MemoryInit, NewMemory, Empty, StoreTyped
  <2>2. ASSUME Init
        PROVE  Counted
    <3>1. /\ IsSeq(<<>>) /\ Len(<<>>) = 0 /\ Len(Questions) \in Nat
          /\ MaxCalls \in Nat /\ MaxRows \in Nat
      BY EmptyIsSeq, QuestionsAssumption DEF IsSeq
    <3>2. QED
      BY <2>2, <3>1 DEF Init, Counted, Before
  <2>3. QED
    BY <2>1, <2>2
<1>2. /\ MemoryInv /\ RunnerInv /\ Screened /\ StoreTyped /\ Counted /\ [Next]_vars
      => (StoreTyped /\ Counted)'
  BY MemoryMoves, StoreTypedKept, CountedKept DEF MemoryInv
<1>3. MemoryInv /\ RunnerInv /\ Screened /\ StoreTyped /\ Counted => TypeOK
  <2> SUFFICES ASSUME MemoryInv, RunnerInv, Screened, StoreTyped, Counted
               PROVE  TypeOK
    OBVIOUS
  <2>1. MemoryTypeOK
    BY DEF MemoryTypeOK, MemoryInv, Handles, StoreTyped, Working
  <2>2. command \in [backend : Given, reader : BOOLEAN] \cup {NotStarted}
    BY DEF RunnerInv, Commanded
  <2>3. QED
    BY <2>1, <2>2 DEF TypeOK, Screened, Counted, Before, Since, Codes
<1>4. QED
  BY <1>1, <1>2, <1>3, MemoryInvariant, RunnerInvariant, ScreenInvariant, PTL DEF Spec

-----------------------------------------------------------------------------
(* What the diff does not depend on, and what it cannot tell. *)

LEMMA ClassifyCommutes ==
  ASSUME NEW c, NEW b
  PROVE  Classify(c, b) = Classify(b, c)
<1>1. \A S, T : Differing(S, T) = Differing(T, S)
  BY DEF Differing
<1>2. ASSUME AtBoundary(c, b)
      PROVE  AtBoundary(b, c)
  BY <1>1, <1>2 DEF AtBoundary
<1>3. ASSUME AtBoundary(b, c)
      PROVE  AtBoundary(c, b)
  BY <1>1, <1>3 DEF AtBoundary
<1>4. QED
  BY <1>2, <1>3 DEF Classify

(***************************************************************************)
(* Which of two logs is called the baseline makes no difference to the     *)
(* verdict: fractions are of the questions of both.                        *)
(***************************************************************************)
THEOREM VerdictCommutes ==
  ASSUME NEW c, NEW b
  PROVE  Verdict(c, b) = Verdict(b, c)
<1>1. Missing(c, b) = Missing(b, c)
  BY DEF Missing, Differing
<1>2. ASSUME NEW class
      PROVE  Classified(class, c, b) = Classified(class, b, c)
  <2>1. DOMAIN c \cap DOMAIN b = DOMAIN b \cap DOMAIN c
    OBVIOUS
  <2>2. \A id : Classify(c[id], b[id]) = Classify(b[id], c[id])
    BY ClassifyCommutes
  <2>3. QED
    BY <2>1, <2>2 DEF Classified
<1>3. ASSUME NEW percent, NEW S
      PROVE  AtMost(percent, S, c, b) <=> AtMost(percent, S, b, c)
  <2>1. DOMAIN c \cup DOMAIN b = DOMAIN b \cup DOMAIN c
    OBVIOUS
  <2>2. QED
    BY <2>1 DEF AtMost
<1>4. QED
  BY <1>1, <1>2, <1>3 DEF Verdict

LEMMA SelfVerdict ==
  ASSUME NEW c, IsFiniteSet(DOMAIN c)
  PROVE  Verdict(c, c) = "GREEN"
<1>1. Missing(c, c) = {}
  BY DEF Missing, Differing
<1>2. \A id : Classify(c[id], c[id]) = "identical"
  BY DEF Classify
<1>3. Classified("changed", c, c) = {} /\ Classified("boundary", c, c) = {}
  BY <1>2 DEF Classified
<1>4. AtMost(GreenPercent, {}, c, c)
  <2>1. DOMAIN c \cup DOMAIN c = DOMAIN c
    OBVIOUS
  <2>2. Cardinality(DOMAIN c) \in Nat /\ Cardinality({}) = 0 /\ GreenPercent \in Nat
    BY FS_CardinalityType, FS_EmptySet, PercentAssumption
  <2>3. GreenPercent * Cardinality(DOMAIN c) \in Nat
    BY <2>2
  <2>4. QED
    BY <2>1, <2>2, <2>3 DEF AtMost
<1>5. QED
  BY <1>1, <1>3, <1>4 DEF Verdict

\* A baseline that is the log itself is given the verdict of a good run.
OwnLogPasses == verdict # "none" /\ against = log => verdict = "GREEN" /\ exit = 0

(***************************************************************************)
(* When --baseline names the output directory the log, just moved into     *)
(* place there, is compared with itself: whatever was retrieved, the       *)
(* screening is GREEN and exits with 0.                                    *)
(***************************************************************************)
THEOREM OwnLogIsGreen == Spec => []OwnLogPasses
<1>1. Init => OwnLogPasses
  BY DEF Init, OwnLogPasses
<1>2. Screened /\ OwnLogPasses /\ [Next]_vars => OwnLogPasses'
  <2> SUFFICES ASSUME Screened, OwnLogPasses, [Next]_vars
               PROVE  OwnLogPasses'
    OBVIOUS
  <2>1. CASE Diff
    <3>1. /\ step = "diff" /\ log' = log /\ verdict' = Verdict(log, against')
          /\ exit' = IF verdict' = "RED" THEN 1 ELSE 0
      BY <2>1 DEF Diff, To, logVars
    <3>2. IsFiniteSet(DOMAIN log)
      BY <3>1, LogHasLists DEF Screened
    <3>3. QED
      BY <3>1, <3>2, SelfVerdict DEF OwnLogPasses
  <2>2. CASE UNCHANGED vars
    BY <2>2 DEF vars, logVars, endVars, OwnLogPasses
  <2>3. CASE Next /\ ~Diff
    <3>1. verdict' = verdict /\ step # "done"
      BY <2>3 DEF Next, Start, Refuse, Subset, SubsetRaises, Launch, RefuseConfig, HarnessCalls,
         MemoryRuns, HarnessWritesRow, HarnessCloses, HarnessGoesOn, HarnessExits, HarnessFails,
         WriteTemporary, ExtractRaises, Replace, NoBaseline, BaselineRaises, Killed, AtTurn,
         To, Ends, endVars
    <3>2. QED
      BY <3>1 DEF Screened, OwnLogPasses
  <2>4. QED
    BY <2>1, <2>2, <2>3
<1>3. QED  BY <1>1, <1>2, ScreenInvariant, PTL DEF Spec
=============================================================================
