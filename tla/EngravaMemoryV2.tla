--------------------------- MODULE EngravaMemoryV2 ---------------------------
(***************************************************************************)
(* integrations/longmemeval_v2/engrava_memory.py: the memory a harness of  *)
(* LongMemEval-V2 makes, fills with trajectories, queries and closes.  One *)
(* engrava store in memory, made by the first call that needs it.  What    *)
(* runs between two awaits is one step, and every await may raise; between *)
(* the batches of an embedding nothing changes, so it is one await.  The   *)
(* harness may call in any order, repeat what has failed, and go on after  *)
(* a close(): that leaves _id_to_context as it is, and the next call makes *)
(* a new loop and a new store under it.                                    *)
(***************************************************************************)
EXTENDS Naturals, Sequences, Functions, Sorting

CONSTANTS
  Texts,         \* formatted state contexts
  Limit,         \* text -> what max_context_chars leaves of it
  NoId,          \* a trajectory id that is missing or blank
  MemoryTopK,    \* retrieval_params.top_k
  Connections,   \* names for database connections
  None           \* Python's None

ASSUME LimitAssumption == Limit \in [Texts -> Texts]
ASSUME ConnectionAssumption == None \notin Connections

Empty == [id \in {} |-> None]

VARIABLES
  looped,      \* whether self._loop is there
  conn,        \* self._conn; self._store stands on it
  known,       \* self._id_to_context
  open,        \* the connections that are open, held by anyone or leaked
  thoughts,    \* in the store: thought id -> its content
  vectors,     \* in the store: the ids with a vector
  past,        \* history: what was known when the store was made
  pc,          \* the await the memory is in, "idle" between calls
  op,          \* the call in progress or the last one
  outcome,     \* how the last call ended
  trajectory,  \* the argument of the last insert that ran
  fresh,       \* _ensure_store's local connection
  todo,        \* the ordinals of the states still to be stored
  items,       \* the texts the last query returned, best first
  spoiled      \* history: connections whose set-up or clean-up raised

attributeVars == <<looped, conn, known>>
storeVars == <<thoughts, vectors, past>>
memoryVars == <<attributeVars, open, storeVars, pc, op, outcome, trajectory, fresh, todo, items,
                spoiled>>

(* _thought_id: nothing in it tells two inserts of one trajectory apart. *)
StateId(t, i) == <<t.id, t.states[i].index, t.states[i].step, i>>

NewMemory ==
  [looped |-> FALSE, conn |-> None, known |-> Empty, thoughts |-> Empty, vectors |-> {},
   past |-> Empty, op |-> "init", outcome |-> "none",
   trajectory |-> [id |-> NoId, states |-> <<>>], todo |-> {}, items |-> <<>>]

MemoryInit ==
  /\ looped = NewMemory.looped /\ conn = NewMemory.conn /\ known = NewMemory.known
  /\ thoughts = NewMemory.thoughts /\ vectors = NewMemory.vectors /\ past = NewMemory.past
  /\ op = NewMemory.op /\ outcome = NewMemory.outcome
  /\ trajectory = NewMemory.trajectory /\ todo = NewMemory.todo /\ items = NewMemory.items
  /\ pc = "idle" /\ fresh = None /\ open = {} /\ spoiled = {}

Goto(from, to) == pc = from /\ pc' = to

With(map, id, value) == [key \in DOMAIN map \cup {id} |-> IF key = id THEN value ELSE map[key]]

Spoil(connection) == spoiled' = spoiled \cup ({connection} \ {None})

\* Mutant: the loop goes and the connection stays.
DropLoop == looped' = FALSE /\ UNCHANGED <<conn, known>>

(* The finally block of close(): loop and references go, the id map stays. *)
Drop == looped' = FALSE /\ conn' = None /\ UNCHANGED known

Raises(from) ==
  /\ Goto(from, "idle") /\ outcome' = "raised"
  /\ IF op = "close" THEN Drop ELSE UNCHANGED attributeVars
  /\ fresh' = None
  /\ UNCHANGED <<storeVars, op, trajectory, todo, items>>

-----------------------------------------------------------------------------
(* insert and query begin with _ensure_store. *)

AfterStore(call) == IF call = "insert" THEN "check" ELSE "search"

Call(call) ==
  /\ Goto("idle", IF conn = None THEN "connect" ELSE AfterStore(call))
  /\ looped' = TRUE
  /\ op' = call /\ outcome' = "pending" /\ items' = <<>> /\ todo' = {}
  /\ UNCHANGED <<conn, known, open, storeVars, fresh, spoiled>>

Insert(t) == Call("insert") /\ trajectory' = t

Query == Call("query") /\ UNCHANGED trajectory

CallInsideLoop ==
  /\ Goto("idle", "idle")
  /\ op' \in {"insert", "query"} /\ outcome' = "raised" /\ items' = <<>>
  /\ UNCHANGED <<attributeVars, open, storeVars, trajectory, fresh, todo, spoiled>>

Connect ==
  /\ Goto("connect", "ensure_schema")
  /\ fresh' \in Connections \ open
  /\ open' = open \cup {fresh'} /\ spoiled' = spoiled \ {fresh'}
  /\ UNCHANGED <<attributeVars, storeVars, op, outcome, trajectory, todo, items>>

ConnectRaises == Raises("connect") /\ UNCHANGED <<open, spoiled>>

EnsureSchema ==
  /\ Goto("ensure_schema", AfterStore(op))
  /\ conn' = fresh /\ fresh' = None
  /\ thoughts' = Empty /\ vectors' = {} /\ past' = known
  /\ UNCHANGED <<looped, known, open, op, outcome, trajectory, todo, items, spoiled>>

(* The connection is a local until then: nobody closes it. *)
EnsureSchemaRaises == Raises("ensure_schema") /\ Spoil(fresh) /\ UNCHANGED open

-----------------------------------------------------------------------------
(* insert: check, plan every state, embed, then store state by state. *)

WellFormed(t) == t.id # NoId /\ t.states # <<>>

PlanStates ==
  /\ Goto("check", "embed")
  /\ WellFormed(trajectory)
  /\ todo' = DOMAIN trajectory.states
  /\ UNCHANGED <<attributeVars, open, storeVars, op, outcome, trajectory, fresh, items, spoiled>>

(* require() refuses the trajectory when the store is there already. *)
RefuseTrajectory ==
  /\ Raises("check")
  /\ ~WellFormed(trajectory)
  /\ UNCHANGED <<open, spoiled>>

Embed ==
  /\ Goto("embed", "create_thought")
  /\ UNCHANGED <<attributeVars, open, storeVars, op, outcome, trajectory, fresh, todo, items,
                 spoiled>>

EmbedRaises == Raises("embed") /\ UNCHANGED <<open, spoiled>>

IsNext(i) == i \in todo /\ \A j \in todo : i <= j

\* Mutant: a thought that is there already is passed over.
CreateMissingThought ==
  /\ \E i \in todo :
       /\ IsNext(i)
       /\ IF StateId(trajectory, i) \in DOMAIN thoughts
          THEN Goto("create_thought", "create_thought") /\ todo' = todo \ {i}
          ELSE Goto("create_thought", "store_embedding") /\ UNCHANGED todo
       /\ thoughts' = With(thoughts, StateId(trajectory, i), trajectory.states[i].text)
  /\ UNCHANGED <<attributeVars, open, vectors, past, op, outcome, trajectory, fresh, items,
                 spoiled>>

(* The store refuses an id it already has. *)
CreateThought ==
  /\ Goto("create_thought", "store_embedding")
  /\ \E i \in todo :
       /\ IsNext(i)
       /\ StateId(trajectory, i) \notin DOMAIN thoughts
       /\ thoughts' = With(thoughts, StateId(trajectory, i), trajectory.states[i].text)
  /\ UNCHANGED <<attributeVars, open, vectors, past, op, outcome, trajectory, fresh, todo, items,
                 spoiled>>

(* The context is known once thought and vector are stored. *)
StoreEmbedding ==
  /\ Goto("store_embedding", "create_thought")
  /\ \E i \in todo :
       /\ IsNext(i)
       /\ vectors' = vectors \cup {StateId(trajectory, i)}
       /\ known' = With(known, StateId(trajectory, i), Limit[trajectory.states[i].text])
       /\ todo' = todo \ {i}
  /\ UNCHANGED <<looped, conn, open, thoughts, past, op, outcome, trajectory, fresh, items,
                 spoiled>>

StoreRaises ==
  /\ Raises("create_thought") \/ Raises("store_embedding")
  /\ todo # {}
  /\ UNCHANGED <<open, spoiled>>

InsertReturns ==
  /\ Goto("create_thought", "idle")
  /\ todo = {}
  /\ outcome' = "inserted"
  /\ UNCHANGED <<attributeVars, open, storeVars, op, trajectory, fresh, todo, items, spoiled>>

-----------------------------------------------------------------------------
(* query *)

\* Mutant: a hit that is not mapped is given as its content.
ContextsOrContent(hits) ==
  LET firsts == {i \in DOMAIN hits : \A j \in 1..i - 1 : thoughts[hits[j]] # thoughts[hits[i]]}
  IN  [k \in 1..Cardinality(firsts) |-> Limit[thoughts[hits[Listed(firsts)[k]]]]]

(* Hits that are not mapped are skipped; a text is given once. *)
Contexts(hits) ==
  LET firsts == {i \in DOMAIN hits :
        /\ hits[i] \in DOMAIN known
        /\ \A j \in 1..i - 1 : hits[j] \in DOMAIN known => known[hits[j]] # known[hits[i]]}
  IN  [k \in 1..Cardinality(firsts) |-> known[hits[Listed(firsts)[k]]]]

Search ==
  /\ Goto("search", "idle")
  /\ \E n \in 0..MemoryTopK : \E hits \in Injection(1..n, DOMAIN thoughts) :
       items' = Contexts(hits)
  /\ outcome' = "found"
  /\ UNCHANGED <<attributeVars, open, storeVars, op, trajectory, fresh, todo, spoiled>>

SearchRaises == Raises("search") /\ UNCHANGED <<open, spoiled>>

-----------------------------------------------------------------------------
(* close; __del__ calls it and swallows what it raises. *)

CallClose ==
  /\ op' = "close"
  /\ IF looped
     THEN Goto("idle", "close_store") /\ outcome' = "pending" /\ UNCHANGED attributeVars
     ELSE Goto("idle", "idle") /\ outcome' = "released" /\ Drop
  /\ items' = <<>>
  /\ UNCHANGED <<open, storeVars, trajectory, fresh, todo, spoiled>>

CloseStore ==
  /\ Goto("close_store", "close_conn")
  /\ UNCHANGED <<attributeVars, open, storeVars, op, outcome, trajectory, fresh, todo, items,
                 spoiled>>

\* Mutant: the connection is left to the store's close.
CloseStoreOnly ==
  /\ Goto("close_conn", "idle")
  /\ Drop
  /\ outcome' = "released"
  /\ UNCHANGED <<open, storeVars, op, trajectory, fresh, todo, items, spoiled>>

CloseConn ==
  /\ Goto("close_conn", "idle")
  /\ Drop
  /\ open' = open \ {conn}
  /\ outcome' = "released"
  /\ UNCHANGED <<storeVars, op, trajectory, fresh, todo, items, spoiled>>

(* The references go all the same, and with them the open connection. *)
CloseRaises ==
  /\ conn # None
  /\ \/ Raises("close_store") /\ UNCHANGED open
     \/ Raises("close_conn") /\ open' \in {open, open \ {conn}}
  /\ Spoil(conn)

CloseInsideLoop ==
  /\ Goto("idle", "idle")
  /\ looped
  /\ op' = "close" /\ outcome' \in {"released", "raised"}
  /\ Drop /\ Spoil(conn)
  /\ items' = <<>>
  /\ UNCHANGED <<open, storeVars, trajectory, fresh, todo>>

(* What the memory does by itself once it is called. *)
MemoryStep ==
  \/ Connect \/ ConnectRaises \/ EnsureSchema \/ EnsureSchemaRaises
  \/ PlanStates \/ RefuseTrajectory \/ Embed \/ EmbedRaises
  \/ CreateThought \/ StoreEmbedding \/ StoreRaises \/ InsertReturns
  \/ Search \/ SearchRaises
  \/ CloseStore \/ CloseConn \/ CloseRaises

-----------------------------------------------------------------------------
MemoryTypeOK ==
  /\ looped \in BOOLEAN
  /\ conn \in Connections \cup {None} /\ fresh \in Connections \cup {None}
  /\ conn # None => looped
  /\ open \subseteq Connections /\ spoiled \subseteq Connections
  /\ vectors \subseteq DOMAIN thoughts
  /\ \A id \in DOMAIN known : known[id] \in Texts
  /\ \A id \in DOMAIN past : past[id] \in Texts
  /\ \A id \in DOMAIN thoughts : thoughts[id] \in Texts
  /\ pc \in {"idle", "connect", "ensure_schema", "check", "embed", "create_thought",
             "store_embedding", "search", "close_store", "close_conn"}
  /\ op \in {"init", "insert", "query", "close"}
  /\ outcome \in {"none", "pending", "inserted", "found", "released", "raised"}
  /\ todo \subseteq DOMAIN trajectory.states
  /\ \A k \in DOMAIN items : items[k] \in Texts

(* A connection that is open is the memory's or is being set up, unless    *)
(* its own set-up or clean-up raised or was skipped.                       *)
NoLeakWithoutFault == open \subseteq {conn, fresh} \cup spoiled

(* An insert that returns leaves every state of its trajectory in the      *)
(* store, with its content, its vector and its limited context, although   *)
(* an earlier insert of the same trajectory may have stopped half-way.     *)
InsertIsComplete ==
  op = "insert" /\ outcome = "inserted" =>
    \A i \in DOMAIN trajectory.states :
      LET id == StateId(trajectory, i)  text == trajectory.states[i].text IN
      /\ id \in vectors
      /\ id \in DOMAIN thoughts /\ thoughts[id] = text
      /\ id \in DOMAIN known /\ known[id] = Limit[text]

(* A query gives different texts, each of a state that is stored: whole,   *)
(* with its vector, so that what a failed insert left half-stored is not   *)
(* given.  The id map outlives a close(), so there is one exception: in a  *)
(* memory that is filled again, a thought whose vector failed is given as  *)
(* the text its id had in the store before.                                *)
ItemsAreStored ==
  op = "query" /\ outcome = "found" =>
    /\ \A k \in DOMAIN items : \E id \in DOMAIN thoughts :
         \/ id \in vectors /\ items[k] = Limit[thoughts[id]]
         \/ id \in DOMAIN past \ vectors /\ items[k] = past[id]
    /\ \A k, l \in DOMAIN items : items[k] = items[l] => k = l
=============================================================================
