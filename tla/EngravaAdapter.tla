--------------------------- MODULE EngravaAdapter ---------------------------
(***************************************************************************)
(* adapters/engrava_adapter.py: the adapter that keeps one question's      *)
(* haystack in a fresh in-memory engrava store.  Every await is a step of  *)
(* its own and may raise; what runs between two awaits is one step.  The   *)
(* caller is any single-threaded program: it may ingest, search and close  *)
(* in any order, after a failure too, and may call from inside a running   *)
(* event loop.  The engrava library and sqlite are external.               *)
(***************************************************************************)
EXTENDS Naturals, Sequences, FiniteSets, Functions

CONSTANTS
  Units,        \* unit ids, opaque to the adapter
  Sessions,     \* session ids
  Texts,        \* stripped texts of turns
  Blank,        \* the stripped-empty text
  EmbedInput,   \* text -> the payload embedded for it (its first tokens)
  Corpora,      \* the corpora a caller may ingest
  TopK,         \* the breadth a search asks for
  BatchSize,    \* _EMBED_BATCH_SIZE
  Connections,  \* names for database connections, in-memory stores alike
  Loops,        \* names for event loops
  None          \* Python's None

Turn == [unit : Units, session : Sessions, index : Nat, text : Texts \cup {Blank}]

ASSUME CorporaAssumption == Corpora \subseteq Seq(Turn)
ASSUME EmbedAssumption ==
  /\ EmbedInput \in [Texts -> Texts]
  /\ Blank \notin Texts
ASSUME SizeAssumption == TopK \in Nat /\ BatchSize \in Nat \ {0}
ASSUME NoneAssumption == None \notin Connections /\ None \notin Loops

(* The id of a turn's thought: a digest of its session and index, salted   *)
(* with the turn's position when the plain id is taken (salt 0: none).     *)
ThoughtIds == Sessions \X Nat \X Nat

Thought == [unit : Units, text : Texts]

VARIABLES
  loop,      \* self._loop
  store,     \* self._store, named by the connection it was built on
  conn,      \* self._conn
  idToUnit,  \* self._id_to_unit
  open,      \* the connections that are open, held by anyone or leaked
  home,      \* the loop the held connection was opened on
  thoughts,  \* in the store: thought id -> its unit and content
  vectors,   \* in the store: thought id -> the payload its vector is of
  pc,        \* the await the adapter is in, "idle" between calls
  op,        \* the call in progress or the last one
  corpus,    \* the argument of the last ingest that ran
  held,      \* the corpus the present store was created for
  fresh,     \* _create_store's local connection
  embedded,  \* the payloads in _ingest_async's local vectors
  todo,      \* the corpus positions whose plan is still to be stored
  hits,      \* what search_hybrid returned: thought ids, best first
  at,        \* how many hits have been looked at
  ranked,    \* the units placed so far
  outcome,   \* how the last call ended
  spoiled    \* history: connections whose set-up or clean-up raised

adapterVars == <<loop, store, conn, idToUnit>>
engineVars == <<open, home, thoughts, vectors>>
localVars == <<corpus, held, fresh, embedded, todo>>
searchVars == <<hits, at, ranked>>
vars == <<adapterVars, engineVars, pc, op, localVars, searchVars, outcome, spoiled>>

-----------------------------------------------------------------------------
(* What _ingest_async computes between two awaits. *)

NonBlank(c) == {i \in DOMAIN c : c[i].text # Blank}

SameTurn(c, i, j) == c[i].session = c[j].session /\ c[i].index = c[j].index

\* Mutant: a repeated turn gets the plain id again.
UnsaltedIdOf(c, i) == <<c[i].session, c[i].index, 0>>

(* _make_id, salted by the position if an earlier turn took the plain id.   *)
(* The code salts the session's name, which must not be another session's: *)
(* the runner's are digests, without the '#' of the salt.                  *)
IdOf(c, i) ==
  <<c[i].session, c[i].index,
    IF \E j \in NonBlank(c) : j < i /\ SameTurn(c, i, j) THEN i ELSE 0>>

PlannedIds(c) == {IdOf(c, i) : i \in NonBlank(c)}

PlanAt(c, id) == CHOOSE i \in NonBlank(c) : IdOf(c, i) = id

IdMap(c) == [id \in PlannedIds(c) |-> c[PlanAt(c, id)].unit]

PayloadAt(c, i) == EmbedInput[c[i].text]

(* The first position of a payload: distinct payloads keep corpus order. *)
FirstOf(c, i) == \A j \in NonBlank(c) : j < i => PayloadAt(c, j) # PayloadAt(c, i)

Unembedded(c) == {i \in NonBlank(c) : FirstOf(c, i) /\ PayloadAt(c, i) \notin embedded}

NextBatch(c) ==
  {PayloadAt(c, i) : i \in {i \in Unembedded(c) :
     Cardinality({j \in Unembedded(c) : j < i}) < BatchSize}}

IsNext(i) == i \in todo /\ \A j \in todo : i <= j

-----------------------------------------------------------------------------
TypeOK ==
  /\ loop \in Loops \cup {None} /\ home \in Loops \cup {None}
  /\ store \in Connections \cup {None} /\ conn \in Connections \cup {None}
  /\ fresh \in Connections \cup {None}
  /\ open \subseteq Connections /\ spoiled \subseteq Connections
  /\ DOMAIN idToUnit \subseteq ThoughtIds /\ idToUnit \in [DOMAIN idToUnit -> Units]
  /\ DOMAIN thoughts \subseteq ThoughtIds /\ thoughts \in [DOMAIN thoughts -> Thought]
  /\ DOMAIN vectors \subseteq ThoughtIds /\ vectors \in [DOMAIN vectors -> Texts]
  /\ pc \in {"idle", "close_store", "close_conn", "connect", "ensure_schema", "embed",
             "create_thought", "store_embedding", "place", "gone"}
  /\ op \in {"ingest", "search", "close"}
  /\ corpus \in Corpora \cup {<<>>} /\ held \in Corpora \cup {<<>>}
  /\ embedded \subseteq Texts /\ todo \subseteq NonBlank(held)
  /\ hits \in Seq(ThoughtIds) /\ at \in 0..Len(hits) /\ ranked \in Seq(Units)
  /\ outcome \in {"none", "pending", "returned", "found", "released", "raised"}

Empty == [id \in {} |-> None]

Init ==
  /\ loop = None /\ store = None /\ conn = None /\ idToUnit = Empty
  /\ open = {} /\ home = None /\ thoughts = Empty /\ vectors = Empty
  /\ pc = "idle" /\ op = "close" /\ outcome = "none"
  /\ corpus = <<>> /\ held = <<>> /\ fresh = None /\ embedded = {} /\ todo = {}
  /\ hits = <<>> /\ at = 0 /\ ranked = <<>>
  /\ spoiled = {}

Goto(from, to) == pc = from /\ pc' = to

\* Mutant: every call makes a loop of its own.
OnFreshLoop == loop' \in Loops

(* _run_sync's persistent loop: made on the first call, then kept. *)
OnTheLoop == IF loop = None THEN loop' \in Loops ELSE loop' = loop

Spoil(connection) == spoiled' = spoiled \cup ({connection} \ {None})

(* _drop: the loop is closed and every reference is forgotten. *)
Drop == loop' = None /\ store' = None /\ conn' = None /\ UNCHANGED idToUnit

(* An await raises.  Only close() drops its references on the way out. *)
Raises(from) ==
  /\ Goto(from, "idle") /\ outcome' = "raised"
  /\ IF op = "close" THEN Drop ELSE UNCHANGED adapterVars
  /\ fresh' = None
  /\ UNCHANGED <<home, thoughts, vectors, op, corpus, held, embedded, todo, searchVars>>

-----------------------------------------------------------------------------
(* ingest: _close, _create_store, plan, embed in batches, store one by one. *)

\* Mutant: the previous store is not closed before the new one is made.
CallIngestOver ==
  /\ Goto("idle", "connect")
  /\ OnTheLoop
  /\ op' = "ingest" /\ outcome' = "pending"
  /\ corpus' \in Corpora
  /\ hits' = <<>> /\ at' = 0 /\ ranked' = <<>>
  /\ UNCHANGED <<store, conn, idToUnit, engineVars, held, fresh, embedded, todo, spoiled>>

CallIngest ==
  /\ Goto("idle", "close_store")
  /\ OnTheLoop
  /\ op' = "ingest" /\ outcome' = "pending"
  /\ corpus' \in Corpora
  /\ hits' = <<>> /\ at' = 0 /\ ranked' = <<>>
  /\ UNCHANGED <<store, conn, idToUnit, engineVars, held, fresh, embedded, todo, spoiled>>

(* ingest or search from inside a running event loop: AdapterError, and    *)
(* the coroutine is closed before it ran.                                  *)
CallInsideLoop ==
  /\ Goto("idle", "idle")
  /\ op' \in {"ingest", "search"} /\ outcome' = "raised"
  /\ hits' = <<>> /\ at' = 0 /\ ranked' = <<>>
  /\ UNCHANGED <<adapterVars, engineVars, localVars, spoiled>>

CloseStore ==
  /\ Goto("close_store", "close_conn")
  /\ store' = None
  /\ UNCHANGED <<loop, conn, idToUnit, engineVars, op, localVars, searchVars, outcome, spoiled>>

CloseStoreRaises ==
  /\ Raises("close_store")
  /\ store # None
  /\ Spoil(conn)
  /\ UNCHANGED open

(* The last step of _close; close() goes on to drop its references. *)
CloseConn ==
  /\ IF op = "ingest"
     THEN /\ Goto("close_conn", "connect")
          /\ conn' = None
          /\ UNCHANGED <<loop, store, idToUnit, outcome>>
     ELSE /\ Goto("close_conn", "idle")
          /\ Drop
          /\ outcome' = "released"
  /\ open' = open \ {conn}
  /\ UNCHANGED <<home, thoughts, vectors, op, localVars, searchVars, spoiled>>

(* aiosqlite may or may not have closed the database when close() raises. *)
CloseConnRaises ==
  /\ Raises("close_conn")
  /\ conn # None
  /\ Spoil(conn)
  /\ open' \in {open, open \ {conn}}

Connect ==
  /\ Goto("connect", "ensure_schema")
  /\ fresh' \in Connections \ open
  /\ open' = open \cup {fresh'} /\ spoiled' = spoiled \ {fresh'}
  /\ UNCHANGED <<adapterVars, home, thoughts, vectors, op, corpus, held, embedded, todo,
                 searchVars, outcome>>

ConnectRaises == Raises("connect") /\ UNCHANGED <<open, spoiled>>

\* Mutant: blank turns are planned too.
EnsureSchemaForAll ==
  /\ Goto("ensure_schema", "embed")
  /\ store' = fresh /\ conn' = fresh /\ fresh' = None /\ home' = loop
  /\ thoughts' = Empty /\ vectors' = Empty
  /\ idToUnit' = IdMap(corpus)
  /\ held' = corpus /\ todo' = DOMAIN corpus /\ embedded' = {}
  /\ UNCHANGED <<loop, open, op, corpus, searchVars, outcome, spoiled>>

\* Mutant: the database is shared, and the last corpus is still in it.
EnsureSchemaShared ==
  /\ Goto("ensure_schema", "embed")
  /\ store' = fresh /\ conn' = fresh /\ fresh' = None /\ home' = loop
  /\ UNCHANGED <<thoughts, vectors>>
  /\ idToUnit' = IdMap(corpus)
  /\ held' = corpus /\ todo' = NonBlank(corpus) /\ embedded' = {}
  /\ UNCHANGED <<loop, open, op, corpus, searchVars, outcome, spoiled>>

(* The pragmas and the schema are in place: the store becomes the          *)
(* adapter's, and the plan of the whole corpus is made before any await.   *)
EnsureSchema ==
  /\ Goto("ensure_schema", "embed")
  /\ store' = fresh /\ conn' = fresh /\ fresh' = None /\ home' = loop
  /\ thoughts' = Empty /\ vectors' = Empty
  /\ idToUnit' = IdMap(corpus)
  /\ held' = corpus /\ todo' = NonBlank(corpus) /\ embedded' = {}
  /\ UNCHANGED <<loop, open, op, corpus, searchVars, outcome, spoiled>>

(* conn is a local of _create_store until then: nobody is left to close it. *)
EnsureSchemaRaises ==
  /\ Raises("ensure_schema")
  /\ Spoil(fresh)
  /\ UNCHANGED open

EmbedBatch ==
  /\ Goto("embed", IF Unembedded(held) = {} THEN "create_thought" ELSE "embed")
  /\ embedded' = embedded \cup NextBatch(held)
  /\ UNCHANGED <<adapterVars, engineVars, op, corpus, held, fresh, todo, searchVars, outcome,
                 spoiled>>

EmbedBatchRaises ==
  /\ Raises("embed")
  /\ Unembedded(held) # {}
  /\ UNCHANGED <<open, spoiled>>

CreateThought ==
  /\ Goto("create_thought", "store_embedding")
  /\ \E i \in todo :
       /\ IsNext(i)
       /\ thoughts' = [id \in DOMAIN thoughts \cup {IdOf(held, i)} |->
            IF id = IdOf(held, i) THEN [unit |-> held[i].unit, text |-> held[i].text]
            ELSE thoughts[id]]
  /\ UNCHANGED <<adapterVars, open, home, vectors, op, localVars, searchVars, outcome, spoiled>>

StoreEmbedding ==
  /\ Goto("store_embedding", "create_thought")
  /\ \E i \in todo :
       /\ IsNext(i)
       /\ PayloadAt(held, i) \in embedded
       /\ vectors' = [id \in DOMAIN vectors \cup {IdOf(held, i)} |->
            IF id = IdOf(held, i) THEN PayloadAt(held, i) ELSE vectors[id]]
       /\ todo' = todo \ {i}
  /\ UNCHANGED <<adapterVars, open, home, thoughts, op, corpus, held, fresh, embedded,
                 searchVars, outcome, spoiled>>

StoreRaises ==
  /\ Raises("create_thought") \/ Raises("store_embedding")
  /\ todo # {}
  /\ UNCHANGED <<open, spoiled>>

IngestReturns ==
  /\ Goto("create_thought", "idle")
  /\ todo = {}
  /\ outcome' = "returned"
  /\ UNCHANGED <<adapterVars, engineVars, op, localVars, searchVars, spoiled>>

-----------------------------------------------------------------------------
(* search: one search_hybrid, then each hit is mapped back to its unit. *)

Search ==
  /\ Goto("idle", "place")
  /\ OnTheLoop
  /\ store # None
  /\ op' = "search" /\ outcome' = "pending"
  /\ \E n \in 0..TopK : hits' \in Injection(1..n, DOMAIN thoughts)
  /\ at' = 0 /\ ranked' = <<>>
  /\ UNCHANGED <<store, conn, idToUnit, engineVars, localVars, spoiled>>

(* No store yet, or the engine raises. *)
SearchRaises ==
  /\ Goto("idle", "idle")
  /\ OnTheLoop
  /\ op' = "search" /\ outcome' = "raised"
  /\ hits' = <<>> /\ at' = 0 /\ ranked' = <<>>
  /\ UNCHANGED <<store, conn, idToUnit, engineVars, localVars, spoiled>>

Placed == {ranked[i] : i \in DOMAIN ranked}

(* Unknown ids are skipped; a unit is placed once, at its best copy. *)
PlaceHit ==
  /\ Goto("place", "place")
  /\ at < Len(hits)
  /\ at' = at + 1
  /\ LET id == hits[at + 1] IN
       ranked' = IF id \in DOMAIN idToUnit /\ idToUnit[id] \notin Placed
                 THEN Append(ranked, idToUnit[id])
                 ELSE ranked
  /\ UNCHANGED <<adapterVars, engineVars, op, localVars, hits, outcome, spoiled>>

\* Mutant: the return is inside the loop.
SearchReturnsEarly ==
  /\ Goto("place", "idle")
  /\ at = Len(hits) \/ ranked # <<>>
  /\ outcome' = "found"
  /\ UNCHANGED <<adapterVars, engineVars, op, localVars, searchVars, spoiled>>

SearchReturns ==
  /\ Goto("place", "idle")
  /\ at = Len(hits)
  /\ outcome' = "found"
  /\ UNCHANGED <<adapterVars, engineVars, op, localVars, searchVars, spoiled>>

-----------------------------------------------------------------------------
(* close and garbage collection. *)

CallClose ==
  /\ op' = "close"
  /\ IF loop # None
     THEN Goto("idle", "close_store") /\ outcome' = "pending" /\ UNCHANGED adapterVars
     ELSE Goto("idle", "idle") /\ outcome' = "released" /\ Drop
  /\ hits' = <<>> /\ at' = 0 /\ ranked' = <<>>
  /\ UNCHANGED <<engineVars, localVars, spoiled>>

(* From inside a running event loop, the adapter's own or another: the     *)
(* clean-up does not run, the references go all the same.                  *)
CloseInsideLoop ==
  /\ Goto("idle", "idle")
  /\ loop # None
  /\ op' = "close" /\ outcome' \in {"released", "raised"}
  /\ Drop /\ Spoil(conn)
  /\ hits' = <<>> /\ at' = 0 /\ ranked' = <<>>
  /\ UNCHANGED <<engineVars, localVars>>

(* __del__ drops the references without any clean-up. *)
Collect ==
  /\ Goto("idle", "gone")
  /\ Drop /\ Spoil(conn)
  /\ op' = "close" /\ outcome' = "released"
  /\ UNCHANGED <<engineVars, localVars, searchVars>>

Ingesting ==
  \/ CallIngest \/ CallInsideLoop
  \/ Connect \/ ConnectRaises \/ EnsureSchema \/ EnsureSchemaRaises
  \/ EmbedBatch \/ EmbedBatchRaises
  \/ CreateThought \/ StoreEmbedding \/ StoreRaises \/ IngestReturns

Searching == Search \/ SearchRaises \/ PlaceHit \/ SearchReturns

Closing ==
  \/ CallClose \/ CloseInsideLoop \/ Collect
  \/ CloseStore \/ CloseStoreRaises \/ CloseConn \/ CloseConnRaises

Next == Ingesting \/ Searching \/ Closing

Spec == Init /\ [][Next]_vars

-----------------------------------------------------------------------------
(* A connection that is open is the adapter's, or the one being set up, or *)
(* one whose own set-up or clean-up failed.  ("Release the store,          *)
(* connection and the persistent event loop.")                             *)
NoLeakWithoutFault == open \subseteq {conn, fresh} \cup spoiled

(* A held connection is only ever driven on the event loop it was opened   *)
(* on, and no reference outlives that loop: close() skips its clean-up     *)
(* when there is no loop, so what it would have to clean must be gone.     *)
HeldOnItsLoop ==
  /\ conn # None => loop = home /\ loop # None
  /\ store # None => store = conn

(* The store holds the whole corpus it was created for. *)
Ready == store # None /\ todo = {}

(* Whatever turns repeat, share a payload or are blank: one thought for    *)
(* each turn with text, with that turn's unit and content and the vector   *)
(* of that turn's own payload, and nothing else.                           *)
HoldsExactly(c) ==
  \E turnOf \in Bijection(DOMAIN thoughts, NonBlank(c)) :
    \A id \in DOMAIN thoughts :
      /\ thoughts[id] = [unit |-> c[turnOf[id]].unit, text |-> c[turnOf[id]].text]
      /\ id \in DOMAIN idToUnit /\ idToUnit[id] = c[turnOf[id]].unit
      /\ id \in DOMAIN vectors /\ vectors[id] = PayloadAt(c, turnOf[id])

(* An ingest that returns leaves exactly the corpus it was given, in a     *)
(* connection that is open, whatever calls and failures came before.       *)
IngestIsComplete ==
  op = "ingest" /\ outcome = "returned" =>
    /\ Ready /\ store \in open
    /\ HoldsExactly(corpus)

UnitHit(i) == thoughts[hits[i]].unit

(* A search's answer names every unit that was hit, once, in the order of  *)
(* each unit's best copy.                                                  *)
RankedByBestCopy ==
  outcome = "found" =>
    /\ \A i \in 1..Len(hits) : \E k \in 1..Len(ranked) : k <= i /\ ranked[k] = UnitHit(i)
    /\ \A k \in 1..Len(ranked) : \E i \in 1..Len(hits) :
         /\ ranked[k] = UnitHit(i)
         /\ \A l \in k + 1..Len(ranked), j \in 1..i : ranked[l] # UnitHit(j)

(* The promise of adapters/base.py, in every interleaving of calls and     *)
(* failures.  An ingest that raises half-way leaves a store that search    *)
(* asks all the same (engrava_adapter.py:429 only wants there to be one):  *)
(* an answer found in it, as in any, ranks different units of the corpus   *)
(* the store was created for and of what had been put in it by then, never *)
(* those of an earlier corpus or of the one the caller thinks is ingested. *)
Promise == INSTANCE MemoryAdapter WITH
  status  <- IF store = None THEN "void" ELSE IF todo = {} THEN "ready" ELSE "filling",
  held    <- IF store = None THEN <<>> ELSE held,
  present <- IF store = None THEN {} ELSE {thoughts[id].unit : id \in DOMAIN thoughts},
  answer  <- IF outcome = "found" THEN ranked ELSE <<>>

KeepsPromise == Promise!Spec
=============================================================================
