----------------------------- MODULE AmbProvider -----------------------------
(***************************************************************************)
(* integrations/amb_vectorize/engrava_provider.py: the provider that keeps *)
(* one in-memory engrava store, a bank, per isolation unit of the Agent    *)
(* Memory Benchmark.  The harness is external and may call in any order,   *)
(* after a failure too, and from inside a running event loop.  What runs   *)
(* between two awaits is one step, and every await may raise.  The engrava *)
(* library and sqlite are external.                                        *)
(***************************************************************************)
EXTENDS Naturals, Sequences, FiniteSets, Functions

CONSTANTS
  Users,        \* the user_ids a document or a query may name
  NoUser,       \* user_id is None
  DocIds,       \* document ids; two documents may have one
  Texts, Blank, \* contents; the one that is empty when stripped
  EmbedInput,   \* content -> the payload embedded for it (its first tokens)
  Deliveries,   \* the lists of documents one ingest may be given
  Depths,       \* the k a retrieve may be given
  DefaultK,     \* the constructor's k
  BatchSize,    \* _EMBED_BATCH_SIZE
  Connections,  \* names for database connections
  None,         \* no such connection
  MaxOrdinal    \* bound: documents planned per bank, for TLC

Documents == [id : DocIds, user : Users \cup {NoUser}, text : Texts \cup {Blank}]

ASSUME DeliveriesAssumption == Deliveries \subseteq Seq(Documents)
ASSUME TextAssumption == Blank \notin Texts /\ EmbedInput \in [Texts -> Texts]
ASSUME UserAssumption == NoUser \notin Users
ASSUME SizeAssumption == DefaultK \in Nat /\ Depths \subseteq Nat /\ BatchSize \in Nat \ {0}
ASSUME NoneAssumption == None \notin Connections

(* The tag keeps a user of any name apart from no user. *)
BankKey(user) == <<user = NoUser, user>>

Keys == {BankKey(user) : user \in Users \cup {NoUser}}

\* Mutant: the insertion counter is left out of the digest.
UnnumberedId(document, ordinal) == <<BankKey(document.user), document.id, 0, document.text>>

(* _thought_id, a digest of the four. *)
ThoughtId(document, ordinal) ==
  <<BankKey(document.user), document.id, ordinal, document.text>>

ThoughtIds == Keys \X DocIds \X Nat \X (Texts \cup {Blank})

Empty == [id \in {} |-> None]

VARIABLES
  looped,    \* whether self._loop is there
  conn,      \* self._banks: a bank's connection, None if there is no bank
  ordinals,  \* each bank's next_ordinal
  known,     \* each bank's id_to_doc
  open,      \* the connections that are open, held by anyone or leaked
  thoughts,  \* in each bank's store: the ids of the thoughts
  vectors,   \* in each bank's store: thought id -> the payload its vector is of
  pc,        \* the await the provider is in, "idle" between calls
  op,        \* the call in progress or the last one
  outcome,   \* how the last call ended
  delivery,  \* the argument of the last ingest that ran
  at,        \* the document, or later the hit, that comes next
  fresh,     \* _ensure_bank's local connection
  plan,      \* document position -> ordinal of the thought planned for it
  todo,      \* the planned positions whose thought is still to be stored
  embedded,  \* the payloads in _ingest_async's local vectors
  asked,     \* the user and the depth of the last retrieve
  hits,      \* what search_hybrid returned: thought ids, best first
  ranked,    \* the documents placed so far
  closing,   \* connections of the banks that cleanup still has to close
  failed,    \* whether a close raised
  spoiled    \* history: connections whose set-up or clean-up raised

bankVars == <<conn, ordinals, known>>
engineVars == <<thoughts, vectors>>
ingestVars == <<delivery, plan, todo, embedded>>
searchVars == <<asked, hits, ranked>>
closeVars == <<closing, failed>>
vars == <<looped, bankVars, open, engineVars, pc, op, outcome, at, fresh, ingestVars,
          searchVars, closeVars, spoiled>>

Banks == {key \in Keys : conn[key] # None}

Held == {conn[key] : key \in Banks}

KeyAt(i) == BankKey(delivery[i].user)

IdAt(i) == ThoughtId(delivery[i], plan[i])

NonBlank == {i \in DOMAIN delivery : delivery[i].text # Blank}

PayloadAt(i) == EmbedInput[delivery[i].text]

Unembedded == {PayloadAt(i) : i \in DOMAIN plan} \ embedded

IsNext(i) == i \in todo /\ \A j \in todo : i <= j

Init ==
  /\ looped = FALSE
  /\ conn = [key \in Keys |-> None]
  /\ ordinals = [key \in Keys |-> 0]
  /\ known = [key \in Keys |-> Empty]
  /\ open = {}
  /\ thoughts = [key \in Keys |-> {}] /\ vectors = [key \in Keys |-> Empty]
  /\ pc = "idle" /\ op = "cleanup" /\ outcome = "none"
  /\ delivery = <<>> /\ at = 1 /\ fresh = None
  /\ plan = Empty /\ todo = {} /\ embedded = {}
  /\ asked = [user |-> NoUser, k |-> 0] /\ hits = <<>> /\ ranked = <<>>
  /\ closing = {} /\ failed = FALSE /\ spoiled = {}

Goto(from, to) == pc = from /\ pc' = to

ForgetAnswer == hits' = <<>> /\ ranked' = <<>> /\ UNCHANGED asked

(* self._banks = {}: the banks' maps and, once closed, their stores go. *)
DropBanks ==
  /\ conn' = [key \in Keys |-> None]
  /\ ordinals' = [key \in Keys |-> 0]
  /\ known' = [key \in Keys |-> Empty]
  /\ thoughts' = [key \in Keys |-> {}] /\ vectors' = [key \in Keys |-> Empty]

Spoil(connections) == spoiled' = spoiled \cup connections

Raises(from) ==
  /\ Goto(from, "idle") /\ outcome' = "raised"
  /\ fresh' = None
  /\ UNCHANGED <<looped, bankVars, engineVars, op, at, ingestVars, searchVars, closeVars>>

-----------------------------------------------------------------------------
(* ingest: plan every document, set up the banks on the way, embed, store. *)

Fits(documents) ==
  \A key \in Keys : ordinals[key] + Len(documents) <= MaxOrdinal

CallIngest ==
  /\ Goto("idle", "plan")
  /\ looped' = TRUE
  /\ op' = "ingest" /\ outcome' = "pending"
  /\ delivery' \in {documents \in Deliveries : Fits(documents)}
  /\ at' = 1 /\ plan' = Empty /\ todo' = {} /\ embedded' = {}
  /\ ForgetAnswer
  /\ UNCHANGED <<bankVars, open, engineVars, fresh, closeVars, spoiled>>

(* ingest or retrieve from inside a running event loop: ProviderError. *)
CallInsideLoop ==
  /\ Goto("idle", "idle")
  /\ op' \in {"ingest", "retrieve"} /\ outcome' = "raised"
  /\ ForgetAnswer
  /\ UNCHANGED <<looped, bankVars, open, engineVars, at, fresh, ingestVars, closeVars, spoiled>>

SkipBlank ==
  /\ Goto("plan", "plan")
  /\ at \in DOMAIN delivery \ NonBlank
  /\ at' = at + 1
  /\ UNCHANGED <<looped, bankVars, open, engineVars, op, outcome, fresh, ingestVars, searchVars,
                 closeVars, spoiled>>

\* Mutant: blank documents are planned too.
PlanAnyDocument ==
  /\ Goto("plan", "plan")
  /\ at \in DOMAIN delivery
  /\ KeyAt(at) \in Banks
  /\ plan' = [i \in DOMAIN plan \cup {at} |-> IF i = at THEN ordinals[KeyAt(at)] ELSE plan[i]]
  /\ todo' = todo \cup {at}
  /\ ordinals' = [ordinals EXCEPT ![KeyAt(at)] = @ + 1]
  /\ at' = at + 1
  /\ UNCHANGED <<looped, conn, known, open, engineVars, op, outcome, fresh, delivery, embedded,
                 searchVars, closeVars, spoiled>>

(* The counter advances before anything is embedded or stored. *)
PlanDocument ==
  /\ Goto("plan", "plan")
  /\ at \in NonBlank
  /\ KeyAt(at) \in Banks
  /\ plan' = [i \in DOMAIN plan \cup {at} |-> IF i = at THEN ordinals[KeyAt(at)] ELSE plan[i]]
  /\ todo' = todo \cup {at}
  /\ ordinals' = [ordinals EXCEPT ![KeyAt(at)] = @ + 1]
  /\ at' = at + 1
  /\ UNCHANGED <<looped, conn, known, open, engineVars, op, outcome, fresh, delivery, embedded,
                 searchVars, closeVars, spoiled>>

(* _ensure_bank finds no bank for the document that comes next. *)
Connect ==
  /\ Goto("plan", "setup")
  /\ at \in NonBlank
  /\ KeyAt(at) \notin Banks
  /\ fresh' \in Connections \ open
  /\ open' = open \cup {fresh'} /\ spoiled' = spoiled \ {fresh'}
  /\ UNCHANGED <<looped, bankVars, engineVars, op, outcome, at, ingestVars, searchVars, closeVars>>

ConnectRaises == Raises("plan") /\ at \in NonBlank /\ UNCHANGED <<open, spoiled>>

(* The schema is in place: only now is the bank registered. *)
RegisterBank ==
  /\ Goto("setup", "plan")
  /\ conn' = [conn EXCEPT ![KeyAt(at)] = fresh]
  /\ ordinals' = [ordinals EXCEPT ![KeyAt(at)] = 0]
  /\ known' = [known EXCEPT ![KeyAt(at)] = Empty]
  /\ thoughts' = [thoughts EXCEPT ![KeyAt(at)] = {}]
  /\ vectors' = [vectors EXCEPT ![KeyAt(at)] = Empty]
  /\ fresh' = None
  /\ UNCHANGED <<looped, open, op, outcome, at, ingestVars, searchVars, closeVars, spoiled>>

(* What was opened is closed, unless closing it raises in turn. *)
SetUpRaises ==
  /\ Raises("setup")
  /\ \/ open' = open \ {fresh} /\ UNCHANGED spoiled
     \/ open' \in {open, open \ {fresh}} /\ Spoil({fresh})

(* The whole delivery is planned: distinct payloads are embedded in batches. *)
PlansMade ==
  /\ Goto("plan", "embed")
  /\ at \notin DOMAIN delivery
  /\ UNCHANGED <<looped, bankVars, open, engineVars, op, outcome, at, fresh, ingestVars,
                 searchVars, closeVars, spoiled>>

EmbedBatch ==
  /\ Goto("embed", "embed")
  /\ \E batch \in SUBSET Unembedded :
       /\ batch # {}
       /\ batch = Unembedded \/ Cardinality(batch) = BatchSize
       /\ Cardinality(batch) <= BatchSize
       /\ embedded' = embedded \cup batch
  /\ UNCHANGED <<looped, bankVars, open, engineVars, op, outcome, at, fresh, delivery, plan, todo,
                 searchVars, closeVars, spoiled>>

EmbedRaises == Raises("embed") /\ Unembedded # {} /\ UNCHANGED <<open, spoiled>>

Embedded ==
  /\ Goto("embed", "create_thought")
  /\ Unembedded = {}
  /\ UNCHANGED <<looped, bankVars, open, engineVars, op, outcome, at, fresh, ingestVars,
                 searchVars, closeVars, spoiled>>

(* The store refuses an id it already has. *)
CreateThought ==
  /\ Goto("create_thought", "store_embedding")
  /\ \E i \in todo :
       /\ IsNext(i)
       /\ IdAt(i) \notin thoughts[KeyAt(i)]
       /\ thoughts' = [thoughts EXCEPT ![KeyAt(i)] = @ \cup {IdAt(i)}]
  /\ UNCHANGED <<looped, bankVars, open, vectors, op, outcome, at, fresh, ingestVars, searchVars,
                 closeVars, spoiled>>

With(map, id, value) == [key \in DOMAIN map \cup {id} |-> IF key = id THEN value ELSE map[key]]

\* Mutant: a document whose id is in the bank already is not mapped again.
StoreEmbeddingOnce ==
  /\ Goto("store_embedding", "create_thought")
  /\ \E i \in todo :
       /\ IsNext(i)
       /\ PayloadAt(i) \in embedded
       /\ vectors' = [vectors EXCEPT ![KeyAt(i)] = With(@, IdAt(i), PayloadAt(i))]
       /\ known' = IF \E id \in DOMAIN known[KeyAt(i)] : id[2] = delivery[i].id THEN known
                   ELSE [known EXCEPT ![KeyAt(i)] = With(@, IdAt(i), delivery[i])]
       /\ todo' = todo \ {i}
  /\ UNCHANGED <<looped, conn, ordinals, open, thoughts, op, outcome, at, fresh, delivery, plan,
                 embedded, searchVars, closeVars, spoiled>>

(* An id is mapped to its document once thought and vector are stored. *)
StoreEmbedding ==
  /\ Goto("store_embedding", "create_thought")
  /\ \E i \in todo :
       /\ IsNext(i)
       /\ PayloadAt(i) \in embedded
       /\ vectors' = [vectors EXCEPT ![KeyAt(i)] = With(@, IdAt(i), PayloadAt(i))]
       /\ known' = [known EXCEPT ![KeyAt(i)] = With(@, IdAt(i), delivery[i])]
       /\ todo' = todo \ {i}
  /\ UNCHANGED <<looped, conn, ordinals, open, thoughts, op, outcome, at, fresh, delivery, plan,
                 embedded, searchVars, closeVars, spoiled>>

StoreRaises ==
  /\ Raises("create_thought") \/ Raises("store_embedding")
  /\ todo # {}
  /\ UNCHANGED <<open, spoiled>>

IngestReturns ==
  /\ Goto("create_thought", "idle")
  /\ todo = {}
  /\ outcome' = "returned"
  /\ UNCHANGED <<looped, bankVars, open, engineVars, op, at, fresh, ingestVars, searchVars,
                 closeVars, spoiled>>

-----------------------------------------------------------------------------
(* retrieve: one search_hybrid on the user's bank, then hit by hit. *)

Breadth(k) == IF k > 0 THEN k ELSE DefaultK

\* Mutant: a user who has no bank is answered from another one.
SearchedElsewhere(user) ==
  IF BankKey(user) \in Banks \/ Banks = {} THEN BankKey(user) ELSE CHOOSE key \in Banks : TRUE

(* The bank a retrieve searches, and whose map names what is found. *)
Searched(user) == BankKey(user)

Retrieve(user, k) ==
  /\ Goto("idle", "place")
  /\ looped' = TRUE
  /\ op' = "retrieve" /\ outcome' = "pending"
  /\ asked' = [user |-> user, k |-> k]
  /\ IF Searched(user) \in Banks
     THEN \E n \in 0..Breadth(k) : hits' \in Injection(1..n, thoughts[Searched(user)])
     ELSE hits' = <<>>
  /\ at' = 1 /\ ranked' = <<>>
  /\ UNCHANGED <<bankVars, open, engineVars, fresh, ingestVars, closeVars, spoiled>>

RetrieveRaises(user, k) ==
  /\ Goto("idle", "idle")
  /\ Searched(user) \in Banks
  /\ looped' = TRUE
  /\ op' = "retrieve" /\ outcome' = "raised"
  /\ asked' = [user |-> user, k |-> k]
  /\ hits' = <<>> /\ ranked' = <<>>
  /\ UNCHANGED <<bankVars, open, engineVars, at, fresh, ingestVars, closeVars, spoiled>>

KnownToAsked == known[Searched(asked.user)]

Placed == {ranked[i].id : i \in DOMAIN ranked}

\* Mutant: a document is placed again for its next thought.
PlaceEveryHit ==
  /\ Goto("place", "place")
  /\ at \in DOMAIN hits
  /\ at' = at + 1
  /\ ranked' = IF hits[at] \in DOMAIN KnownToAsked
               THEN Append(ranked, KnownToAsked[hits[at]])
               ELSE ranked
  /\ UNCHANGED <<looped, bankVars, open, engineVars, op, outcome, fresh, ingestVars, asked, hits,
                 closeVars, spoiled>>

(* An id that is not mapped is skipped; a document id is placed once. *)
PlaceHit ==
  /\ Goto("place", "place")
  /\ at \in DOMAIN hits
  /\ at' = at + 1
  /\ ranked' = IF hits[at] \in DOMAIN KnownToAsked /\ KnownToAsked[hits[at]].id \notin Placed
               THEN Append(ranked, KnownToAsked[hits[at]])
               ELSE ranked
  /\ UNCHANGED <<looped, bankVars, open, engineVars, op, outcome, fresh, ingestVars, asked, hits,
                 closeVars, spoiled>>

RetrieveReturns ==
  /\ Goto("place", "idle")
  /\ at \notin DOMAIN hits
  /\ outcome' = "found"
  /\ UNCHANGED <<looped, bankVars, open, engineVars, op, at, fresh, ingestVars, searchVars,
                 closeVars, spoiled>>

-----------------------------------------------------------------------------
(* cleanup and garbage collection. *)

Ends(call) == IF call = "collect" THEN "gone" ELSE "idle"

(* _cleanup_async takes the banks before it closes the first of them.      *)
(* Without a loop it does not run.                                         *)
CallCleanup(call) ==
  /\ Goto("idle", "close")
  /\ op' = call /\ outcome' = "pending"
  /\ closing' = (IF looped THEN Held ELSE {}) /\ failed' = FALSE
  /\ DropBanks
  /\ ForgetAnswer
  /\ UNCHANGED <<looped, open, at, fresh, ingestVars, spoiled>>

(* The store's close may raise: the connection is closed all the same. *)
CloseBank ==
  /\ Goto("close", "close")
  /\ \E connection \in closing :
       /\ open' = open \ {connection}
       /\ closing' = closing \ {connection}
  /\ failed' \in {failed, TRUE}
  /\ UNCHANGED <<looped, bankVars, engineVars, op, outcome, at, fresh, ingestVars, searchVars,
                 spoiled>>

(* The connection's own close raises: the banks after it get their turn. *)
CloseBankRaises ==
  /\ Goto("close", "close")
  /\ \E connection \in closing :
       /\ open' \in {open, open \ {connection}}
       /\ Spoil({connection})
       /\ closing' = closing \ {connection}
  /\ failed' = TRUE
  /\ UNCHANGED <<looped, bankVars, engineVars, op, outcome, at, fresh, ingestVars, searchVars>>

\* Mutant: the loop over the banks ends at the first error.
CleanupReturnsEarly ==
  /\ Goto("close", Ends(op))
  /\ closing = {} \/ failed
  /\ looped' = FALSE
  /\ closing' = {}
  /\ outcome' = IF failed /\ op = "cleanup" THEN "raised" ELSE "released"
  /\ UNCHANGED <<bankVars, open, engineVars, op, at, fresh, ingestVars, searchVars, failed, spoiled>>

(* The first error is raised when all were attempted; __del__ swallows it. *)
CleanupReturns ==
  /\ Goto("close", Ends(op))
  /\ closing = {}
  /\ looped' = FALSE
  /\ closing' = {}
  /\ outcome' = IF failed /\ op = "cleanup" THEN "raised" ELSE "released"
  /\ UNCHANGED <<bankVars, open, engineVars, op, at, fresh, ingestVars, searchVars, failed, spoiled>>

(* What is no Exception, an interrupt, ends the loop over the banks. *)
CleanupInterrupted ==
  /\ Goto("close", Ends(op))
  /\ looped' = FALSE
  /\ Spoil(closing) /\ closing' = {}
  /\ outcome' = IF op = "cleanup" THEN "raised" ELSE "released"
  /\ UNCHANGED <<bankVars, open, engineVars, op, at, fresh, ingestVars, searchVars, failed>>

(* From inside a running event loop nothing is closed, all is dropped. *)
CleanupInsideLoop(call) ==
  /\ Goto("idle", Ends(call))
  /\ looped
  /\ op' = call /\ outcome' \in {"released", "raised"}
  /\ looped' = FALSE
  /\ Spoil(Held) /\ DropBanks
  /\ ForgetAnswer
  /\ UNCHANGED <<open, at, fresh, ingestVars, closeVars>>

Ingesting ==
  \/ CallIngest \/ CallInsideLoop
  \/ SkipBlank \/ PlanDocument \/ Connect \/ ConnectRaises \/ RegisterBank \/ SetUpRaises
  \/ PlansMade \/ EmbedBatch \/ EmbedRaises \/ Embedded
  \/ CreateThought \/ StoreEmbedding \/ StoreRaises \/ IngestReturns

Retrieving ==
  \/ \E user \in Users \cup {NoUser}, k \in Depths : Retrieve(user, k) \/ RetrieveRaises(user, k)
  \/ PlaceHit \/ RetrieveReturns

Cleaning ==
  \/ \E call \in {"cleanup", "collect"} : CallCleanup(call) \/ CleanupInsideLoop(call)
  \/ CloseBank \/ CloseBankRaises \/ CleanupReturns \/ CleanupInterrupted

Next == Ingesting \/ Retrieving \/ Cleaning

Spec == Init /\ [][Next]_vars

-----------------------------------------------------------------------------
TypeOK ==
  /\ looped \in BOOLEAN
  /\ conn \in [Keys -> Connections \cup {None}]
  /\ ordinals \in [Keys -> Nat]
  /\ \A key \in Keys :
       /\ DOMAIN known[key] \subseteq ThoughtIds
       /\ known[key] \in [DOMAIN known[key] -> Documents]
       /\ thoughts[key] \subseteq ThoughtIds
       /\ DOMAIN vectors[key] \subseteq ThoughtIds
       /\ vectors[key] \in [DOMAIN vectors[key] -> Texts]
  /\ open \subseteq Connections /\ spoiled \subseteq Connections
  /\ closing \subseteq Connections /\ fresh \in Connections \cup {None}
  /\ pc \in {"idle", "plan", "setup", "embed", "create_thought", "store_embedding", "place",
             "close", "gone"}
  /\ op \in {"ingest", "retrieve", "cleanup", "collect"}
  /\ outcome \in {"none", "pending", "returned", "found", "released", "raised"}
  /\ delivery \in Seq(Documents) /\ at \in Nat \ {0}
  /\ DOMAIN plan \subseteq NonBlank /\ plan \in [DOMAIN plan -> Nat]
  /\ todo \subseteq DOMAIN plan /\ embedded \subseteq Texts
  /\ asked \in [user : Users \cup {NoUser}, k : Nat]
  /\ hits \in Seq(ThoughtIds) /\ ranked \in Seq(Documents)
  /\ failed \in BOOLEAN

(* A connection that is open belongs to a bank, or is being set up, or     *)
(* waits for its turn in a clean-up, unless its own set-up or clean-up     *)
(* raised ("so no connection is leaked by an early exit").                 *)
NoLeakWithoutFault == open \subseteq Held \cup {fresh} \cup closing \cup spoiled

(* The comment at next_ordinal: a re-ingested document never regenerates a *)
(* previously used thought id.  Whatever was delivered before, twice, in   *)
(* part or in vain, no id that is still to be stored is taken, and no two  *)
(* documents of a delivery share one.                                      *)
IdsAreFresh ==
  /\ \A i, j \in DOMAIN plan : IdAt(i) = IdAt(j) => i = j
  /\ pc = "create_thought" => \A i \in todo : IdAt(i) \notin thoughts[KeyAt(i)]

(* An ingest that returns leaves each of its documents with text in the    *)
(* bank of its user, with a thought of its own, mapped to the document and *)
(* with the vector of the document's own payload.                          *)
IngestIsComplete ==
  op = "ingest" /\ outcome = "returned" =>
    \E idOf \in Injection(NonBlank, UNION {thoughts[key] : key \in Keys}) :
      \A i \in NonBlank :
        /\ KeyAt(i) \in Banks
        /\ idOf[i] \in thoughts[KeyAt(i)]
        /\ idOf[i] \in DOMAIN known[KeyAt(i)] /\ known[KeyAt(i)][idOf[i]] = delivery[i]
        /\ idOf[i] \in DOMAIN vectors[KeyAt(i)] /\ vectors[KeyAt(i)][idOf[i]] = PayloadAt(i)

(* An answer has each document id that was hit once, as the version of its *)
(* best hit, in the order of the best hits; half-stored thoughts are not   *)
(* in it.                                                                  *)
RankedByBestHit ==
  outcome = "found" =>
    LET mapped == {i \in DOMAIN hits : hits[i] \in DOMAIN KnownToAsked}
        DocumentOf(i) == KnownToAsked[hits[i]]
    IN  /\ \A i \in mapped : DocumentOf(i).id \in Placed
        /\ \A r, s \in DOMAIN ranked : ranked[r].id = ranked[s].id => r = s
        /\ \A r \in DOMAIN ranked : \E i \in mapped :
             /\ ranked[r] = DocumentOf(i)
             /\ \A j \in mapped : j < i =>
                  \E earlier \in 1..r - 1 : ranked[earlier].id = DocumentOf(j).id

Shelf(user) == {known[BankKey(user)][id] : id \in DOMAIN known[BankKey(user)]}

Shelves == [user \in Users \cup {NoUser} |-> Shelf(user)]

Answered == IF outcome = "found" THEN ranked ELSE <<>>

(* The docstring: "retrieval never leaks across banks".  With every await  *)
(* a step that may fail, the banks are shelves that only an ingest of      *)
(* their own user fills and only a clean-up empties, all at once, and a    *)
(* retrieve answers from the shelf of the user_id it was called with.      *)
Promise == INSTANCE MemoryBanks WITH
  Users   <- Users \cup {NoUser},
  shelf   <- Shelves,
  waiting <- pc = "place",
  answer  <- Answered

KeepsBanksApart == Promise!Spec
=============================================================================
