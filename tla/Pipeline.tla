------------------------------ MODULE Pipeline ------------------------------
(***************************************************************************)
(* runners/longmemeval/run.py, from load_questions to the emission: the    *)
(* loop of run() over the questions and what run_and_emit does with its    *)
(* records.  Every call out of the loop may raise.  The adapter is the one *)
(* of MemoryAdapter or, if not Faithful, a third party's that may answer a *)
(* search with whatever it likes.                                          *)
(***************************************************************************)
EXTENDS Corpus

CONSTANTS
  Datasets,   \* the datasets a run may be given: sequences of items
  Limits,     \* values of --limit; a large one stands for its absence
  TopK,       \* config["top_k"]
  Blank,      \* the stripped-empty text
  Strays,     \* units a careless adapter may name
  Scores,     \* naturals: the scores of ranked items
  Faithful    \* whether the adapter keeps the promise of adapters/base.py

ASSUME FaithfulAssumption == Faithful \in BOOLEAN
ASSUME LimitsAssumption == Limits \subseteq Nat /\ TopK \in Nat
ASSUME DatasetAssumption ==
  \A items \in Datasets : IsSeq(items) /\ \A k \in DOMAIN items : IsItem(items[k])

\* The public dataset's question ids are distinct; the code does not check it.
DistinctQuestions ==
  \A items \in Datasets : \A j, k \in DOMAIN items : items[j].id = items[k].id => j = k

VARIABLES
  dataset,    \* the file's items
  questions,  \* how many of them the run takes
  q,          \* the question at hand
  pc,         \* the next step
  error,      \* whether run() raised
  status, held, present, answer,   \* the adapter, see MemoryAdapter
  scores,     \* the scores of answer
  context,    \* what the reader is given
  hypothesis, \* the reader's answer, named by the context it read
  records,    \* RunRecords so far; judgments are appended with them
  log,        \* --mode retrieval's log: question id -> ranked official ids
  bundle      \* the reproduction artifact and n of the row, when emitted

loopVars == <<dataset, questions, q, records>>
adapterVars == <<status, held, present, answer, scores>>
readVars == <<context, hypothesis>>
outVars == <<log, bundle>>
vars == <<loopVars, pc, error, adapterVars, readVars, outVars>>

NoFile == [kind |-> "none"]

Corpora == UNION {{CorpusOf(items[k]) : k \in DOMAIN items} : items \in Datasets}

Memory == INSTANCE MemoryAdapter

Item == dataset[q]

Record == [id |-> Item.id, read |-> hypothesis, ranked |-> RankedOfficial(Item, answer)]

Init ==
  /\ dataset \in Datasets
  /\ questions = 0 /\ q = 1 /\ pc = "load" /\ error = FALSE
  /\ Memory!Init /\ scores = <<>>
  /\ context = <<>> /\ hypothesis = <<>> /\ records = <<>>
  /\ log = NoFile /\ bundle = NoFile

Goto(from, to) == pc = from /\ pc' = to

(* load_questions, head-sliced before anything is checked. *)
LoadQuestions ==
  /\ \E limit \in Limits : questions' = IF limit < Len(dataset) THEN limit ELSE Len(dataset)
  /\ IF \E k \in 1..questions' : Mismatched(dataset[k])
     THEN Goto("load", "failed") /\ error' = TRUE
     ELSE Goto("load", IF questions' = 0 THEN "close" ELSE "ingest") /\ UNCHANGED error
  /\ UNCHANGED <<dataset, q, records, adapterVars, readVars, outVars>>

(* adapter.ingest begins: what was held goes. *)
IngestBegins ==
  /\ Goto("ingest", "ingesting")
  /\ Memory!Begin(CorpusOf(Item)) /\ scores' = <<>>
  /\ UNCHANGED <<loopVars, error, readVars, outVars>>

IngestReturns ==
  /\ Goto("ingesting", "search")
  /\ Memory!Take /\ status' = "ready"
  /\ UNCHANGED <<loopVars, error, scores, readVars, outVars>>

Descending(numbers) == \A i \in 1..Len(numbers) - 1 : numbers[i] >= numbers[i + 1]

ScoresFor(ranked) == [1..Len(ranked) -> Scores]

(* Whatever order the adapter's items are in, the runner takes it. *)
Search ==
  /\ Goto("search", "assemble")
  /\ Memory!Search
  /\ scores' \in {s \in ScoresFor(answer') : Descending(s)}
  /\ UNCHANGED <<loopVars, error, readVars, outVars>>

CarelessSearch ==
  /\ Goto("search", "assemble")
  /\ ~Faithful
  /\ \E n \in 0..TopK + 1 : answer' \in [1..n -> Memory!UnitsOf(held) \cup Strays]
  /\ scores' \in ScoresFor(answer')
  /\ UNCHANGED <<loopVars, error, status, held, present, readVars, outVars>>

Assemble ==
  /\ Goto("assemble", "read")
  /\ context' = AssembleContext(Item, answer, TopK)
  /\ UNCHANGED <<loopVars, error, adapterVars, hypothesis, outVars>>

Read ==
  /\ Goto("read", "judge")
  /\ hypothesis' = context
  /\ UNCHANGED <<loopVars, error, adapterVars, context, outVars>>

\* Mutant: the loop does not advance.
JudgeAgain ==
  /\ Goto("judge", IF q < questions THEN "ingest" ELSE "close")
  /\ records' = Append(records, Record)
  /\ UNCHANGED <<dataset, questions, q, error, adapterVars, readVars, outVars>>

(* judge.score returns: the question is judged and recorded. *)
Judge ==
  /\ Goto("judge", IF q < questions THEN "ingest" ELSE "close")
  /\ records' = Append(records, Record)
  /\ q' = q + 1
  /\ UNCHANGED <<dataset, questions, error, adapterVars, readVars, outVars>>

\* Mutant: a failed ingest is logged and the question is searched all the same.
RaiseAndGoOn ==
  /\ pc \in {"ingest", "ingesting", "search", "assemble", "read", "judge"}
  /\ IF pc = "ingesting" THEN pc' = "search" /\ UNCHANGED error ELSE pc' = "close" /\ error' = TRUE
  /\ UNCHANGED <<loopVars, adapterVars, readVars, outVars>>

(* Any call of the loop raises; run_and_emit's finally comes next. *)
Raise ==
  /\ pc \in {"ingest", "ingesting", "search", "assemble", "read", "judge"}
  /\ pc' = "close" /\ error' = TRUE
  /\ UNCHANGED <<loopVars, adapterVars, readVars, outVars>>

\* Mutant: the finally block swallows the error.
CloseAdapterAndGoOn ==
  /\ Goto("close", "log")
  /\ Memory!Discard /\ scores' = <<>>
  /\ UNCHANGED <<loopVars, error, readVars, outVars>>

(* The finally block: an error of the loop propagates behind it. *)
CloseAdapter ==
  /\ Goto("close", IF error THEN "failed" ELSE "log")
  /\ Memory!Discard /\ scores' = <<>>
  /\ UNCHANGED <<loopVars, error, readVars, outVars>>

(* close() releases its references and raises: what was computed is lost. *)
CloseAdapterRaises ==
  /\ Goto("close", "failed")
  /\ Memory!Discard /\ scores' = <<>>
  /\ error' = TRUE
  /\ UNCHANGED <<loopVars, readVars, outVars>>

LastWith(id) == CHOOSE k \in DOMAIN records :
  records[k].id = id /\ \A j \in DOMAIN records : records[j].id = id => j <= k

LogOf == [id \in {records[k].id : k \in DOMAIN records} |-> records[LastWith(id)].ranked]

(* The log is written in --mode retrieval only. *)
WriteLog ==
  /\ Goto("log", "emit")
  /\ log' \in {NoFile, [kind |-> "log", entries |-> LogOf]}
  /\ UNCHANGED <<loopVars, error, adapterVars, readVars, bundle>>

(* The bundle is built from the records, the row's n from the questions;   *)
(* writing them is ResultStore's.                                          *)
Emit ==
  /\ Goto("emit", "done")
  /\ bundle' \in {NoFile, [kind |-> "bundle", records |-> records, n |-> questions]}
  /\ UNCHANGED <<loopVars, error, adapterVars, readVars, log>>

WriteRaises ==
  /\ Goto("log", "failed") \/ Goto("emit", "failed")
  /\ error' = TRUE
  /\ UNCHANGED <<loopVars, adapterVars, readVars, outVars>>

Next ==
  \/ LoadQuestions
  \/ IngestBegins \/ IngestReturns \/ Search \/ CarelessSearch
  \/ Assemble \/ Read \/ Judge \/ Raise
  \/ CloseAdapter \/ CloseAdapterRaises
  \/ WriteLog \/ Emit \/ WriteRaises

Spec == Init /\ [][Next]_vars
-----------------------------------------------------------------------------
TypeOK ==
  /\ dataset \in Datasets /\ questions \in 0..Len(dataset)
  /\ q \in 1..questions + 1
  /\ pc \in {"load", "ingest", "ingesting", "search", "assemble", "read", "judge", "close",
             "log", "emit", "done", "failed"}
  /\ error \in BOOLEAN
  /\ status \in {"void", "filling", "ready"} /\ held \in Corpora \cup {<<>>}
  /\ Len(scores) <= Len(answer)
  /\ Len(records) = q - 1

(* The leakage guard: neither the corpus an adapter holds nor the history  *)
(* a reader gets depends on session ids or evidence flags.  Items that     *)
(* differ in nothing else are given to them alike.                         *)
Public(item) ==
  [sessions |-> [s \in DOMAIN item.sessions |-> NeutralSession(item.sessions[s])],
   dates |-> item.dates]

EvidenceIsInvisible ==
  \A twins \in Datasets : \A k \in DOMAIN twins :
    q \in DOMAIN dataset /\ Public(twins[k]) = Public(Item) =>
      /\ pc = "search" => held = CorpusOf(twins[k])
      /\ pc = "read" => context = AssembleContext(twins[k], answer, TopK)

(* What a question is answered from is its own haystack, all of it,        *)
(* whatever failed before, whatever sessions it shares with the question   *)
(* before it, and whatever units the adapter names.  An adapter answers    *)
(* from a half-filled store too: it is the loop that never asks it to.     *)
AnsweredFromOwnHaystack ==
  /\ pc = "assemble" => held = CorpusOf(Item) /\ status = "ready"
  /\ \A k \in DOMAIN records :
       /\ records[k].id = dataset[k].id
       /\ \A r \in DOMAIN records[k].read :
            \E s \in DOMAIN dataset[k].sessions :
              LET content == NeutralSession(dataset[k].sessions[s])
                  round == records[k].read[r]
              IN  /\ \E i, j \in DOMAIN content : round.turns = SubSeq(content, i, j)
                  /\ round.date = DateOf(dataset[k], s)
                  /\ \A earlier \in 1..s - 1 :
                       NeutralSession(dataset[k].sessions[earlier]) # content

(* The history holds the TopK best ranked turns, each with its reply, no   *)
(* fewer and no others, oldest first and of one date best first.           *)
HistoryIsTopK ==
  pc = "read" =>
    LET known == {i \in DOMAIN answer : /\ answer[i][1] \in Contents(Item)
                                        /\ answer[i][2] \in DOMAIN answer[i][1]}
    IN  \E rank \in [DOMAIN context -> known] :
          /\ {rank[k] : k \in DOMAIN context}
               = {i \in known : Cardinality({j \in known : j < i}) < TopK}
          /\ \A k \in DOMAIN context :
               /\ Head(context[k].turns) = answer[rank[k]][1][answer[rank[k]][2]]
               /\ \A l \in 1..k - 1 :
                    \/ context[l].date < context[k].date
                    \/ context[l].date = context[k].date /\ rank[l] < rank[k]

(* A recorded official id names a user turn of that question, in the first *)
(* of the sessions that read alike, whatever evidence and id a later one   *)
(* has; it says "noans" exactly for a turn without evidence in an answer   *)
(* session.                                                                *)
OfficialIdsAreGenuine ==
  \A k \in DOMAIN records : \A r \in DOMAIN records[k].ranked :
    LET official == records[k].ranked[r] IN
    \E s \in DOMAIN dataset[k].sessions :
      LET id == dataset[k].ids[s]  session == dataset[k].sessions[s] IN
      /\ official.session = id.name /\ official.turn \in DOMAIN session
      /\ session[official.turn].role = "user"
      /\ official.noans = (id.answer /\ ~session[official.turn].evidence)
      /\ \A earlier \in 1..s - 1 :
           NeutralSession(dataset[k].sessions[earlier]) # NeutralSession(session)

(* What is published covers every question once, in order, and nothing is  *)
(* published before the adapter is released or after a question failed.    *)
PublishedIsComplete ==
  /\ bundle # NoFile =>
       /\ ~error /\ status = "void"
       /\ Len(bundle.records) = bundle.n
       /\ \A k \in 1..bundle.n : bundle.records[k].id = dataset[k].id
  /\ log # NoFile =>
       /\ status = "void" /\ Len(records) = questions
       /\ \A k \in 1..questions : log.entries[dataset[k].id] = records[k].ranked

(* adapters/base.py, RankedItem.score: "the runner re-ranks by descending  *)
(* score defensively".  scores are those of the items in the order in      *)
(* which the runner uses them.                                             *)
RunnerReRanks == pc = "read" => Descending(scores)
=============================================================================
