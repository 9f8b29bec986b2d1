--------------------------- MODULE PipelineProofs ---------------------------
(***************************************************************************)
(* Theorems about the run loop, for any datasets, limits and adapters:     *)
(* what it writes, what the adapter and the reader are shown, and what of  *)
(* their answers is recorded.                                              *)
(***************************************************************************)
EXTENDS Pipeline, SortingProofs

\* The steps of one question, and those that come after the last.
Asking == {"ingest", "ingesting", "search", "assemble", "read", "judge"}
Writes == {"log", "emit", "done"}

Sequences == IsSeq(answer) /\ IsSeq(scores) /\ IsSeq(records)

\* Every record so far is of the question at its place.
InOrder == \A k \in 1 .. q - 1 : records[k].id = dataset[k].id

Loop ==
  /\ pc \in Asking => q <= questions /\ ~error
  /\ pc = "load" => q = 1 /\ ~error
  /\ pc = "close" => error \/ q = questions + 1
  /\ pc \in Writes => ~error /\ q = questions + 1
  /\ pc = "load" \/ pc \in Writes => status = "void"

Published ==
  /\ log # NoFile => /\ log = [kind |-> "log", entries |-> LogOf]
                     /\ pc \in {"emit", "done", "failed"}
                     /\ status = "void" /\ q = questions + 1
  /\ bundle # NoFile => /\ bundle = [kind |-> "bundle", records |-> records, n |-> questions]
                        /\ pc = "done"

IInv == TypeOK /\ Sequences /\ InOrder /\ Loop /\ Published

LEMMA DatasetLength ==
  ASSUME NEW items \in Datasets
  PROVE  Len(items) \in Nat /\ DOMAIN items = 1 .. Len(items)
<1> DEFINE S == {items[k] : k \in DOMAIN items}
<1>1. items \in Seq(S)
  BY Zenon, DatasetAssumption DEF IsSeq
<1> HIDE DEF S
<1>2. QED
  BY <1>1

LEMMA RankingSeq ==
  ASSUME NEW units, NEW ranked \in Memory!Rankings(units)
  PROVE  IsSeq(ranked) /\ Len(ranked) \in Nat
<1>1. PICK n \in 0 .. TopK : ranked \in [1 .. n -> units]
  BY DEF Memory!Rankings, Memory!Injection
<1>2. n \in Nat
  BY LimitsAssumption
<1>3. QED
  BY <1>1, <1>2, FunctionSeq

LEMMA InitHolds == Init => IInv
<1> SUFFICES ASSUME Init PROVE IInv
  OBVIOUS
<1> USE DEF Init, Memory!Init
<1>1. TypeOK
  <2>1. Len(answer) = 0 /\ Len(scores) = 0 /\ Len(records) = 0
    BY EmptyIsSeq
  <2>2. /\ Len(scores) <= Len(answer)
        /\ Len(records) = 1 - 1
    BY <2>1
  <2>3. dataset \in Datasets
    OBVIOUS
  <2>4. 0 \in 0 .. Len(dataset) /\ 1 \in 1 .. 0 + 1
    BY <2>3, DatasetLength
  <2>5. /\ questions \in 0 .. Len(dataset)
        /\ q \in 1 .. questions + 1
        /\ Len(records) = q - 1
    BY <2>2, <2>4
  <2>6. /\ pc \in {"load", "ingest", "ingesting", "search", "assemble", "read", "judge", "close",
                  "log", "emit", "done", "failed"}
        /\ error \in BOOLEAN
        /\ status \in {"void", "filling", "ready"}
        /\ held \in Corpora \cup {<<>>}
    OBVIOUS
  <2>7. QED
    BY <2>2, <2>3, <2>5, <2>6 DEF TypeOK
<1>2. Sequences
  BY EmptyIsSeq DEF Sequences
<1>3. InOrder /\ Loop /\ Published
  BY DEF InOrder, Loop, Published, Asking, Writes
<1>4. QED
  BY <1>1, <1>2, <1>3 DEF IInv

LEMMA LogFixed ==
  ASSUME records' = records
  PROVE  LogOf' = LogOf
BY DEF LogOf, LastWith

LEMMA NextHolds == IInv /\ [Next]_vars => IInv'
<1> SUFFICES ASSUME IInv, [Next]_vars PROVE IInv'
  OBVIOUS
<1> DEFINE length == Len(dataset)
<1>0. TypeOK /\ Sequences /\ InOrder /\ Loop /\ Published
  BY DEF IInv
<1>1. length \in Nat /\ questions \in 0 .. length /\ q \in 1 .. questions + 1
  BY <1>0, DatasetLength DEF TypeOK
<1> HIDE DEF length
<1>2. /\ held \in Corpora \cup {<<>>} /\ status \in {"void", "filling", "ready"}
      /\ Len(scores) <= Len(answer) /\ Len(records) = q - 1
      /\ error \in BOOLEAN /\ dataset \in Datasets
  BY <1>0 DEF TypeOK
<1> USE DEF Goto
<1>3. CASE LoadQuestions
  <2>1. /\ dataset' = dataset /\ records' = records /\ status' = status /\ held' = held
        /\ answer' = answer /\ scores' = scores /\ q' = q
        /\ log' = log /\ bundle' = bundle
        /\ pc = "load"
    BY <1>3 DEF LoadQuestions, adapterVars, outVars
  <2>2. q = 1 /\ error = FALSE /\ status = "void" /\ log = NoFile /\ bundle = NoFile
    BY <1>0, <1>2, <2>1 DEF Loop, Published, Writes
  <2>3. questions' \in 0 .. length
    BY <1>1, <1>3, LimitsAssumption DEF LoadQuestions, length
  <2>4. \/ pc' = "failed" /\ error' = TRUE
        \/ pc' = (IF questions' = 0 THEN "close" ELSE "ingest") /\ error' = error
    BY <1>3 DEF LoadQuestions
  <2>5. TypeOK'
    <3>1. PICK n \in 0 .. length : questions' = n
      BY <2>3
    <3>2. 1 \in 1 .. n + 1
      BY <1>1, <3>1
    <3>3. QED
      BY <1>2, <2>1, <2>2, <2>4, <3>1, <3>2 DEF TypeOK, length
  <2>6. Loop'
    <3>1. PICK n \in 0 .. length : questions' = n
      BY <2>3
    <3>2. (n = 0 => 1 = n + 1) /\ (n # 0 => 1 <= n)
      BY <1>1, <3>1
    <3>3. QED
      BY <2>1, <2>2, <2>4, <3>1, <3>2 DEF Loop, Asking, Writes
  <2>7. QED
    BY <1>0, <2>1, <2>2, <2>5, <2>6 DEF IInv, Sequences, InOrder, Published, IsSeq
\* What the steps of a question and of the finally block owe, one by one.
<1>4. ASSUME UNCHANGED <<dataset, questions, q, records>>, UNCHANGED outVars,
             pc \notin {"emit", "done", "failed"},
             pc' \in Asking \cup {"close", "log", "failed"}, error' \in BOOLEAN,
             held' \in Corpora \cup {<<>>}, status' \in {"void", "filling", "ready"},
             IsSeq(answer'), IsSeq(scores'), Len(scores') <= Len(answer'), Loop'
      PROVE  IInv'
  <2>1. log = NoFile /\ bundle = NoFile /\ log' = log /\ bundle' = bundle
    BY <1>0, <1>4 DEF Published, outVars
  <2>2. TypeOK'
    BY <1>1, <1>2, <1>4 DEF TypeOK, Asking, length
  <2>3. QED
    BY <1>0, <1>4, <2>1, <2>2 DEF IInv, Sequences, InOrder, Published, IsSeq
<1>5. CASE IngestBegins
  <2>1. /\ UNCHANGED <<dataset, questions, q, records>> /\ error' = error
        /\ status' \in {"filling", "ready"} /\ held' = CorpusOf(Item)
        /\ answer' = <<>> /\ scores' = <<>>
        /\ pc = "ingest" /\ pc' = "ingesting" /\ UNCHANGED outVars
    BY <1>5 DEF IngestBegins, loopVars, Memory!Begin
  <2>2. Loop'
    BY <1>0, <2>1 DEF Loop, Asking, Writes
  <2>3. IsSeq(answer') /\ IsSeq(scores') /\ Len(answer') = 0 /\ Len(scores') = 0
    BY <2>1, EmptyIsSeq
  <2>4. CorpusOf(Item) \in Corpora
    <3>1. q <= questions
      BY <1>0, <2>1 DEF Loop, Asking
    <3>2. q \in 1 .. length
      BY <1>1, <3>1
    <3>3. q \in DOMAIN dataset
      BY <1>2, <3>2, DatasetLength DEF length
    <3>4. QED
      BY <1>2, <3>3 DEF Corpora, Item
  <2>5. QED
    BY <1>2, <1>4, <2>1, <2>2, <2>3, <2>4 DEF Asking
<1>6. CASE IngestReturns
  <2>1. /\ UNCHANGED <<dataset, questions, q, records>> /\ error' = error
        /\ status' = "ready" /\ held' = held /\ answer' = answer /\ scores' = scores
        /\ pc = "ingesting" /\ pc' = "search" /\ UNCHANGED outVars
    BY <1>6 DEF IngestReturns, loopVars, Memory!Take
  <2>2. Loop'
    BY <1>0, <2>1 DEF Loop, Asking, Writes
  <2>3. IsSeq(answer') /\ IsSeq(scores') /\ Len(scores') <= Len(answer')
    BY <1>0, <1>2, <2>1 DEF Sequences
  <2>4. QED
    BY <1>2, <1>4, <2>1, <2>2, <2>3 DEF Asking
<1>7. ASSUME pc = "search", pc' = "assemble", UNCHANGED <<loopVars, error, status, held, outVars>>,
             NEW n \in Nat, NEW S, answer' \in [1 .. n -> S], scores' \in ScoresFor(answer')
      PROVE  IInv'
  <2>1. IsSeq(answer') /\ Len(answer') = n
    BY <1>7, FunctionSeq
  <2>2. IsSeq(scores') /\ Len(scores') = n
    BY <1>7, <2>1, FunctionSeq DEF ScoresFor
  <2>3. Loop'
    BY <1>0, <1>7 DEF Loop, Asking, Writes, loopVars
  <2>4. QED
    BY <1>2, <1>4, <1>7, <2>1, <2>2, <2>3 DEF Asking, loopVars
<1>8. CASE Search
  <2>1. PICK n \in 0 .. TopK : answer' \in [1 .. n -> present]
    BY <1>8 DEF Search, Memory!Search, Memory!Rankings, Memory!Injection
  <2>2. n \in Nat
    BY LimitsAssumption
  <2>3. QED
    BY <1>7, <1>8, <2>1, <2>2 DEF Search, Memory!Search
<1>9. CASE CarelessSearch
  <2>1. PICK n \in 0 .. TopK + 1 : answer' \in [1 .. n -> Memory!UnitsOf(held) \cup Strays]
    BY <1>9 DEF CarelessSearch
  <2>2. n \in Nat
    BY LimitsAssumption
  <2>3. QED
    BY <1>7, <1>9, <2>1, <2>2 DEF CarelessSearch
<1>10. ASSUME pc \in Asking, pc' \in (Asking \ {"ingesting"}) \cup {"close"},
              UNCHANGED <<loopVars, adapterVars, outVars>>,
              pc' \in Asking => error' = error, pc' = "close" => error' = TRUE
       PROVE  IInv'
  <2>1. q <= questions /\ error = FALSE
    BY <1>0, <1>2, <1>10 DEF Loop
  <2>2. /\ UNCHANGED <<dataset, questions, q, records>> /\ UNCHANGED outVars
        /\ status' = status /\ held' = held /\ answer' = answer /\ scores' = scores
    BY <1>10 DEF loopVars, adapterVars
  <2>3. pc' \in Asking => pc' # "ingesting" /\ error' = FALSE
    BY <1>10, <2>1 DEF Asking
  <2>4. pc' = "close" => error' = TRUE
    BY <1>10
  <2>5. pc' \in Asking \cup {"close"} /\ pc' \notin {"load", "ingesting"} \cup Writes
    BY <1>10 DEF Asking, Writes
  <2>6. error' \in BOOLEAN
    BY <2>3, <2>4, <2>5
  <2>7. Loop'
    BY <2>1, <2>2, <2>3, <2>4, <2>5 DEF Loop
  <2>8. /\ pc \notin {"emit", "done", "failed"}
        /\ pc' \in Asking \cup {"close", "log", "failed"}
    BY <1>10, <2>5 DEF Asking
  <2>9. QED
    BY <1>0, <1>2, <1>4, <2>2, <2>6, <2>7, <2>8 DEF Sequences
<1>11. CASE Assemble \/ Read
  <2>1. /\ pc \in Asking /\ pc' \in {"read", "judge"}
        /\ error' = error
        /\ UNCHANGED loopVars /\ UNCHANGED adapterVars /\ UNCHANGED outVars
    BY <1>11 DEF Assemble, Read, Asking
  <2>2. pc' \in (Asking \ {"ingesting"}) \cup {"close"} /\ pc' # "close"
    BY <2>1 DEF Asking
  <2>3. QED
    BY <1>10, <2>1, <2>2
<1>12. CASE Raise
  BY <1>10, <1>12 DEF Raise, Asking
<1>13. CASE Judge
  <2>1. /\ dataset' = dataset /\ questions' = questions /\ q' = q + 1 /\ error' = error
        /\ records' = Append(records, Record) /\ UNCHANGED adapterVars /\ UNCHANGED outVars
        /\ pc = "judge" /\ pc' = IF q < questions THEN "ingest" ELSE "close"
    BY <1>13 DEF Judge
  <2>2. q <= questions /\ error = FALSE /\ log = NoFile /\ bundle = NoFile
    BY <1>0, <1>2, <2>1 DEF Loop, Asking, Published
  <2>3. /\ IsSeq(Append(records, Record)) /\ Len(Append(records, Record)) = q
        /\ \A k \in 1 .. q - 1 : Append(records, Record)[k] = records[k]
        /\ Append(records, Record)[q] = Record
    <3>1. Len(records) = q - 1 /\ Len(records) + 1 = q
      BY <1>1, <1>2
    <3>2. QED
      BY <1>0, <3>1, AppendSeq DEF Sequences
  <2>4. PICK n \in 1 .. questions : q = n
    BY <1>1, <2>2
  <2>5. TypeOK'
    <3>1. n + 1 \in 1 .. questions + 1 /\ n = (n + 1) - 1
      BY <1>1, <2>4
    <3>2. QED
      BY <1>1, <1>2, <2>1, <2>3, <2>4, <3>1 DEF TypeOK, adapterVars, length
  <2>6. Loop'
    BY <1>0, <1>1, <2>1, <2>2 DEF Loop, Asking, Writes, adapterVars
  <2>7. InOrder'
    <3>1. Record.id = dataset[q].id
      BY DEF Record, Item
    <3>2. \A k \in 1 .. n : Append(records, Record)[k].id = dataset[k].id
      BY <1>0, <1>1, <2>3, <2>4, <3>1 DEF InOrder
    <3>3. (n + 1) - 1 = n
      BY <1>1, <2>4
    <3>4. QED
      BY <2>1, <2>4, <3>2, <3>3 DEF InOrder
  <2>8. Sequences' /\ Published'
    BY <1>0, <2>1, <2>2, <2>3 DEF Sequences, Published, adapterVars, outVars, IsSeq
  <2>9. QED
    BY <2>5, <2>6, <2>7, <2>8 DEF IInv
<1>14. CASE CloseAdapter \/ CloseAdapterRaises
  <2>1. /\ UNCHANGED <<dataset, questions, q, records>>
        /\ status' = "void" /\ held' = <<>> /\ answer' = <<>> /\ scores' = <<>>
        /\ pc = "close" /\ UNCHANGED outVars
        /\ \/ pc' = "failed"
           \/ pc' = "log" /\ error = FALSE /\ error' = error
        /\ error' \in BOOLEAN
    BY <1>2, <1>14 DEF CloseAdapter, CloseAdapterRaises, loopVars, Memory!Discard
  <2>2. Loop'
    BY <1>0, <2>1 DEF Loop, Asking, Writes
  <2>3. IsSeq(answer') /\ IsSeq(scores') /\ Len(answer') = 0 /\ Len(scores') = 0
    BY <2>1, EmptyIsSeq
  <2>4. QED
    BY <1>2, <1>4, <2>1, <2>2, <2>3 DEF Asking
\* The records are no longer touched, and the adapter is gone.
<1>15. ASSUME UNCHANGED <<loopVars, adapterVars>>, pc \in {"log", "emit"},
              pc' \in {"emit", "done", "failed"}, error' \in BOOLEAN,
              pc' # "failed" => error' = error, Published'
       PROVE  IInv'
  <2>1. TypeOK'
    BY <1>1, <1>2, <1>15 DEF TypeOK, loopVars, adapterVars, length
  <2>2. Loop'
    BY <1>0, <1>15 DEF Loop, Asking, Writes, loopVars, adapterVars
  <2>3. QED
    BY <1>0, <1>15, <2>1, <2>2 DEF IInv, Sequences, InOrder, IsSeq, loopVars, adapterVars
<1>16. CASE WriteLog
  <2>1. Published'
    BY <1>0, <1>16, LogFixed DEF WriteLog, Published, Loop, Writes, loopVars, adapterVars
  <2>2. QED
    BY <1>2, <1>15, <1>16, <2>1 DEF WriteLog
<1>17. CASE Emit
  <2>1. Published'
    BY <1>0, <1>17, LogFixed DEF Emit, Published, Loop, Writes, loopVars, adapterVars
  <2>2. QED
    BY <1>2, <1>15, <1>17, <2>1 DEF Emit
<1>18. CASE WriteRaises
  <2>1. Published'
    BY <1>0, <1>18, LogFixed DEF WriteRaises, Published, Loop, Writes, loopVars, adapterVars, outVars
  <2>2. QED
    BY <1>15, <1>18, <2>1 DEF WriteRaises
<1>19. CASE UNCHANGED vars
  <2>1. UNCHANGED <<loopVars, adapterVars>> /\ pc' = pc /\ error' = error
        /\ log' = log /\ bundle' = bundle
    BY <1>19 DEF vars, outVars
  <2>2. Published'
    BY <1>0, <2>1, LogFixed DEF Published, loopVars, adapterVars
  <2>3. TypeOK' /\ Loop'
    BY <1>0, <2>1 DEF TypeOK, Loop, loopVars, adapterVars
  <2>4. QED
    BY <1>0, <2>1, <2>2, <2>3 DEF IInv, Sequences, InOrder, IsSeq, loopVars, adapterVars
<1>20. QED
  BY <1>3, <1>5, <1>6, <1>8, <1>9, <1>11, <1>12, <1>13, <1>14, <1>16, <1>17, <1>18, <1>19
     DEF Next

LEMMA Invariant == Spec => []IInv
BY InitHolds, NextHolds, PTL DEF Spec

(***************************************************************************)
(* Every state of the loop has its type: one record per question done, and *)
(* never more scores than items.                                           *)
(***************************************************************************)
THEOREM TypeCorrect == Spec => []TypeOK
<1>1. IInv => TypeOK
  BY DEF IInv
<1>2. QED
  BY <1>1, Invariant, PTL

LEMMA LogHasEach ==
  ASSUME DistinctQuestions, dataset \in Datasets, InOrder,
         NEW n \in Nat, q = n + 1, Len(records) = n, IsSeq(records), n <= Len(dataset),
         NEW k \in 1 .. n
  PROVE  LogOf[dataset[k].id] = records[k].ranked
<1>1. DOMAIN records = 1 .. n
  BY DEF IsSeq
<1>2. \A j \in 1 .. n : records[j].id = dataset[j].id
  BY DEF InOrder
<1>3. \A i, j \in 1 .. n : dataset[i].id = dataset[j].id => i = j
  BY DatasetLength DEF DistinctQuestions
<1> DEFINE id == dataset[k].id
           Is(j) == /\ records[j].id = id
                    /\ \A i \in DOMAIN records : records[i].id = id => i <= j
<1>4. Is(k)
  BY <1>1, <1>2, <1>3
<1>5. \A j \in DOMAIN records : Is(j) => j = k
  BY <1>1, <1>2, <1>3
<1>6. LastWith(id) = k
  BY <1>1, <1>4, <1>5 DEF LastWith
<1>7. id \in {records[j].id : j \in DOMAIN records}
  BY <1>1, <1>2
<1>8. QED
  BY <1>6, <1>7 DEF LogOf

(***************************************************************************)
(* In a dataset whose question ids are distinct, a bundle and a retrieval  *)
(* log that are written cover every question once, in order and with its   *)
(* own ranking, and neither is written when any call of the loop failed or *)
(* before the adapter is closed.                                           *)
(***************************************************************************)
THEOREM CompleteWhenPublished ==
  ASSUME DistinctQuestions PROVE Spec => []PublishedIsComplete
<1>1. IInv => PublishedIsComplete
  <2> SUFFICES ASSUME IInv PROVE PublishedIsComplete
    OBVIOUS
  <2>1. TypeOK /\ Sequences /\ InOrder /\ Loop /\ Published
    BY DEF IInv
  <2>2. questions \in Nat /\ questions <= Len(dataset) /\ Len(records) = q - 1
        /\ dataset \in Datasets
    BY <2>1, DatasetLength DEF TypeOK
  <2>3. ASSUME log # NoFile \/ bundle # NoFile
        PROVE  /\ status = "void" /\ q = questions + 1 /\ Len(records) = questions
               /\ \A k \in 1 .. questions : records[k].id = dataset[k].id
    <3>1. status = "void" /\ q = questions + 1
      BY <2>1, <2>3 DEF Loop, Published, Writes
    <3>2. q - 1 = questions
      BY <2>2, <3>1
    <3>3. QED
      BY <2>1, <2>2, <3>1, <3>2 DEF InOrder
  <2>4. ASSUME bundle # NoFile
        PROVE  /\ ~error /\ Len(bundle.records) = bundle.n
               /\ \A k \in 1 .. bundle.n : bundle.records[k].id = dataset[k].id
    BY <2>1, <2>3, <2>4 DEF Published, Loop, Writes
  <2>5. ASSUME log # NoFile
        PROVE  \A k \in 1 .. questions : log.entries[dataset[k].id] = records[k].ranked
    <3>1. log.entries = LogOf
      BY <2>1, <2>5 DEF Published
    <3>2. QED
      BY <2>1, <2>2, <2>3, <2>5, <3>1, LogHasEach DEF Sequences
  <2>6. QED
    BY <2>3, <2>4, <2>5 DEF PublishedIsComplete
<1>2. QED
  BY <1>1, Invariant, PTL

-----------------------------------------------------------------------------
(* Where a question's rounds come from. *)

LEMMA NeutralFacts ==
  ASSUME NEW session
  PROVE  /\ DOMAIN NeutralSession(session) = DOMAIN session
         /\ \A i \in DOMAIN session : NeutralSession(session)[i].role = session[i].role
         /\ UserTurns(NeutralSession(session)) = UserTurns(session)
BY DEF NeutralSession, UserTurns

LEMMA NeutralSeq ==
  ASSUME NEW session, IsSeq(session)
  PROVE  IsSeq(NeutralSession(session)) /\ Len(NeutralSession(session)) \in Nat
<1> DEFINE neutral == NeutralSession(session)
<1>1. DOMAIN session = 1 .. Len(session) /\ Len(session) \in Nat
  BY DEF IsSeq
<1>2. neutral = [i \in 1 .. Len(session) |-> neutral[i]]
  BY <1>1 DEF NeutralSession
<1> DEFINE S == {neutral[i] : i \in 1 .. Len(session)}
<1>3. neutral \in [1 .. Len(session) -> S]
  BY <1>2
<1> HIDE DEF S, neutral
<1>4. IsSeq(neutral) /\ Len(neutral) = Len(session)
  BY <1>1, <1>3, FunctionSeq
<1>5. QED
  BY <1>1, <1>4 DEF neutral

LEMMA ItemDomains ==
  ASSUME NEW item, IsItem(item)
  PROVE  /\ DOMAIN item.sessions \in SUBSET Nat
         /\ \A s \in DOMAIN item.sessions : 1 .. s - 1 \subseteq DOMAIN item.sessions
         /\ \A s : DateOf(item, s) \in Nat
<1>1. DOMAIN item.sessions = 1 .. Len(item.sessions) /\ Len(item.sessions) \in Nat
  BY DEF IsItem, IsSeq
<1>2. \A s : DateOf(item, s) \in Nat
  BY DEF IsItem, DateOf, NoDate
<1>3. QED
  BY <1>1, <1>2

IsFirst(item, content, s) ==
  /\ NeutralSession(item.sessions[s]) = content
  /\ \A r \in 1 .. s - 1 : NeutralSession(item.sessions[r]) # content

\* A content that occurs has one first place.
LEMMA FirstIsFirst ==
  ASSUME NEW item, IsItem(item), NEW content \in Contents(item)
  PROVE  /\ FirstSession(item, content) \in DOMAIN item.sessions
         /\ IsFirst(item, content, FirstSession(item, content))
         /\ \A s \in DOMAIN item.sessions :
              IsFirst(item, content, s) => s = FirstSession(item, content)
<1> DEFINE Places == {s \in DOMAIN item.sessions : NeutralSession(item.sessions[s]) = content}
<1>1. Places \in SUBSET Nat /\ Places # {}
  BY ItemDomains DEF Contents
<1>2. PICK s \in Places : \A r \in Places : s <= r
  <2> HIDE DEF Places
  <2>1. QED
    BY <1>1, Least
<1>3. s \in DOMAIN item.sessions /\ IsFirst(item, content, s)
  <2>1. SUFFICES ASSUME NEW r \in 1 .. s - 1, NeutralSession(item.sessions[r]) = content
                 PROVE  FALSE
    BY DEF IsFirst
  <2>2. r \in Places
    BY <2>1, ItemDomains
  <2>3. s <= r /\ s \in Nat
    BY <1>1, <1>2, <2>2
  <2>4. QED
    BY <2>1, <2>3
<1>4. /\ FirstSession(item, content) \in DOMAIN item.sessions
      /\ IsFirst(item, content, FirstSession(item, content))
  BY <1>3 DEF FirstSession, IsFirst
<1>5. \A i, j \in DOMAIN item.sessions :
        IsFirst(item, content, i) /\ IsFirst(item, content, j) => i = j
  <2>1. SUFFICES ASSUME NEW i \in DOMAIN item.sessions, NEW j \in DOMAIN item.sessions,
                        IsFirst(item, content, i), IsFirst(item, content, j)
                 PROVE  i = j
    OBVIOUS
  <2>2. DOMAIN item.sessions = 1 .. Len(item.sessions) /\ Len(item.sessions) \in Nat
    BY DEF IsItem, IsSeq
  <2>3. ~(i < j) /\ ~(j < i)
    <3>1. i < j => i \in 1 .. j - 1
      BY <2>2
    <3>2. j < i => j \in 1 .. i - 1
      BY <2>2
    <3>3. QED
      BY <2>1, <3>1, <3>2 DEF IsFirst
  <2>4. QED
    BY <2>2, <2>3
<1>6. QED
  BY <1>4, <1>5

\* A round comes from the first session with its content, and begins with the
\* turn that was ranked.
LEMMA RoundIsOwn ==
  ASSUME NEW item, IsItem(item), NEW unit, HasRound(item, unit),
         NEW s, s = FirstSession(item, unit[1])
  PROVE  /\ s \in DOMAIN item.sessions /\ IsFirst(item, unit[1], s)
         /\ Round(item, unit).date = DateOf(item, s)
         /\ \E i, j \in DOMAIN unit[1] : Round(item, unit).turns = SubSeq(unit[1], i, j)
         /\ Head(Round(item, unit).turns) = unit[1][unit[2]]
<1> DEFINE content == unit[1]  i == unit[2]
           j == IF i < Len(content) THEN i + 1 ELSE i
           S == {content[k] : k \in DOMAIN content}
<1>1. /\ s \in DOMAIN item.sessions /\ IsFirst(item, content, s)
      /\ content \in Contents(item) /\ i \in DOMAIN content
  BY FirstIsFirst DEF HasRound
<1>2. IsSeq(content) /\ Len(content) \in Nat
  BY <1>1, NeutralSeq DEF IsFirst, IsItem
<1>3. /\ Round(item, unit).date = DateOf(item, s)
      /\ Round(item, unit).turns = SubSeq(content, i, j)
  BY DEF Round, SessionDate
<1> HIDE DEF content, i, S
<1>4. content \in Seq(S) /\ DOMAIN content = 1 .. Len(content)
  BY <1>2 DEF IsSeq, S
<1>5. i \in 1 .. Len(content) /\ j \in 1 .. Len(content) /\ i <= j
  BY <1>1, <1>2, <1>4
<1> HIDE DEF j
<1>6. Head(SubSeq(content, i, j)) = content[i]
  BY <1>2, <1>4, <1>5
<1>7. \E k, l \in DOMAIN content : Round(item, unit).turns = SubSeq(content, k, l)
  BY <1>3, <1>4, <1>5
<1>8. Head(Round(item, unit).turns) = content[i]
  BY <1>3, <1>6
<1>9. QED
  BY <1>1, <1>3, <1>7, <1>8 DEF content, i

-----------------------------------------------------------------------------
(* What filtering, cutting and sorting make of a ranking. *)

\* The k-th of those kept has k - 1 others of them before it.
LEMMA PlacesListed ==
  ASSUME NEW list, IsSeq(list), NEW I \in SUBSET DOMAIN list
  PROVE  /\ Cardinality(I) \in Nat
         /\ Listed(I) \in [1 .. Cardinality(I) -> I]
         /\ \A i, j \in 1 .. Cardinality(I) : i < j => Listed(I)[i] < Listed(I)[j]
         /\ \A x \in I : \E i \in 1 .. Cardinality(I) : Listed(I)[i] = x
         /\ \A k \in 1 .. Cardinality(I) : Cardinality({x \in I : x < Listed(I)[k]}) = k - 1
         /\ \A k \in 1 .. Cardinality(I) : AtPlaces(list, I)[k] = list[Listed(I)[k]]
<1>1. DOMAIN list = 1 .. Len(list) /\ Len(list) \in Nat
  BY DEF IsSeq
<1>2. I \in SUBSET Nat /\ IsFiniteSet(I)
  <2>1. IsFiniteSet(1 .. Len(list))
    BY <1>1, FS_Interval
  <2>2. QED
    BY <1>1, <2>1, FS_Subset
<1>3. \A k \in 1 .. Cardinality(I) : AtPlaces(list, I)[k] = list[Listed(I)[k]]
  BY DEF AtPlaces
<1>4. QED
  BY <1>2, <1>3, ListedIsListing

\* p brings the n rounds in the order in which ByDate has them.
OrdersByDate(p, n, rounds) ==
  /\ p \in [1 .. n -> 1 .. n]
  /\ \A i \in 1 .. n : \E k \in 1 .. n : p[k] = i
  /\ \A k \in 1 .. n : ByDate(rounds)[k] = rounds[p[k]]
  /\ \A l, k \in 1 .. n : l < k =>
       \/ rounds[p[l]].date < rounds[p[k]].date
       \/ rounds[p[l]].date = rounds[p[k]].date /\ p[l] < p[k]

LEMMA ByDateSorts ==
  ASSUME NEW n \in Nat, NEW rounds, DOMAIN rounds = 1 .. n,
         \A k \in 1 .. n : rounds[k].date \in Nat
  PROVE  /\ DOMAIN ByDate(rounds) = 1 .. n
         /\ \E p : OrdersByDate(p, n, rounds)
<1> DEFINE places == 1 .. n
           Before == {x \in places \X places :
                        \/ rounds[x[1]].date < rounds[x[2]].date
                        \/ rounds[x[1]].date = rounds[x[2]].date /\ x[1] < x[2]}
           p == Sorted(places, Before)
<1>1. \A i, j \in places : <<i, j>> \in Before <=>
        \/ rounds[i].date < rounds[j].date
        \/ rounds[i].date = rounds[j].date /\ i < j
  OBVIOUS
<1>2. ByDate(rounds) = [k \in places |-> rounds[p[k]]]
  BY DEF ByDate
<1> HIDE DEF Before
<1>3. Orders(Before, places)
  <2> DEFINE Precedes(i, j) == \/ rounds[i].date < rounds[j].date
                               \/ rounds[i].date = rounds[j].date /\ i < j
  <2>1. \A i \in places : ~Precedes(i, i)
    OBVIOUS
  <2>2. \A i, j \in places : i # j => Precedes(i, j) \/ Precedes(j, i)
    OBVIOUS
  <2>3. \A i, j, k \in places : Precedes(i, j) /\ Precedes(j, k) => Precedes(i, k)
    OBVIOUS
  <2>4. \A i, j \in places : <<i, j>> \in Before <=> Precedes(i, j)
    BY <1>1
  <2> HIDE DEF Precedes, places
  <2>5. QED
    BY <2>1, <2>2, <2>3, <2>4 DEF Orders
<1>4. IsFiniteSet(places) /\ Cardinality(places) = n
  BY FS_Interval
<1>5. /\ p \in [1 .. n -> places]
      /\ \A i, j \in 1 .. n : i < j => <<p[i], p[j]>> \in Before
      /\ \A x \in places : \E i \in 1 .. n : p[i] = x
  <2> HIDE DEF places
  <2>1. /\ p \in [1 .. Cardinality(places) -> places]
        /\ \A i, j \in 1 .. Cardinality(places) : i < j => <<p[i], p[j]>> \in Before
        /\ \A x \in places : \E i \in 1 .. Cardinality(places) : p[i] = x
    BY <1>3, <1>4, SortedIsSorting
  <2>2. QED
    BY <1>4, <2>1
<1> HIDE DEF p
<1>6. /\ DOMAIN ByDate(rounds) = 1 .. n
      /\ \A k \in 1 .. n : ByDate(rounds)[k] = rounds[p[k]]
  BY <1>2
<1>7. \A l, k \in 1 .. n : l < k =>
        \/ rounds[p[l]].date < rounds[p[k]].date
        \/ rounds[p[l]].date = rounds[p[k]].date /\ p[l] < p[k]
  <2>1. \A l \in 1 .. n : p[l] \in places
    BY <1>5
  <2>2. QED
    BY <1>1, <1>5, <2>1
<1>8. OrdersByDate(p, n, rounds)
  BY <1>5, <1>6, <1>7 DEF OrdersByDate
<1>9. QED
  BY <1>6, <1>8

LEMMA CutToTopK ==
  ASSUME NEW n \in Nat, NEW topK \in Nat
  PROVE  /\ AtMostTopK(n, topK) \in 0 .. n
         /\ \A k \in 1 .. n : k \in 1 .. AtMostTopK(n, topK) <=> k - 1 < topK
BY DEF AtMostTopK

\* A history is the rounds of the topK best known units, oldest first.
LEMMA ContextIsTopK ==
  ASSUME NEW item, IsItem(item), NEW ranked, IsSeq(ranked), NEW topK \in Nat,
         NEW known, known = KnownPlaces(item, ranked),
         NEW result, result = AssembleContext(item, ranked, topK)
  PROVE  \E rank \in [DOMAIN result -> known] :
           /\ {rank[k] : k \in DOMAIN result} = {i \in known : Cardinality({j \in known : j < i}) < topK}
           /\ \A k \in DOMAIN result :
                /\ result[k] = Round(item, ranked[rank[k]])
                /\ \A l \in 1 .. k - 1 :
                     \/ result[l].date < result[k].date
                     \/ result[l].date = result[k].date /\ rank[l] < rank[k]
<1> DEFINE n == Cardinality(known)
           m == AtMostTopK(n, topK)
           place == Listed(known)
           rounds == [i \in 1 .. m |-> Round(item, AtPlaces(ranked, known)[i])]
<1>1. known \in SUBSET DOMAIN ranked /\ \A i \in known : HasRound(item, ranked[i])
  BY DEF KnownPlaces
<1>2. /\ n \in Nat
      /\ place \in [1 .. n -> known]
      /\ \A i, j \in 1 .. n : i < j => place[i] < place[j]
      /\ \A x \in known : \E i \in 1 .. n : place[i] = x
      /\ \A k \in 1 .. n : Cardinality({x \in known : x < place[k]}) = k - 1
      /\ \A k \in 1 .. n : AtPlaces(ranked, known)[k] = ranked[place[k]]
  BY <1>1, PlacesListed, SMTT(30)
<1>3. /\ m \in 0 .. n
      /\ \A k \in 1 .. n : k \in 1 .. m <=> k - 1 < topK
  BY <1>2, CutToTopK
<1>4. result = ByDate(rounds)
  BY DEF AssembleContext
<1> HIDE DEF n, m, place
<1>5. m \in Nat /\ \A i \in 1 .. m : i \in 1 .. n
  BY <1>2, <1>3
<1>6. \A i \in 1 .. m : rounds[i] = Round(item, ranked[place[i]]) /\ place[i] \in known
  BY <1>2, <1>5
<1>7. \A i \in 1 .. m : rounds[i].date \in Nat
  <2>1. \A i \in 1 .. m : HasRound(item, ranked[place[i]])
    BY <1>1, <1>6
  <2>2. \A unit : HasRound(item, unit) => Round(item, unit).date \in Nat
    BY RoundIsOwn, ItemDomains
  <2>3. QED
    BY <1>6, <2>1, <2>2
<1>8. DOMAIN rounds = 1 .. m
  OBVIOUS
<1> HIDE DEF rounds
<1>9. DOMAIN result = 1 .. m
  BY <1>4, <1>5, <1>7, <1>8, ByDateSorts
<1>a. PICK p : OrdersByDate(p, m, rounds)
  BY <1>5, <1>7, <1>8, ByDateSorts
<1>10. /\ p \in [1 .. m -> 1 .. m]
       /\ \A i \in 1 .. m : \E k \in 1 .. m : p[k] = i
       /\ \A k \in 1 .. m : result[k] = rounds[p[k]]
       /\ \A l, k \in 1 .. m : l < k =>
            \/ rounds[p[l]].date < rounds[p[k]].date
            \/ rounds[p[l]].date = rounds[p[k]].date /\ p[l] < p[k]
  BY <1>4, <1>a DEF OrdersByDate
<1> DEFINE rank == [k \in 1 .. m |-> place[p[k]]]
<1>11. rank \in [1 .. m -> known]
  BY <1>6, <1>10
<1>12. \A i \in known : (\E k \in 1 .. m : rank[k] = i) <=> Cardinality({j \in known : j < i}) < topK
  <2>1. SUFFICES ASSUME NEW i \in known
                 PROVE  (\E k \in 1 .. m : rank[k] = i) <=> Cardinality({j \in known : j < i}) < topK
    OBVIOUS
  <2>2. PICK a \in 1 .. n : place[a] = i
    BY <1>2
  <2>3. Cardinality({j \in known : j < i}) = a - 1
    BY <1>2, <2>2
  <2>4. a \in 1 .. m <=> a - 1 < topK
    BY <1>3
  <2>5. a \in 1 .. m => \E k \in 1 .. m : rank[k] = i
    BY <1>10, <2>2
  <2>6. ASSUME NEW k \in 1 .. m, rank[k] = i PROVE a \in 1 .. m
    <3>1. p[k] \in 1 .. m /\ p[k] \in 1 .. n /\ place[p[k]] = place[a]
      BY <1>5, <1>10, <2>2, <2>6
    <3>2. place[p[k]] \in Nat
      <4>1. DOMAIN ranked \in SUBSET Nat
        BY DEF IsSeq
      <4>2. QED
        BY <1>1, <1>2, <3>1, <4>1
    <3>3. ~(p[k] < a) /\ ~(a < p[k])
      BY <1>2, <3>1, <3>2
    <3>4. p[k] = a
      BY <1>2, <3>1, <3>3
    <3>5. QED
      BY <3>1, <3>4
  <2>7. QED
    BY <2>3, <2>4, <2>5, <2>6
<1>13. \A k \in 1 .. m : result[k] = Round(item, ranked[rank[k]])
  BY <1>6, <1>10
<1>14. \A k \in 1 .. m : \A l \in 1 .. k - 1 :
         \/ result[l].date < result[k].date
         \/ result[l].date = result[k].date /\ rank[l] < rank[k]
  <2>1. SUFFICES ASSUME NEW k \in 1 .. m, NEW l \in 1 .. k - 1
                 PROVE  \/ result[l].date < result[k].date
                        \/ result[l].date = result[k].date /\ rank[l] < rank[k]
    OBVIOUS
  <2>2. l \in 1 .. m /\ l < k
    BY <1>5, <2>1
  <2>3. p[l] \in 1 .. n /\ p[k] \in 1 .. n
    BY <1>5, <1>10, <2>2
  <2>4. p[l] < p[k] => place[p[l]] < place[p[k]]
    BY <1>2, <2>3
  <2>5. rank[l] = place[p[l]] /\ rank[k] = place[p[k]]
    BY <2>2
  <2>6. result[l] = rounds[p[l]] /\ result[k] = rounds[p[k]]
    BY <1>10, <2>2
  <2>7. \/ rounds[p[l]].date < rounds[p[k]].date
        \/ rounds[p[l]].date = rounds[p[k]].date /\ p[l] < p[k]
    BY <1>10, <2>2
  <2>8. QED
    BY <2>4, <2>5, <2>6, <2>7
<1> HIDE DEF rank
<1>15. {rank[k] : k \in 1 .. m} = {i \in known : Cardinality({j \in known : j < i}) < topK}
  BY <1>11, <1>12
<1>16. rank \in [DOMAIN result -> known]
  BY <1>9, <1>11
<1>17. /\ {rank[k] : k \in DOMAIN result} = {i \in known : Cardinality({j \in known : j < i}) < topK}
       /\ \A k \in DOMAIN result :
            /\ result[k] = Round(item, ranked[rank[k]])
            /\ \A l \in 1 .. k - 1 :
                 \/ result[l].date < result[k].date
                 \/ result[l].date = result[k].date /\ rank[l] < rank[k]
  BY <1>9, <1>13, <1>14, <1>15
<1>18. QED
  BY Zenon, <1>16, <1>17

\* What an adapter and a reader are given is told by the public part alone.
LEMMA PublicIsEnough ==
  ASSUME NEW a, IsItem(a), NEW b, IsItem(b), Public(a) = Public(b)
  PROVE  /\ CorpusOf(a) = CorpusOf(b)
         /\ \A ranked, topK : IsSeq(ranked) /\ topK \in Nat =>
              AssembleContext(a, ranked, topK) = AssembleContext(b, ranked, topK)
<1>1. /\ DOMAIN a.sessions = DOMAIN b.sessions /\ a.dates = b.dates
      /\ \A s \in DOMAIN a.sessions : NeutralSession(a.sessions[s]) = NeutralSession(b.sessions[s])
  <2>1. /\ Public(a).dates = a.dates /\ Public(b).dates = b.dates
        /\ Public(a).sessions = [s \in DOMAIN a.sessions |-> NeutralSession(a.sessions[s])]
        /\ Public(b).sessions = [s \in DOMAIN b.sessions |-> NeutralSession(b.sessions[s])]
    BY DEF Public
  <2>2. QED
    BY <2>1
<1>2. \A s : DateOf(a, s) = DateOf(b, s)
  BY <1>1 DEF DateOf
<1>3. CorpusOf(a) = CorpusOf(b)
  <2>1. ASSUME NEW s \in DOMAIN a.sessions
        PROVE  SessionTurns(a, s) = SessionTurns(b, s)
    <3>1. UserTurns(a.sessions[s]) = UserTurns(b.sessions[s])
      BY <1>1, NeutralFacts
    <3>2. QED
      BY <1>1, <1>2, <3>1 DEF SessionTurns
  <2>2. [s \in DOMAIN a.sessions |-> SessionTurns(a, s)]
          = [s \in DOMAIN b.sessions |-> SessionTurns(b, s)]
    BY <1>1, <2>1
  <2>3. QED
    BY <2>2 DEF CorpusOf
<1>4. Contents(a) = Contents(b)
  BY <1>1 DEF Contents
<1>5. \A unit : HasRound(a, unit) <=> HasRound(b, unit)
  BY <1>4 DEF HasRound
<1>6. ASSUME NEW unit, HasRound(a, unit) PROVE Round(a, unit) = Round(b, unit)
  <2> DEFINE s == FirstSession(a, unit[1])
  <2>1. unit[1] \in Contents(a) /\ unit[1] \in Contents(b)
    BY <1>4, <1>6 DEF HasRound
  <2>2. s \in DOMAIN a.sessions /\ IsFirst(a, unit[1], s)
    BY <2>1, FirstIsFirst
  <2>3. IsFirst(b, unit[1], s)
    BY <1>1, <2>2, ItemDomains DEF IsFirst
  <2>4. s = FirstSession(b, unit[1])
    BY <1>1, <2>1, <2>2, <2>3, FirstIsFirst
  <2>5. SessionDate(a, unit[1]) = SessionDate(b, unit[1])
    BY <1>2, <2>4 DEF SessionDate
  <2>6. QED
    BY <2>5 DEF Round
<1>7. ASSUME NEW ranked, IsSeq(ranked), NEW topK \in Nat
      PROVE  AssembleContext(a, ranked, topK) = AssembleContext(b, ranked, topK)
  <2> DEFINE places == KnownPlaces(a, ranked)
             n == Cardinality(places)
             m == AtMostTopK(n, topK)
             known == AtPlaces(ranked, places)
  <2>1. KnownPlaces(b, ranked) = places
    BY <1>5 DEF KnownPlaces
  <2>2. places \in SUBSET DOMAIN ranked /\ \A i \in places : HasRound(a, ranked[i])
    BY DEF KnownPlaces
  <2>3. n \in Nat /\ \A k \in 1 .. n : HasRound(a, known[k])
    <3>1. /\ n \in Nat /\ Listed(places) \in [1 .. n -> places]
          /\ \A k \in 1 .. n : known[k] = ranked[Listed(places)[k]]
      BY <1>7, <2>2, PlacesListed
    <3>2. QED
      BY <2>2, <3>1
  <2>4. \A k \in 1 .. m : k \in 1 .. n
    BY <1>7, <2>3, CutToTopK
  <2> HIDE DEF n, m, known
  <2>5. [k \in 1 .. m |-> Round(a, known[k])] = [k \in 1 .. m |-> Round(b, known[k])]
    BY <1>6, <2>3, <2>4
  <2>6. /\ AssembleContext(a, ranked, topK) = ByDate([k \in 1 .. m |-> Round(a, known[k])])
        /\ AssembleContext(b, ranked, topK) = ByDate([k \in 1 .. m |-> Round(b, known[k])])
    BY <2>1 DEF AssembleContext, n, m, known
  <2>7. QED
    BY <2>5, <2>6
<1>8. QED
  BY <1>3, <1>7

-----------------------------------------------------------------------------
(* What is held, read and recorded. *)

OwnRound(item, round) ==
  \E s \in DOMAIN item.sessions :
    LET content == NeutralSession(item.sessions[s])
    IN  /\ \E i, j \in DOMAIN content : round.turns = SubSeq(content, i, j)
        /\ round.date = DateOf(item, s)
        /\ \A earlier \in 1 .. s - 1 : NeutralSession(item.sessions[earlier]) # content

OwnId(item, official) ==
  \E s \in DOMAIN item.sessions :
    LET id == item.ids[s]  session == item.sessions[s]
    IN  /\ official.session = id.name /\ official.turn \in DOMAIN session
        /\ session[official.turn].role = "user"
        /\ official.noans = (id.answer /\ ~session[official.turn].evidence)
        /\ \A earlier \in 1 .. s - 1 :
             NeutralSession(item.sessions[earlier]) # NeutralSession(session)

Own(item, record) ==
  /\ \A r \in DOMAIN record.read : OwnRound(item, record.read[r])
  /\ \A r \in DOMAIN record.ranked : OwnId(item, record.ranked[r])

\* The corpus and the history at hand are those of the question at hand.
InHand ==
  /\ pc \in {"ingesting", "search", "assemble"} => held = CorpusOf(Item)
  /\ pc \in {"search", "assemble"} => status = "ready"
  /\ pc = "read" => context = AssembleContext(Item, answer, TopK)
  /\ pc = "judge" => hypothesis = AssembleContext(Item, answer, TopK)

Recorded == \A k \in 1 .. q - 1 : Own(dataset[k], records[k])

QInv == InHand /\ Recorded

LEMMA HistoryIsOwn ==
  ASSUME NEW item, IsItem(item), NEW ranked, IsSeq(ranked), NEW topK \in Nat
  PROVE  LET history == AssembleContext(item, ranked, topK)
         IN  \A r \in DOMAIN history : OwnRound(item, history[r])
<1> DEFINE history == AssembleContext(item, ranked, topK)
           known == KnownPlaces(item, ranked)
<1>1. PICK rank \in [DOMAIN history -> known] :
        \A k \in DOMAIN history : history[k] = Round(item, ranked[rank[k]])
  BY ContextIsTopK
<1> HIDE DEF history
<1>2. ASSUME NEW k \in DOMAIN history PROVE OwnRound(item, history[k])
  <2> DEFINE unit == ranked[rank[k]]  s == FirstSession(item, unit[1])
  <2>1. HasRound(item, unit)
    BY <1>1 DEF KnownPlaces
  <2>2. /\ s \in DOMAIN item.sessions /\ IsFirst(item, unit[1], s)
        /\ Round(item, unit).date = DateOf(item, s)
        /\ \E i, j \in DOMAIN unit[1] : Round(item, unit).turns = SubSeq(unit[1], i, j)
    BY <2>1, RoundIsOwn
  <2>3. history[k] = Round(item, unit)
    BY <1>1
  <2> HIDE DEF unit, s
  <2>4. QED
    BY <2>2, <2>3 DEF OwnRound, IsFirst
<1>3. QED
  BY <1>2 DEF history

LEMMA IdIsOwn ==
  ASSUME NEW item, IsItem(item), NEW unit \in DOMAIN IdMap(item)
  PROVE  OwnId(item, IdMap(item)[unit])
<1> DEFINE s == FirstSession(item, unit[1])
           i == unit[2]
           official == OfficialCorpusId(item.ids[s], i, item.sessions[s][i].evidence)
<1>1. IdMap(item)[unit] = official
  BY DEF IdMap
<1>2. PICK r \in DOMAIN item.sessions :
        \E j \in UserTurns(item.sessions[r]) : unit = NeutralUnit(NeutralSession(item.sessions[r]), j)
  BY DEF IdMap
<1>3. /\ unit[1] = NeutralSession(item.sessions[r])
      /\ i \in UserTurns(item.sessions[r])
  BY <1>2 DEF NeutralUnit
<1>4. /\ s \in DOMAIN item.sessions /\ NeutralSession(item.sessions[s]) = unit[1]
      /\ \A earlier \in 1 .. s - 1 : NeutralSession(item.sessions[earlier]) # unit[1]
  BY <1>3, FirstIsFirst DEF Contents, IsFirst
<1>5. i \in UserTurns(item.sessions[s])
  BY <1>3, <1>4, NeutralFacts
<1>6. /\ official.session = item.ids[s].name /\ official.turn = i
      /\ official.noans = (item.ids[s].answer /\ ~item.sessions[s][i].evidence)
  BY DEF OfficialCorpusId
<1> HIDE DEF s, i, official
<1>7. i \in DOMAIN item.sessions[s] /\ item.sessions[s][i].role = "user"
  BY <1>5 DEF UserTurns
<1>8. OwnId(item, official)
  BY <1>4, <1>6, <1>7, Zenon DEF OwnId
<1>9. QED
  BY <1>1, <1>8

LEMMA IdsAreOwn ==
  ASSUME NEW item, IsItem(item), NEW ranked, IsSeq(ranked)
  PROVE  LET official == RankedOfficial(item, ranked)
         IN  \A r \in DOMAIN official : OwnId(item, official[r])
<1> DEFINE official == RankedOfficial(item, ranked)
           places == {i \in DOMAIN ranked : ranked[i] \in DOMAIN IdMap(item)}
           n == Cardinality(places)
           known == AtPlaces(ranked, places)
<1>1. official = [k \in 1 .. n |-> IdMap(item)[known[k]]]
  BY DEF RankedOfficial
<1>2. places \in SUBSET DOMAIN ranked /\ \A i \in places : ranked[i] \in DOMAIN IdMap(item)
  OBVIOUS
<1> HIDE DEF places, official
<1>3. \A k \in 1 .. n : known[k] \in DOMAIN IdMap(item)
  <2>1. /\ Listed(places) \in [1 .. n -> places]
        /\ \A k \in 1 .. n : known[k] = ranked[Listed(places)[k]]
    BY <1>2, PlacesListed
  <2>2. QED
    BY <1>2, <2>1
<1> HIDE DEF n, known
<1>4. \A k \in DOMAIN official : OwnId(item, official[k])
  BY <1>1, <1>3, IdIsOwn
<1>5. QED
  BY <1>4 DEF official

\* Between the first question's ingest and the last one's judgment.
LEMMA AskedItem ==
  ASSUME IInv, pc \in Asking
  PROVE  q \in DOMAIN dataset /\ dataset \in Datasets /\ IsItem(Item)
<1>1. /\ dataset \in Datasets /\ q \in 1 .. questions + 1
      /\ questions \in 0 .. Len(dataset) /\ q <= questions
  BY DEF IInv, TypeOK, Loop
<1>2. Len(dataset) \in Nat /\ DOMAIN dataset = 1 .. Len(dataset)
  BY <1>1, DatasetLength
<1>3. q \in DOMAIN dataset
  BY <1>1, <1>2
<1>4. QED
  BY <1>1, <1>3, DatasetAssumption DEF Item

LEMMA QNextHolds == IInv /\ QInv /\ [Next]_vars => QInv'
<1> SUFFICES ASSUME IInv, QInv, [Next]_vars PROVE QInv'
  OBVIOUS
<1>0. InHand /\ Recorded /\ IsSeq(answer) /\ IsSeq(records) /\ Len(records) = q - 1
      /\ q \in Nat /\ q >= 1 /\ Loop
  <2>1. TypeOK /\ Sequences /\ Loop
    BY DEF IInv
  <2>2. questions \in Nat
    BY <2>1, DatasetLength DEF TypeOK
  <2>3. QED
    BY <2>1, <2>2 DEF QInv, TypeOK, Sequences
<1> USE DEF Goto
\* Most steps leave the records alone and what is at hand alone or behind.
<1>1. ASSUME UNCHANGED <<dataset, q, records>>
      PROVE  Recorded'
  BY <1>0, <1>1 DEF Recorded
<1>2. ASSUME UNCHANGED <<dataset, q, records>>,
             pc' \notin {"ingesting", "search", "assemble", "read", "judge"}
      PROVE  QInv'
  BY <1>1, <1>2 DEF QInv, InHand
<1>3. CASE LoadQuestions
  <2>1. UNCHANGED <<dataset, q, records>> /\ pc' \in {"failed", "close", "ingest"}
    BY <1>0, <1>3 DEF LoadQuestions, Loop
  <2>2. QED
    BY <1>2, <2>1
<1>4. CASE IngestBegins
  <2>1. /\ UNCHANGED <<dataset, q, records>> /\ pc' = "ingesting"
        /\ held' = CorpusOf(Item) /\ Item' = Item
    BY <1>4 DEF IngestBegins, loopVars, Memory!Begin, Item
  <2>2. InHand'
    BY <2>1 DEF InHand
  <2>3. QED
    BY <1>1, <2>1, <2>2 DEF QInv
<1>5. CASE IngestReturns
  <2>1. /\ UNCHANGED <<dataset, q, records>> /\ pc = "ingesting" /\ pc' = "search"
        /\ status' = "ready" /\ held' = held /\ Item' = Item
    BY <1>5 DEF IngestReturns, loopVars, Memory!Take, Item
  <2>2. InHand'
    BY <1>0, <2>1 DEF InHand
  <2>3. QED
    BY <1>1, <2>1, <2>2 DEF QInv
<1>6. CASE Search \/ CarelessSearch
  <2>1. /\ UNCHANGED <<dataset, q, records>> /\ pc = "search" /\ pc' = "assemble"
        /\ status' = status /\ held' = held /\ Item' = Item
    BY <1>6 DEF Search, CarelessSearch, loopVars, Memory!Search, Item
  <2>2. InHand'
    BY <1>0, <2>1 DEF InHand
  <2>3. QED
    BY <1>1, <2>1, <2>2 DEF QInv
<1>7. CASE Assemble
  <2>1. /\ UNCHANGED <<dataset, q, records>> /\ pc' = "read" /\ answer' = answer
        /\ context' = AssembleContext(Item, answer, TopK) /\ Item' = Item
    BY <1>7 DEF Assemble, loopVars, adapterVars, Item
  <2>2. InHand'
    BY <2>1 DEF InHand
  <2>3. QED
    BY <1>1, <2>1, <2>2 DEF QInv
<1>8. CASE Read
  <2>1. /\ UNCHANGED <<dataset, q, records>> /\ pc = "read" /\ pc' = "judge" /\ answer' = answer
        /\ hypothesis' = context /\ Item' = Item
    BY <1>8 DEF Read, loopVars, adapterVars, Item
  <2>2. InHand'
    BY <1>0, <2>1 DEF InHand
  <2>3. QED
    BY <1>1, <2>1, <2>2 DEF QInv
<1>9. CASE Judge
  <2>1. /\ dataset' = dataset /\ q' = q + 1 /\ records' = Append(records, Record)
        /\ pc = "judge" /\ pc' \in {"ingest", "close"}
    BY <1>9 DEF Judge
  <2>2. /\ \A k \in 1 .. q - 1 : Append(records, Record)[k] = records[k]
        /\ Append(records, Record)[q] = Record
    <3>1. Len(records) + 1 = q
      BY <1>0
    <3>2. QED
      BY <1>0, <3>1, AppendSeq
  <2>3. IsItem(Item)
    BY <2>1, AskedItem DEF Asking
  <2>4. Own(Item, Record)
    <3>1. /\ Record.read = AssembleContext(Item, answer, TopK)
          /\ Record.ranked = RankedOfficial(Item, answer)
      BY <1>0, <2>1 DEF Record, InHand
    <3>2. QED
      BY <1>0, <2>3, <3>1, HistoryIsOwn, IdsAreOwn, LimitsAssumption DEF Own
  <2>5. \A k \in 1 .. (q + 1) - 1 : Own(dataset[k], Append(records, Record)[k])
    <3>1. SUFFICES ASSUME NEW k \in 1 .. q PROVE Own(dataset[k], Append(records, Record)[k])
      BY <1>0
    <3>2. CASE k = q
      BY <2>2, <2>4, <3>2 DEF Item
    <3>3. CASE k # q
      <4>1. k \in 1 .. q - 1
        BY <1>0, <3>3
      <4>2. QED
        BY <1>0, <2>2, <4>1 DEF Recorded
    <3>4. QED
      BY <3>2, <3>3
  <2>6. Recorded'
    BY <2>1, <2>5 DEF Recorded
  <2>7. QED
    BY <2>1, <2>6 DEF QInv, InHand
<1>10. CASE Raise \/ CloseAdapter \/ CloseAdapterRaises \/ WriteLog \/ Emit \/ WriteRaises
  <2>1. /\ UNCHANGED <<dataset, q, records>>
        /\ pc' \in {"close", "failed", "log", "emit", "done"}
    BY <1>10 DEF Raise, CloseAdapter, CloseAdapterRaises, WriteLog, Emit, WriteRaises, loopVars
  <2>2. QED
    BY <1>2, <2>1
<1>11. CASE UNCHANGED vars
  <2>1. /\ UNCHANGED <<dataset, q, records>> /\ pc' = pc /\ status' = status
        /\ held' = held /\ answer' = answer
        /\ context' = context /\ hypothesis' = hypothesis /\ Item' = Item
    BY <1>11 DEF vars, loopVars, adapterVars, readVars, Item
  <2>2. InHand'
    BY <1>0, <2>1 DEF InHand
  <2>3. QED
    BY <1>1, <2>1, <2>2 DEF QInv
<1>12. QED
  BY <1>3, <1>4, <1>5, <1>6, <1>7, <1>8, <1>9, <1>10, <1>11 DEF Next

LEMMA QInvariant == Spec => []QInv
<1>1. Init => QInv
  BY DEF Init, QInv, InHand, Recorded
<1>2. QED
  BY <1>1, Invariant, QNextHolds, PTL DEF Spec

(***************************************************************************)
(* The leakage guard, for any two items of any datasets: when they differ  *)
(* in session ids and evidence flags only, the adapter is given the same   *)
(* corpus for both, and the reader the same history for the same ranking.  *)
(***************************************************************************)
THEOREM NothingLeaks == Spec => []EvidenceIsInvisible
<1>1. IInv /\ QInv => EvidenceIsInvisible
  <2> SUFFICES ASSUME IInv, QInv, NEW twins \in Datasets, NEW k \in DOMAIN twins,
                      q \in DOMAIN dataset, Public(twins[k]) = Public(Item)
               PROVE  /\ pc = "search" => held = CorpusOf(twins[k])
                      /\ pc = "read" => context = AssembleContext(twins[k], answer, TopK)
    BY DEF EvidenceIsInvisible
  <2>1. IsItem(twins[k])
    BY DatasetAssumption
  <2>2. IsSeq(answer) /\ InHand /\ dataset \in Datasets
    BY DEF IInv, Sequences, QInv, TypeOK
  <2>3. IsItem(Item)
    BY <2>2, DatasetAssumption DEF Item
  <2>4. /\ CorpusOf(Item) = CorpusOf(twins[k])
        /\ AssembleContext(Item, answer, TopK) = AssembleContext(twins[k], answer, TopK)
    BY <2>1, <2>2, <2>3, PublicIsEnough, LimitsAssumption
  <2>5. QED
    BY <2>2, <2>4 DEF InHand
<1>2. QED
  BY <1>1, Invariant, QInvariant, PTL

(***************************************************************************)
(* Whatever raised before, whatever the adapter ranks and however sessions *)
(* repeat, a question is searched in its own corpus, ingested whole, and   *)
(* every recorded round is cut from a session of that question's own       *)
(* haystack and dated as its first copy.                                   *)
(***************************************************************************)
THEOREM HaystacksAreOwn == Spec => []AnsweredFromOwnHaystack
<1>1. IInv /\ QInv => AnsweredFromOwnHaystack
  <2> SUFFICES ASSUME IInv, QInv PROVE AnsweredFromOwnHaystack
    OBVIOUS
  <2>1. DOMAIN records = 1 .. q - 1
    BY DEF IInv, TypeOK, Sequences, IsSeq
  <2>2. pc = "assemble" => held = CorpusOf(Item) /\ status = "ready"
    BY DEF QInv, InHand
  <2>3. \A k \in DOMAIN records : records[k].id = dataset[k].id
    BY <2>1 DEF IInv, InOrder
  <2>4. \A k \in DOMAIN records : \A r \in DOMAIN records[k].read :
          OwnRound(dataset[k], records[k].read[r])
    BY <2>1 DEF QInv, Recorded, Own
  <2>5. QED
    BY <2>2, <2>3, <2>4 DEF AnsweredFromOwnHaystack, OwnRound
<1>2. QED
  BY <1>1, Invariant, QInvariant, PTL

(***************************************************************************)
(* For any top_k and any ranking, with unknown units, with repeats or with *)
(* more units than asked for, the history is the top_k best known turns,   *)
(* each with what follows it, oldest first and of one date best first.     *)
(***************************************************************************)
THEOREM HistoryKeepsTheBest == Spec => []HistoryIsTopK
<1>1. IInv /\ QInv => HistoryIsTopK
  <2> DEFINE known == {i \in DOMAIN answer : /\ answer[i][1] \in Contents(Item)
                                             /\ answer[i][2] \in DOMAIN answer[i][1]}
  <2> SUFFICES ASSUME IInv, QInv, pc = "read"
               PROVE  \E rank \in [DOMAIN context -> known] :
                        /\ {rank[k] : k \in DOMAIN context}
                             = {i \in known : Cardinality({j \in known : j < i}) < TopK}
                        /\ \A k \in DOMAIN context :
                             /\ Head(context[k].turns) = answer[rank[k]][1][answer[rank[k]][2]]
                             /\ \A l \in 1 .. k - 1 :
                                  \/ context[l].date < context[k].date
                                  \/ context[l].date = context[k].date /\ rank[l] < rank[k]
    BY DEF HistoryIsTopK
  <2>1. /\ IsSeq(answer) /\ IsItem(Item) /\ TopK \in Nat
        /\ context = AssembleContext(Item, answer, TopK)
    BY AskedItem, LimitsAssumption DEF IInv, Sequences, QInv, InHand, Asking
  <2>2. known = KnownPlaces(Item, answer)
    BY DEF KnownPlaces, HasRound
  <2> HIDE DEF known
  <2>3. PICK rank \in [DOMAIN context -> known] :
          /\ {rank[k] : k \in DOMAIN context}
               = {i \in known : Cardinality({j \in known : j < i}) < TopK}
          /\ \A k \in DOMAIN context :
               /\ context[k] = Round(Item, answer[rank[k]])
               /\ \A l \in 1 .. k - 1 :
                    \/ context[l].date < context[k].date
                    \/ context[l].date = context[k].date /\ rank[l] < rank[k]
    BY <2>1, <2>2, ContextIsTopK
  <2>4. \A k \in DOMAIN context :
          Head(context[k].turns) = answer[rank[k]][1][answer[rank[k]][2]]
    <3>1. \A i \in known : HasRound(Item, answer[i])
      BY <2>2 DEF KnownPlaces
    <3>2. \A i \in known : Head(Round(Item, answer[i]).turns) = answer[i][1][answer[i][2]]
      BY <2>1, <3>1, RoundIsOwn
    <3>3. QED
      BY <2>3, <3>2
  <2>5. QED
    BY <2>3, <2>4
<1>2. QED
  BY <1>1, Invariant, QInvariant, PTL

(***************************************************************************)
(* Every official id that is recorded names a user turn of its question    *)
(* and says "noans" for the turns without evidence of answer sessions and  *)
(* for no others, however sessions and ids repeat.                         *)
(***************************************************************************)
THEOREM RecordedIdsAreGenuine == Spec => []OfficialIdsAreGenuine
<1>1. IInv /\ QInv => OfficialIdsAreGenuine
  <2> SUFFICES ASSUME IInv, QInv PROVE OfficialIdsAreGenuine
    OBVIOUS
  <2>1. DOMAIN records = 1 .. q - 1
    BY DEF IInv, TypeOK, Sequences, IsSeq
  <2>2. \A k \in DOMAIN records : \A r \in DOMAIN records[k].ranked :
          OwnId(dataset[k], records[k].ranked[r])
    BY <2>1 DEF QInv, Recorded, Own
  <2>3. QED
    BY <2>2 DEF OfficialIdsAreGenuine, OwnId
<1>2. QED
  BY <1>1, Invariant, QInvariant, PTL
=============================================================================
