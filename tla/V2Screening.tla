---------------------------- MODULE V2Screening ----------------------------
(***************************************************************************)
(* runners/longmemeval_v2/run.py: one invocation, from its flags to its    *)
(* exit code, with the harness it spawns and the memories that makes, the  *)
(* log of runners/longmemeval_v2/retrieval_log.py and its diff.  The       *)
(* output directory may hold what an earlier invocation left in it.  The   *)
(* harness is external: for each question it makes a memory, calls it as   *)
(* it likes and may write a row; its exit code proves nothing.  Assumed of *)
(* it: with its first row it writes the file of rows anew (the runner      *)
(* could not tell it from one that appends to the rows of an earlier run,  *)
(* unless a question came twice).                                          *)
(***************************************************************************)
EXTENDS EngravaMemoryV2, RetrievalDiff

CONSTANTS
  Questions,   \* the questions file: ids, each with its haystack
  SmokeLimit,  \* --smoke-limit
  MaxCalls,    \* bound: inserts and queries per question, for TLC
  MaxRows,     \* bound: rows the harness writes, for TLC
  KeyOf,       \* text -> item_key of an item with that text
  OldRows,     \* prompt rows that an earlier invocation left
  OldLog,      \* the retrieval log that an earlier invocation left
  Baselines,   \* stored retrieval logs that --baseline may name
  NoFile,      \* there is no such file
  Torn         \* a file whose write was cut short

\* Ids and haystacks come from the questions file; states are numbered, and
\* their texts are formatted contexts.
ASSUME QuestionsAssumption ==
  /\ SmokeLimit \in Nat /\ MaxCalls \in Nat /\ MaxRows \in Nat
  /\ IsSeq(Questions)
  /\ \A k \in DOMAIN Questions : \A t \in Questions[k].haystack :
       DOMAIN t.states \subseteq Nat /\ \A i \in DOMAIN t.states : t.states[i].text \in Texts

\* A stored log that is read is a mapping to lists.
ASSUME BaselinesAssumption == \A stored \in Baselines : \A id \in DOMAIN stored : IsSeq(stored[id])

VARIABLES
  step,        \* how far main() is
  mode,        \* --mode
  asked,       \* the questions the harness is given
  command,     \* the backend and the reader the harness is told of
  turn, calls, \* the question the harness is at, its calls for it
  rows,        \* what this harness has written to prompt_rows.jsonl
  promptRows,  \* the file: its rows, and whether it is newer than the start
  tmp, log,    \* retrieval_log.json.tmp and retrieval_log.json
  against,     \* the log the diff was made against
  verdict, exit

runVars == <<mode, asked, command>>
harnessVars == <<turn, calls, rows, promptRows>>
logVars == <<tmp, log>>
endVars == <<against, verdict>>
vars == <<memoryVars, step, runVars, harnessVars, logVars, endVars, exit>>

Modes == {"smoke", "plumbing", "retrieval", "score"}

LocalModes == {"smoke", "plumbing"}

Backend(name) == [name |-> name, padded |-> FALSE]

NotStarted == [backend |-> Backend("none"), reader |-> FALSE]

Init ==
  /\ MemoryInit
  /\ step = "start" /\ mode = "none" /\ asked = <<>> /\ command = NotStarted
  /\ turn = 1 /\ calls = 0 /\ rows = <<>>
  /\ promptRows \in {NoFile, [rows |-> OldRows, current |-> FALSE]}
  /\ tmp = NoFile /\ log \in {NoFile, OldLog}
  /\ against = NoFile /\ verdict = "none" /\ exit = 0

To(from, to) == step = from /\ step' = to

Ends(from, code) == To(from, "done") /\ exit' = code

-----------------------------------------------------------------------------
(* main, up to the launch of the harness *)

Precondition(m, named, harnessDir) ==
  harnessDir /\ (m = "score" => named = {"reader", "judge"})

Start ==
  /\ To("start", "subset")
  /\ mode' \in Modes
  /\ \E named \in SUBSET {"reader", "judge"} : Precondition(mode', named, TRUE)
  /\ UNCHANGED <<memoryVars, asked, command, harnessVars, logVars, endVars, exit>>

(* No --mode, no checkout of the harness, or a score without its models. *)
Refuse ==
  /\ Ends("start", 2)
  /\ \E m \in Modes, named \in SUBSET {"reader", "judge"}, harnessDir \in BOOLEAN :
       ~Precondition(m, named, harnessDir)
  /\ UNCHANGED <<memoryVars, runVars, harnessVars, logVars, endVars>>

(* The smoke subset is the head of the questions; it may be malformed. *)
Subset ==
  /\ To("subset", "config")
  /\ asked' = IF mode = "smoke" /\ SmokeLimit < Len(Questions)
              THEN SubSeq(Questions, 1, SmokeLimit) ELSE Questions
  /\ UNCHANGED <<memoryVars, mode, command, harnessVars, logVars, endVars, exit>>

SubsetRaises ==
  /\ Ends("subset", 1)
  /\ mode = "smoke"
  /\ UNCHANGED <<memoryVars, runVars, harnessVars, logVars, endVars>>

(* The backend of the config that is written when none is given. *)
Written(m) == Backend(IF m \in LocalModes THEN "deterministic" ELSE "openai-compatible")

(* The backends a given config may name, one of them between blanks. *)
Given ==
  {Backend("deterministic"), Backend("openai-compatible"), Backend("other"),
   [name |-> "deterministic", padded |-> TRUE]}

\* Mutant: only the offline modes check the given config.
LocalMatches(given) == mode \in LocalModes => given = Backend("deterministic")

(* _require_config_matches_mode: the name as it stands, blanks and all. *)
Matches(given) == (mode \in LocalModes) <=> (given = Backend("deterministic"))

(* _create_embedding_provider: the name without its blanks; of a backend   *)
(* it does not know no memory can be made.                                 *)
Provider(backend) ==
  CASE backend.name = "deterministic" -> "deterministic"
    [] backend.name = "openai-compatible" -> "real"
    [] OTHER -> "none"

(* No config is given and the mode's own is written, or one is given.      *)
Launch ==
  /\ To("config", "harness")
  /\ \E backend \in {Written(mode)} \cup {given \in Given : Matches(given)} :
       command' = [backend |-> backend, reader |-> mode = "score"]
  /\ UNCHANGED <<memoryVars, mode, asked, harnessVars, logVars, endVars, exit>>

RefuseConfig ==
  /\ Ends("config", 2)
  /\ \E given \in Given : ~Matches(given)
  /\ UNCHANGED <<memoryVars, runVars, harnessVars, logVars, endVars>>

-----------------------------------------------------------------------------
(* The harness, a process of its own *)

AtTurn == step = "harness" /\ turn \in DOMAIN asked /\ Provider(command.backend) # "none"

HarnessCalls ==
  /\ AtTurn /\ calls < MaxCalls
  /\ \/ \E t \in asked[turn].haystack : Insert(t)
     \/ Query
     \/ CallInsideLoop
  /\ calls' = calls + 1
  /\ UNCHANGED <<step, runVars, turn, rows, promptRows, logVars, endVars, exit>>

MemoryRuns ==
  /\ step = "harness"
  /\ MemoryStep
  /\ UNCHANGED <<step, runVars, harnessVars, logVars, endVars, exit>>

(* The row of a question that was queried; it may lack its context. *)
HarnessWritesRow ==
  /\ AtTurn /\ pc = "idle" /\ op = "query" /\ outcome = "found" /\ Len(rows) < MaxRows
  /\ \E context \in {items, NoFile} :
       rows' = Append(rows, [id |-> asked[turn].id, context |-> context])
  /\ promptRows' = [rows |-> rows', current |-> TRUE]
  /\ CallClose
  /\ UNCHANGED <<step, runVars, turn, calls, logVars, endVars, exit>>

(* The question is given up without a row. *)
HarnessCloses ==
  /\ AtTurn
  /\ CallClose \/ CloseInsideLoop
  /\ UNCHANGED <<step, runVars, harnessVars, logVars, endVars, exit>>

(* A new memory for the next question. *)
HarnessGoesOn ==
  /\ AtTurn /\ pc = "idle" /\ op = "close"
  /\ turn' = turn + 1 /\ calls' = 0
  /\ looped' = NewMemory.looped /\ conn' = NewMemory.conn /\ known' = NewMemory.known
  /\ thoughts' = NewMemory.thoughts /\ vectors' = NewMemory.vectors /\ past' = NewMemory.past
  /\ op' = NewMemory.op /\ outcome' = NewMemory.outcome
  /\ trajectory' = NewMemory.trajectory /\ todo' = NewMemory.todo /\ items' = NewMemory.items
  /\ UNCHANGED <<pc, fresh, open, spoiled, step, runVars, rows, promptRows, logVars, endVars, exit>>

HarnessExits ==
  /\ pc = "idle"
  /\ IF mode = "retrieval" THEN To("harness", "handle") ELSE To("harness", "done")
  /\ UNCHANGED <<memoryVars, runVars, harnessVars, logVars, endVars, exit>>

HarnessFails ==
  /\ pc = "idle"
  /\ Ends("harness", 3)
  /\ UNCHANGED <<memoryVars, runVars, harnessVars, logVars, endVars>>

-----------------------------------------------------------------------------
(* _handle_retrieval *)

\* Mutant: the modification time is not looked at.
ExistsAtAll == promptRows # NoFile

(* The rows are there and newer than the start. *)
IsCurrent == promptRows # NoFile /\ promptRows.current

Extractable(written) ==
  /\ \A k \in DOMAIN written : written[k].context # NoFile
  /\ \A k, l \in DOMAIN written : written[k].id = written[l].id => k = l

RowOf(written, id) == CHOOSE k \in DOMAIN written : written[k].id = id

LogOf(written) ==
  [id \in {written[k].id : k \in DOMAIN written} |->
     LET context == written[RowOf(written, id)].context
     IN  [i \in DOMAIN context |-> KeyOf[context[i]]]]

WriteTemporary ==
  /\ To("handle", "replace")
  /\ IsCurrent /\ Extractable(promptRows.rows)
  /\ tmp' = LogOf(promptRows.rows)
  /\ UNCHANGED <<memoryVars, runVars, harnessVars, log, endVars, exit>>

(* Stale rows, no rows, a row without context, a question twice. *)
ExtractRaises ==
  /\ Ends("handle", 1)
  /\ ~(IsCurrent /\ Extractable(promptRows.rows))
  /\ UNCHANGED <<memoryVars, runVars, harnessVars, logVars, endVars>>

Replace ==
  /\ To("replace", "diff")
  /\ log' = tmp /\ tmp' = NoFile
  /\ UNCHANGED <<memoryVars, runVars, harnessVars, endVars, exit>>

(* --baseline may name the log that was just written: the output directory. *)
Diff ==
  /\ To("diff", "done")
  /\ against' \in Baselines \cup {log}
  /\ verdict' = Verdict(log, against')
  /\ exit' = IF verdict' = "RED" THEN 1 ELSE 0
  /\ UNCHANGED <<memoryVars, runVars, harnessVars, logVars>>

NoBaseline ==
  /\ To("diff", "done")
  /\ UNCHANGED <<memoryVars, runVars, harnessVars, logVars, endVars, exit>>

BaselineRaises ==
  /\ Ends("diff", 1)
  /\ UNCHANGED <<memoryVars, runVars, harnessVars, logVars, endVars>>

(* The runner is killed; in the middle of a write, if it is writing. *)
Killed ==
  /\ step \notin {"start", "harness", "done"}
  /\ step' = "done" /\ exit' = 137
  /\ tmp' \in IF step = "handle" THEN {tmp, Torn} ELSE {tmp}
  /\ UNCHANGED <<memoryVars, runVars, harnessVars, log, endVars>>

Next ==
  \/ Start \/ Refuse \/ Subset \/ SubsetRaises \/ Launch \/ RefuseConfig
  \/ HarnessCalls \/ MemoryRuns \/ HarnessWritesRow \/ HarnessCloses
  \/ HarnessGoesOn \/ HarnessExits \/ HarnessFails
  \/ WriteTemporary \/ ExtractRaises \/ Replace
  \/ Diff \/ NoBaseline \/ BaselineRaises \/ Killed

Spec == Init /\ [][Next]_vars

-----------------------------------------------------------------------------
TypeOK ==
  /\ MemoryTypeOK
  /\ step \in {"start", "subset", "config", "harness", "handle", "replace", "diff", "done"}
  /\ mode \in Modes \cup {"none"}
  /\ command \in [backend : Given, reader : BOOLEAN] \cup {NotStarted}
  /\ turn \in 1..Len(Questions) + 1 /\ calls \in 0..MaxCalls /\ Len(rows) <= MaxRows
  /\ verdict \in {"none", "GREEN", "YELLOW", "RED"} /\ exit \in {0, 1, 2, 3, 137}

(* "A mode's embedder kind is a cost/fidelity guarantee": whatever config  *)
(* is given, an offline mode makes its memories with the deterministic     *)
(* embedder and starts no reader.  A retrieval or a score does not make    *)
(* them with it, unless the given config names it between blanks: the      *)
(* runner compares the name as it stands, and the memory strips it.        *)
CommandKeepsMode ==
  command # NotStarted =>
    LET backend == command.backend IN
    /\ mode \in LocalModes => Provider(backend) = "deterministic" /\ ~command.reader
    /\ mode \in {"retrieval", "score"} /\ ~backend.padded => Provider(backend) # "deterministic"

(* The retrieval log is what an earlier invocation left or, whole, every   *)
(* row this invocation's harness wrote in --mode retrieval, with a config  *)
(* the mode accepts and without a reader: never rows of an earlier run,    *)
(* never part of a log.                                                    *)
LogIsOfThisRun ==
  \/ log \in {NoFile, OldLog}
  \/ /\ mode = "retrieval" /\ Matches(command.backend) /\ ~command.reader
     /\ DOMAIN log = {rows[k].id : k \in DOMAIN rows}
     /\ \A k \in DOMAIN rows :
          /\ DOMAIN log[rows[k].id] = DOMAIN rows[k].context
          /\ \A i \in DOMAIN rows[k].context : log[rows[k].id][i] = KeyOf[rows[k].context[i]]

Kept(id) == ItemsOf(log[id]) = ItemsOf(against[id])

BodyKept(id) ==
  /\ Len(log[id]) = Len(against[id])
  /\ \A i \in 1..Len(log[id]) - 1 : \E j \in 1..Len(log[id]) - 1 :
       log[id][i] = against[id][j]

(* The verdict over its definition: a mild one means that the same         *)
(* questions were answered; GREEN that what was retrieved differs in the   *)
(* last rank at most, and in few questions; YELLOW that it differs in more *)
(* than the last rank in few.  Only RED fails the invocation.              *)
VerdictIsSound ==
  verdict # "none" =>
    /\ exit = (IF verdict = "RED" THEN 1 ELSE 0)
    /\ verdict # "RED" => DOMAIN log = DOMAIN against
    /\ verdict = "GREEN" =>
         /\ \A id \in DOMAIN log : Kept(id) \/ BodyKept(id)
         /\ 100 * Cardinality({id \in DOMAIN log : ~Kept(id)})
              <= GreenPercent * Cardinality(DOMAIN log)
    /\ verdict = "YELLOW" =>
         100 * Cardinality({id \in DOMAIN log : ~Kept(id) /\ ~BodyKept(id)})
           <= YellowPercent * Cardinality(DOMAIN log)
=============================================================================
