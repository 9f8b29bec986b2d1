------------------------------ MODULE RunModes ------------------------------
(***************************************************************************)
(* One invocation of the native runner, from its command line to its exit: *)
(* runners/_modes.py and main, _apply_run_mode, apply_model_config,        *)
(* build_reader_judge, resolve_judge and run_and_emit of                   *)
(* runners/longmemeval/run.py.                                             *)
(*                                                                         *)
(* The flags, the mode and the config file decide together which embedder, *)
(* reader and judge run, whether a row is written and what the row says of *)
(* them.  The order of the steps matters: each fills what the earlier ones *)
(* left unset or overwrites what they set.                                 *)
(*                                                                         *)
(* A reader or judge block is the model it is labelled with, the snapshot  *)
(* that is called and the endpoint; an embedder spec is its backend.       *)
(* Emission is one step here: ResultStore has its steps.                   *)
(***************************************************************************)
EXTENDS FiniteSets

CONSTANTS
  Unset,       \* a flag that was not given, a row that was not written
  Embedders,   \* backends a user may name with --embedder-spec
  Limits,      \* values of --limit
  ResultsDirs, \* values of --results-dir
  Baselines,   \* values of --baseline
  Endpoints,   \* values of the three endpoint flags
  ModelIds     \* values of --reader-model and --judge-model

Modes    == {"smoke", "plumbing", "retrieval", "score"}
Models   == {"openai", "ollama", "mock"}
Backends == {"local", "openai", "ollama"}
Emission == {"emit", "no-emit"}

ASSUME EmbedderAssumption == Embedders \subseteq Backends
ASSUME UnsetAssumption ==
  /\ Unset \notin Modes \cup Models \cup Backends \cup Emission
  /\ Unset \notin Limits \cup {2}
  /\ Unset \notin ResultsDirs \cup Baselines \cup Endpoints \cup ModelIds

Flag(S) == S \cup {Unset}

Args == [mode           : Flag(Modes),
         smoke          : BOOLEAN,
         models         : Flag(Models),
         emit           : Flag(Emission),
         embedder       : Flag(Embedders),
         limit          : Flag(Limits),
         resultsDir     : Flag(ResultsDirs),
         baseline       : Flag(Baselines),
         endpoint       : Flag(Endpoints),
         readerEndpoint : Flag(Endpoints),
         judgeEndpoint  : Flag(Endpoints),
         readerModel    : Flag(ModelIds),
         judgeModel     : Flag(ModelIds)]

----------------------------------------------------------------------------
(* The configuration file and the table of modes *)

OpenAIHost == "api.openai.com"
OllamaHost == "http://localhost:11434"

PinnedSnapshot == "gpt-4o-2024-08-06"

BlockOf(model, snapshot, endpoint) ==
  [model |-> model, snapshot |-> snapshot, endpoint |-> endpoint]

Gpt4o == BlockOf("gpt-4o", PinnedSnapshot, OpenAIHost)
Gemma == BlockOf("gemma3:4b", "gemma3:4b", OllamaHost)

\* A client calls the snapshot of its block; the label is for the row alone.
Called(block) == [snapshot |-> block.snapshot, endpoint |-> block.endpoint]

\* The offline reader and judge, and the judge of a mode that judges nothing.
Mock == [snapshot |-> "mock", endpoint |-> "none"]
Null == [snapshot |-> "null", endpoint |-> "none"]

DefaultConfig == [reader           |-> Gpt4o,
                  judge            |-> Gpt4o,
                  embedder         |-> "openai",
                  embedderEndpoint |-> OpenAIHost]

Resolved(embedder, readerJudge, judges, official, log) ==
  [embedder |-> embedder, readerJudge |-> readerJudge,
   judges |-> judges, official |-> official, log |-> log]

ModeTable ==
  [m \in Modes |->
     CASE m = "smoke"     -> Resolved("local", "mock", TRUE,  FALSE, FALSE)
       [] m = "plumbing"  -> Resolved("local", "mock", TRUE,  FALSE, FALSE)
       [] m = "retrieval" -> Resolved("real",  "mock", FALSE, FALSE, TRUE)
       [] m = "score"     -> Resolved("real",  "real", TRUE,  TRUE,  FALSE)]

\* Where the engrava provider of a backend sends its texts.
ServedAt(backend) == CASE backend = "local"  -> "local"
                       [] backend = "openai" -> OpenAIHost
                       [] backend = "ollama" -> OllamaHost

----------------------------------------------------------------------------

VARIABLES
  given,    \* the flags as the user typed them
  args,     \* the namespace that the steps below rewrite
  config,   \* the effective configuration, from which the row is built
  clients,  \* the reader, judge and embedder that run
  row,      \* the row that was emitted
  log,      \* a retrieval log was written
  pc

vars == <<given, args, config, clients, row, log, pc>>

Block  == [model    : ModelIds \cup {"gpt-4o", "gemma3:4b"},
           snapshot : ModelIds \cup {PinnedSnapshot, "gemma3:4b"},
           endpoint : Endpoints \cup {OpenAIHost, OllamaHost}]
Callee == {Called(block) : block \in Block}
Config == [reader           : Block,
           judge            : Block,
           embedder         : Backends,
           embedderEndpoint : {"local", OpenAIHost}]
Client == [reader   : Callee \cup {Mock},
           judge    : Callee \cup {Mock, Null},
           embedder : Backends]
Row    == [reader : Block, judge : Block, embedder : Backends,
           embedderEndpoint : {"local", OpenAIHost}, partial : BOOLEAN]

ASSUME RecordAssumption == Unset \notin Client \cup Row

\* What the steps may turn the flags into.
Namespace == [mode           : Flag(Modes),
              smoke          : BOOLEAN,
              models         : Flag(Models),
              emit           : Flag(Emission),
              embedder       : Flag(Backends),
              limit          : Flag(Limits \cup {2}),
              resultsDir     : Flag(ResultsDirs),
              baseline       : Flag(Baselines),
              endpoint       : Flag(Endpoints),
              readerEndpoint : Flag(Endpoints),
              judgeEndpoint  : Flag(Endpoints),
              readerModel    : Flag(ModelIds),
              judgeModel     : Flag(ModelIds)]

Exits == {"exit0", "exit1", "exit2", "raised"}

TypeOK ==
  /\ given \in Args
  /\ args \in Namespace
  /\ config \in Config
  /\ clients \in Client \cup {Unset}
  /\ row \in Row \cup {Unset}
  /\ log \in BOOLEAN
  /\ pc \in {"mode", "smoke", "config", "dataset", "build", "run", "report"} \cup Exits

Init ==
  /\ given \in Args
  /\ args = given
  /\ config = DefaultConfig
  /\ clients = Unset
  /\ row = Unset
  /\ log = FALSE
  /\ pc = "mode"

Goto(from, to) == pc = from /\ pc' = to

\* The value of a flag, or a default for the sentinel.
Or(flag, default) == IF flag = Unset THEN default ELSE flag

----------------------------------------------------------------------------
(* Resolving the flags *)

NoModeDefaults == [args EXCEPT !.models = Or(@, "openai"), !.emit = Or(@, "emit")]

\* Mutant: --mode smoke leaves the emission flag as it is.
SmokeModeKeepsEmit == [args EXCEPT !.smoke = TRUE]

\* --mode smoke delegates to the --smoke path, but may not emit.
SmokeModeDefaults == [args EXCEPT !.smoke = TRUE, !.emit = "no-emit"]

\* Mutant: --models has the default openai, not a sentinel the mode can fill.
EagerModelDefaults(spec) ==
  [args EXCEPT !.models   = Or(@, "openai"),
               !.embedder = IF spec.embedder = "local" THEN Or(@, "local") ELSE @,
               !.emit     = IF spec.official THEN Or(@, "emit") ELSE "no-emit"]

\* Mutant: every mode falls back to the offline embedder.
LocalEmbedderDefaults(spec) ==
  [args EXCEPT !.models   = Or(@, IF spec.readerJudge = "real" THEN "openai" ELSE "mock"),
               !.embedder = Or(@, "local"),
               !.emit     = IF spec.official THEN Or(@, "emit") ELSE "no-emit"]

\* A mode fills the flags that were not given; only an official one may emit.
ModeDefaults(spec) ==
  [args EXCEPT !.models   = Or(@, IF spec.readerJudge = "real" THEN "openai" ELSE "mock"),
               !.embedder = IF spec.embedder = "local" THEN Or(@, "local") ELSE @,
               !.emit     = IF spec.official THEN Or(@, "emit") ELSE "no-emit"]

ApplyRunMode ==
  /\ Goto("mode", "smoke")
  /\ args' = IF args.mode = Unset THEN NoModeDefaults
             ELSE IF args.mode = "smoke" THEN SmokeModeDefaults
             ELSE ModeDefaults(ModeTable[args.mode])
  /\ UNCHANGED <<given, config, clients, row, log>>

\* The smoke path overwrites what was given; a results directory keeps emission.
Smoke ==
  [args EXCEPT !.models = "mock", !.limit = 2, !.embedder = "local",
               !.emit = IF args.resultsDir = Unset THEN "no-emit" ELSE Or(@, "emit")]

ApplySmoke ==
  /\ Goto("smoke", "config")
  /\ args' = IF args.smoke THEN Smoke ELSE [args EXCEPT !.emit = Or(@, "emit")]
  /\ UNCHANGED <<given, config, clients, row, log>>

----------------------------------------------------------------------------
(* The effective configuration *)

\* Mutant: an override that was not given is written too.
OverriddenBlindly(block, endpoint, fineEndpoint, model) ==
  BlockOf(Or(model, block.model), Or(model, block.snapshot), fineEndpoint)

\* Mutant: the flag for both endpoints is applied last.
OverriddenCoarseLast(block, endpoint, fineEndpoint, model) ==
  BlockOf(Or(model, block.model), Or(model, block.snapshot),
          Or(endpoint, Or(fineEndpoint, block.endpoint)))

\* Mutant: a model override changes the label and not the snapshot.
OverriddenLabel(block, endpoint, fineEndpoint, model) ==
  BlockOf(Or(model, block.model), block.snapshot,
          Or(fineEndpoint, Or(endpoint, block.endpoint)))

\* A model override is label and snapshot at once.  --endpoint sets both blocks;
\* the flag of one block is applied after it.
Overridden(block, endpoint, fineEndpoint, model) ==
  BlockOf(Or(model, block.model), Or(model, block.snapshot),
          Or(fineEndpoint, Or(endpoint, block.endpoint)))

\* --embedder-spec rewrites the embedder, and its endpoint when it is local;
\* --models ollama promotes the local block; then the overrides apply.
ApplyConfig ==
  LET promoted(block) == IF args.models = "ollama" THEN Gemma ELSE block IN
  /\ Goto("config", "dataset")
  /\ config' =
       [reader   |-> Overridden(promoted(config.reader), args.endpoint,
                                args.readerEndpoint, args.readerModel),
        judge    |-> Overridden(promoted(config.judge), args.endpoint,
                                args.judgeEndpoint, args.judgeModel),
        embedder |-> Or(args.embedder, config.embedder),
        embedderEndpoint |-> IF args.embedder = "local" THEN "local"
                             ELSE config.embedderEndpoint]
  /\ UNCHANGED <<given, args, clients, row, log>>

\* The fixture of a smoke run is in the repository; another dataset may not be.
FindDataset ==
  /\ \/ Goto("dataset", "build")
     \/ ~args.smoke /\ Goto("dataset", "exit2")
  /\ UNCHANGED <<given, args, config, clients, row, log>>

----------------------------------------------------------------------------
(* The run *)

Judges == args.mode = Unset \/ ModeTable[args.mode].judges

ClientOf(block) == IF args.models = "mock" THEN Mock ELSE Called(block)

\* A mode that judges nothing gets the null judge in place of the one built.
Build ==
  /\ Goto("build", "run")
  /\ clients' = [reader   |-> ClientOf(config.reader),
                 judge    |-> IF Judges THEN ClientOf(config.judge) ELSE Null,
                 embedder |-> config.embedder]
  /\ UNCHANGED <<given, args, config, row, log>>

WritesLog == args.mode # Unset /\ ModeTable[args.mode].log

\* The schema pins the judge of this harness: label, snapshot and endpoint.
RowValidates == config.judge = Gpt4o

\* The log is written before the row; a row that fails validation raises.
RunAndEmit ==
  /\ Goto("run", IF args.emit = "emit" /\ ~RowValidates THEN "raised" ELSE "report")
  /\ log' = WritesLog
  /\ row' = IF args.emit = "emit" /\ RowValidates
            THEN [reader           |-> config.reader,
                  judge            |-> config.judge,
                  embedder         |-> config.embedder,
                  embedderEndpoint |-> config.embedderEndpoint,
                  partial          |-> args.limit # Unset]
            ELSE Unset
  /\ UNCHANGED <<given, args, config, clients>>

\* A missing key or package, an unreadable dataset, a failed call.
Raise ==
  /\ \/ Goto("build", "raised") /\ UNCHANGED log
     \/ Goto("run", "raised") /\ log' \in {FALSE, WritesLog}
  /\ UNCHANGED <<given, args, config, clients, row>>

\* A diff against a baseline is made only of a log that this run wrote.
Report ==
  /\ \/ Goto("report", "exit0")
     \/ log /\ args.baseline # Unset /\ \E exit \in {"exit1", "raised"} : Goto("report", exit)
  /\ UNCHANGED <<given, args, config, clients, row, log>>

Next == \/ ApplyRunMode
        \/ ApplySmoke
        \/ ApplyConfig
        \/ FindDataset
        \/ Build
        \/ RunAndEmit
        \/ Raise
        \/ Report

Spec == Init /\ [][Next]_vars
----------------------------------------------------------------------------
(* Safety *)

(***************************************************************************)
(* A row is emitted only without --mode or in mode score, whatever --emit, *)
(* --smoke and --results-dir say (_refuse_emission).                       *)
(***************************************************************************)
NonOfficialModeNeverEmits == row # Unset => given.mode \in {Unset, "score"}

\* What promises to be free: smoke in either spelling, and plumbing as it is.
PromisesToBeFree ==
  \/ given.smoke
  \/ given.mode = "smoke"
  \/ /\ given.mode = "plumbing"
     /\ given.models \in {Unset, "mock"}
     /\ given.embedder \in {Unset, "local"}

(***************************************************************************)
(* A run that promises to be free calls no model and no embedding service, *)
(* however its other flags are set.                                        *)
(***************************************************************************)
FreeRunPaysNothing ==
  clients # Unset /\ PromisesToBeFree =>
    /\ clients.reader = Mock
    /\ clients.judge \in {Mock, Null}
    /\ clients.embedder = "local"

(***************************************************************************)
(* The bare command and --mode score, with no flag that changes the        *)
(* components, run the canonical configuration and intend to emit it.      *)
(***************************************************************************)
BareCommandIsCanonical ==
  /\ clients # Unset
  /\ given.mode \in {Unset, "score"}
  /\ ~given.smoke
  /\ \A f \in DOMAIN given \ {"mode", "smoke", "limit", "resultsDir", "baseline"} :
       given[f] = Unset
  => /\ clients = [reader |-> Called(Gpt4o), judge |-> Called(Gpt4o), embedder |-> "openai"]
     /\ args.emit = "emit"

\* A label is the id of the snapshot itself or the family of the pinned one.
LabelFits(block) ==
  \/ block.model = block.snapshot
  \/ block.model = "gpt-4o" /\ block.snapshot = PinnedSnapshot

(***************************************************************************)
(* The row of a run with real models records the reader that answered, the *)
(* judge that judged and the embedder that embedded, snapshot and endpoint *)
(* each, under labels that fit them.                                       *)
(***************************************************************************)
RealRowIsHonest ==
  row # Unset /\ clients.reader # Mock =>
    /\ clients.reader = Called(row.reader)
    /\ clients.judge = Called(row.judge)
    /\ clients.embedder = row.embedder
    /\ LabelFits(row.reader) /\ LabelFits(row.judge)

(***************************************************************************)
(* A flag for one block reaches the client of that block and no other: the *)
(* finer endpoint wins over --endpoint, and what is set for the reader     *)
(* leaves the judge at the endpoint it would have without it.              *)
(***************************************************************************)
FinerFlagWins ==
  clients # Unset /\ clients.reader # Mock =>
    /\ given.readerEndpoint # Unset => clients.reader.endpoint = given.readerEndpoint
    /\ given.endpoint # Unset /\ given.readerEndpoint = Unset =>
         clients.reader.endpoint = given.endpoint
    /\ Judges /\ given.judgeEndpoint # Unset => clients.judge.endpoint = given.judgeEndpoint
    /\ Judges /\ given.endpoint = Unset /\ given.judgeEndpoint = Unset =>
         clients.judge.endpoint = IF given.models = "ollama" THEN OllamaHost ELSE OpenAIHost

----------------------------------------------------------------------------
(* What the documentation says beyond that *)

(***************************************************************************)
(* run.py: "an explicit value always wins over the --mode default".        *)
(***************************************************************************)
ExplicitModelsWin ==
  clients # Unset /\ given.mode # Unset /\ ~given.smoke /\ given.models # Unset =>
    args.models = given.models

(***************************************************************************)
(* _modes.py: "a mocked or discarded component cannot produce a            *)
(* publishable row": in the official mode a row comes from real models.    *)
(***************************************************************************)
OfficialRowIsReal ==
  row # Unset /\ given.mode = "score" =>
    clients.reader # Mock /\ clients.judge \notin {Mock, Null}

(***************************************************************************)
(* run.py on --embedder-spec: "The override is written into the result so  *)
(* provenance stays honest": the row says where its texts were embedded.   *)
(***************************************************************************)
EmbedderProvenanceIsHonest ==
  row # Unset => row.embedderEndpoint = ServedAt(row.embedder)
============================================================================
