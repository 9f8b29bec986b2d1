--------------------------- MODULE RunModesProofs ---------------------------
(***************************************************************************)
(* Theorems about RunModes, for every set of flag values.  The flags reach *)
(* the row only through the namespace that the steps rewrite, so the       *)
(* invariant says, step by step, what the namespace still owes to the      *)
(* flags as they were typed.                                               *)
(***************************************************************************)
EXTENDS RunModes, TLAPS

USE UnsetAssumption, EmbedderAssumption

\* Types of the pieces that the actions put together.
LEMMA OrType ==
  ASSUME NEW S, NEW flag \in Flag(S), NEW default \in S
  PROVE  Or(flag, default) \in S
BY DEF Or, Flag

LEMMA OverriddenType ==
  ASSUME NEW b \in Block, NEW e \in Flag(Endpoints), NEW f \in Flag(Endpoints),
         NEW m \in Flag(ModelIds)
  PROVE  Overridden(b, e, f, m) \in Block
BY DEF Overridden, BlockOf, Block, Or, Flag

LEMMA TableType ==
  \A m \in Modes : /\ ModeTable[m].readerJudge \in {"real", "mock"}
                   /\ ModeTable[m].embedder \in {"local", "real"}
                   /\ ModeTable[m].official \in BOOLEAN
                   /\ ModeTable[m].log \in BOOLEAN
                   /\ ModeTable[m].official <=> m = "score"
BY DEF ModeTable, Modes, Resolved

LEMMA GivenIsNamespace == Args \subseteq Namespace
BY DEF Args, Namespace, Flag

LEMMA UpdateType ==
  ASSUME args \in Namespace, NEW m \in Flag(Models), NEW b \in Flag(Backends),
         NEW e \in Flag(Emission)
  PROVE  /\ [args EXCEPT !.emit = e] \in Namespace
         /\ [args EXCEPT !.smoke = TRUE, !.emit = e] \in Namespace
         /\ [args EXCEPT !.models = m, !.emit = e] \in Namespace
         /\ [args EXCEPT !.models = m, !.embedder = b, !.emit = e] \in Namespace
         /\ [args EXCEPT !.models = m, !.limit = 2, !.embedder = b, !.emit = e] \in Namespace
<1>1. 2 \in Flag(Limits \cup {2})
  BY DEF Flag
<1>2. QED
  BY <1>1 DEF Namespace

LEMMA FieldTypes ==
  ASSUME args \in Namespace
  PROVE  /\ args.models \in Flag(Models)
         /\ args.embedder \in Flag(Backends)
         /\ args.emit \in Flag(Emission)
         /\ args.mode \in Flag(Modes)
BY DEF Namespace

LEMMA Literals ==
  /\ "openai" \in Models /\ "mock" \in Models /\ "mock" \in Flag(Models)
  /\ "local" \in Backends /\ "local" \in Flag(Backends)
  /\ "emit" \in Emission /\ "no-emit" \in Flag(Emission)
  /\ Models \subseteq Flag(Models) /\ Emission \subseteq Flag(Emission)
  /\ Backends \subseteq Flag(Backends)
BY DEF Models, Backends, Emission, Flag

LEMMA NoModeType == args \in Namespace => NoModeDefaults \in Namespace
BY UpdateType, FieldTypes, Literals, OrType DEF NoModeDefaults

LEMMA SmokeModeType == args \in Namespace => SmokeModeDefaults \in Namespace
BY UpdateType, Literals DEF SmokeModeDefaults

LEMMA ModeType ==
  ASSUME args \in Namespace, NEW m \in Modes
  PROVE  ModeDefaults(ModeTable[m]) \in Namespace
<1> DEFINE models == Or(args.models, IF ModeTable[m].readerJudge = "real"
                                     THEN "openai" ELSE "mock")
           embedder == IF ModeTable[m].embedder = "local"
                       THEN Or(args.embedder, "local") ELSE args.embedder
           emit == IF ModeTable[m].official THEN Or(args.emit, "emit") ELSE "no-emit"
<1>1. models \in Flag(Models) /\ embedder \in Flag(Backends) /\ emit \in Flag(Emission)
  BY FieldTypes, Literals, OrType
<1>2. ModeDefaults(ModeTable[m])
        = [args EXCEPT !.models = models, !.embedder = embedder, !.emit = emit]
  BY DEF ModeDefaults
<1>3. QED
  <2> HIDE DEF models, embedder, emit
  <2>1. [args EXCEPT !.models = models, !.embedder = embedder, !.emit = emit] \in Namespace
    BY <1>1, UpdateType
  <2>2. QED
    BY <2>1, <1>2

LEMMA SmokeType == args \in Namespace => Smoke \in Namespace
<1> SUFFICES ASSUME args \in Namespace PROVE Smoke \in Namespace
  OBVIOUS
<1> DEFINE emit == IF args.resultsDir = Unset THEN "no-emit" ELSE Or(args.emit, "emit")
<1>1. emit \in Flag(Emission)
  BY FieldTypes, Literals, OrType
<1>2. Smoke = [args EXCEPT !.models = "mock", !.limit = 2, !.embedder = "local", !.emit = emit]
  BY DEF Smoke
<1>3. QED
  <2> HIDE DEF emit
  <2> QED
    BY <1>1, <1>2, Literals, UpdateType

LEMMA FillType ==
  args \in Namespace => [args EXCEPT !.emit = Or(@, "emit")] \in Namespace
BY UpdateType, FieldTypes, Literals, OrType

----------------------------------------------------------------------------

(***************************************************************************)
(* Every state of every invocation has its type: in particular an override *)
(* that was not given never reaches the configuration.                     *)
(***************************************************************************)
THEOREM TypeCorrect == Spec => []TypeOK
<1>1. Init => TypeOK
  <2>1. DefaultConfig \in Config
    BY DEF DefaultConfig, Config, Block, BlockOf, Gpt4o, Backends
  <2>2. QED
    BY <2>1, GivenIsNamespace DEF Init, TypeOK
<1>2. ASSUME TypeOK, [Next]_vars PROVE TypeOK'
  <2> USE <1>2
  <2>1. CASE ApplyRunMode
    <3>1. args' \in Namespace
      <4>1. args \in Namespace /\ args.mode \in Flag(Modes)
        BY DEF TypeOK, Namespace
      <4>2. CASE args.mode = Unset
        BY <2>1, <4>1, <4>2, NoModeType DEF ApplyRunMode
      <4>3. CASE args.mode = "smoke"
        <5>1. args.mode # Unset
          BY <4>3 DEF Modes
        <5>2. QED
          BY <2>1, <4>1, <4>3, <5>1, SmokeModeType DEF ApplyRunMode
      <4>4. CASE args.mode # Unset /\ args.mode # "smoke"
        <5>1. args.mode \in Modes
          BY <4>1, <4>4 DEF Flag
        <5>2. args' = ModeDefaults(ModeTable[args.mode])
          BY <2>1, <4>4 DEF ApplyRunMode
        <5>3. QED
          BY <4>1, <5>1, <5>2, ModeType
      <4>5. QED
        BY <4>2, <4>3, <4>4
    <3>2. QED
      BY <2>1, <3>1 DEF TypeOK, ApplyRunMode, Goto
  <2>2. CASE ApplySmoke
    <3>1. args' \in Namespace
      BY <2>2, FillType, SmokeType DEF TypeOK, ApplySmoke
    <3>2. QED
      BY <2>2, <3>1 DEF TypeOK, ApplySmoke, Goto
  <2>3. CASE ApplyConfig
    <3>1. /\ config.reader \in Block /\ config.judge \in Block /\ Gemma \in Block
          /\ config.embedder \in Backends
          /\ config.embedderEndpoint \in {"local", OpenAIHost}
          /\ args.endpoint \in Flag(Endpoints) /\ args.readerEndpoint \in Flag(Endpoints)
          /\ args.judgeEndpoint \in Flag(Endpoints) /\ args.readerModel \in Flag(ModelIds)
          /\ args.judgeModel \in Flag(ModelIds) /\ args.embedder \in Flag(Backends)
      BY DEF TypeOK, Config, Namespace, Gemma, Block, BlockOf
    <3>2. /\ config'.reader \in Block /\ config'.judge \in Block
          /\ config' \in Config
      BY <2>3, <3>1, OverriddenType, OrType DEF ApplyConfig, Config
    <3>3. QED
      BY <2>3, <3>2 DEF TypeOK, ApplyConfig, Goto
  <2>4. CASE FindDataset
    BY <2>4 DEF TypeOK, FindDataset, Goto, Exits
  <2>5. CASE Build
    <3>1. clients' \in Client
      BY <2>5 DEF TypeOK, Build, ClientOf, Client, Callee, Config
    <3>2. QED
      BY <2>5, <3>1 DEF TypeOK, Build, Goto
  <2>6. CASE RunAndEmit
    <3>1. WritesLog \in BOOLEAN
      BY DEF WritesLog
    <3>2. row' \in Row \cup {Unset}
      BY <2>6 DEF TypeOK, RunAndEmit, Row, Config
    <3>3. log' \in BOOLEAN
      <4>1. args.mode \in Flag(Modes)
        BY DEF TypeOK, Namespace
      <4>2. QED
        BY <2>6, <4>1, TableType DEF RunAndEmit, WritesLog, Flag
    <3>4. QED
      BY <2>6, <3>2, <3>3 DEF TypeOK, RunAndEmit, Goto, Exits
  <2>7. CASE Raise
    <3>1. args.mode \in Flag(Modes)
      BY DEF TypeOK, Namespace
    <3>2. QED
      BY <2>7, <3>1, TableType DEF TypeOK, Raise, Goto, Exits, WritesLog, Flag
  <2>8. CASE Report
    BY <2>8 DEF TypeOK, Report, Goto, Exits
  <2>9. CASE UNCHANGED vars
    BY <2>9 DEF TypeOK, vars
  <2>10. QED
    BY <1>2, <2>1, <2>2, <2>3, <2>4, <2>5, <2>6, <2>7, <2>8, <2>9 DEF Next
<1>3. QED
  BY <1>1, <1>2, PTL DEF Spec
----------------------------------------------------------------------------
(* What the namespace owes to the flags *)

Official == given.mode \in {Unset, "score"}
Offline  == args.models = "mock" /\ args.embedder = "local"

Resolution ==
  /\ args.mode = given.mode
  /\ pc = "mode" => args = given
  /\ pc # "mode" /\ ~Official => args.emit = "no-emit"
  /\ pc = "smoke" /\ PromisesToBeFree => args.smoke \/ Offline
  /\ pc \notin {"mode", "smoke"} /\ PromisesToBeFree => Offline
  /\ pc \notin {"mode", "smoke", "config"} /\ PromisesToBeFree => config.embedder = "local"
  /\ NonOfficialModeNeverEmits
  /\ FreeRunPaysNothing

LEMMA ResolutionInvariant == Spec => []Resolution
<1>1. Init => Resolution
  BY DEF Init, PromisesToBeFree, Resolution, NonOfficialModeNeverEmits, FreeRunPaysNothing
<1>2. ASSUME TypeOK, Resolution, [Next]_vars PROVE Resolution'
  <2> USE <1>2 DEF Resolution, NonOfficialModeNeverEmits, FreeRunPaysNothing,
                   Official, Offline, Goto
  <2>0. args \in Namespace /\ given.mode \in Flag(Modes)
    BY DEF TypeOK, Args
  <2>1. CASE ApplyRunMode
    <3> USE <2>0, <2>1 DEF ApplyRunMode
    <3>1. /\ args = given
          /\ args'.mode = given.mode
          /\ args'.smoke = IF given.mode = "smoke" THEN TRUE ELSE given.smoke
      <4>1. args = given
        OBVIOUS
      <4>2. CASE args.mode = Unset
        BY <4>1, <4>2 DEF NoModeDefaults, Namespace, Modes
      <4>3. CASE args.mode = "smoke"
        <5>1. args' = SmokeModeDefaults
          BY <4>3 DEF Modes
        <5>2. QED
          BY <4>1, <4>3, <5>1 DEF SmokeModeDefaults, Namespace
      <4>4. CASE args.mode # Unset /\ args.mode # "smoke"
        <5>1. args' = ModeDefaults(ModeTable[args.mode])
          BY <4>4
        <5>2. QED
          BY <4>1, <4>4, <5>1 DEF ModeDefaults, Namespace
      <4>5. QED
        BY <4>1, <4>2, <4>3, <4>4
    <3>2. ~Official => args'.emit = "no-emit"
      BY TableType DEF SmokeModeDefaults, ModeDefaults, Namespace, Flag
    <3>3. PromisesToBeFree => args'.smoke \/ Offline'
      <4>1. CASE given.smoke \/ given.mode = "smoke"
        BY <3>1, <4>1
      <4>2. CASE given.mode = "plumbing" /\ ~given.smoke
        <5>1. /\ ModeTable["plumbing"].readerJudge = "mock"
              /\ ModeTable["plumbing"].embedder = "local"
          BY DEF ModeTable, Modes, Resolved
        <5>2. args' = ModeDefaults(ModeTable["plumbing"])
          BY <4>2 DEF Modes
        <5>3. /\ args'.models = Or(given.models, "mock")
              /\ args'.embedder = Or(given.embedder, "local")
          BY <3>1, <5>1, <5>2 DEF ModeDefaults, Namespace
        <5>4. QED
          BY <4>2, <5>3 DEF PromisesToBeFree, Or
      <4>3. QED
        BY <4>1, <4>2 DEF PromisesToBeFree
    <3>4. QED
      BY <3>1, <3>2, <3>3 DEF PromisesToBeFree
  <2>2. CASE ApplySmoke
    <3> USE <2>0, <2>2 DEF ApplySmoke
    <3>1. args'.mode = given.mode
      BY DEF Smoke, Namespace
    <3>2. ~Official => args'.emit = "no-emit"
      BY DEF Smoke, Namespace, Or, Emission
    <3>3. PromisesToBeFree => Offline'
      BY DEF Smoke, Namespace
    <3>4. QED
      BY <3>1, <3>2, <3>3 DEF PromisesToBeFree
  <2>3. CASE ApplyConfig
    BY <2>3 DEF ApplyConfig, PromisesToBeFree, Or, Backends
  <2>4. CASE FindDataset
    BY <2>4 DEF FindDataset, PromisesToBeFree
  <2>5. CASE Build
    BY <2>5 DEF Build, ClientOf, PromisesToBeFree
  <2>6. CASE RunAndEmit
    BY <2>6 DEF RunAndEmit, PromisesToBeFree
  <2>7. CASE Raise
    BY <2>7 DEF Raise, PromisesToBeFree
  <2>8. CASE Report
    BY <2>8 DEF Report, PromisesToBeFree
  <2>9. CASE UNCHANGED vars
    BY <2>9 DEF vars, PromisesToBeFree
  <2>10. QED
    BY <1>2, <2>1, <2>2, <2>3, <2>4, <2>5, <2>6, <2>7, <2>8, <2>9 DEF Next
<1>3. QED
  BY <1>1, <1>2, TypeCorrect, PTL DEF Spec

(***************************************************************************)
(* Only the official mode, or the bare command, ever emits a row.          *)
(***************************************************************************)
THEOREM OnlyOfficialEmits == Spec => []NonOfficialModeNeverEmits
<1>1. Resolution => NonOfficialModeNeverEmits
  BY DEF Resolution
<1>2. QED
  BY <1>1, ResolutionInvariant, PTL

(***************************************************************************)
(* A run that promises to be free never calls a paid service.              *)
(***************************************************************************)
THEOREM FreeIsFree == Spec => []FreeRunPaysNothing
<1>1. Resolution => FreeRunPaysNothing
  BY DEF Resolution
<1>2. QED
  BY <1>1, ResolutionInvariant, PTL
----------------------------------------------------------------------------
(* What the row owes to the clients *)

Provenance ==
  /\ clients # Unset => pc \notin {"mode", "smoke", "config", "dataset", "build"}
  /\ pc = "run" => clients # Unset
  /\ clients = Unset => row = Unset
  /\ clients # Unset /\ clients.reader # Mock =>
       /\ clients.reader = Called(config.reader)
       /\ Judges => clients.judge = Called(config.judge)
       /\ clients.embedder = config.embedder
  /\ LabelFits(config.reader) /\ LabelFits(config.judge)
  /\ RealRowIsHonest

LEMMA ProvenanceInvariant == Spec => []Provenance
<1>1. Init => Provenance
  BY DEF Init, Provenance, RealRowIsHonest, DefaultConfig, LabelFits, Gpt4o, BlockOf
<1>2. ASSUME TypeOK, Resolution, Provenance, [Next]_vars PROVE Provenance'
  <2> USE <1>2 DEF Provenance, RealRowIsHonest, Goto
  <2>1. CASE ApplyRunMode \/ ApplySmoke \/ ApplyConfig \/ FindDataset
    <3>1. clients = Unset /\ clients' = clients /\ row' = row /\ pc' # "run"
      BY <2>1 DEF ApplyRunMode, ApplySmoke, ApplyConfig, FindDataset
    <3>2. LabelFits(config'.reader) /\ LabelFits(config'.judge)
      <4>1. CASE config' = config
        BY <4>1
      <4>2. CASE ApplyConfig
        <5>1. ASSUME NEW b, LabelFits(b), NEW e, NEW f, NEW m
              PROVE  LabelFits(Overridden(b, e, f, m))
          BY <5>1 DEF LabelFits, Overridden, BlockOf, Or
        <5>2. LabelFits(Gemma)
          BY DEF LabelFits, Gemma, BlockOf
        <5>3. QED
          BY <4>2, <5>1, <5>2 DEF ApplyConfig
      <4>3. QED
        BY <2>1, <4>1, <4>2 DEF ApplyRunMode, ApplySmoke, FindDataset
    <3>3. QED
      BY <3>1, <3>2
  <2>2. CASE Build
    <3>1. row = Unset /\ row' = Unset /\ pc' = "run"
      BY <2>2 DEF Build
    <3>2. clients' # Unset
      <4>1. clients' \in Client
        BY <2>2 DEF TypeOK, Build, ClientOf, Client, Callee, Config
      <4>2. QED
        BY <4>1, RecordAssumption
    <3>3. ClientOf(config.reader) # Mock =>
            /\ ClientOf(config.reader) = Called(config.reader)
            /\ ClientOf(config.judge) = Called(config.judge)
      BY DEF ClientOf
    <3>4. QED
      BY <2>2, <3>1, <3>2, <3>3 DEF Build, Judges
  <2>3. CASE RunAndEmit
    <3>1. row' # Unset => Judges
      <4>1. row' # Unset => given.mode \in {Unset, "score"}
        BY <2>3 DEF RunAndEmit, Resolution, Official
      <4>2. ModeTable["score"].judges
        BY DEF ModeTable, Modes, Resolved
      <4>3. QED
        BY <4>1, <4>2 DEF Judges, Resolution
    <3>2. QED
      BY <2>3, <3>1 DEF RunAndEmit, Judges
  <2>4. CASE Raise
    BY <2>4 DEF Raise, Judges
  <2>5. CASE Report
    BY <2>5 DEF Report, Judges
  <2>6. CASE UNCHANGED vars
    BY <2>6 DEF vars, Judges
  <2>7. QED
    BY <1>2, <2>1, <2>2, <2>3, <2>4, <2>5, <2>6 DEF Next
<1>3. QED
  BY <1>1, <1>2, TypeCorrect, ResolutionInvariant, PTL DEF Spec

(***************************************************************************)
(* The row of a run with real models records what ran, under labels that   *)
(* fit, whatever overrides were given.                                     *)
(***************************************************************************)
THEOREM RowsAreHonest == Spec => []RealRowIsHonest
<1>1. Provenance => RealRowIsHonest
  BY DEF Provenance
<1>2. QED
  BY <1>1, ProvenanceInvariant, PTL
----------------------------------------------------------------------------
(* What the clients owe to the flags *)

Resolving == {"mode", "smoke", "config"}

\* No step rewrites the flags of the endpoints and models.
Untouched ==
  /\ args.mode = given.mode
  /\ args.endpoint = given.endpoint
  /\ args.readerEndpoint = given.readerEndpoint
  /\ args.judgeEndpoint = given.judgeEndpoint
  /\ args.readerModel = given.readerModel
  /\ args.judgeModel = given.judgeModel

\* The block of the configuration that --models promotes.
Promoted == IF args.models = "ollama" THEN Gemma ELSE Gpt4o

Bare ==
  /\ given.mode \in {Unset, "score"}
  /\ ~given.smoke
  /\ \A f \in DOMAIN given \ {"mode", "smoke", "limit", "resultsDir", "baseline"} :
       given[f] = Unset

LEMMA BareFlags ==
  ASSUME given \in Args, Bare
  PROVE  /\ given.models = Unset /\ given.emit = Unset /\ given.embedder = Unset
         /\ given.endpoint = Unset /\ given.readerEndpoint = Unset
         /\ given.judgeEndpoint = Unset
         /\ given.readerModel = Unset /\ given.judgeModel = Unset
BY DEF Args, Bare

Configured ==
  /\ Untouched
  /\ pc = "mode" => args = given
  /\ pc \in Resolving => config = DefaultConfig
  /\ clients # Unset => pc \notin Resolving \cup {"dataset", "build"}
  /\ pc # "mode" /\ args.models # "mock" =>
       (args.models = "ollama" <=> given.models = "ollama")
  /\ pc \notin Resolving =>
       /\ config.reader = Overridden(Promoted, given.endpoint, given.readerEndpoint,
                                     given.readerModel)
       /\ config.judge = Overridden(Promoted, given.endpoint, given.judgeEndpoint,
                                    given.judgeModel)
  /\ Bare => args.smoke = FALSE /\ args.embedder = Unset
  /\ Bare /\ pc # "mode" => args.models = "openai" /\ args.emit = "emit"
  /\ Bare /\ pc \notin Resolving => config.embedder = "openai"
  /\ BareCommandIsCanonical
  /\ FinerFlagWins

LEMMA NewNamespace ==
  ASSUME given \in Args, args = given, ApplyRunMode
  PROVE  /\ Untouched'
         /\ args'.models # "mock" => (args'.models = "ollama" <=> given.models = "ollama")
         /\ Bare => /\ args'.smoke = FALSE /\ args'.embedder = Unset
                    /\ args'.models = "openai" /\ args'.emit = "emit"
<1>0. given' = given /\ Unset # "ollama"
  BY UnsetAssumption DEF ApplyRunMode, Models
<1>1. CASE args.mode = Unset
  <2>1. args' = NoModeDefaults
    BY <1>1 DEF ApplyRunMode
  <2>2. Bare => given.smoke = FALSE
    BY DEF Bare, Args
  <2>3. QED
    BY <1>0, <2>1, <2>2, BareFlags DEF NoModeDefaults, Args, Untouched, Or
<1>2. CASE args.mode = "smoke"
  <2>1. args' = SmokeModeDefaults /\ ~Bare
    BY <1>2, UnsetAssumption DEF ApplyRunMode, Bare, Modes
  <2>2. QED
    BY <1>0, <2>1 DEF SmokeModeDefaults, Args, Untouched
<1>3. CASE args.mode # Unset /\ args.mode # "smoke"
  <2> DEFINE spec == ModeTable[args.mode]
  <2>1. args' = ModeDefaults(spec)
    BY <1>3 DEF ApplyRunMode
  <2>2. args.mode = "score" =>
          spec.readerJudge = "real" /\ spec.embedder = "real" /\ spec.official = TRUE
    BY DEF ModeTable, Modes, Resolved
  <2>3. Bare => args.mode = "score" /\ given.smoke = FALSE
    BY <1>3 DEF Bare, Args
  <2> HIDE DEF spec
  <2>4. Untouched'
    BY <1>0, <2>1 DEF ModeDefaults, Args, Untouched
  <2>5. args'.models # "mock" => (args'.models = "ollama" <=> given.models = "ollama")
    BY <1>0, <2>1 DEF ModeDefaults, Args, Or
  <2>6. Bare => /\ args'.smoke = FALSE /\ args'.embedder = Unset
                /\ args'.models = "openai" /\ args'.emit = "emit"
    BY <2>1, <2>2, <2>3, BareFlags DEF ModeDefaults, Args, Or
  <2>7. QED
    BY <2>4, <2>5, <2>6
<1>4. QED
  BY <1>1, <1>2, <1>3

LEMMA ConfiguredInvariant == Spec => []Configured
<1>1. Init => Configured
  <2> SUFFICES ASSUME Init PROVE Configured
    OBVIOUS
  <2>1. Bare => args.smoke = FALSE /\ args.embedder = Unset
    BY BareFlags DEF Init, Bare, Args
  <2>2. QED
    BY <2>1 DEF Init, Configured, Untouched, Resolving, BareCommandIsCanonical, FinerFlagWins
<1>2. ASSUME TypeOK, Configured, [Next]_vars PROVE Configured'
  <2> USE <1>2 DEF Configured, Goto, Resolving
  <2>0. given \in Args /\ args \in Namespace
    BY DEF TypeOK
  <2>1. CASE ApplyRunMode
    <3>1. given' = given /\ config' = config /\ clients' = clients /\ clients = Unset
          /\ pc = "mode" /\ pc' = "smoke" /\ args = given
      BY <2>1 DEF ApplyRunMode
    <3>2. /\ Untouched'
          /\ args'.models # "mock" => (args'.models = "ollama" <=> given.models = "ollama")
          /\ Bare => /\ args'.smoke = FALSE /\ args'.embedder = Unset
                     /\ args'.models = "openai" /\ args'.emit = "emit"
      BY <2>0, <2>1, <3>1, NewNamespace
    <3>3. Bare' <=> Bare
      BY <3>1 DEF Bare
    <3>4. QED
      BY <3>1, <3>2, <3>3 DEF BareCommandIsCanonical, FinerFlagWins
  <2>2. CASE ApplySmoke
    <3>1. given' = given /\ config' = config /\ clients' = clients /\ clients = Unset
          /\ pc = "smoke" /\ pc' = "config"
      BY <2>2 DEF ApplySmoke
    <3>2. Untouched'
      BY <2>0, <2>2, <3>1 DEF ApplySmoke, Smoke, Namespace, Untouched
    <3>3. args'.models \in {args.models, "mock"}
      BY <2>0, <2>2 DEF ApplySmoke, Smoke, Namespace
    <3>4. Bare => /\ args'.smoke = FALSE /\ args'.embedder = Unset
                  /\ args'.models = "openai" /\ args'.emit = "emit"
      <4>1. Emission \cap {Unset} = {} /\ "emit" # Unset
        BY UnsetAssumption DEF Emission
      <4>2. QED
        BY <2>0, <2>2, <3>1, <4>1 DEF ApplySmoke, Namespace, Or
    <3>5. Bare' <=> Bare
      BY <3>1 DEF Bare
    <3>6. QED
      BY <3>1, <3>2, <3>3, <3>4, <3>5 DEF BareCommandIsCanonical, FinerFlagWins
  <2>3. CASE ApplyConfig
    <3>1. given' = given /\ args' = args /\ clients' = clients /\ clients = Unset
          /\ pc = "config" /\ pc' = "dataset" /\ config = DefaultConfig
      BY <2>3 DEF ApplyConfig
    <3>2. /\ config'.reader = Overridden(Promoted, args.endpoint, args.readerEndpoint,
                                         args.readerModel)
          /\ config'.judge = Overridden(Promoted, args.endpoint, args.judgeEndpoint,
                                        args.judgeModel)
          /\ config'.embedder = Or(args.embedder, "openai")
      BY <2>3, <3>1 DEF ApplyConfig, DefaultConfig, Promoted
    <3>3. (Bare' <=> Bare) /\ Promoted' = Promoted /\ (Untouched' <=> Untouched)
      BY <3>1 DEF Bare, Promoted, Untouched
    <3>4. /\ config'.reader = Overridden(Promoted, given.endpoint, given.readerEndpoint,
                                         given.readerModel)
          /\ config'.judge = Overridden(Promoted, given.endpoint, given.judgeEndpoint,
                                        given.judgeModel)
      BY <3>2 DEF Untouched
    <3>5. /\ (config.reader)' = Overridden(Promoted, given.endpoint, given.readerEndpoint,
                                           given.readerModel)'
          /\ (config.judge)' = Overridden(Promoted, given.endpoint, given.judgeEndpoint,
                                          given.judgeModel)'
      BY <3>1, <3>3, <3>4 DEF Overridden, BlockOf, Or
    <3>6. Bare => config'.embedder = "openai"
      BY <3>2 DEF Or
    <3>7. QED
      BY <3>1, <3>3, <3>5, <3>6 DEF BareCommandIsCanonical, FinerFlagWins
  <2>4. ASSUME UNCHANGED <<given, args, config, clients>>,
               pc' = pc \/ (pc \notin Resolving /\ pc' \notin Resolving),
               clients # Unset => pc' \notin Resolving \cup {"dataset", "build"}
        PROVE  Configured'
    <3>1. /\ (Bare' <=> Bare) /\ Promoted' = Promoted /\ (Untouched' <=> Untouched)
          /\ (Judges' <=> Judges)
          /\ (BareCommandIsCanonical' <=> BareCommandIsCanonical)
      BY <2>4 DEF Bare, Promoted, Untouched, Judges, BareCommandIsCanonical
    <3>2. FinerFlagWins'
      BY <2>4, <3>1 DEF FinerFlagWins
    <3>3. \/ pc' \in Resolving
          \/ /\ (config.reader)' = Overridden(Promoted, given.endpoint, given.readerEndpoint,
                                              given.readerModel)'
             /\ (config.judge)' = Overridden(Promoted, given.endpoint, given.judgeEndpoint,
                                             given.judgeModel)'
      BY <2>4, <3>1 DEF Overridden, BlockOf, Or
    <3>4. QED
      BY <2>4, <3>1, <3>2, <3>3
  <2>5. CASE Build
    <3>1. given' = given /\ args' = args /\ config' = config /\ pc = "build" /\ pc' = "run"
          /\ clients' = [reader   |-> ClientOf(config.reader),
                         judge    |-> IF Judges THEN ClientOf(config.judge) ELSE Null,
                         embedder |-> config.embedder]
      BY <2>5 DEF Build
    <3>2. (Bare' <=> Bare) /\ Promoted' = Promoted /\ (Untouched' <=> Untouched)
          /\ (Judges' <=> Judges)
      BY <3>1 DEF Bare, Promoted, Untouched, Judges
    <3>3. /\ (config.reader)' = Overridden(Promoted, given.endpoint, given.readerEndpoint,
                                           given.readerModel)'
          /\ (config.judge)' = Overridden(Promoted, given.endpoint, given.judgeEndpoint,
                                          given.judgeModel)'
      BY <3>1, <3>2 DEF Overridden, BlockOf, Or
    <3>4. BareCommandIsCanonical'
      <4>1. SUFFICES ASSUME Bare
                     PROVE  /\ clients' = [reader |-> Called(Gpt4o), judge |-> Called(Gpt4o), embedder |-> "openai"]
                            /\ args'.emit = "emit"
        BY <3>2 DEF BareCommandIsCanonical, Bare
      <4>2. Judges
        <5>1. ModeTable["score"].judges
          BY DEF ModeTable, Modes, Resolved
        <5>2. QED
          BY <4>1, <5>1 DEF Judges, Untouched, Bare
      <4>3. Promoted = Gpt4o /\ args.models = "openai"
        BY <3>1, <4>1 DEF Promoted
      <4>4. config.reader = Gpt4o /\ config.judge = Gpt4o
        BY <2>0, <3>1, <4>1, <4>3, BareFlags DEF Overridden, BlockOf, Or, Gpt4o
      <4>5. QED
        BY <3>1, <4>1, <4>2, <4>3, <4>4 DEF ClientOf
    <3>5. FinerFlagWins'
      <4>1. SUFFICES ASSUME clients'.reader # Mock PROVE FinerFlagWins'
        BY DEF FinerFlagWins
      <4>2. args.models # "mock" /\ clients'.reader = Called(config.reader)
            /\ (Judges => clients'.judge = Called(config.judge))
        BY <3>1, <4>1 DEF ClientOf
      <4>3. Promoted.endpoint = IF given.models = "ollama" THEN OllamaHost ELSE OpenAIHost
        BY <3>1, <4>2 DEF Promoted, Gemma, Gpt4o, BlockOf
      <4>4. QED
        BY <3>1, <3>2, <4>2, <4>3 DEF FinerFlagWins, Overridden, BlockOf, Called, Or
    <3>6. QED
      BY <3>1, <3>2, <3>3, <3>4, <3>5
  <2>6. CASE FindDataset
    BY <2>4, <2>6 DEF FindDataset
  <2>7. CASE RunAndEmit
    BY <2>4, <2>7 DEF RunAndEmit
  <2>8. CASE Raise
    BY <2>4, <2>8 DEF Raise
  <2>9. CASE Report
    BY <2>4, <2>9 DEF Report
  <2>10. CASE UNCHANGED vars
    BY <2>4, <2>10 DEF vars
  <2>11. QED
    BY <1>2, <2>1, <2>2, <2>3, <2>5, <2>6, <2>7, <2>8, <2>9, <2>10 DEF Next
<1>3. QED
  BY <1>1, <1>2, TypeCorrect, PTL DEF Spec

(***************************************************************************)
(* The bare command runs the canonical components and means to emit.       *)
(***************************************************************************)
THEOREM BareIsCanonical == Spec => []BareCommandIsCanonical
<1>1. Configured => BareCommandIsCanonical
  BY DEF Configured
<1>2. QED
  BY <1>1, ConfiguredInvariant, PTL

(***************************************************************************)
(* Every endpoint flag reaches its own client, the finer one last.         *)
(***************************************************************************)
THEOREM FinerFlagsWin == Spec => []FinerFlagWins
<1>1. Configured => FinerFlagWins
  BY DEF Configured
<1>2. QED
  BY <1>1, ConfiguredInvariant, PTL
=============================================================================
