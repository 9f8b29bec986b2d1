--------------------------- MODULE MemoryAdapter ---------------------------
(***************************************************************************)
(* What adapters/base.py promises of a memory adapter, with no word on how *)
(* it keeps its promise.  An adapter holds at most one corpus, which it    *)
(* may take in pieces: an ingest that fails leaves it partly held, and     *)
(* nothing keeps a caller from searching it then.  A search answers with   *)
(* at most TopK different units, best first, of the corpus that is held    *)
(* and of what has been taken of it.                                       *)
(***************************************************************************)
EXTENDS Naturals, Sequences, Functions

CONSTANTS
  Corpora,   \* the corpora that may be ingested: sequences of turns
  Blank,     \* the stripped-empty text: a turn of it need not be taken
  TopK       \* the retrieval breadth

VARIABLES
  status,    \* "void": no corpus is held; "filling": one, in part; "ready": whole
  held,      \* the corpus held, <<>> when void
  present,   \* the units taken of it so far
  answer     \* the units the last search ranked, <<>> if there is none

vars == <<status, held, present, answer>>

UnitsOf(corpus) == {corpus[i].unit : i \in DOMAIN corpus}

TextUnits(corpus) == {corpus[i].unit : i \in {i \in DOMAIN corpus : corpus[i].text # Blank}}

(* The rankings a search of these units may give. *)
Rankings(units) == UNION {Injection(1..n, units) : n \in 0..TopK}

Init == status = "void" /\ held = <<>> /\ present = {} /\ answer = <<>>

(* An ingest begins: of whatever was held nothing can be found any more. *)
Begin(corpus) ==
  /\ status' = IF TextUnits(corpus) = {} THEN "ready" ELSE "filling"
  /\ held' = corpus /\ present' = {} /\ answer' = <<>>

(* More of the corpus is taken; it is whole when every text is. *)
Take ==
  /\ status # "void"
  /\ present' \in SUBSET UnitsOf(held) /\ present \subseteq present'
  /\ status' \in {status} \cup (IF TextUnits(held) \subseteq present' THEN {"ready"} ELSE {})
  /\ UNCHANGED <<held, answer>>

(* The adapter is closed, by its caller or by the next ingest. *)
Discard == status' = "void" /\ held' = <<>> /\ present' = {} /\ answer' = <<>>

Search ==
  /\ status # "void"
  /\ answer' \in Rankings(present)
  /\ UNCHANGED <<status, held, present>>

(* A new call begins, or one fails: the old answer is gone. *)
Forget == answer' = <<>> /\ UNCHANGED <<status, held, present>>

Next ==
  \/ \E corpus \in Corpora : Begin(corpus)
  \/ Take
  \/ Discard
  \/ Search
  \/ Forget

Spec == Init /\ [][Next]_vars
=============================================================================
