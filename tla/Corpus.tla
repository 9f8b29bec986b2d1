------------------------------- MODULE Corpus -------------------------------
(***************************************************************************)
(* The data of runners/longmemeval/run.py: load_questions turns a dataset  *)
(* item into the corpus an adapter is given and what the runner keeps for  *)
(* itself; assemble_context turns ranked units into the reader's history.  *)
(*                                                                         *)
(* A digest stands for what it is computed from, so a session's neutral id *)
(* is its content.  An item is a record                                    *)
(*   id        question_id                                                 *)
(*   sessions  sequence of sessions: sequences of [role, text, evidence]   *)
(*   ids       their ids, [name, answer]: answer says "answer" is in it    *)
(*   dates     their dates, naturals; may be shorter than sessions         *)
(***************************************************************************)
EXTENDS Naturals, Sequences, FiniteSets, SequencesExt, Sorting

CONSTANTS
  Stripped   \* text -> the text without white space at its ends

IsItem(item) ==
  /\ IsSeq(item.sessions) /\ \A s \in DOMAIN item.sessions : IsSeq(item.sessions[s])
  /\ \A s \in DOMAIN item.dates : item.dates[s] \in Nat

NoDate == 0   \* "", less than every date

(* len(sessions) != len(session_ids) raises DatasetError. *)
Mismatched(item) == Len(item.sessions) # Len(item.ids)

NeutralSession(session) ==
  [i \in DOMAIN session |-> [role |-> session[i].role, text |-> session[i].text]]

NeutralUnit(content, i) == <<content, i>>

\* Mutant: the evidence flag is not consulted.
OfficialIdByName(id, i, evidence) ==
  [session |-> id.name, turn |-> i, noans |-> id.answer]

OfficialCorpusId(id, i, evidence) ==
  [session |-> id.name, turn |-> i, noans |-> id.answer /\ ~evidence]

DateOf(item, s) == IF s \in DOMAIN item.dates THEN item.dates[s] ELSE NoDate

UserTurns(session) == {i \in DOMAIN session : session[i].role = "user"}

\* Mutant: the adapter is given the dataset's session id.
NamedSessionTurns(item, s) ==
  LET content == NeutralSession(item.sessions[s])
  IN  AtPlaces([i \in DOMAIN content |->
                 [unit |-> NeutralUnit(content, i), session |-> item.ids[s], index |-> i,
                  text |-> Stripped[content[i].text], timestamp |-> DateOf(item, s)]],
               UserTurns(item.sessions[s]))

SessionTurns(item, s) ==
  LET content == NeutralSession(item.sessions[s])
  IN  AtPlaces([i \in DOMAIN content |->
                 [unit |-> NeutralUnit(content, i), session |-> content, index |-> i,
                  text |-> Stripped[content[i].text], timestamp |-> DateOf(item, s)]],
               UserTurns(item.sessions[s]))

(* Question.corpus: every user turn, a repeated session's again. *)
CorpusOf(item) == FlattenSeq([s \in DOMAIN item.sessions |-> SessionTurns(item, s)])

Contents(item) == {NeutralSession(item.sessions[s]) : s \in DOMAIN item.sessions}

(* Where a content occurs first: there its id and date are taken from. *)
FirstSession(item, content) ==
  CHOOSE s \in DOMAIN item.sessions :
    /\ NeutralSession(item.sessions[s]) = content
    /\ \A r \in 1..s - 1 : NeutralSession(item.sessions[r]) # content

(* Question.id_map, whose keys are the units of the corpus. *)
IdMap(item) ==
  [unit \in UNION {{NeutralUnit(NeutralSession(item.sessions[s]), i) :
                     i \in UserTurns(item.sessions[s])} : s \in DOMAIN item.sessions} |->
     LET s == FirstSession(item, unit[1]) IN
     OfficialCorpusId(item.ids[s], unit[2], item.sessions[s][unit[2]].evidence)]

SessionDate(item, content) == DateOf(item, FirstSession(item, content))

-----------------------------------------------------------------------------
(* assemble_context *)

HasRound(item, unit) == unit[1] \in Contents(item) /\ unit[2] \in DOMAIN unit[1]

(* The turn and the one that follows it in its session, if any. *)
Round(item, unit) ==
  [date |-> SessionDate(item, unit[1]),
   turns |-> SubSeq(unit[1], unit[2], IF unit[2] < Len(unit[1]) THEN unit[2] + 1 ELSE unit[2])]

KnownPlaces(item, ranked) == {i \in DOMAIN ranked : HasRound(item, ranked[i])}

(* kept.sort(key=lambda x: x[0]): stable. *)
ByDate(rounds) ==
  LET places == DOMAIN rounds
      Before == {p \in places \X places :
                   \/ rounds[p[1]].date < rounds[p[2]].date
                   \/ rounds[p[1]].date = rounds[p[2]].date /\ p[1] < p[2]}
  IN  [k \in places |-> rounds[Sorted(places, Before)[k]]]

AtMostTopK(n, topK) == IF n < topK THEN n ELSE topK

\* Mutant: the rounds are sorted by date before the best TopK are taken.
AssembleOldest(item, ranked, topK) ==
  LET places == KnownPlaces(item, ranked)
      known == AtPlaces(ranked, places)
      sorted == ByDate([i \in 1..Cardinality(places) |-> Round(item, known[i])])
  IN  [k \in 1..AtMostTopK(Cardinality(places), topK) |-> sorted[k]]

(* Top-K by rank, then a stable sort by date; the token budget keeps a     *)
(* prefix of the text and is left out.                                     *)
AssembleContext(item, ranked, topK) ==
  LET places == KnownPlaces(item, ranked)
      known == AtPlaces(ranked, places)
  IN  ByDate([i \in 1..AtMostTopK(Cardinality(places), topK) |-> Round(item, known[i])])

(* The official ids of the ranked units, by id_map. *)
RankedOfficial(item, ranked) ==
  LET places == {i \in DOMAIN ranked : ranked[i] \in DOMAIN IdMap(item)}
      known == AtPlaces(ranked, places)
  IN  [k \in 1..Cardinality(places) |-> IdMap(item)[known[k]]]
=============================================================================
