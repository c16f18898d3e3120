----------------------- MODULE UsEquityCollectorProofs ----------------------
(***************************************************************************)
(* UsEquityShadowCollectorJob loses no session and reports what is missing,*)
(* for every universe, overlap and lateness with LatenessIsCovered.        *)
(*                                                                         *)
(* Neither property is inductive: what an upsert leaves unread depends on  *)
(* what was published when each symbol was asked, so RunInv follows the run*)
(* from its start date to its last answer.                                 *)
(***************************************************************************)
EXTENDS UsEquityCollector, TLAPS

Values == Nat \union {None}
Table == [Symbols -> [Sessions -> Values]]

TypeInv ==
  /\ today \in Nat /\ day \in Nat /\ at \in Nat /\ from \in Int
  /\ offered \in [Symbols -> SUBSET Sessions] /\ actions \in [Symbols -> Nat]
  /\ db \in Table /\ page \in Table
  /\ issues \subseteq Sessions /\ noted \subseteq Sessions
  /\ pc \in {"idle", "fetch", "upsert", "judge", "catch"}

\* What has been read was offered, and nothing is offered before its day.
SourceInv ==
  /\ \A a \in Symbols : Held(db, a) \subseteq offered[a] /\ Held(page, a) \subseteq offered[a]
  /\ \A a \in Symbols : \A s \in offered[a] : s <= today

\* Where a run began and how long it has lasted.
SpanInv ==
  /\ day <= today /\ (from <= 1 \/ from + Overlap <= today)
  /\ pc # "idle" => today <= day + 1 /\ status = "running"

\* Its start date reaches back to everything that is unread.
StartInv == pc # "idle" => \A a \in Symbols : \A s \in offered[a] \ Held(db, a) : from <= s

\* What the symbols asked have answered, and what they may have held back.
AnswerInv ==
  /\ \A a \in Symbols : \A s \in Held(page, a) : from <= s
  /\ \A i \in DOMAIN Universe : i < at =>
       /\ \A s \in offered[Universe[i]] \ Held(page, Universe[i]) : from <= s => day <= s + MaxLate
       /\ \A s \in Held(db, Universe[i]) \ Held(page, Universe[i]) : s < from

\* How far it has come.
PlaceInv ==
  /\ pc = "fetch" => at \in DOMAIN Universe /\ ~unsaved
  /\ pc \in {"upsert", "judge"} \/ unsaved => at = Len(Universe) + 1
  /\ pc = "idle" => at = 1 /\ page = NoBars /\ ~unsaved /\ noted = {}

SavedInv == pc = "judge" => \A a \in Symbols : Held(page, a) \subseteq Held(db, a)

RunInv == SpanInv /\ StartInv /\ AnswerInv /\ PlaceInv /\ SavedInv

IInv == TypeInv /\ SourceInv /\ RunInv /\ UnreadIsInReach /\ CompletedRunTellsTheTruth

-----------------------------------------------------------------------------
USE EquityConstants

LEMMA ConstantTypes ==
  /\ Overlap \in Nat /\ MaxLate \in Nat /\ LastSession \in Nat
  /\ Sessions \subseteq Nat /\ \A s \in Sessions : 1 <= s
  /\ Len(Universe) \in Nat /\ DOMAIN Universe = 1..Len(Universe)
  /\ \A i \in DOMAIN Universe : Universe[i] \in Symbols
  /\ None \notin Nat
BY DEF Sessions, Symbols

LEMMA EverySymbolIsAsked == \A a \in Symbols : \E i \in DOMAIN Universe : a = Universe[i]
BY DEF Symbols

\* What Held says after the two ways in which a table changes.
LEMMA MergedHeld ==
  ASSUME NEW T \in Table, NEW P \in Table
  PROVE  /\ Merged(T, P) \in Table
         /\ \A a \in Symbols : Held(Merged(T, P), a) = Held(T, a) \union Held(P, a)
BY ConstantTypes DEF Merged, Held, Table, Values

LEMMA NoBarsHeld == NoBars \in Table /\ \A a \in Symbols : Held(NoBars, a) = {}
BY ConstantTypes DEF NoBars, Held, Table, Values

LEMMA HeldIsSessions ==
  ASSUME NEW T, NEW a \in Symbols
  PROVE  Held(T, a) \subseteq Sessions
BY DEF Held

\* What one answer adds.
LEMMA FetchedHeld ==
  ASSUME TypeInv, RunInv, pc = "fetch",
         page' = [page EXCEPT ![Asked] = Answer(Asked)]
  PROVE  /\ Asked \in Symbols /\ page' \in Table
         /\ Held(page', Asked) = {s \in offered[Asked] : from <= s}
         /\ \A a \in Symbols \ {Asked} : Held(page', a) = Held(page, a)
<1>1. Asked \in Symbols
  BY ConstantTypes DEF RunInv, SpanInv, StartInv, AnswerInv, PlaceInv, SavedInv, Asked
<1>2. actions[Asked] \in Nat /\ actions[Asked] # None /\ offered[Asked] \subseteq Sessions
  BY <1>1, ConstantTypes DEF TypeInv
<1>3. Answer(Asked) \in [Sessions -> Values]
  BY <1>2 DEF Answer, Values
<1>4. page' \in Table /\ page'[Asked] = Answer(Asked) /\ \A a \in Symbols \ {Asked} : page'[a] = page[a]
  BY <1>1, <1>3 DEF TypeInv, Table
<1>5. Held(page', Asked) = {s \in offered[Asked] : from <= s}
  BY <1>2, <1>4 DEF Held, Answer
<1> QED BY <1>1, <1>4, <1>5 DEF Held

-----------------------------------------------------------------------------
LEMMA InitIInv == Init => IInv
<1> SUFFICES ASSUME Init PROVE IInv
  OBVIOUS
<1>1. TypeInv
  <2>1. offered \in [Symbols -> SUBSET Sessions] /\ actions \in [Symbols -> Nat]
    BY DEF Init
  <2>2. db \in Table /\ page \in Table
    BY NoBarsHeld DEF Init
  <2> QED BY <2>1, <2>2 DEF Init, TypeInv
<1>2. \A a \in Symbols : Held(db, a) = {} /\ Held(page, a) = {} /\ offered[a] = {}
  BY NoBarsHeld DEF Init
<1>3. SourceInv
  BY <1>2 DEF SourceInv
<1>4. RunInv
  BY <1>2, ConstantTypes DEF Init, RunInv, SpanInv, StartInv, AnswerInv, PlaceInv, SavedInv
<1>5. UnreadIsInReach /\ CompletedRunTellsTheTruth
  BY <1>2, ConstantTypes DEF Init, UnreadIsInReach, CompletedRunTellsTheTruth, Newest
<1> QED BY <1>1, <1>3, <1>4, <1>5 DEF IInv

\* The table after a save of what every symbol has answered.
LEMMA SavedInReach ==
  ASSUME IInv, at = Len(Universe) + 1, pc # "idle", db' = Merged(db, page), UNCHANGED provider
  PROVE  UnreadIsInReach'
<1> USE ConstantTypes DEF IInv
<1> SUFFICES ASSUME NEW a \in Symbols, NEW s \in offered[a], s \notin Held(db', a), NEW t \in Stored'
             PROVE  StartAfter(t) <= s
  BY DEF UnreadIsInReach, provider
<1>1. s \notin Held(db, a) /\ s \notin Held(page, a)
  BY MergedHeld DEF TypeInv
<1>2. PICK b \in Symbols : t \in Held(db, b) \/ t \in Held(page, b)
  BY MergedHeld DEF TypeInv, Stored
<1>3. t \in Sessions /\ t <= today
  BY <1>2, HeldIsSessions DEF SourceInv, TypeInv
<1>4. s \in Sessions
  BY DEF TypeInv
<1>5. from <= s
  BY <1>1 DEF RunInv, SpanInv, StartInv, AnswerInv, PlaceInv, SavedInv
<1>6. PICK i \in DOMAIN Universe : a = Universe[i]
  BY EverySymbolIsAsked
<1>7. i < at
  BY <1>6 DEF TypeInv
<1>8. day <= s + MaxLate
  BY <1>1, <1>5, <1>6, <1>7 DEF RunInv, SpanInv, StartInv, AnswerInv, PlaceInv, SavedInv
<1> QED
  BY <1>3, <1>4, <1>8, LatenessIsCovered DEF RunInv, SpanInv, StartInv, AnswerInv, PlaceInv, SavedInv, StartAfter, TypeInv

\* The verdict on a run whose answers are saved.
LEMMA VerdictIsTrue ==
  ASSUME IInv, Judge
  PROVE  CompletedRunTellsTheTruth'
<1> USE ConstantTypes DEF IInv
<1>1. PICK e \in ExpectedIn(page) :
        /\ Newest(e, ExpectedIn(page))
        /\ IF Missing(page, e) = {}
           THEN status' = "succeeded" /\ issues' = issues
           ELSE status' = "degraded" /\ issues' = issues \union {e}
  BY DEF Judge
<1>2. e \in Sessions /\ from <= e
  BY <1>1, HeldIsSessions DEF ExpectedIn, RunInv, SpanInv, StartInv, AnswerInv, PlaceInv, SavedInv
<1>3. UNCHANGED db
  BY DEF Judge
<1>4. SUFFICES ASSUME NEW s \in Sessions, Newest(s, Held(db, Benchmark))
               PROVE  /\ status' = "succeeded" => \A a \in Symbols : s \in Held(db, a)
                      /\ status' = "degraded" => \E i \in issues' : s <= i
  BY <1>3 DEF CompletedRunTellsTheTruth, Held
<1>5. s \in Held(db, Benchmark) /\ \A t \in Held(db, Benchmark) : t <= s
  BY <1>4 DEF Newest
<1>6. s \in Held(page, Benchmark) \/ s < from
  <2>1. PICK i \in DOMAIN Universe : Benchmark = Universe[i]
    BY EverySymbolIsAsked
  <2>2. i < at
    BY <2>1 DEF RunInv, SpanInv, StartInv, AnswerInv, PlaceInv, SavedInv, Judge, TypeInv
  <2> QED BY <1>5, <2>1, <2>2 DEF RunInv, SpanInv, StartInv, AnswerInv, PlaceInv, SavedInv
<1>7. s <= e
  <2>1. CASE s \in Held(page, Benchmark)
    BY <2>1, <1>1 DEF ExpectedIn, Newest
  <2>2. CASE s < from
    BY <2>2, <1>2 DEF TypeInv
  <2> QED BY <1>6, <2>1, <2>2
<1>8. ASSUME status' = "succeeded", NEW a \in Symbols PROVE s \in Held(db, a)
  <2>1. Missing(page, e) = {}
    BY <1>1, <1>8
  <2>2. \A b \in Symbols : e \in Held(page, b)
    BY <2>1, <1>2 DEF Missing, Held
  <2>3. \A b \in Symbols : e \in Held(db, b)
    BY <2>2 DEF RunInv, SpanInv, StartInv, AnswerInv, PlaceInv, SavedInv, Judge
  <2>4. s = e
    BY <2>3, <1>5, <1>7, <1>2
  <2> QED BY <2>3, <2>4
<1>9. ASSUME status' = "degraded" PROVE \E i \in issues' : s <= i
  BY <1>1, <1>7, <1>9
<1> QED BY <1>8, <1>9

LEMMA StepIInv == IInv /\ [Next]_vars => IInv'
<1> SUFFICES ASSUME IInv, [Next]_vars PROVE IInv'
  OBVIOUS
<1> USE ConstantTypes DEF IInv, provider, tables, context, run, vars
<1>1. CASE CloseSession
  <2>1. TypeInv'
    BY <1>1 DEF CloseSession, TypeInv, Table
  <2>2. SourceInv' /\ RunInv'
    BY <1>1 DEF CloseSession, TypeInv, SourceInv, RunInv, SpanInv, StartInv, AnswerInv, PlaceInv, SavedInv, Held
  <2>3. UnreadIsInReach' /\ CompletedRunTellsTheTruth'
    BY <1>1 DEF CloseSession, UnreadIsInReach, CompletedRunTellsTheTruth, Held, Stored
  <2> QED BY <2>1, <2>2, <2>3
<1>2. ASSUME NEW a \in Symbols, NEW s \in Sessions, Publish(a, s) PROVE IInv'
  <2> USE <1>2 DEF Publish
  <2>1. TypeInv'
    BY DEF TypeInv
  <2>2. /\ offered'[a] = offered[a] \union {s} /\ \A b \in Symbols \ {a} : offered'[b] = offered[b]
        /\ \A b \in Symbols : Held(db', b) = Held(db, b) /\ Held(page', b) = Held(page, b)
    BY DEF TypeInv
  <2>3. SourceInv'
    BY <2>2 DEF SourceInv
  <2>4. from <= s
    BY LatenessIsCovered DEF RunInv, SpanInv, StartInv, AnswerInv, PlaceInv, SavedInv, TypeInv
  <2>5. day <= s + MaxLate
    BY DEF RunInv, SpanInv, StartInv, AnswerInv, PlaceInv, SavedInv, TypeInv
  <2>6. RunInv'
    BY <2>2, <2>4, <2>5 DEF RunInv, SpanInv, StartInv, AnswerInv, PlaceInv, SavedInv
  <2>7. \A t \in Stored : StartAfter(t) <= s
    <3> TAKE t \in Stored
    <3>1. t \in Sessions /\ t <= today
      BY HeldIsSessions DEF Stored, SourceInv
    <3> QED BY <3>1, LatenessIsCovered DEF StartAfter, TypeInv
  <2>8. UnreadIsInReach'
    BY <2>2, <2>7 DEF UnreadIsInReach, Stored, StartAfter
  <2>9. CompletedRunTellsTheTruth'
    BY DEF CompletedRunTellsTheTruth
  <2> QED BY <2>1, <2>3, <2>6, <2>8, <2>9
<1>3. ASSUME NEW a \in Symbols, CorporateAction(a) PROVE IInv'
  <2>1. actions' \in [Symbols -> Nat]
    BY <1>3 DEF CorporateAction, TypeInv
  <2>2. TypeInv' /\ SourceInv'
    BY <1>3, <2>1 DEF CorporateAction, TypeInv, SourceInv, Held
  <2>3. RunInv'
    BY <1>3 DEF CorporateAction, RunInv, SpanInv, StartInv, AnswerInv, PlaceInv, SavedInv, Held
  <2>4. UnreadIsInReach' /\ CompletedRunTellsTheTruth'
    BY <1>3 DEF CorporateAction, UnreadIsInReach, CompletedRunTellsTheTruth, Held, Stored
  <2> QED BY <2>2, <2>3, <2>4
<1>4. CASE Start
  <2> USE <1>4 DEF Start
  <2>1. Stored \subseteq Sessions /\ \A t \in Stored : t <= today
    BY HeldIsSessions DEF Stored, SourceInv
  <2>2. /\ from' \in Int /\ (from' <= 1 \/ from' + Overlap <= today)
        /\ \A b \in Symbols : \A s \in offered[b] \ Held(db, b) : from' <= s
    <3>1. CASE Stored = {} /\ from' = 1
      BY <3>1 DEF TypeInv
    <3>2. CASE \E latest \in Stored : Newest(latest, Stored) /\ from' = StartAfter(latest)
      BY <3>2, <2>1 DEF TypeInv, StartAfter, UnreadIsInReach
    <3> QED BY <3>1, <3>2
  <2>3. at' = 1 /\ \A b \in Symbols : Held(page', b) = {} /\ Held(db', b) = Held(db, b)
    BY NoBarsHeld DEF RunInv, SpanInv, StartInv, AnswerInv, PlaceInv, SavedInv
  <2>4. TypeInv'
    BY <2>2 DEF TypeInv
  <2>5. SourceInv'
    BY DEF SourceInv, Held
  <2>6. RunInv'
    <3>0. 1 \in DOMAIN Universe
      BY EverySymbolIsAsked
    <3>1. SpanInv'
      <4>1. day' = today /\ today' = today /\ status' = "running" /\ today \in Nat
        BY DEF TypeInv
      <4>2. from' <= 1 \/ from' + Overlap <= today'
        BY <4>1, <2>2
      <4>3. day' <= today' /\ today' <= day' + 1
        BY <4>1
      <4> QED BY <4>1, <4>2, <4>3 DEF SpanInv
    <3>4. StartInv'
      BY <2>2, <2>3 DEF StartInv
    <3>2. AnswerInv'
      BY <2>3 DEF AnswerInv
    <3>3. PlaceInv' /\ SavedInv'
      BY <2>3, <3>0 DEF RunInv, PlaceInv, SavedInv
    <3> QED BY <3>1, <3>2, <3>3, <3>4 DEF RunInv
  <2>7. UnreadIsInReach' /\ CompletedRunTellsTheTruth'
    BY DEF UnreadIsInReach, CompletedRunTellsTheTruth, Held, Stored
  <2> QED BY <2>4, <2>5, <2>6, <2>7
<1>5. CASE Fetch
  <2>0. /\ pc = "fetch" /\ at' = at + 1 /\ page' = [page EXCEPT ![Asked] = Answer(Asked)]
        /\ pc' = IF at = Len(Universe) THEN "upsert" ELSE "fetch"
        /\ UNCHANGED <<provider, tables, day, from, context>>
    BY <1>5 DEF Fetch
  <2>1. /\ Asked \in Symbols /\ page' \in Table
        /\ Held(page', Asked) = {s \in offered[Asked] : from <= s}
        /\ \A b \in Symbols \ {Asked} : Held(page', b) = Held(page, b)
    BY <2>0, FetchedHeld
  <2>a. \A b \in Symbols : Held(db', b) = Held(db, b)
    BY <2>0 DEF Held
  <2>b. UNCHANGED <<today, offered, actions, db, status, issues, day, from, unsaved, noted>>
    BY <2>0
  <2>c. at \in DOMAIN Universe /\ at \in Nat /\ ~unsaved
    BY <2>0 DEF RunInv, PlaceInv, TypeInv
  <2> HIDE DEF provider, tables, context
  <2>2. TypeInv'
    <3>1. at' \in Nat /\ pc' \in {"idle", "fetch", "upsert", "judge", "catch"}
      BY <2>0, <2>c
    <3> QED BY <2>1, <2>b, <3>1 DEF TypeInv
  <2>3. SourceInv'
    BY <2>1, <2>a, <2>b DEF SourceInv
  <2>4. \A b \in Symbols : \A s \in Held(page', b) : from <= s
    BY <2>1 DEF RunInv, AnswerInv
  <2>5. ASSUME NEW i \in DOMAIN Universe, i < at'
        PROVE  /\ \A s \in offered[Universe[i]] \ Held(page', Universe[i]) : from <= s => day <= s + MaxLate
               /\ \A s \in Held(db, Universe[i]) \ Held(page', Universe[i]) : s < from
    <3>0. Universe[i] \in Symbols /\ i \in Nat
      OBVIOUS
    <3>1. CASE Universe[i] = Asked
      <4>1. Held(db, Asked) \subseteq offered[Asked] /\ offered[Asked] \subseteq Sessions
        BY <2>1 DEF SourceInv, TypeInv
      <4>2. from \in Int /\ \A s \in Sessions : from <= s \/ s < from
        BY DEF TypeInv
      <4> QED BY <3>1, <4>1, <4>2, <2>1
    <3>2. CASE Universe[i] # Asked
      <4>1. i < at
        BY <3>0, <3>2, <2>5, <2>0, <2>c DEF Asked
      <4> QED BY <3>0, <3>2, <4>1, <2>1 DEF RunInv, AnswerInv
    <3> QED BY <3>1, <3>2
  <2>6. RunInv'
    <3>1. AnswerInv'
      BY <2>4, <2>5, <2>a, <2>b DEF AnswerInv
    <3>2. SpanInv'
      BY <2>0, <2>b DEF RunInv, SpanInv
    <3>3. StartInv'
      BY <2>0, <2>a, <2>b DEF RunInv, StartInv
    <3>4. PlaceInv' /\ SavedInv'
      BY <2>0, <2>b, <2>c DEF PlaceInv, SavedInv
    <3> QED BY <3>1, <3>2, <3>3, <3>4 DEF RunInv
  <2>7. UnreadIsInReach' /\ CompletedRunTellsTheTruth'
    BY <2>a, <2>b DEF UnreadIsInReach, CompletedRunTellsTheTruth, Stored
  <2> QED BY <2>2, <2>3, <2>6, <2>7
<1>6. CASE Reject \/ NothingToSave
  <2> USE <1>6 DEF Reject, NothingToSave
  <2>1. TypeInv' /\ SourceInv'
    BY DEF TypeInv, SourceInv, Held
  <2>2. RunInv'
    BY DEF RunInv, SpanInv, StartInv, AnswerInv, PlaceInv, SavedInv, Held
  <2>3. UnreadIsInReach' /\ CompletedRunTellsTheTruth'
    BY DEF UnreadIsInReach, CompletedRunTellsTheTruth, Held, Stored
  <2> QED BY <2>1, <2>2, <2>3
<1>7. CASE Upsert
  <2> USE <1>7 DEF Upsert
  <2>1. db' \in Table /\ \A b \in Symbols : Held(db', b) = Held(db, b) \union Held(page, b)
    BY MergedHeld DEF TypeInv
  <2>2. TypeInv'
    BY <2>1 DEF TypeInv
  <2>3. SourceInv'
    BY <2>1 DEF SourceInv, Held
  <2>4. RunInv'
    BY <2>1 DEF RunInv, SpanInv, StartInv, AnswerInv, PlaceInv, SavedInv, Held
  <2>5. UnreadIsInReach'
    BY SavedInReach DEF RunInv, SpanInv, StartInv, AnswerInv, PlaceInv, SavedInv
  <2>6. CompletedRunTellsTheTruth'
    BY DEF CompletedRunTellsTheTruth, RunInv, SpanInv, StartInv, AnswerInv, PlaceInv, SavedInv
  <2> QED BY <2>2, <2>3, <2>4, <2>5, <2>6
<1>8. CASE Judge
  <2>1. CompletedRunTellsTheTruth'
    BY <1>8, VerdictIsTrue
  <2> USE <1>8 DEF Judge, EndRun
  <2>2. issues' \subseteq Sessions
    BY HeldIsSessions DEF TypeInv, ExpectedIn
  <2>3. TypeInv'
    BY <2>2, NoBarsHeld DEF TypeInv
  <2>4. SourceInv' /\ RunInv'
    BY NoBarsHeld DEF SourceInv, RunInv, SpanInv, StartInv, AnswerInv, PlaceInv, SavedInv, TypeInv, Held
  <2>5. UnreadIsInReach'
    BY DEF UnreadIsInReach, Held, Stored
  <2> QED BY <2>1, <2>3, <2>4, <2>5
<1>9. CASE Fail
  <2> USE <1>9 DEF Fail
  <2>1. noted' \subseteq Sessions
    <3>1. ExpectedIn(page) \subseteq Sessions
      BY HeldIsSessions DEF ExpectedIn
    <3> QED BY <3>1 DEF TypeInv
  <2>2. TypeInv' /\ SourceInv'
    BY <2>1 DEF TypeInv, SourceInv, Held
  <2>3. RunInv'
    BY DEF RunInv, SpanInv, StartInv, AnswerInv, PlaceInv, SavedInv, Held, TypeInv
  <2>4. UnreadIsInReach' /\ CompletedRunTellsTheTruth'
    BY DEF UnreadIsInReach, CompletedRunTellsTheTruth, Held, Stored
  <2> QED BY <2>2, <2>3, <2>4
<1>10. CASE CatchSave
  <2> USE <1>10 DEF CatchSave, EndRun
  <2>1. CompletedRunTellsTheTruth'
    BY DEF CompletedRunTellsTheTruth
  <2>2. db' \in Table /\ \A b \in Symbols : Held(db', b) \subseteq Held(db, b) \union Held(page, b)
    BY MergedHeld DEF TypeInv, Held
  <2>3. TypeInv'
    BY <2>2, NoBarsHeld DEF TypeInv
  <2>4. SourceInv'
    BY <2>2, NoBarsHeld DEF SourceInv
  <2>5. RunInv'
    BY NoBarsHeld DEF RunInv, SpanInv, StartInv, AnswerInv, PlaceInv, SavedInv, TypeInv
  <2>6. UnreadIsInReach'
    <3>1. CASE unsaved
      BY <3>1, SavedInReach DEF RunInv, SpanInv, StartInv, AnswerInv, PlaceInv, SavedInv
    <3>2. CASE ~unsaved
      BY <3>2 DEF UnreadIsInReach, Held, Stored
    <3> QED BY <3>1, <3>2
  <2> QED BY <2>1, <2>3, <2>4, <2>5, <2>6
<1>11. CASE Crash
  <2> USE <1>11 DEF Crash, EndRun
  <2>1. TypeInv' /\ SourceInv' /\ RunInv'
    BY NoBarsHeld DEF TypeInv, SourceInv, RunInv, SpanInv, StartInv, AnswerInv, PlaceInv, SavedInv, Held
  <2>2. UnreadIsInReach' /\ CompletedRunTellsTheTruth'
    BY DEF UnreadIsInReach, CompletedRunTellsTheTruth, Held, Stored
  <2> QED BY <2>1, <2>2
<1>12. CASE UNCHANGED vars
  BY <1>12 DEF TypeInv, SourceInv, RunInv, SpanInv, StartInv, AnswerInv, PlaceInv, SavedInv, UnreadIsInReach, CompletedRunTellsTheTruth, Held, Stored
<1> QED
  BY <1>1, <1>2, <1>3, <1>4, <1>5, <1>6, <1>7, <1>8, <1>9, <1>10, <1>11, <1>12 DEF Next, JobStep

-----------------------------------------------------------------------------
THEOREM EquityInvariant == Spec => []IInv
<1>1. Init => IInv
  BY InitIInv
<1>2. IInv /\ [Next]_vars => IInv'
  BY StepIInv
<1> QED BY <1>1, <1>2, PTL DEF Spec

(* No session gets out of the reach of the next run, whatever is late, lost*)
(* or published while a run is asking.                                     *)
THEOREM NoSessionLost == Spec => []UnreadIsInReach
<1>1. IInv => UnreadIsInReach
  BY DEF IInv
<1> QED BY <1>1, EquityInvariant, PTL

(* What the job's status says of the table is so.                          *)
THEOREM VerdictsAreTrue == Spec => []CompletedRunTellsTheTruth
<1>1. IInv => CompletedRunTellsTheTruth
  BY DEF IInv
<1> QED BY <1>1, EquityInvariant, PTL

-----------------------------------------------------------------------------
(* Why the newest rows agree: an answer is adjusted as a whole, it reaches *)
(* back to the start date, and that is Overlap before a stored bar.        *)
AnswersAgree == \A a \in Symbols : \A s, t \in Held(page, a) : page[a][s] = page[a][t]
StartsInTable == pc # "idle" => from <= 1 \/ \E n \in Stored : from = StartAfter(n)
AnswersStored == pc = "judge" => \A a \in Symbols : \A s \in Held(page, a) : db[a][s] = page[a][s]

AgreeInv == AnswersAgree /\ StartsInTable /\ AnswersStored /\ RecentBarsAgree

\* The table when the answers are in it.
LEMMA JudgedRowsAgree ==
  ASSUME IInv, AgreeInv, pc = "judge", NEW a \in Symbols, NEW s \in Held(db, a), NEW t \in Held(db, a),
         \A n \in Stored : n - Overlap <= s /\ n - Overlap <= t
  PROVE  db[a][s] = db[a][t]
<1> USE ConstantTypes
<1>1. s \in Sessions /\ t \in Sessions
  BY HeldIsSessions
<1>2. from <= s /\ from <= t
  BY <1>1 DEF AgreeInv, StartsInTable, StartAfter, IInv, TypeInv
<1>3. PICK i \in DOMAIN Universe : a = Universe[i]
  BY EverySymbolIsAsked
<1>4. i < at
  BY <1>3 DEF IInv, RunInv, PlaceInv
<1>5. \A u \in Held(db, a) \ Held(page, a) : u < from
  BY <1>3, <1>4 DEF IInv, RunInv, AnswerInv
<1>6. s \in Held(page, a) /\ t \in Held(page, a)
  BY <1>1, <1>2, <1>5 DEF IInv, TypeInv
<1> QED BY <1>6 DEF AgreeInv, AnswersAgree, AnswersStored

LEMMA InitAgree == Init => AgreeInv
BY NoBarsHeld DEF Init, AgreeInv, AnswersAgree, StartsInTable, AnswersStored, RecentBarsAgree

LEMMA StepAgree == IInv /\ AgreeInv /\ [Next]_vars => AgreeInv'
<1> SUFFICES ASSUME IInv, AgreeInv, [Next]_vars PROVE AgreeInv'
  OBVIOUS
<1> USE ConstantTypes
<1> DEFINE Recent == status \in {"succeeded", "degraded"}
<1>1. CASE CloseSession \/ UNCHANGED vars
           \/ (\E a \in Symbols, s \in Sessions : Publish(a, s)) \/ (\E a \in Symbols : CorporateAction(a))
  <2>1. UNCHANGED <<db, status, pc, from, page>>
    BY <1>1 DEF CloseSession, Publish, CorporateAction, vars, tables, run
  <2> QED BY <2>1 DEF AgreeInv, AnswersAgree, StartsInTable, AnswersStored, RecentBarsAgree, Held, Stored
<1>2. CASE Start
  <2>1. /\ db' = db /\ page' = page /\ status' = "running" /\ pc' = "fetch"
        /\ from' = 1 \/ \E n \in Stored : from' = StartAfter(n)
    BY <1>2 DEF Start
  <2> QED BY <2>1 DEF AgreeInv, AnswersAgree, StartsInTable, AnswersStored, RecentBarsAgree, Held, Stored
<1>3. CASE Fetch
  <2>1. /\ pc = "fetch" /\ page' = [page EXCEPT ![Asked] = Answer(Asked)] /\ pc' \in {"upsert", "fetch"}
        /\ UNCHANGED <<db, status, from>>
    BY <1>3 DEF Fetch, tables
  <2>2. /\ Asked \in Symbols /\ \A b \in Symbols \ {Asked} : Held(page', b) = Held(page, b)
    BY <2>1, FetchedHeld DEF IInv
  <2>3. page'[Asked] = Answer(Asked) /\ \A b \in Symbols \ {Asked} : page'[b] = page[b]
    BY <2>1, <2>2 DEF IInv, TypeInv, Table
  <2>4. AnswersAgree'
    <3> SUFFICES ASSUME NEW a \in Symbols, NEW s \in Held(page', a), NEW t \in Held(page', a)
                 PROVE  page'[a][s] = page'[a][t]
      BY DEF AnswersAgree
    <3>1. CASE a = Asked
      <4>1. s \in Sessions /\ t \in Sessions /\ Answer(a)[s] # None /\ Answer(a)[t] # None
        BY <2>3, <3>1 DEF Held
      <4>2. Answer(a)[s] = actions[a] /\ Answer(a)[t] = actions[a]
        BY <4>1 DEF Answer
      <4> QED BY <4>2, <2>3, <3>1
    <3>2. CASE a # Asked
      BY <2>2, <2>3, <3>2 DEF AgreeInv, AnswersAgree
    <3> QED BY <3>1, <3>2
  <2>5. status' = "running"
    BY <2>1 DEF IInv, RunInv, SpanInv
  <2> QED BY <2>1, <2>4, <2>5 DEF AgreeInv, StartsInTable, AnswersStored, RecentBarsAgree, Stored, Held
<1>4. CASE Reject \/ NothingToSave \/ Fail
  <2>1. pc # "idle" /\ pc' = "catch" /\ UNCHANGED <<db, from, page, status>>
    BY <1>4 DEF Reject, NothingToSave, Fail, tables, run
  <2>2. AnswersAgree' /\ RecentBarsAgree'
    BY <2>1 DEF AgreeInv, AnswersAgree, RecentBarsAgree, Held, Stored
  <2>3. StartsInTable' /\ AnswersStored'
    BY <2>1 DEF AgreeInv, StartsInTable, AnswersStored, Stored, Held, StartAfter
  <2> QED BY <2>2, <2>3 DEF AgreeInv
<1>5. CASE Upsert
  <2>1. /\ pc = "upsert" /\ pc' = "judge" /\ db' = Merged(db, page) /\ UNCHANGED <<status, from, page>>
    BY <1>5 DEF Upsert, run
  <2>2. \A a \in Symbols : Held(db', a) = Held(db, a) \union Held(page, a)
    BY <2>1, MergedHeld DEF IInv, TypeInv
  <2>3. Stored \subseteq Stored'
    BY <2>2 DEF Stored
  <2>4. \A a \in Symbols : \A s \in Held(page, a) : db'[a][s] = page'[a][s]
    BY <2>1 DEF Merged, Held
  <2>5. status' = "running"
    BY <2>1 DEF IInv, RunInv, SpanInv
  <2>6. AnswersAgree'
    BY <2>1 DEF AgreeInv, AnswersAgree, Held
  <2>7. StartsInTable'
    BY <2>1, <2>3 DEF AgreeInv, StartsInTable, StartAfter
  <2>8. AnswersStored'
    BY <2>1, <2>4 DEF AnswersStored, Held
  <2> QED BY <2>5, <2>6, <2>7, <2>8 DEF AgreeInv, RecentBarsAgree
<1>6. CASE Judge
  <2>1. pc = "judge" /\ pc' = "idle" /\ db' = db /\ page' = NoBars
    BY <1>6 DEF Judge, EndRun
  <2>2. AnswersAgree'
    BY <2>1, NoBarsHeld DEF AnswersAgree
  <2>3. RecentBarsAgree'
    BY <2>1, JudgedRowsAgree DEF RecentBarsAgree, Held, Stored
  <2> QED BY <2>1, <2>2, <2>3 DEF AgreeInv, StartsInTable, AnswersStored
<1>7. CASE CatchSave \/ Crash
  <2>1. pc # "idle" /\ pc' = "idle" /\ page' = NoBars /\ (status' = "failed" \/ status' = status)
    BY <1>7 DEF CatchSave, Crash, EndRun, tables
  <2>2. status' \notin {"succeeded", "degraded"}
    BY <2>1 DEF IInv, RunInv, SpanInv
  <2>3. AnswersAgree'
    BY <2>1, NoBarsHeld DEF AnswersAgree
  <2> QED BY <2>1, <2>2, <2>3 DEF AgreeInv, StartsInTable, AnswersStored, RecentBarsAgree
<1> QED BY <1>1, <1>2, <1>3, <1>4, <1>5, <1>6, <1>7 DEF Next, JobStep

(* After a run the sessions that are read again are adjusted alike in all  *)
(* rows of a symbol, however many splits there have been and whenever.     *)
THEOREM RecentBarsAreAdjusted == Spec => []RecentBarsAgree
<1>1. AgreeInv => RecentBarsAgree
  BY DEF AgreeInv
<1> QED BY <1>1, InitAgree, StepAgree, EquityInvariant, PTL DEF Spec

-----------------------------------------------------------------------------
LEMMA NoBarsAreBars == NoBars \in Bars
BY DEF NoBars, Bars

\* What the end of a run leaves.
LEMMA EndedTypes ==
  EndRun => /\ day' \in 0..LastSession /\ from' \in Int /\ at' \in 1..(Len(Universe) + 1)
            /\ page' \in Bars /\ unsaved' \in BOOLEAN /\ noted' \subseteq Sessions
<1>1. 0 \in 0..LastSession /\ 1 \in 1..(Len(Universe) + 1) /\ 1 \in Int
  BY ConstantTypes
<1> QED BY <1>1, NoBarsAreBars DEF EndRun

LEMMA InitTypes == Init => TypeOK
<1> SUFFICES ASSUME Init PROVE TypeOK
  OBVIOUS
<1>1. 1 <= Len(Universe) + 1
  BY ConstantTypes
<1>2. offered \in [Symbols -> SUBSET Sessions] /\ actions \in [Symbols -> 0..MaxActions]
  BY DEF Init
<1>3. 0 \in 0..LastSession /\ 1 \in 1..(Len(Universe) + 1) /\ 0 \in 0..MaxFaults /\ 1 \in Int
  BY <1>1, ConstantTypes
<1> QED BY <1>2, <1>3, NoBarsAreBars DEF Init, TypeOK

LEMMA BarsMerge == \A T, P \in Bars : Merged(T, P) \in Bars
BY DEF Merged, Bars

LEMMA StepTypes == IInv /\ TypeOK /\ [Next]_vars => TypeOK'
<1> SUFFICES ASSUME IInv, TypeOK, [Next]_vars PROVE TypeOK'
  OBVIOUS
<1> USE ConstantTypes DEF provider, tables, context, run
<1>0. CASE UNCHANGED vars
  BY <1>0 DEF vars, TypeOK
<1>1. CASE CloseSession
  <2>1. today' \in 0..LastSession
    BY <1>1 DEF CloseSession, TypeOK
  <2> QED BY <1>1, <2>1 DEF CloseSession, TypeOK
<1>2. ASSUME NEW a \in Symbols, NEW s \in Sessions, Publish(a, s) PROVE TypeOK'
  BY <1>2 DEF Publish, TypeOK
<1>3. ASSUME NEW a \in Symbols, CorporateAction(a) PROVE TypeOK'
  <2>1. actions[a] + 1 \in 0..MaxActions
    BY <1>3 DEF CorporateAction, TypeOK
  <2> QED BY <1>3, <2>1 DEF CorporateAction, TypeOK
<1>4. CASE Start
  <2>1. from' \in Int
    <3>1. \A a \in Symbols : Held(db, a) \subseteq Sessions
      BY HeldIsSessions
    <3>2. \A n \in Stored : n \in Int /\ n - Overlap \in Int
      <4> TAKE n \in Stored
      <4>1. PICK a \in Symbols : n \in Held(db, a)
        BY DEF Stored
      <4>2. n \in Sessions
        BY <3>1, <4>1
      <4>3. n \in Nat
        BY <4>2, ConstantTypes
      <4> QED BY <4>3, ConstantTypes
    <3> QED BY <1>4, <3>2 DEF Start, StartAfter
  <2>2. at = 1 /\ 1 \in DOMAIN Universe
    BY <1>4, EverySymbolIsAsked DEF Start, IInv, RunInv, PlaceInv
  <2> QED BY <1>4, <2>1, <2>2 DEF Start, TypeOK
<1>5. CASE Fetch
  <2>1. Asked \in Symbols /\ at \in DOMAIN Universe
    BY <1>5 DEF Fetch, IInv, RunInv, PlaceInv, Asked
  <2>2. Answer(Asked) \in [Sessions -> (0..MaxActions) \union {None}]
    BY <2>1 DEF Answer, TypeOK
  <2>3. page' \in Bars
    BY <1>5, <2>1, <2>2 DEF Fetch, TypeOK, Bars
  <2>4. at' \in 1..(Len(Universe) + 1) /\ (pc' = "fetch" => at' <= Len(Universe))
    BY <1>5, <2>1 DEF Fetch
  <2> QED BY <1>5, <2>3, <2>4 DEF Fetch, TypeOK
<1>6. CASE Reject \/ NothingToSave
  BY <1>6 DEF Reject, NothingToSave, TypeOK
<1>7. CASE Upsert
  <2>1. db' \in Bars
    BY <1>7, BarsMerge DEF Upsert, TypeOK
  <2> QED BY <1>7, <2>1 DEF Upsert, TypeOK
<1>8. CASE Judge
  <2>1. issues' \subseteq Sessions
    BY <1>8, HeldIsSessions DEF Judge, TypeOK, ExpectedIn
  <2>2. /\ pc' = "idle" /\ status' \in {"succeeded", "degraded"} /\ EndRun
        /\ UNCHANGED <<provider, db, faults>>
    BY <1>8 DEF Judge
  <2> QED BY <2>1, <2>2, EndedTypes DEF TypeOK
<1>9. CASE Fail
  <2>1. noted' \subseteq Sessions /\ unsaved' \in BOOLEAN
    <3>1. ExpectedIn(page) \subseteq Sessions
      BY HeldIsSessions DEF ExpectedIn
    <3> QED BY <1>9, <3>1 DEF Fail, TypeOK
  <2>2. faults' \in 0..MaxFaults
    BY <1>9 DEF Fail, TypeOK
  <2> QED BY <1>9, <2>1, <2>2 DEF Fail, TypeOK
<1>10. CASE CatchSave
  <2>1. db' \in Bars
    BY <1>10, BarsMerge DEF CatchSave, TypeOK
  <2>2. /\ pc' = "idle" /\ status' = "failed" /\ EndRun /\ issues' = issues \union noted
        /\ UNCHANGED <<provider, faults>>
    BY <1>10 DEF CatchSave
  <2> QED BY <2>1, <2>2, EndedTypes DEF TypeOK
<1>11. CASE Crash
  <2>1. faults' \in 0..MaxFaults /\ pc' = "idle" /\ EndRun /\ UNCHANGED <<provider, tables>>
    BY <1>11 DEF Crash, TypeOK
  <2> QED BY <2>1, EndedTypes DEF TypeOK
<1> QED
  BY <1>0, <1>1, <1>2, <1>3, <1>4, <1>5, <1>6, <1>7, <1>8, <1>9, <1>10, <1>11 DEF Next, JobStep

(* Every variable of the equity collector's model keeps its type.          *)
THEOREM EquityTypes == Spec => []TypeOK
<1> QED BY InitTypes, StepTypes, EquityInvariant, PTL DEF Spec
=============================================================================
