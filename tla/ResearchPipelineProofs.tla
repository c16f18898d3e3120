----------------------- MODULE ResearchPipelineProofs -----------------------
(***************************************************************************)
(* Theorems about ResearchPipeline for every mirror, asset list, history   *)
(* and bound: the invariants of the run hold in every state.  The          *)
(* inductive invariant has a part per component; the parts speak of each   *)
(* other only in that a study keeps builds and macro downloads out.        *)
(***************************************************************************)
EXTENDS ResearchPipeline, HistoricalArchiveProofs, ResearchStudyProofs

-----------------------------------------------------------------------------
(* Bundles. *)

\* The model files come first, then the hash over all of them.
Bundles == [class : Kinds \cup {"none"}, eligible : BOOLEAN, written : 0..9, torn : BOOLEAN,
            hashed : SUBSET Exports, stage : {"idle", "writing", "reported", "abandoned"}]

BundleInv ==
  /\ bundle \in Bundles
  /\ bundle.torn => bundle.written < 9 /\ bundle.written # 5
  /\ bundle.written > 5 => bundle.hashed = Exports

\* Where the hash and the manifest are in the order of the files.
LEMMA OrderFacts ==
  /\ Len(WriteOrder) = 9
  /\ \A i \in 1..9 : /\ WriteOrder[i] = "sha256" <=> i = 6
                     /\ WriteOrder[i] = "manifest" <=> i = 7
  /\ Exports = {WriteOrder[i] : i \in 1..5}
<1>1. /\ Len(WriteOrder) = 9
      /\ WriteOrder[1] = "direction" /\ WriteOrder[2] = "p10" /\ WriteOrder[3] = "p50"
      /\ WriteOrder[4] = "p90" /\ WriteOrder[5] = "risk" /\ WriteOrder[6] = "sha256"
      /\ WriteOrder[7] = "manifest" /\ WriteOrder[8] = "schema" /\ WriteOrder[9] = "metrics"
  BY DEF WriteOrder
<1>2. \A i \in 1..9 : \/ i = 1 \/ i = 2 \/ i = 3 \/ i = 4 \/ i = 5 \/ i = 6 \/ i = 7 \/ i = 8 \/ i = 9
  OBVIOUS
<1>3. \A i \in 1..5 : i = 1 \/ i = 2 \/ i = 3 \/ i = 4 \/ i = 5
  OBVIOUS
<1>4. Exports = {WriteOrder[i] : i \in 1..5}
  BY <1>1, <1>3 DEF Exports
<1> QED BY <1>1, <1>2, <1>4

LEMMA BundleInitHolds == BundleInit => BundleInv
BY DEF BundleInit, BundleInv, Bundles, NoBundle

LEMMA OpenBundleKeeps ==
  ASSUME BundleInv, NEW class \in Kinds, NEW scenario \in BOOLEAN, OpenBundle(class, scenario)
  PROVE  BundleInv'
<1> DEFINE eligible == scenario /\ class = "crypto"
<1>1. eligible \in BOOLEAN
  OBVIOUS
<1> HIDE DEF eligible
<1>2. bundle' = [class |-> class, eligible |-> eligible, written |-> 0, torn |-> FALSE, hashed |-> {},
                 stage |-> "writing"]
  BY DEF OpenBundle, NoBundle, eligible
<1> QED BY <1>1, <1>2 DEF BundleInv, Bundles

LEMMA TakeHashKeeps == ASSUME BundleInv, TakeHash PROVE BundleInv'
<1>1. bundle.written = 5
  BY OrderFacts DEF BundleInv, Bundles, TakeHash, NextFile, AllWritten
<1>2. Whole \cap Exports = Exports
  BY <1>1, OrderFacts DEF Whole
<1>3. bundle.written + 1 \in 0..9 /\ Whole \cap Exports \in SUBSET Exports
  BY <1>1
<1>4. bundle' \in Bundles /\ bundle'.torn = bundle.torn /\ bundle'.hashed = Whole \cap Exports
  BY <1>3 DEF BundleInv, Bundles, TakeHash
<1> QED BY <1>1, <1>2, <1>4 DEF BundleInv, TakeHash

LEMMA BundleStepKeeps == BundleInv /\ BundleStep => BundleInv'
<1> SUFFICES ASSUME BundleInv, BundleStep PROVE BundleInv'
  OBVIOUS
<1>1. CASE TakeHash
  BY <1>1, TakeHashKeeps
<1>2. CASE BeginFile
  <2>1. bundle.written < 9 /\ bundle.written # 5
    BY <1>2, OrderFacts DEF BundleInv, Bundles, BeginFile, NextFile, AllWritten
  <2>2. bundle' \in Bundles /\ bundle'.written = bundle.written /\ bundle'.hashed = bundle.hashed
    BY <1>2 DEF BundleInv, Bundles, BeginFile
  <2> QED BY <2>1, <2>2 DEF BundleInv
<1>3. CASE EndFile
  <2>0. bundle.written + 1 \in 0..9 /\ FALSE \in BOOLEAN
    BY <1>3 DEF BundleInv, Bundles, EndFile
  <2>1. bundle' \in Bundles /\ bundle'.written = bundle.written + 1 /\ ~bundle'.torn
        /\ bundle'.hashed = bundle.hashed
    BY <1>3, <2>0 DEF BundleInv, Bundles, EndFile
  <2> QED BY <1>3, <2>1 DEF BundleInv, Bundles, EndFile
<1>4. CASE \E loads \in BOOLEAN : SmokeLoad(loads)
  <2>1. bundle' \in Bundles /\ bundle'.written = bundle.written /\ bundle'.torn = bundle.torn
        /\ bundle'.hashed = bundle.hashed
    BY <1>4 DEF BundleInv, Bundles, SmokeLoad
  <2> QED BY <2>1 DEF BundleInv
<1> QED BY <1>1, <1>2, <1>3, <1>4 DEF BundleStep

LEMMA KilledBundleKeeps == ASSUME BundleInv, PublicationKilled PROVE BundleInv'
<1>1. bundle' \in Bundles /\ bundle'.written = bundle.written /\ bundle'.torn = bundle.torn
      /\ bundle'.hashed = bundle.hashed
  BY DEF BundleInv, Bundles, PublicationKilled
<1> QED BY <1>1 DEF BundleInv

LEMMA BundleInvIsWhole == BundleInv => BundleIsWhole
<1> SUFFICES ASSUME BundleInv, "manifest" \in Whole
             PROVE  Exports \subseteq Whole /\ bundle.hashed = Exports
  BY DEF BundleIsWhole
<1>1. PICK i \in 1..bundle.written : WriteOrder[i] = "manifest"
  BY DEF Whole
<1>2. bundle.written >= 7
  BY <1>1, OrderFacts DEF BundleInv, Bundles
<1> QED BY <1>2, OrderFacts DEF BundleInv, Bundles, Whole

-----------------------------------------------------------------------------
(* Studies. *)

StudyNames == DOMAIN Studies

Records == [year : 0..6, behind : SUBSET BlindParts, against : SUBSET SeenParts, on : PartNames]

StudyStates ==
  [name : StudyNames \cup {"none"}, kind : Kinds \cup {"none"}, horizons : Seq(Horizons),
   stage : {"idle", "split", "fold", "folded", "publish"}, years : Seq(3..6), fold : Nat, step : Nat,
   art : SUBSET (ArtNames \X SeenParts), score : Records, choice : Records]

Script == Studies[study.name].script

\* Artefacts have seen no more than their origin, a choice was between
\* artefacts whose data was over, and four folds are those of 2023 to 2026.
StudyInv ==
  /\ study \in StudyStates
  /\ study # NoStudy => study.name \in StudyNames /\ study.kind \in Studies[study.name].kinds
  /\ study.stage = "fold" => /\ study.name \in StudyNames
                             /\ study.fold \in 1..Len(study.years) /\ study.step \in 1..Len(Script)
  /\ \A a \in study.art : a[2] \in Origin(a[1])
  /\ study.choice # Nothing => /\ study.stage = "fold"
                               /\ PartUsable(Frame, study.choice.year, study.choice.on)
  /\ study.choice.behind \subseteq OverBefore(study.choice.on)
  /\ Len(study.years) > 3 => Len(study.years) = 4 /\ \A i \in 1..4 : study.years[i] = i + 2

ReportsInv ==
  /\ reports \in [StudyNames -> [history : SUBSET (3..6), locked : 0..6]]
  /\ LockedYearIsLast

LEMMA NothingIsRecord == Nothing \in Records
BY DEF Nothing, Records, PartNames

LEMMA NoStudyFacts == /\ NoStudy \in StudyStates /\ NoStudy.name = "none" /\ NoStudy.stage = "idle"
                      /\ NoStudy.choice = Nothing /\ NoStudy.score = Nothing /\ NoStudy.art = {}
                      /\ Len(NoStudy.years) = 0 /\ "none" \notin StudyNames
<1>1. "none" \notin StudyNames
  BY DEF StudyNames, Studies
<1>2. Nothing \in Records /\ <<>> \in Seq(3..6) /\ <<>> \in Seq(Horizons) /\ Len(<<>>) = 0
  BY NothingIsRecord
<1> QED BY <1>1, <1>2 DEF NoStudy, StudyStates

\* What the proofs need of the design of a study.
LEMMA StudyFacts ==
  ASSUME NEW name \in StudyNames
  PROVE  /\ SoundScript(Studies[name].script)
         /\ Studies[name].kinds \subseteq Kinds /\ (name = "fred" => Studies[name].kinds = {"equity"})
         /\ Studies[name].horizons \subseteq Seq(Horizons)
         /\ Studies[name].locked \in BOOLEAN
<1>1. StudyNames = {"train", "ablation", "regimes", "calibration", "direction", "linear", "tree",
                    "labels", "fred", "intervals", "conditional"}
  BY DEF StudyNames, Studies
<1>2. One \subseteq Seq(Horizons) /\ Both \subseteq Seq(Horizons)
  <2>1. \A h \in Horizons : <<h>> \in Seq(Horizons)
    OBVIOUS
  <2> QED BY <2>1, HorizonOrder DEF One, Both
<1>3. Studies[name].kinds \in {{"crypto", "equity"}, {"crypto"}, {"equity", "equity-v3"}, {"equity"}}
  BY <1>1 DEF Studies, Design
<1>8. Studies[name].locked \in BOOLEAN
  <2>1. /\ Studies.train.locked = FALSE /\ Studies.ablation.locked = FALSE
        /\ Studies.regimes.locked = FALSE /\ Studies.calibration.locked = FALSE
        /\ Studies.direction.locked = TRUE /\ Studies.linear.locked = TRUE
        /\ Studies.tree.locked = TRUE /\ Studies.labels.locked = TRUE
        /\ Studies.fred.locked = TRUE /\ Studies.intervals.locked = TRUE
        /\ Studies.conditional.locked = TRUE
    BY DEF Studies, Design
  <2> QED BY <1>1, <2>1
<1>9. name = "fred" => Studies[name].kinds = {"equity"}
  BY <1>1 DEF Studies, Design
<1>4. Studies[name].horizons \in {One, Both, One \cup Both}
  BY <1>1 DEF Studies, Design
<1>5. Studies[name].script \in {Training, FeatureAblation, RegimeAnalysis, CalibrationAblation,
        DirectionModels, LinearDirection, TreeRegularization, LabelCandidates, FredMacro,
        IntervalCalibration, ConditionalPriors}
  BY <1>1 DEF Studies, Design
<1>6. SoundScript(Studies[name].script)
  BY <1>5, TrainingIsSound, FeatureAblationIsSound, RegimeAnalysisIsSound, CalibrationAblationIsSound,
     DirectionModelsIsSound, LinearDirectionIsSound, TreeRegularizationIsSound,
     LabelCandidatesIsSound, FredMacroIsSound, IntervalCalibrationIsSound, ConditionalPriorsIsSound
<1>7. Studies[name].kinds \subseteq Kinds
  BY <1>3 DEF Kinds
<1> QED BY <1>2, <1>4, <1>6, <1>7, <1>8, <1>9

LEMMA StudyInitHolds == StudyInit => StudyInv /\ ReportsInv
<1> SUFFICES ASSUME StudyInit PROVE StudyInv /\ ReportsInv
  OBVIOUS
<1>1. StudyInv
  <2>1. study = NoStudy /\ NoStudy.choice.behind = {}
    BY NoStudyFacts DEF StudyInit, Nothing
  <2> QED BY <2>1, NoStudyFacts DEF StudyInv
<1>2. ReportsInv
  BY DEF StudyInit, ReportsInv, LockedYearIsLast, NoReport, StudyNames
<1> QED BY <1>1, <1>2

\* A study that ends or raises leaves nothing behind.
LEMMA NoStudyIsSound == study' = NoStudy => StudyInv'
<1> SUFFICES ASSUME study' = NoStudy PROVE StudyInv'
  OBVIOUS
<1>1. NoStudy.choice.behind = {}
  BY NoStudyFacts DEF Nothing
<1> QED BY <1>1, NoStudyFacts DEF StudyInv

LEMMA SameFrame ==
  ASSUME study'.name = study.name, study'.kind = study.kind, study'.horizons = study.horizons,
         samples' = samples
  PROVE  Frame' = Frame
BY DEF Frame, RowsIn

LEMMA StartStudyKeeps ==
  ASSUME NEW name \in StudyNames, NEW kind \in Studies[name].kinds,
         NEW hs \in Studies[name].horizons, StartStudy(name, kind, hs)
  PROVE  StudyInv'
<1>1. kind \in Kinds /\ hs \in Seq(Horizons)
  BY StudyFacts
<1>2. /\ study' \in StudyStates /\ study'.name = name /\ study'.kind = kind /\ study'.stage = "split"
      /\ study'.art = {} /\ study'.choice = Nothing /\ study'.years = NoStudy.years
  BY <1>1, NoStudyFacts DEF StartStudy, StudyStates
<1>3. study'.choice.behind = {}
  BY <1>2 DEF Nothing
<1> QED BY <1>2, <1>3, NoStudyFacts DEF StudyInv

LEMMA SplitFoldsKeeps == ASSUME StudyInv, SplitFolds PROVE StudyInv'
<1>1. study # NoStudy /\ study.name \in StudyNames /\ study.kind \in Studies[study.name].kinds
      /\ study.stage = "split" /\ study.choice = Nothing
  BY NoStudyFacts DEF StudyInv, SplitFolds
<1>2. SoundScript(Studies[study.name].script) /\ Studies[study.name].locked \in BOOLEAN
  BY <1>1, StudyFacts
<1> DEFINE years == FoldYears(Frame, Studies[study.name].locked)
<1>3. /\ years \in Seq(3..6) /\ Len(years) \in 0..4
      /\ Len(years) > 3 => Len(years) = 4 /\ \A i \in 1..4 : years[i] = i + 2
  <2>1. /\ years \in Seq(3..6) /\ Len(years) \in 0..4
        /\ Len(years) > 3 => \A i \in 1..4 : years[i] = i + 2
    BY <1>2, FoldYearFacts
  <2> HIDE DEF years
  <2> QED BY <2>1
<1>4. CASE study' = NoStudy
  BY <1>4, NoStudyIsSound
<1>5. CASE study' = [study EXCEPT !.stage = IF years = <<>> THEN "folded" ELSE "fold",
                                  !.years = years, !.fold = 1, !.step = 1, !.art = {}]
  <2> HIDE DEF years
  <2>1. /\ study' \in StudyStates /\ study'.name = study.name /\ study'.kind = study.kind
        /\ study'.stage = (IF years = <<>> THEN "folded" ELSE "fold") /\ study'.years = years
        /\ study'.fold = 1 /\ study'.step = 1 /\ study'.art = {} /\ study'.choice = study.choice
    BY <1>3, <1>5 DEF StudyInv, StudyStates
  <2>2. study'.stage = "fold" => 1 \in 1..Len(years)
    BY <1>3, <2>1
  <2>3. 1 \in 1..Len(Script)
    BY <1>2 DEF SoundScript, Script
  <2>4. study'.choice = Nothing /\ study'.choice.behind = {}
    BY <1>1, <2>1 DEF Nothing
  <2>5. Script' = Script
    BY <2>1 DEF Script
  <2> QED BY <1>1, <1>3, <2>1, <2>2, <2>3, <2>4, <2>5 DEF StudyInv
<1> QED BY <1>4, <1>5 DEF SplitFolds, Raises

\* What a step in a fold has behind it.
LEMMA CurrentFacts ==
  ASSUME StudyInv, study.stage = "fold"
  PROVE  /\ study # NoStudy /\ study.name \in StudyNames /\ Current \in SoundSteps
         /\ Year \in 3..6
         /\ Record \in Records /\ Record.year = Year /\ Record.on = Current.on
         /\ Record.behind = Behind(Current.uses)
         /\ \A part \in Behind(Current.uses) : \E u \in Current.uses : part \in Origin(u)
         /\ Current.does = "score" <=> study.step = Len(Script)
<1>1. study # NoStudy /\ study.name \in StudyNames
  BY NoStudyFacts DEF StudyInv
<1>2. SoundScript(Script)
  BY <1>1, StudyFacts DEF Script
<1>3. study.step \in 1..Len(Script) /\ study.fold \in 1..Len(study.years) /\ study.years \in Seq(3..6)
  BY DEF StudyInv, StudyStates
<1>4. Current \in SoundSteps /\ (Current.does = "score" <=> study.step = Len(Script))
  BY <1>2, <1>3 DEF SoundScript, Current, Script
<1>5. Year \in 3..6
  BY <1>3 DEF Year
<1>6. \A part \in Behind(Current.uses) : \E u \in Current.uses : part \in Origin(u)
  BY DEF Behind, StudyInv
<1>7. Behind(Current.uses) \subseteq BlindParts /\ Behind(Current.against) \subseteq SeenParts
  <2>1. Current.uses \subseteq Names
    BY <1>4 DEF SoundSteps, Steps
  <2>2. \A a \in study.art : a[2] \in SeenParts
    BY OriginsAreSeen DEF StudyInv
  <2> QED BY <1>6, <2>1, <2>2, OriginsAreBlind DEF Behind
<1>8. Current.on \in PartNames
  BY <1>4 DEF SoundSteps, Steps
<1>9. Record = [year |-> Year, behind |-> Behind(Current.uses),
                against |-> Behind(Current.against), on |-> Current.on]
  BY DEF Record
<1>10. Record \in Records
  BY <1>5, <1>7, <1>8, <1>9 DEF Records
<1> QED BY <1>1, <1>4, <1>5, <1>6, <1>7, <1>9, <1>10

LEMMA LearnOrChooseKeeps == ASSUME StudyInv, LearnOrChoose, samples' = samples PROVE StudyInv'
<1> DEFINE art == study.art \cup ({Current.name} \X (Behind(Current.uses) \cup {Current.on}))
           choice == IF Current.does = "choose" THEN Record ELSE Nothing
<1>1. CASE study' = NoStudy
  BY <1>1, NoStudyIsSound
<1>2. CASE PartUsable(Frame, Year, Current.on)
           /\ study' = [study EXCEPT !.step = @ + 1, !.art = art, !.choice = choice, !.score = Nothing]
  <2>1. study.stage = "fold" /\ Current.does # "score" /\ SoundStep(Current) /\ Current \in Steps
    BY CurrentFacts DEF LearnOrChoose, SoundSteps
  <2>2. study.step + 1 \in 1..Len(Script) /\ study.step + 1 \in Nat
    <3>1. study.step \in 1..Len(Script) /\ study.step # Len(Script)
      BY <2>1, CurrentFacts DEF StudyInv
    <3>2. Len(Script) \in Nat
      BY <2>1, CurrentFacts, StudyFacts DEF SoundScript, Script
    <3> QED BY <3>1, <3>2
  <2>3. \A part \in Behind(Current.uses) \cup {Current.on} : part \in Origin(Current.name)
    BY <2>1, CurrentFacts DEF SoundStep
  <2>4. art \in SUBSET (ArtNames \X SeenParts) /\ \A a \in art : a[2] \in Origin(a[1])
    <3>1. Current.name \in ArtNames
      BY <2>1 DEF Steps
    <3>2. \A a \in {Current.name} \X (Behind(Current.uses) \cup {Current.on}) :
            a \in ArtNames \X SeenParts /\ a[2] \in Origin(a[1])
      BY <2>3, <3>1, OriginsAreSeen
    <3>3. \A a \in study.art : a \in ArtNames \X SeenParts /\ a[2] \in Origin(a[1])
      BY DEF StudyInv, StudyStates
    <3> QED BY <3>2, <3>3
  <2>5. choice \in Records /\ choice.behind \subseteq OverBefore(choice.on)
        /\ (choice # Nothing => PartUsable(Frame, choice.year, choice.on))
    <3>1. CASE Current.does = "choose"
      BY <1>2, <2>1, <3>1, CurrentFacts DEF SoundStep
    <3>2. CASE Current.does # "choose"
      BY <3>2, NothingIsRecord DEF Nothing
    <3> QED BY <3>1, <3>2
  <2> HIDE DEF art, choice
  <2>6. /\ study' \in StudyStates /\ study'.name = study.name /\ study'.kind = study.kind
        /\ study'.horizons = study.horizons /\ study'.stage = study.stage /\ study'.years = study.years
        /\ study'.fold = study.fold /\ study'.step = study.step + 1 /\ study'.art = art
        /\ study'.choice = choice
    BY <1>2, <2>2, <2>4, <2>5, NothingIsRecord DEF StudyInv, StudyStates
  <2>7. Script' = Script /\ Frame' = Frame
    BY <2>6, SameFrame DEF Script
  <2> QED BY <2>1, <2>2, <2>4, <2>5, <2>6, <2>7, CurrentFacts DEF StudyInv
<1> QED BY <1>1, <1>2 DEF LearnOrChoose, Raises

LEMMA ScoreFoldKeeps == ASSUME StudyInv, ScoreFold PROVE StudyInv'
<1> DEFINE nextStage == IF study.fold = Len(study.years) THEN "folded" ELSE "fold"
<1>1. study.stage = "fold" /\ study.name \in StudyNames /\ Record \in Records
      /\ study.fold \in 1..Len(study.years) /\ study.years \in Seq(3..6)
  BY CurrentFacts DEF ScoreFold, StudyInv, StudyStates
<1>2. study.fold + 1 \in Nat /\ (nextStage = "fold" => study.fold + 1 \in 1..Len(study.years))
  <2>1. Len(study.years) \in Nat
    BY <1>1
  <2> QED BY <1>1, <2>1
<1>3. 1 \in 1..Len(Script)
  BY <1>1, StudyFacts DEF SoundScript, Script
<1>4. study' = [study EXCEPT !.score = Record, !.choice = Nothing, !.art = {}, !.step = 1,
                             !.fold = @ + 1, !.stage = nextStage]
  BY DEF ScoreFold
<1>5. nextStage \in {"folded", "fold"}
  OBVIOUS
<1> HIDE DEF nextStage
<1>6. /\ study' \in StudyStates /\ study'.name = study.name /\ study'.kind = study.kind
      /\ study'.years = study.years /\ study'.fold = study.fold + 1 /\ study'.step = 1
      /\ study'.art = {} /\ study'.choice = Nothing /\ study'.stage = nextStage
  BY <1>1, <1>2, <1>4, <1>5, NothingIsRecord DEF StudyInv, StudyStates
<1>7. Script' = Script /\ study'.choice.behind = {}
  BY <1>6 DEF Script, Nothing
<1> QED BY <1>1, <1>2, <1>3, <1>6, <1>7, CurrentFacts DEF StudyInv, ScoreFold

LEMMA NextHorizonKeeps ==
  ASSUME StudyInv, study.stage \in {"folded", "publish"}, Len(study.horizons) > 1, NextHorizon
  PROVE  StudyInv'
<1>1. study # NoStudy /\ study.choice = Nothing
  BY NoStudyFacts DEF StudyInv
<1>2. Tail(study.horizons) \in Seq(Horizons)
  BY DEF StudyInv, StudyStates
<1>3. /\ study' \in StudyStates /\ study'.name = study.name /\ study'.kind = study.kind
      /\ study'.years = study.years /\ study'.art = study.art /\ study'.choice = Nothing
      /\ study'.stage = "split"
  BY <1>1, <1>2, NothingIsRecord DEF NextHorizon, StudyInv, StudyStates
<1>4. study'.choice.behind = {}
  BY <1>3 DEF Nothing
<1> QED BY <1>1, <1>3, <1>4 DEF StudyInv

LEMMA ReportKeeps == ASSUME StudyInv, Report PROVE StudyInv'
BY NextHorizonKeeps, NoStudyIsSound DEF Report, Raises

LEMMA StudyStepKeeps == StudyInv /\ StudyStep /\ samples' = samples => StudyInv'
BY SplitFoldsKeeps, LearnOrChooseKeeps, ScoreFoldKeeps, ReportKeeps DEF StudyStep

\* A trained horizon goes on to its bundle.
LEMMA GatedKeeps ==
  ASSUME StudyInv, study.stage = "folded", study' = [study EXCEPT !.stage = "publish"]
  PROVE  StudyInv'
<1>1. study # NoStudy /\ study.choice = Nothing
  BY NoStudyFacts DEF StudyInv
<1>2. /\ study' \in StudyStates /\ study'.name = study.name /\ study'.kind = study.kind
      /\ study'.years = study.years /\ study'.art = study.art /\ study'.choice = Nothing
      /\ study'.stage = "publish"
  BY <1>1 DEF StudyInv, StudyStates
<1>3. study'.choice.behind = {}
  BY <1>2 DEF Nothing
<1> QED BY <1>1, <1>2, <1>3 DEF StudyInv

LEMMA StudyStutters == ASSUME StudyInv, study' = study, samples' = samples PROVE StudyInv'
<1>1. Frame' = Frame /\ Script' = Script
  BY SameFrame DEF Script
<1> QED BY <1>1 DEF StudyInv

\* fold_rows[3] is only there when all four years are.
LEMMA ReportsKeep == ASSUME StudyInv, ReportsInv, Report PROVE ReportsInv'
<1>1. CASE UNCHANGED reports
  BY <1>1 DEF ReportsInv, LockedYearIsLast
<1>2. CASE ~UNCHANGED reports
  <2> DEFINE locked == Studies[study.name].locked
             history == IF locked THEN SubSeq(study.years, 1, 3) ELSE study.years
             report == [history |-> {history[i] : i \in DOMAIN history},
                        locked |-> IF locked THEN LockedFold(study.years) ELSE 0]
  <2>1. /\ study.name \in StudyNames /\ locked \in BOOLEAN
        /\ reports' = [reports EXCEPT ![study.name] = report]
        /\ locked => LockedFold(study.years) # Missing
    BY <1>2, NoStudyFacts, StudyFacts DEF Report, Raises, StudyInv
  <2>2. locked => Len(study.years) = 4 /\ \A i \in 1..4 : study.years[i] = i + 2
    BY <2>1 DEF LockedFold, StudyInv
  <2>3. study.years \in Seq(3..6)
    BY DEF StudyInv, StudyStates
  <2>4. CASE locked
    <3>1. /\ DOMAIN SubSeq(study.years, 1, 3) = 1..3
          /\ \A i \in 1..3 : SubSeq(study.years, 1, 3)[i] = i + 2
      BY <2>2, <2>3, <2>4, SubSeqProperties
    <3>2. {history[i] : i \in DOMAIN history} = {3, 4, 5}
      BY <2>4, <3>1
    <3>3. LockedFold(study.years) = 6
      BY <2>2, <2>4 DEF LockedFold
    <3>4. report = [history |-> {3, 4, 5}, locked |-> 6]
      BY <2>4, <3>2, <3>3
    <3> HIDE DEF report
    <3>5. report \in [history : SUBSET (3..6), locked : 0..6]
      BY <3>4
    <3> QED BY <2>1, <3>4, <3>5 DEF ReportsInv, LockedYearIsLast, StudyNames
  <2>5. CASE ~locked
    <3>1. report.history = {study.years[i] : i \in DOMAIN study.years} /\ report.locked = 0
      BY <2>5
    <3>2. {study.years[i] : i \in DOMAIN study.years} \in SUBSET (3..6)
      BY <2>3
    <3>3. report = [history |-> {study.years[i] : i \in DOMAIN study.years}, locked |-> 0]
      BY <2>5
    <3> HIDE DEF report
    <3>4. report \in [history : SUBSET (3..6), locked : 0..6]
      BY <3>2, <3>3
    <3> QED BY <2>1, <2>5, <3>4 DEF ReportsInv, LockedYearIsLast, StudyNames
  <2> QED BY <2>4, <2>5
<1> QED BY <1>1, <1>2

-----------------------------------------------------------------------------
(* Datasets. *)

Targets == Kinds \cup {""}
FileStates == {"absent", "torn", "whole"}

Builds ==
  [stage : {"idle", "spot", "look", "cached", "read", "caching", "assemble", "writing"},
   target : Targets, asset : Nat, listed : SUBSET Files, wanted : SUBSET Files,
   from : SUBSET (Files \cup EquityHistories)]

\* What a dataset can have been built from.
BuiltFrom(kind, from) ==
  IF kind = "crypto" THEN from \subseteq Files ELSE \E h \in EquityHistories : from = {h}

SamplesInv ==
  /\ samples \in [Kinds -> [state : FileStates, from : SUBSET (Files \cup EquityHistories)]]
  /\ \A k \in Kinds : samples[k].state = "whole" => BuiltFrom(k, samples[k].from)

\* A source the table does not hold is newer, or was overlooked.
TableInv ==
  /\ cache \in [Assets -> [state : FileStates, from : SUBSET Files]]
  /\ newer \in [Assets -> SUBSET Files] /\ overlooked \in [Assets -> SUBSET Files]
  /\ \A a \in Assets : cache[a].state = "whole" =>
       Listed(Sources(a)) \subseteq cache[a].from \cup newer[a] \cup overlooked[a]

BuildTyped ==
  /\ build \in Builds
  /\ build.target = "" => build = NoBuild
  /\ build.target = "crypto" => /\ build.asset \in 1..Len(AssetOrder) /\ build.from \subseteq Files
                                /\ build.stage # "idle"
  /\ build.target \notin {"", "crypto"} =>
       build.stage \in {"assemble", "writing"} /\ BuiltFrom(build.target, build.from)

\* Sources were wanted of the assets so far, and those of the current one lie
\* in what it is about to load.
WantedInv ==
  build.target = "crypto" =>
    /\ \A f \in build.wanted : \E j \in 1..build.asset :
         AssetOrder[j] = AssetOf[f] /\ (build.stage \in {"spot", "look"} => j < build.asset)
    /\ (build.stage = "cached" /\ cache[Asset].state = "whole") =>
         build.wanted \cap Sources(Asset) \subseteq cache[Asset].from \cup overlooked[Asset]
    /\ build.stage \in {"read", "caching"} => build.wanted \cap Sources(Asset) \subseteq build.listed

BuildInv == SamplesInv /\ TableInv /\ BuildTyped /\ WantedInv /\ TablesAreCurrent

LEMMA AssetFacts ==
  /\ Len(AssetOrder) \in Nat /\ Len(AssetOrder) > 0 /\ DOMAIN AssetOrder = 1..Len(AssetOrder)
  /\ \A i \in 1..Len(AssetOrder) : AssetOrder[i] \in Assets
  /\ \A i, j \in 1..Len(AssetOrder) : AssetOrder[i] = AssetOrder[j] => i = j
BY BuildConstants

LEMMA SourcesAreFiles == \A a : Sources(a) \subseteq Files
BY DEF Sources, Files

LEMMA NoBuildFacts == NoBuild \in Builds /\ NoBuild.target = "" /\ NoBuild.stage = "idle"
BY DEF NoBuild, Builds, Targets

LEMMA BuildInitHolds == BuildInit => BuildInv
<1> SUFFICES ASSUME BuildInit PROVE BuildInv
  OBVIOUS
<1>1. SamplesInv
  BY DEF BuildInit, SamplesInv, NoFile, FileStates
<1>2. TableInv
  BY DEF BuildInit, TableInv, NoFile, FileStates
<1>3. build = NoBuild
  BY DEF BuildInit
<1> QED BY <1>1, <1>2, <1>3, NoBuildFacts DEF BuildInv, BuildTyped, WantedInv, TablesAreCurrent

\* Without a build nothing is claimed of it.
LEMMA NoBuildKeeps == ASSUME SamplesInv', TableInv', build' = NoBuild PROVE BuildInv'
BY NoBuildFacts DEF BuildInv, BuildTyped, WantedInv, TablesAreCurrent

LEMMA TablesStutter ==
  ASSUME TableInv, cache' = cache, newer' = newer, overlooked' = overlooked, parquet' = parquet
  PROVE  TableInv'
BY DEF TableInv, Listed, Sources

LEMMA SamplesStutter == ASSUME SamplesInv, samples' = samples PROVE SamplesInv'
BY DEF SamplesInv

LEMMA FailsKeeps ==
  ASSUME BuildInv, Fails, UNCHANGED <<cache, newer, overlooked, samples, parquet>> PROVE BuildInv'
BY NoBuildKeeps, TablesStutter, SamplesStutter DEF BuildInv, Fails

LEMMA BuildStutters ==
  ASSUME BuildInv, UNCHANGED <<cache, newer, overlooked, build, samples, parquet>> PROVE BuildInv'
<1>1. TableInv' /\ SamplesInv'
  BY TablesStutter, SamplesStutter DEF BuildInv
<1>2. BuildTyped' /\ WantedInv' /\ TablesAreCurrent'
  BY DEF BuildInv, BuildTyped, WantedInv, TablesAreCurrent, Asset, Sources
<1> QED BY <1>1, <1>2 DEF BuildInv

\* A download at work: what it writes is newer than every table.
LEMMA MirrorKeepsBuild ==
  ASSUME BuildInv, Touch, UNCHANGED <<cache, overlooked, build, samples>> PROVE BuildInv'
<1>1. TableInv'
  <2>1. \A a \in Assets : /\ newer'[a] = newer[a] \cup {f \in Sources(a) : parquet'[f] # parquet[f]}
                          /\ newer'[a] \subseteq Files
    BY SourcesAreFiles DEF Touch, BuildInv, TableInv
  <2>2. newer' \in [Assets -> SUBSET Files]
    BY <2>1 DEF Touch
  <2>3. \A a \in Assets : Listed(Sources(a))' \subseteq Listed(Sources(a)) \cup newer'[a]
    BY <2>1 DEF Listed, Sources
  <2> QED BY <2>1, <2>2, <2>3 DEF BuildInv, TableInv
<1>2. SamplesInv'
  BY SamplesStutter DEF BuildInv
<1>3. BuildTyped' /\ WantedInv' /\ TablesAreCurrent'
  BY DEF BuildInv, BuildTyped, WantedInv, TablesAreCurrent, Asset, Sources
<1> QED BY <1>1, <1>2, <1>3 DEF BuildInv

LEMMA BuildDatasetKeeps == ASSUME BuildInv, BuildDataset, parquet' = parquet PROVE BuildInv'
<1>1. TableInv' /\ SamplesInv'
  BY TablesStutter, SamplesStutter DEF BuildInv, BuildDataset
<1>2. build' = [stage |-> "spot", target |-> "crypto", asset |-> 1, listed |-> {}, wanted |-> {},
                from |-> {}]
  BY DEF BuildDataset, NoBuild
<1>3. BuildTyped'
  <2>1. 1 \in 1..Len(AssetOrder)
    BY AssetFacts
  <2> QED BY <1>2, <2>1 DEF BuildTyped, Builds, Targets, Kinds
<1>4. WantedInv' /\ TablesAreCurrent'
  BY <1>2 DEF WantedInv, TablesAreCurrent
<1> QED BY <1>1, <1>3, <1>4 DEF BuildInv

\* The equity builds have their rows at once.
LEMMA EquityBuildKeeps ==
  ASSUME BuildInv, NEW h \in EquityHistories, NEW kind \in {"equity", "equity-v3"},
         build' = [NoBuild EXCEPT !.stage = "assemble", !.target = kind, !.from = {h}],
         UNCHANGED <<cache, newer, overlooked, samples, parquet>>
  PROVE  BuildInv'
<1>1. TableInv' /\ SamplesInv'
  BY TablesStutter, SamplesStutter DEF BuildInv
<1>2. build' = [stage |-> "assemble", target |-> kind, asset |-> 0, listed |-> {}, wanted |-> {},
                from |-> {h}]
  BY DEF NoBuild
<1>3. BuildTyped'
  <2>1. kind \in Targets /\ kind \notin {"", "crypto"}
    BY DEF Targets, Kinds
  <2>2. {h} \in SUBSET (Files \cup EquityHistories) /\ {} \in SUBSET Files
    OBVIOUS
  <2>3. build' \in Builds
    BY <2>1, <2>2, NoBuildFacts DEF Builds
  <2>4. build'.target = kind /\ build'.stage = "assemble" /\ build'.from = {h}
    BY <1>2
  <2>5. BuiltFrom(kind, {h})
    BY <2>1 DEF BuiltFrom
  <2> QED BY <2>1, <2>3, <2>4, <2>5 DEF BuildTyped
<1>4. WantedInv' /\ TablesAreCurrent'
  BY <1>2 DEF WantedInv, TablesAreCurrent
<1> QED BY <1>1, <1>3, <1>4 DEF BuildInv

LEMMA BuildCommandKeeps == ASSUME BuildInv, BuildCommand, parquet' = parquet PROVE BuildInv'
<1>1. CASE BuildDataset
  BY <1>1, BuildDatasetKeeps
<1>2. ASSUME NEW h \in EquityHistories, BuildEquityDataset(h) PROVE BuildInv'
  BY <1>2, EquityBuildKeeps DEF BuildEquityDataset
<1>3. CASE UpgradeEquityDataset
  <2>1. PICK h \in EquityHistories : samples["equity"].from = {h}
    BY <1>3 DEF UpgradeEquityDataset, BuildInv, SamplesInv, BuiltFrom, Kinds
  <2> QED BY <1>3, <2>1, EquityBuildKeeps DEF UpgradeEquityDataset
<1> QED BY <1>1, <1>2, <1>3 DEF BuildCommand

\* What a step of the crypto build knows of itself.
LEMMA CryptoFacts ==
  ASSUME BuildInv, build.stage \in {"spot", "look", "cached", "read", "caching"}
  PROVE  /\ build.target = "crypto" /\ build.asset \in 1..Len(AssetOrder) /\ build.from \subseteq Files
         /\ Asset \in Assets /\ build \in Builds
         /\ \A i \in 1..Len(AssetOrder) : i < build.asset =>
              build.wanted \cap Sources(AssetOrder[i]) \subseteq build.from \cup overlooked[AssetOrder[i]]
<1>1. build.target = "crypto"
  BY NoBuildFacts DEF BuildInv, BuildTyped
<1> QED BY <1>1, AssetFacts DEF BuildInv, BuildTyped, Asset, TablesAreCurrent

LEMMA ReadSpotKeeps == ASSUME BuildInv, ReadSpot, parquet' = parquet PROVE BuildInv'
<1> DEFINE files == Listed({f \in Spot : AssetOf[f] = Asset})
<1>1. CASE Fails
  BY <1>1, FailsKeeps DEF ReadSpot
<1>2. CASE build' = [build EXCEPT !.stage = "look", !.from = @ \cup files]
  <2>1. files \subseteq Files
    BY DEF Listed, Files
  <2> HIDE DEF files
  <2>2. /\ build' \in Builds /\ build'.target = "crypto" /\ build'.asset = build.asset
        /\ build'.stage = "look" /\ build'.wanted = build.wanted /\ build'.from = build.from \cup files
    BY <1>2, <2>1, CryptoFacts DEF ReadSpot, Builds
  <2>3. TableInv' /\ SamplesInv' /\ overlooked' = overlooked
    BY TablesStutter, SamplesStutter DEF BuildInv, ReadSpot
  <2>4. BuildTyped'
    BY <2>1, <2>2, CryptoFacts DEF BuildTyped, ReadSpot
  <2>5. WantedInv'
    BY <2>2, CryptoFacts DEF BuildInv, WantedInv, ReadSpot
  <2>6. TablesAreCurrent'
    BY <2>2, <2>3, CryptoFacts, AssetFacts DEF TablesAreCurrent, Sources, ReadSpot
  <2> QED BY <2>3, <2>4, <2>5, <2>6 DEF BuildInv
<1> QED BY <1>1, <1>2 DEF ReadSpot

LEMMA LookKeeps == ASSUME BuildInv, Look, parquet' = parquet PROVE BuildInv'
<1> DEFINE listed == Listed(Sources(Asset))
           next == IF CacheIsFresh(Asset, listed) THEN "cached" ELSE "read"
<1>1. /\ build.stage = "look" /\ next \in {"cached", "read"} /\ listed \subseteq Sources(Asset)
      /\ listed \subseteq Files /\ Finished(listed) \subseteq listed
      /\ build' = [build EXCEPT !.listed = listed, !.wanted = @ \cup Finished(listed), !.stage = next]
  BY SourcesAreFiles DEF Look, Listed, Finished
<1>2. build.wanted \cap Sources(Asset) = {}
  <2> SUFFICES ASSUME NEW f \in build.wanted, f \in Sources(Asset) PROVE FALSE
    OBVIOUS
  <2>1. PICK j \in 1..build.asset : AssetOrder[j] = AssetOf[f] /\ j < build.asset
    BY <1>1, CryptoFacts DEF BuildInv, WantedInv
  <2>2. AssetOrder[j] = AssetOrder[build.asset]
    BY <2>1 DEF Sources, Asset
  <2> QED BY <1>1, <2>1, <2>2, CryptoFacts, AssetFacts
<1>3. (next = "cached" /\ cache[Asset].state = "whole") =>
        listed \subseteq cache[Asset].from \cup overlooked[Asset]
  BY <1>1, CryptoFacts DEF BuildInv, TableInv, CacheIsFresh
<1> HIDE DEF listed, next
<1>4. /\ build' \in Builds /\ build'.target = "crypto" /\ build'.asset = build.asset
      /\ build'.stage = next /\ build'.wanted = build.wanted \cup Finished(listed)
      /\ build'.from = build.from /\ build'.listed = listed
  BY <1>1, CryptoFacts DEF Builds
<1>5. TableInv' /\ SamplesInv' /\ overlooked' = overlooked /\ cache' = cache
  BY TablesStutter, SamplesStutter DEF BuildInv, Look
<1>6. Asset' = Asset /\ Sources(Asset)' = Sources(Asset)
  BY <1>4 DEF Asset, Sources
<1>7. BuildTyped'
  BY <1>1, <1>4, CryptoFacts DEF BuildTyped
<1>8. WantedInv'
  <2>1. \A f \in build'.wanted : \E j \in 1..build.asset : AssetOrder[j] = AssetOf[f]
    <3>1. \A f \in listed : AssetOrder[build.asset] = AssetOf[f]
      BY <1>1 DEF Sources, Asset
    <3>2. \A f \in build.wanted : \E j \in 1..build.asset : AssetOrder[j] = AssetOf[f]
      BY <1>1, CryptoFacts DEF BuildInv, WantedInv
    <3>3. build.asset \in 1..build.asset
      BY <1>1, CryptoFacts
    <3> QED BY <1>1, <1>4, <3>1, <3>2, <3>3
  <2>2. build'.wanted \cap Sources(Asset) \subseteq listed
    BY <1>1, <1>2, <1>4
  <2> QED BY <1>1, <1>3, <1>4, <1>5, <1>6, <2>1, <2>2 DEF WantedInv
<1>9. TablesAreCurrent'
  <2> SUFFICES ASSUME NEW i \in 1..Len(AssetOrder), i < build.asset
               PROVE  build'.wanted \cap Sources(AssetOrder[i]) \subseteq
                        build.from \cup overlooked[AssetOrder[i]]
    BY <1>1, <1>4, <1>5, AssetFacts DEF TablesAreCurrent, Sources
  <2>1. listed \cap Sources(AssetOrder[i]) = {}
    <3>1. AssetOrder[i] # AssetOrder[build.asset]
      BY <1>1, CryptoFacts, AssetFacts
    <3> QED BY <1>1, <3>1 DEF Sources, Asset
  <2> QED BY <1>1, <1>4, <2>1, CryptoFacts
<1> QED BY <1>5, <1>7, <1>8, <1>9 DEF BuildInv

\* An asset is loaded: its wanted sources are in.
LEMMA LoadedKeeps ==
  ASSUME BuildInv, build.stage \in {"cached", "caching"}, NEW files \in SUBSET Files, Loaded(files),
         build.wanted \cap Sources(Asset) \subseteq files \cup overlooked'[Asset],
         \A a \in Assets \ {Asset} : overlooked'[a] = overlooked[a],
         TableInv', SamplesInv'
  PROVE  BuildInv'
<1> DEFINE last == build.asset = Len(AssetOrder)
<1>1. /\ build.target = "crypto" /\ build.asset \in 1..Len(AssetOrder) /\ build.from \subseteq Files
      /\ build \in Builds /\ Len(AssetOrder) \in Nat
  BY CryptoFacts, AssetFacts
<1>2. /\ build' \in Builds /\ build'.target = "crypto" /\ build'.from = build.from \cup files
      /\ build'.wanted = build.wanted
      /\ build'.stage = (IF last THEN "assemble" ELSE "spot")
      /\ build'.asset = (IF last THEN build.asset ELSE build.asset + 1)
  <2> DEFINE asset == IF last THEN build.asset ELSE build.asset + 1
             stage1 == IF last THEN "assemble" ELSE "spot"
  <2>1. asset \in Nat /\ stage1 \in {"assemble", "spot"} /\ build.asset \in Nat
    BY <1>1
  <2>2. build' = [build EXCEPT !.from = @ \cup files, !.asset = asset, !.stage = stage1, !.listed = {}]
    BY DEF Loaded
  <2> HIDE DEF asset, stage1
  <2>3. /\ build' \in Builds /\ build'.target = "crypto" /\ build'.from = build.from \cup files
        /\ build'.wanted = build.wanted /\ build'.stage = stage1 /\ build'.asset = asset
    BY <1>1, <2>1, <2>2 DEF Builds
  <2> QED BY <2>3 DEF asset, stage1
<1>3. build'.asset \in 1..Len(AssetOrder) /\ build.asset <= build'.asset
      /\ (build'.stage = "spot" => build'.asset = build.asset + 1)
  BY <1>1, <1>2
<1>4. BuildTyped'
  BY <1>1, <1>2, <1>3 DEF BuildTyped
<1>5. WantedInv'
  <2> SUFFICES ASSUME NEW f \in build.wanted
               PROVE  \E j \in 1..build'.asset : AssetOrder[j] = AssetOf[f]
                        /\ (build'.stage \in {"spot", "look"} => j < build'.asset)
    BY <1>2 DEF WantedInv
  <2>1. PICK j \in 1..build.asset : AssetOrder[j] = AssetOf[f]
    BY <1>1 DEF BuildInv, WantedInv
  <2>2. j \in 1..build'.asset /\ (build'.stage = "spot" => j < build'.asset)
    BY <1>1, <1>3, <2>1
  <2> QED BY <1>2, <2>1, <2>2
<1>6. TablesAreCurrent'
  <2> SUFFICES ASSUME NEW i \in 1..Len(AssetOrder), i < build'.asset \/ build'.stage = "assemble"
               PROVE  build.wanted \cap Sources(AssetOrder[i]) \subseteq
                        build.from \cup files \cup overlooked'[AssetOrder[i]]
    BY <1>2, AssetFacts DEF TablesAreCurrent, Sources
  <2>1. i = build.asset \/ i < build.asset
    BY <1>1, <1>2
  <2>2. CASE i = build.asset
    BY <2>2 DEF Asset
  <2>3. CASE i < build.asset
    <3>1. AssetOrder[i] \in Assets \ {Asset}
      BY <1>1, <2>3, AssetFacts DEF Asset
    <3> QED BY <2>3, <3>1, CryptoFacts
  <2> QED BY <2>1, <2>2, <2>3
<1> QED BY <1>4, <1>5, <1>6 DEF BuildInv

LEMMA ReadCacheKeeps == ASSUME BuildInv, ReadCache, parquet' = parquet PROVE BuildInv'
<1>1. CASE Fails
  BY <1>1, FailsKeeps DEF ReadCache
<1>2. CASE cache[Asset].state = "whole" /\ Loaded(cache[Asset].from)
  <2>1. cache[Asset].from \in SUBSET Files
    BY CryptoFacts DEF ReadCache, BuildInv, TableInv
  <2>2. build.wanted \cap Sources(Asset) \subseteq cache[Asset].from \cup overlooked[Asset]
    BY <1>2, CryptoFacts DEF ReadCache, BuildInv, WantedInv
  <2>3. TableInv' /\ SamplesInv'
    BY TablesStutter, SamplesStutter DEF BuildInv, ReadCache
  <2>4. overlooked' = overlooked /\ build.stage \in {"cached", "caching"}
    BY DEF ReadCache
  <2> QED BY <1>2, <2>1, <2>2, <2>3, <2>4, LoadedKeeps
<1> QED BY <1>1, <1>2 DEF ReadCache

LEMMA ReadSourcesKeeps == ASSUME BuildInv, ReadSources, parquet' = parquet PROVE BuildInv'
<1>1. CASE Fails /\ UNCHANGED <<cache, newer>>
  BY <1>1, FailsKeeps DEF ReadSources
<1>2. CASE /\ build' = [build EXCEPT !.stage = "caching"]
           /\ cache' = [cache EXCEPT ![Asset] = TornFile]
           /\ newer' = [newer EXCEPT ![Asset] = {}]
  <2>1. build.stage = "read" /\ overlooked' = overlooked /\ Asset \in Assets
    BY CryptoFacts DEF ReadSources
  <2>2. /\ build' \in Builds /\ build'.target = "crypto" /\ build'.asset = build.asset
        /\ build'.stage = "caching" /\ build'.wanted = build.wanted /\ build'.from = build.from
        /\ build'.listed = build.listed
    BY <1>2, <2>1, CryptoFacts DEF Builds
  <2>3. TableInv'
    <3>1. TornFile \in [state : FileStates, from : SUBSET Files] /\ TornFile.state # "whole"
      BY DEF TornFile, FileStates
    <3> QED BY <1>2, <2>1, <3>1 DEF BuildInv, TableInv, Listed, Sources
  <2>4. SamplesInv'
    BY SamplesStutter DEF BuildInv, ReadSources
  <2>5. BuildTyped'
    BY <2>1, <2>2, CryptoFacts DEF BuildTyped
  <2>6. WantedInv'
    BY <2>1, <2>2, CryptoFacts DEF BuildInv, WantedInv, Asset, Sources
  <2>7. TablesAreCurrent'
    BY <2>1, <2>2, CryptoFacts, AssetFacts DEF TablesAreCurrent, Sources
  <2> QED BY <2>3, <2>4, <2>5, <2>6, <2>7 DEF BuildInv
<1> QED BY <1>1, <1>2 DEF ReadSources

LEMMA CacheWrittenKeeps == ASSUME BuildInv, CacheWritten, parquet' = parquet PROVE BuildInv'
<1>1. build.stage = "caching" /\ Asset \in Assets /\ build.listed \in SUBSET Files
      /\ build.wanted \cap Sources(Asset) \subseteq build.listed
  BY CryptoFacts DEF CacheWritten, BuildInv, WantedInv, Builds
<1>2. TableInv'
  <2>1. WholeFile(build.listed) \in [state : FileStates, from : SUBSET Files]
        /\ WholeFile(build.listed).from = build.listed
    BY <1>1 DEF WholeFile, FileStates
  <2>2. Listed(Sources(Asset)) \subseteq Files
    BY SourcesAreFiles DEF Listed
  <2>3. /\ cache' \in [Assets -> [state : FileStates, from : SUBSET Files]]
        /\ newer' \in [Assets -> SUBSET Files] /\ overlooked' \in [Assets -> SUBSET Files]
    BY <1>1, <2>1, <2>2 DEF CacheWritten, BuildInv, TableInv
  <2>4. \A a \in Assets : Listed(Sources(a))' = Listed(Sources(a))
    BY DEF Listed, Sources
  <2>5. ASSUME NEW a \in Assets, cache'[a].state = "whole"
        PROVE  Listed(Sources(a)) \subseteq cache'[a].from \cup newer'[a] \cup overlooked'[a]
    <3>1. CASE a = Asset
      BY <1>1, <2>1, <3>1 DEF CacheWritten, BuildInv, TableInv
    <3>2. CASE a # Asset
      BY <1>1, <2>5, <3>2 DEF CacheWritten, BuildInv, TableInv
    <3> QED BY <3>1, <3>2
  <2> QED BY <2>3, <2>4, <2>5 DEF TableInv
<1>3. SamplesInv'
  BY SamplesStutter DEF BuildInv, CacheWritten
<1>4. \A a \in Assets \ {Asset} : overlooked'[a] = overlooked[a]
  BY DEF CacheWritten, BuildInv, TableInv
<1>5. Loaded(build.listed)
  BY DEF CacheWritten
<1> QED BY <1>1, <1>2, <1>3, <1>4, <1>5, LoadedKeeps

LEMMA AssembleKeeps == ASSUME BuildInv, Assemble, parquet' = parquet PROVE BuildInv'
<1>1. build.stage = "assemble" /\ build.target \in Kinds /\ build \in Builds
  BY NoBuildFacts DEF Assemble, BuildInv, BuildTyped, Builds, Targets
<1>2. TableInv' /\ overlooked' = overlooked
  BY TablesStutter DEF BuildInv, Assemble
<1>3. SamplesInv'
  <2>1. TornFile \in [state : FileStates, from : SUBSET (Files \cup EquityHistories)]
        /\ TornFile.state # "whole"
    BY DEF TornFile, FileStates
  <2> QED BY <1>1, <2>1 DEF BuildInv, SamplesInv, Assemble
<1>4. /\ build' \in Builds /\ build'.target = build.target /\ build'.asset = build.asset
      /\ build'.stage = "writing" /\ build'.wanted = build.wanted /\ build'.from = build.from
  BY <1>1 DEF Assemble, Builds
<1>5. BuildTyped'
  BY <1>1, <1>4, NoBuildFacts DEF BuildInv, BuildTyped, Kinds
<1>6. WantedInv'
  BY <1>1, <1>4 DEF BuildInv, WantedInv
<1>7. TablesAreCurrent'
  BY <1>1, <1>2, <1>4 DEF BuildInv, TablesAreCurrent, Sources
<1> QED BY <1>2, <1>3, <1>5, <1>6, <1>7 DEF BuildInv

LEMMA SamplesWrittenKeeps == ASSUME BuildInv, SamplesWritten, parquet' = parquet PROVE BuildInv'
<1>1. build.target \in Kinds /\ BuiltFrom(build.target, build.from)
      /\ build.from \in SUBSET (Files \cup EquityHistories)
  BY NoBuildFacts DEF SamplesWritten, BuildInv, BuildTyped, Builds, Targets, BuiltFrom
<1>2. TableInv'
  BY TablesStutter DEF BuildInv, SamplesWritten
<1>3. SamplesInv'
  <2>1. /\ WholeFile(build.from) \in [state : FileStates, from : SUBSET (Files \cup EquityHistories)]
        /\ WholeFile(build.from).from = build.from
    BY <1>1 DEF WholeFile, FileStates
  <2> QED BY <1>1, <2>1 DEF BuildInv, SamplesInv, SamplesWritten
<1> QED BY <1>2, <1>3, NoBuildKeeps DEF SamplesWritten

LEMMA BuildStepKeeps == BuildInv /\ BuildStep /\ parquet' = parquet => BuildInv'
BY ReadSpotKeeps, LookKeeps, ReadCacheKeeps, ReadSourcesKeeps, CacheWrittenKeeps, AssembleKeeps,
   SamplesWrittenKeeps DEF BuildStep

-----------------------------------------------------------------------------
(* The pipeline. *)

\* The manifest is that of one download.
FredInv ==
  /\ downloads \in Nat /\ position \in Nat
  /\ \E d \in 0..downloads : manifest = [s \in SeriesNames |-> d]
  /\ MacroIsOneDownload

\* What a study reads stays as it is while it runs.
Exclusive ==
  study # NoStudy => build = NoBuild /\ position = 0 /\ samples[study.kind].state = "whole"

PipelineInv ==
  ArchiveInv /\ BuildInv /\ StudyInv /\ ReportsInv /\ BundleInv /\ FredInv /\ Exclusive

LEMMA ArchiveSame ==
  ASSUME ArchiveInv, UNCHANGED <<remote, raw, parquet, tasks, stage, payload, exit>> PROVE ArchiveInv'
BY DEF ArchiveInv, Typed, Settled

LEMMA ReportsSame == ASSUME ReportsInv, reports' = reports PROVE ReportsInv'
BY DEF ReportsInv, LockedYearIsLast

LEMMA BundleSame == ASSUME BundleInv, bundle' = bundle PROVE BundleInv'
BY DEF BundleInv

LEMMA FredSame ==
  ASSUME FredInv, UNCHANGED fredVars, study'.name \in {study.name, "none"} PROVE FredInv'
BY DEF FredInv, fredVars, MacroIsOneDownload

\* Neither a download nor a build concerns the studies.
LEMMA StudiesSame ==
  ASSUME PipelineInv, UNCHANGED studyVars, samples' = samples PROVE StudyInv' /\ ReportsInv'
BY StudyStutters, ReportsSame DEF PipelineInv, studyVars

LEMMA PipelineInitHolds == PipelineInit => PipelineInv
<1> SUFFICES ASSUME PipelineInit PROVE PipelineInv
  OBVIOUS
<1>1. FredInv
  BY NoStudyFacts, FredConstants DEF PipelineInit, FredInit, FredInv, MacroIsOneDownload, StudyInit
<1> QED BY <1>1, InitHolds, BuildInitHolds, StudyInitHolds, BundleInitHolds
        DEF PipelineInit, PipelineInv, Exclusive, StudyInit

LEMMA MirrorKeeps == ASSUME PipelineInv, MirrorCommand \/ MirrorStep PROVE PipelineInv'
<1>1. /\ Touch /\ UNCHANGED <<cache, overlooked, build, samples, fredVars, studyVars, bundle>>
      /\ ArchiveInv'
  BY ArchiveStepKeeps, MirrorCommandKeeps
     DEF MirrorCommand, MirrorStep, OthersThanArchive, PipelineInv
<1>2. BuildInv'
  BY <1>1, MirrorKeepsBuild DEF PipelineInv
<1>3. StudyInv' /\ ReportsInv' /\ BundleInv'
  BY <1>1, StudiesSame, BundleSame DEF PipelineInv
<1>4. FredInv' /\ Exclusive'
  BY <1>1, FredSame DEF PipelineInv, Exclusive, studyVars, fredVars
<1> QED BY <1>1, <1>2, <1>3, <1>4 DEF PipelineInv

LEMMA BuildingKeeps ==
  ASSUME PipelineInv, BuildDatasetCommand \/ BuildingStep \/ BuildKill PROVE PipelineInv'
<1>1. UNCHANGED <<remote, raw, parquet, tasks, stage, payload, exit, fredVars, studyVars, bundle>>
  BY DEF BuildDatasetCommand, BuildingStep, BuildKill, OthersThanBuild, archiveVars
<1>2. ArchiveInv' /\ BundleInv'
  BY <1>1, ArchiveSame, BundleSame DEF PipelineInv
<1>3. BuildInv'
  <2>1. CASE BuildDatasetCommand
    BY <1>1, <2>1, BuildCommandKeeps DEF PipelineInv, BuildDatasetCommand
  <2>2. CASE BuildingStep
    BY <1>1, <2>2, BuildStepKeeps DEF PipelineInv, BuildingStep
  <2>3. CASE BuildKill
    BY <1>1, <2>3, FailsKeeps DEF PipelineInv, BuildKill, BuildKilled
  <2> QED BY <2>1, <2>2, <2>3
\* No build starts or goes on beside a study.
<1>4. study = NoStudy /\ study' = NoStudy /\ reports' = reports
  <2>1. CASE BuildDatasetCommand
    BY <1>1, <2>1 DEF BuildDatasetCommand, ResearchIdle, Studying, studyVars
  <2>2. CASE BuildingStep
    <3>1. build # NoBuild
      BY <2>2, NoBuildFacts DEF BuildingStep, BuildStep, ReadSpot, Look, ReadCache, ReadSources,
         CacheWritten, Assemble, SamplesWritten
    <3> QED BY <1>1, <3>1 DEF PipelineInv, Exclusive, studyVars
  <2>3. CASE BuildKill
    BY <1>1, <2>3 DEF BuildKill, BuildKilled, PipelineInv, Exclusive, studyVars
  <2> QED BY <2>1, <2>2, <2>3
<1>5. StudyInv' /\ ReportsInv'
  BY <1>4, NoStudyIsSound, ReportsSame DEF PipelineInv
<1>6. FredInv' /\ Exclusive'
  BY <1>1, <1>4, FredSame DEF PipelineInv, Exclusive
<1> QED BY <1>2, <1>3, <1>5, <1>6 DEF PipelineInv

LEMMA FredKeeps ==
  ASSUME PipelineInv, FredCommand \/ FredDownloadStep \/ FredKill PROVE PipelineInv'
<1>1. UNCHANGED <<remote, raw, parquet, tasks, stage, payload, exit, buildVars, studyVars, bundle>>
  BY DEF FredCommand, FredDownloadStep, FredKill, OthersThanFred, archiveVars
<1>2. ArchiveInv' /\ BundleInv' /\ BuildInv'
  BY <1>1, ArchiveSame, BundleSame, BuildStutters DEF PipelineInv, buildVars
<1>3. StudyInv' /\ ReportsInv'
  BY <1>1, StudiesSame DEF buildVars
\* No study reads the series while they are replaced.
<1>4. study = NoStudy /\ study' = NoStudy
  <2>1. CASE FredCommand
    BY <1>1, <2>1 DEF FredCommand, ResearchIdle, Studying, studyVars
  <2>2. CASE FredDownloadStep \/ FredKill
    <3>1. position # 0
      BY <2>2, FredConstants DEF FredDownloadStep, FredKill, FredStep, FetchSeries, WriteManifest,
         FredStops, SeriesNames
    <3> QED BY <1>1, <3>1 DEF PipelineInv, Exclusive, studyVars
  <2> QED BY <2>1, <2>2
<1>5. downloads' \in Nat /\ position' \in Nat
      /\ \E d \in 0..downloads' : manifest' = [s \in SeriesNames |-> d]
  <2>1. CASE FredCommand
    BY <2>1 DEF FredCommand, DownloadFred, PipelineInv, FredInv
  <2>2. CASE FetchSeries \/ FredStops
    BY <2>2 DEF FetchSeries, FredStops, PipelineInv, FredInv
  <2>3. CASE WriteManifest
    BY <2>3 DEF WriteManifest, PipelineInv, FredInv
  <2> QED BY <2>1, <2>2, <2>3 DEF FredDownloadStep, FredStep, FredKill
<1>6. MacroIsOneDownload'
  BY <1>4, NoStudyFacts DEF MacroIsOneDownload
<1>7. Exclusive'
  BY <1>4 DEF Exclusive
<1> QED BY <1>2, <1>3, <1>5, <1>6, <1>7 DEF PipelineInv, FredInv

\* A study goes on with the file it began with, or is over.
LEMMA StudyGoesOn ==
  ASSUME StudyInv, StudyStep \/ Gated \/ Published
  PROVE  /\ study # NoStudy
         /\ study' = NoStudy \/ (study'.name = study.name /\ study'.kind = study.kind)
<1>1. study # NoStudy
  BY NoStudyFacts DEF StudyStep, SplitFolds, LearnOrChoose, ScoreFold, Report, Gated, Published
<1>2. study' = NoStudy \/ (study'.name = study.name /\ study'.kind = study.kind)
  <2>1. CASE SplitFolds
    BY <2>1 DEF SplitFolds, Raises, StudyInv, StudyStates
  <2>2. CASE LearnOrChoose
    BY <2>2 DEF LearnOrChoose, Raises, StudyInv, StudyStates
  <2>3. CASE ScoreFold
    BY <2>3 DEF ScoreFold, StudyInv, StudyStates
  <2>4. CASE NextHorizon
    BY <2>4 DEF NextHorizon, StudyInv, StudyStates
  <2>5. CASE study' = NoStudy
    BY <2>5
  <2>6. CASE Gated
    BY <2>6 DEF Gated, StudyInv, StudyStates
  <2> QED BY <2>1, <2>2, <2>3, <2>4, <2>5, <2>6 DEF StudyStep, Report, Raises, Published
<1> QED BY <1>1, <1>2

\* A study's own steps leave the files alone.
LEMMA BesideStudies ==
  ASSUME PipelineInv, UNCHANGED <<remote, raw, parquet, tasks, stage, payload, exit, buildVars>>
  PROVE  ArchiveInv' /\ BuildInv'
BY ArchiveSame, BuildStutters DEF PipelineInv, buildVars

LEMMA StudyingKeeps ==
  ASSUME PipelineInv, StudyingStep \/ Gated \/ Publication \/ Published \/ StudyKill
  PROVE  PipelineInv'
<1>1. UNCHANGED <<remote, raw, parquet, tasks, stage, payload, exit, buildVars, fredVars>>
  BY DEF StudyingStep, Gated, Publication, Published, StudyKill, OthersThanStudy, archiveVars
<1>2. ArchiveInv' /\ BuildInv'
  BY <1>1, BesideStudies
<1>3. StudyInv' /\ ReportsInv'
  <2>1. CASE StudyingStep
    <3>1. StudyInv'
      BY <1>1, <2>1, StudyStepKeeps DEF PipelineInv, StudyingStep, buildVars
    <3>2. CASE Report
      BY <3>1, <3>2, ReportsKeep DEF PipelineInv
    <3>3. CASE ~Report
      BY <2>1, <3>1, <3>3, ReportsSame
         DEF PipelineInv, StudyingStep, StudyStep, SplitFolds, LearnOrChoose, ScoreFold, Raises
    <3> QED BY <3>2, <3>3
  <2>2. CASE Gated
    BY <2>2, GatedKeeps, ReportsSame DEF PipelineInv, Gated
  <2>3. CASE Publication
    BY <1>1, <2>3, StudiesSame DEF Publication, buildVars
  <2>4. CASE Published
    BY <2>4, NextHorizonKeeps, NoStudyIsSound, ReportsSame DEF PipelineInv, Published
  <2>5. CASE StudyKill
    BY <2>5, NoStudyIsSound, ReportsSame DEF PipelineInv, StudyKill, StudyKilled, Raises
  <2> QED BY <2>1, <2>2, <2>3, <2>4, <2>5
<1>4. BundleInv'
  <2>1. CASE Gated
    <3>1. study.kind \in Kinds
      BY <2>1, NoStudyFacts, StudyFacts DEF Gated, PipelineInv, StudyInv
    <3> QED BY <2>1, <3>1, OpenBundleKeeps DEF PipelineInv, Gated
  <2>2. CASE Publication
    BY <2>2, BundleStepKeeps DEF PipelineInv, Publication
  <2>3. CASE StudyKill
    BY <2>3, KilledBundleKeeps, BundleSame DEF PipelineInv, StudyKill
  <2>4. CASE StudyingStep \/ Published
    BY <2>4, BundleSame DEF PipelineInv, StudyingStep, Published
  <2> QED BY <2>1, <2>2, <2>3, <2>4
<1>5. study' = NoStudy \/ (study'.name = study.name /\ study'.kind = study.kind)
  BY StudyGoesOn
     DEF PipelineInv, StudyingStep, Publication, StudyKill, StudyKilled, Raises, studyVars
<1>6. study' # NoStudy => study # NoStudy
  BY StudyGoesOn DEF PipelineInv, StudyingStep, Publication, StudyKill, StudyKilled, Raises, studyVars
<1>7. FredInv'
  BY <1>1, <1>5, NoStudyFacts, FredSame DEF PipelineInv
<1>8. Exclusive'
  BY <1>1, <1>5, <1>6 DEF PipelineInv, Exclusive, buildVars, fredVars
<1> QED BY <1>2, <1>3, <1>4, <1>7, <1>8 DEF PipelineInv

LEMMA StudyCommandKeeps == ASSUME PipelineInv, StudyCommand PROVE PipelineInv'
<1>1. /\ UNCHANGED <<remote, raw, parquet, tasks, stage, payload, exit, buildVars, fredVars, bundle>>
      /\ build = NoBuild /\ position = 0
  BY DEF StudyCommand, OthersThanStudy, archiveVars, ResearchIdle, Building
<1>2. PICK name \in StudyNames : \E kind \in Studies[name].kinds, hs \in Studies[name].horizons :
        StartStudy(name, kind, hs)
  BY DEF StudyCommand, StudyNames
<1>3. PICK kind \in Studies[name].kinds, hs \in Studies[name].horizons : StartStudy(name, kind, hs)
  BY <1>2
<1>4. ArchiveInv' /\ BuildInv' /\ BundleInv'
  BY <1>1, BesideStudies, BundleSame DEF PipelineInv
<1>5. StudyInv' /\ ReportsInv'
  BY <1>3, StartStudyKeeps, ReportsSame DEF PipelineInv, StartStudy
<1>6. study'.name = name /\ study'.kind = kind
  BY <1>3 DEF StartStudy, NoStudy
<1>7. Exclusive'
  BY <1>1, <1>3, <1>6 DEF Exclusive, StartStudy, buildVars, fredVars
<1>8. FredInv'
  <2>1. ASSUME name = "fred" PROVE \E d \in 1..downloads : \A s \in SeriesNames : series[s] = d
    <3>1. FilesMatchManifest
      BY <1>3, <2>1 DEF StartStudy
    <3>2. PICK d \in 0..downloads : manifest = [s \in SeriesNames |-> d]
      BY DEF PipelineInv, FredInv
    <3>3. 1 \in SeriesNames
      BY FredConstants DEF SeriesNames
    <3>4. d # 0 /\ \A s \in SeriesNames : series[s] = d
      BY <3>1, <3>2, <3>3 DEF FilesMatchManifest
    <3> QED BY <3>4 DEF PipelineInv, FredInv
  <2>2. MacroIsOneDownload'
    BY <1>1, <1>6, <2>1 DEF MacroIsOneDownload, fredVars
  <2> QED BY <1>1, <2>2 DEF PipelineInv, FredInv, fredVars
<1> QED BY <1>4, <1>5, <1>7, <1>8 DEF PipelineInv

LEMMA PipelineStutters == ASSUME PipelineInv, UNCHANGED pipelineVars PROVE PipelineInv'
<1>1. UNCHANGED <<archiveVars, buildVars, fredVars, studyVars, bundle>>
  BY DEF pipelineVars
<1>2. ArchiveInv' /\ BuildInv' /\ BundleInv'
  BY <1>1, BesideStudies, BundleSame DEF PipelineInv, archiveVars
<1>3. StudyInv' /\ ReportsInv'
  BY <1>1, StudiesSame DEF buildVars
<1>4. FredInv' /\ Exclusive'
  BY <1>1, FredSame DEF PipelineInv, Exclusive, studyVars, fredVars, buildVars
<1> QED BY <1>2, <1>3, <1>4 DEF PipelineInv

(***************************************************************************)
(* The inductive invariant of the research side holds in every state of    *)
(* any sequence of its commands, whatever they are interrupted by.         *)
(***************************************************************************)
THEOREM PipelineIsSound == PipelineSpec => []PipelineInv
<1>1. PipelineInv /\ [PipelineNext]_pipelineVars => PipelineInv'
  BY MirrorKeeps, BuildingKeeps, FredKeeps, StudyCommandKeeps, StudyingKeeps, PipelineStutters
     DEF PipelineNext
<1> QED BY PipelineInitHolds, <1>1, PTL DEF PipelineSpec

-----------------------------------------------------------------------------
(* What the invariant says. *)

\* A dataset file holds one of the datasets.
LEMMA DatasetExists ==
  ASSUME NEW kind \in Kinds, NEW from, BuiltFrom(kind, from)
  PROVE  /\ \E d \in Datasets : d.kind = kind /\ d.from = from
         /\ kind = "equity" => \E d \in Datasets : d.kind = "macro" /\ d.from = from
<1>1. CASE kind = "crypto"
  <2>1. from \in SUBSET Files
    BY <1>1 DEF BuiltFrom
  <2>2. Dataset("crypto", from, CryptoSamples(BarsOf(from), DerivativesOf(from))) \in Datasets
    BY <2>1 DEF Datasets
  <2> QED BY <1>1, <2>2 DEF Dataset
<1>2. CASE kind # "crypto"
  <2>1. PICK h \in EquityHistories : from = {h}
    BY <1>2 DEF BuiltFrom
  <2> DEFINE rows == EquitySamples(SessionsOf[h])
  <2>2. /\ Dataset("equity", {h}, rows) \in Datasets
        /\ Dataset("equity-v3", {h}, AddSpyMacro(rows)) \in Datasets
        /\ Dataset("macro", {h}, AttachMacro(rows, MacroDays)) \in Datasets
    BY DEF Datasets
  <2> QED BY <1>2, <2>1, <2>2 DEF Dataset, Kinds
<1> QED BY <1>1, <1>2

\* The rows of a running study are rows of a dataset.
LEMMA FrameIsRowlike ==
  ASSUME PipelineInv, study # NoStudy
  PROVE  \A r \in Frame : Rowlike(r)
<1> DEFINE kind == IF study.name = "fred" THEN "macro" ELSE study.kind
           from == samples[study.kind].from
<1>1. /\ study.name \in StudyNames /\ study.kind \in Studies[study.name].kinds
      /\ samples[study.kind].state = "whole"
  BY DEF PipelineInv, StudyInv, Exclusive
<1>2. study.kind \in Kinds /\ (study.name = "fred" => study.kind = "equity")
  BY <1>1, StudyFacts
<1>3. BuiltFrom(study.kind, from)
  BY <1>1, <1>2 DEF PipelineInv, BuildInv, SamplesInv
<1>4. \E d \in Datasets : d.kind = kind /\ d.from = from
  BY <1>2, <1>3, DatasetExists
<1>5. PICK d \in Datasets : RowsIn(kind, from) = d.rows
  BY <1>4 DEF RowsIn
<1>6. \A r \in RowsIn(kind, from) : Rowlike(r)
  BY <1>5, DatasetsArePointInTime
<1>7. Frame \subseteq RowsIn(kind, from)
  BY DEF Frame
<1> QED BY <1>6, <1>7

LEMMA InvImpliesPast == BuildInv => ReadsOnlyThePast
<1> SUFFICES ASSUME BuildInv, NEW k \in Kinds \cup {"macro"},
                    samples[IF k = "macro" THEN "equity" ELSE k].state = "whole"
             PROVE  \E d \in PointInTimeDatasets :
                      d.kind = k /\ d.from = samples[IF k = "macro" THEN "equity" ELSE k].from
  BY DEF ReadsOnlyThePast
<1> DEFINE kind == IF k = "macro" THEN "equity" ELSE k
<1>1. kind \in Kinds /\ (k = "macro" => kind = "equity") /\ (k # "macro" => kind = k)
  BY DEF Kinds
<1> HIDE DEF kind
<1>2. BuiltFrom(kind, samples[kind].from)
  BY <1>1 DEF BuildInv, SamplesInv, kind
<1>3. PICK d \in Datasets : d.kind = k /\ d.from = samples[kind].from
  BY <1>1, <1>2, DatasetExists
<1>4. d \in PointInTimeDatasets
  BY DatasetsArePointInTime DEF PointInTimeDatasets
<1> QED BY <1>3, <1>4 DEF kind

LEMMA InvImpliesBlind == PipelineInv => TestYearStaysBlind
<1> SUFFICES ASSUME PipelineInv,
                    NEW part \in study.score.behind \cup (study.score.against \ {"test"}),
                    NEW r \in Rows(study.score, part)
             PROVE  r.end < YearStart(study.score.year) - Embargo
  BY DEF TestYearStaysBlind
<1>1. study.score \in Records
  BY DEF PipelineInv, StudyInv, StudyStates
<1>2. study.score.year \in Int /\ part \in BlindParts
  BY <1>1 DEF Records, SeenParts
<1>3. study # NoStudy
  BY NoStudyFacts DEF Nothing
<1> QED BY <1>2, <1>3, FrameIsRowlike, BlindPartsEndBefore DEF Rows

LEMMA InvImpliesHeldOut == PipelineInv => SelectionIsHeldOut
<1> SUFFICES ASSUME PipelineInv, NEW part \in study.choice.behind, NEW r \in Rows(study.choice, part),
                    NEW t \in Rows(study.choice, study.choice.on)
             PROVE  r.end < t.at
  BY DEF SelectionIsHeldOut
<1>1. study.choice # Nothing /\ study # NoStudy
  BY NoStudyFacts DEF Nothing
<1>2. /\ PartUsable(Frame, study.choice.year, study.choice.on)
      /\ part \in OverBefore(study.choice.on) /\ study.choice \in Records
  BY <1>1 DEF PipelineInv, StudyInv, StudyStates
<1>3. study.choice.year \in Int
  BY <1>2 DEF Records
<1> QED BY <1>1, <1>2, <1>3, FrameIsRowlike, SelectionComesAfter DEF Rows

(***************************************************************************)
(* Whatever commands run, overlap or are killed: the rows in the mirror    *)
(* come from verified payloads, and exit code 0 stays a complete mirror.   *)
(***************************************************************************)
THEOREM MirrorIsVerified == PipelineSpec => [](VerifiedFrames /\ ExitZeroMeansComplete)
<1>1. PipelineInv => VerifiedFrames /\ ExitZeroMeansComplete
  BY InvImpliesFrames, InvImpliesComplete DEF PipelineInv
<1> QED BY PipelineIsSound, <1>1, PTL

(***************************************************************************)
(* The consolidated derivative tables a crypto dataset is built from hold  *)
(* every source complete when the build looked, except those a concurrent  *)
(* download finished while the table was being written.                    *)
(***************************************************************************)
THEOREM TablesStayCurrent == PipelineSpec => []TablesAreCurrent
<1>1. PipelineInv => TablesAreCurrent
  BY DEF PipelineInv, BuildInv
<1> QED BY PipelineIsSound, <1>1, PTL

(***************************************************************************)
(* Every finished dataset reads only days that were over at the stamp of   *)
(* its rows, for any calendar with any days missing.                       *)
(***************************************************************************)
THEOREM DatasetsReadThePast == PipelineSpec => []ReadsOnlyThePast
<1>1. PipelineInv => ReadsOnlyThePast
  BY InvImpliesPast DEF PipelineInv
<1> QED BY PipelineIsSound, <1>1, PTL

(***************************************************************************)
(* Nothing a study scores on a test year has seen a label of that year or  *)
(* of the embargo before it, nor has a baseline it is measured against     *)
(* been learnt from one.  Which of two baselines that is may be decided by *)
(* the year itself: \ {"test"} in the property is that choice.             *)
(***************************************************************************)
THEOREM TestYearIsBlind == PipelineSpec => []TestYearStaysBlind
BY PipelineIsSound, InvImpliesBlind, PTL

(***************************************************************************)
(* Candidates, and the two baselines on the test year, are compared on     *)
(* rows that begin after the labels they were fitted on.                   *)
(***************************************************************************)
THEOREM ChoicesAreHeldOut == PipelineSpec => []SelectionIsHeldOut
BY PipelineIsSound, InvImpliesHeldOut, PTL

(***************************************************************************)
(* A report with a locked year locks 2026 and averages 2023 to 2025.       *)
(***************************************************************************)
THEOREM LockedYearComesLast == PipelineSpec => []LockedYearIsLast
<1>1. PipelineInv => LockedYearIsLast
  BY DEF PipelineInv, ReportsInv
<1> QED BY PipelineIsSound, <1>1, PTL

(***************************************************************************)
(* The macro study reads the series of one download.                       *)
(***************************************************************************)
THEOREM MacroIsOneVintage == PipelineSpec => []MacroIsOneDownload
<1>1. PipelineInv => MacroIsOneDownload
  BY DEF PipelineInv, FredInv
<1> QED BY PipelineIsSound, <1>1, PTL

(***************************************************************************)
(* A bundle with a manifest is whole, and its hash covers every model.     *)
(***************************************************************************)
THEOREM BundlesAreWhole == PipelineSpec => []BundleIsWhole
<1>1. PipelineInv => BundleIsWhole
  BY BundleInvIsWhole DEF PipelineInv
<1> QED BY PipelineIsSound, <1>1, PTL
=============================================================================
