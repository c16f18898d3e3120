--------------------------- MODULE ResearchStudies ---------------------------
(***************************************************************************)
(* The training command and the research studies, as what they learn from  *)
(* which period of a walk-forward fold.  A study is a script of steps run  *)
(* once per fold:                                                          *)
(*   Learn   an artefact is fitted on the rows of a part, using others     *)
(*   Choose  artefacts are compared on a part and one goes on              *)
(*   Score   artefacts are judged on the test year, some against the       *)
(*           stronger of two baselines; the fold ends                      *)
(* Variants that run the same steps with other features, seeds, labels or  *)
(* hyperparameters are one.  The report is written after the last fold.    *)
(***************************************************************************)
EXTENDS DatasetBuild, FredSnapshot, WalkForward

CONSTANT BothHorizons  \* the horizons in the order of HORIZONS

ASSUME HorizonOrder == BothHorizons \in Seq(Horizons)

VARIABLES
  study,  \* the running command
  reports \* per study: the report file it last wrote

studyVars == <<study, reports>>

Step(does, name, uses, against, on) ==
  [does |-> does, name |-> name, uses |-> uses, against |-> against, on |-> on]
Learn(name, uses, on) == Step("learn", name, uses, {}, on)
Choose(name, among, on) == Step("choose", name, among, {}, on)
ScoreAgainst(baselines, uses) == Step("score", "score", uses, baselines, "test")
Score(uses) == ScoreAgainst({}, uses)

\* An ensemble, its temperature and its blend with the class prior, which may
\* be counted at any point before.
Calibrated ==
  << Learn("prior", {}, "train"), Learn("model", {}, "train"),
     Learn("temperature", {"model"}, "validation"),
     Learn("blend", {"temperature", "prior"}, "validation") >>

\* The baseline with the lower Brier score on the labels of the test year.
StrongerBaseline == Choose("stronger", {"prior", "logistic"}, "test")

-----------------------------------------------------------------------------
\* train_and_evaluate, up to the gates
Training ==
  Calibrated \o
  << Learn("logistic", {}, "train"),
     Learn("quantiles", {}, "train"),
     Learn("conformal", {"quantiles"}, "validation"),
     Learn("baselineQuantiles", {}, "train"),
     Learn("risk", {}, "train"),
     StrongerBaseline,
     ScoreAgainst({"stronger"},
       {"blend", "prior", "logistic", "conformal", "baselineQuantiles", "risk"}) >>

FeatureAblation ==
  << Learn("model", {}, "train"),
     Learn("temperature", {"model"}, "validation"),
     Learn("prior", {}, "train"),
     Learn("risk", {}, "train"),
     Score({"temperature", "prior", "risk"}) >>

RegimeAnalysis ==
  Calibrated \o
  << Learn("logistic", {}, "train"),
     StrongerBaseline,
     Learn("thresholds", {}, "train"),
     ScoreAgainst({"stronger"}, {"blend", "thresholds"}) >>

\* _select_calibrator: fitted on the earlier, compared on the later part of
\* the validation year.
SelectCalibrator ==
  << Learn("innerBlend", {"model", "prior"}, "calibrationFit"),
     Learn("innerMatrix", {"model"}, "calibrationFit"),
     Choose("method", {"prior", "innerBlend", "innerMatrix"}, "calibrationSelection") >>

CalibrationAblation ==
  << Learn("model", {}, "train"), Learn("prior", {}, "train"),
     Learn("current", {"model", "prior"}, "validation") >> \o
  SelectCalibrator \o
  << Learn("selected", {"method", "model", "prior"}, "validation"),
     Learn("thresholds", {}, "train"),
     Score({"model", "prior", "current", "selected", "thresholds"}) >>

\* Mutant: the scored calibrators are compared on the rows they were fitted on.
ComparedInSample ==
  << Choose("method", {"prior", "multiclass", "ordinal"}, "calibrationSelection") >>

\* The calibrators are refitted for the choice: the ones that are scored have
\* seen the whole validation year.
InnerDirectionCalibrators ==
  << Learn("innerMulticlass", {"model", "prior"}, "calibrationFit"),
     Learn("innerOrdinal", {"binary", "prior"}, "calibrationFit"),
     Choose("method", {"prior", "innerMulticlass", "innerOrdinal"}, "calibrationSelection") >>

DirectionModels ==
  << Learn("prior", {}, "train"), Learn("model", {}, "train"),
     Learn("multiclass", {"model", "prior"}, "validation"),
     Learn("binary", {}, "train"),
     Learn("ordinal", {"binary", "prior"}, "validation") >> \o
  InnerDirectionCalibrators \o
  << Learn("quantiles", {}, "train"),
     Learn("quantileDirection", {"quantiles", "prior"}, "validation"),
     Score({"multiclass", "ordinal", "method", "quantileDirection", "prior"}) >>

\* _fit_selected_model: chosen on the last training year, refitted on all.
SelectedLinearModel ==
  << Learn("innerCandidates", {}, "innerFit"),
     Choose("winner", {"innerCandidates"}, "innerSelection"),
     Learn("refitted", {"winner"}, "train") >>

LinearDirection ==
  << Learn("prior", {}, "train") >> \o SelectedLinearModel \o
  << Learn("temperature", {"refitted"}, "validation"),
     Learn("blend", {"temperature", "prior"}, "validation"),
     Score({"blend", "prior"}) >>

\* Some variants learn from the last years of the training period only.
TreeRegularization ==
  Calibrated \o
  << Learn("recentPrior", {}, "recent"), Learn("recentModel", {}, "recent"),
     Learn("recentTemperature", {"recentModel"}, "validation"),
     Learn("recentBlend", {"recentTemperature", "recentPrior"}, "validation"),
     Score({"blend", "prior", "recentBlend", "recentPrior"}) >>

LabelCandidates == Calibrated \o << Score({"blend", "prior"}) >>

FredMacro == Calibrated \o << Score({"blend", "prior"}) >>

IntervalCalibration ==
  << Learn("quantiles", {}, "train"),
     Learn("absolute", {"quantiles"}, "validation"),
     Learn("widthScaled", {"quantiles"}, "validation"),
     Learn("volatilityScaled", {"quantiles"}, "validation"),
     Learn("baseline", {}, "train"),
     Score({"absolute", "widthScaled", "volatilityScaled", "baseline"}) >>

\* Chosen on the validation year, then counted again on both periods.
ConditionalPriors ==
  << Learn("trainGlobal", {}, "train"),
     Learn("candidates", {}, "train"),
     Choose("winner", {"candidates"}, "validation"),
     Learn("refit", {"winner"}, "both"),
     Learn("updatedGlobal", {"winner"}, "both"),
     Score({"trainGlobal", "refit", "updatedGlobal"}) >>

-----------------------------------------------------------------------------
\* A command runs one horizon, or both in order.
One == {<<h>> : h \in Horizons}
Both == {BothHorizons}

\* What differs between the commands: the file they read, the horizons, the
\* number of folds they insist on (0: any) and whether they add the locked year.
Design(script, kinds, horizons, required, locked) ==
  [script |-> script, kinds |-> kinds, horizons |-> horizons, required |-> required,
   locked |-> locked]

Studies ==
  [train       |-> Design(Training, {"crypto", "equity"}, One \cup Both, 3, FALSE),
   ablation    |-> Design(FeatureAblation, {"crypto"}, Both, 0, FALSE),
   regimes     |-> Design(RegimeAnalysis, {"crypto"}, Both, 0, FALSE),
   calibration |-> Design(CalibrationAblation, {"equity", "equity-v3"}, Both, 0, FALSE),
   direction   |-> Design(DirectionModels, {"equity"}, One, 4, TRUE),
   linear      |-> Design(LinearDirection, {"equity"}, One, 4, TRUE),
   tree        |-> Design(TreeRegularization, {"equity"}, One, 4, TRUE),
   labels      |-> Design(LabelCandidates, {"equity"}, One, 4, TRUE),
   fred        |-> Design(FredMacro, {"equity"}, One, 4, TRUE),
   intervals   |-> Design(IntervalCalibration, {"equity"}, One, 4, TRUE),
   conditional |-> Design(ConditionalPriors, {"equity"}, One, 0, TRUE)]

Nothing == [year |-> 0, behind |-> {}, against |-> {}, on |-> "test"]
NoReport == [history |-> {}, locked |-> 0]
NoStudy == [name |-> "none", kind |-> "none", horizons |-> <<>>, stage |-> "idle", years |-> <<>>,
            fold |-> 0, step |-> 0, art |-> {}, score |-> Nothing, choice |-> Nothing]

StudyInit == study = NoStudy /\ reports = [s \in DOMAIN Studies |-> NoReport]

\* The samples of the running study: one horizon of its file.
Frame == {r \in RowsIn(IF study.name = "fred" THEN "macro" ELSE study.kind, samples[study.kind].from) :
            r.horizon = study.horizons[1]}
Year == study.years[study.fold]
Current == Studies[study.name].script[study.step]

Raises == study' = NoStudy /\ UNCHANGED reports

\* The FRED study loads the macro files before anything else.
StartStudy(name, kind, horizons) ==
  /\ study = NoStudy
  /\ kind \in Studies[name].kinds /\ horizons \in Studies[name].horizons
  /\ samples[kind].state = "whole"
  /\ name = "fred" => FilesMatchManifest
  /\ study' = [NoStudy EXCEPT !.name = name, !.kind = kind, !.horizons = horizons, !.stage = "split"]
  /\ UNCHANGED reports

FoldsAccepted(required, found) == required = 0 \/ found = required

SplitFolds ==
  LET years == FoldYears(Frame, Studies[study.name].locked)
  IN  /\ study.stage = "split"
      /\ IF FoldsAccepted(Studies[study.name].required, Len(years))
         THEN /\ study' = [study EXCEPT !.stage = IF years = <<>> THEN "folded" ELSE "fold",
                                        !.years = years, !.fold = 1, !.step = 1, !.art = {}]
              /\ UNCHANGED reports
         ELSE Raises

\* The parts behind artefacts: those they were learnt from, at any distance.
\* `art` pairs each artefact of the fold with them.
Behind(uses) == {a[2] : a \in {b \in study.art : b[1] \in uses}}

Record == [year |-> Year, behind |-> Behind(Current.uses),
           against |-> Behind(Current.against), on |-> Current.on]

LearnOrChoose ==
  /\ study.stage = "fold" /\ Current.does # "score"
  /\ IF PartUsable(Frame, Year, Current.on)
     THEN /\ study' = [study EXCEPT
                !.step = @ + 1,
                !.art = @ \cup ({Current.name} \X (Behind(Current.uses) \cup {Current.on})),
                !.choice = IF Current.does = "choose" THEN Record ELSE Nothing, !.score = Nothing]
          /\ UNCHANGED reports
     ELSE Raises

ScoreFold ==
  /\ study.stage = "fold" /\ Current.does = "score"
  /\ study' = [study EXCEPT !.score = Record, !.choice = Nothing, !.art = {}, !.step = 1, !.fold = @ + 1,
                            !.stage = IF study.fold = Len(study.years) THEN "folded" ELSE "fold"]
  /\ UNCHANGED reports

\* The next horizon of a command that runs both; a bundle comes in between.
NextHorizon ==
  study' = [study EXCEPT !.horizons = Tail(@), !.stage = "split", !.score = Nothing]

Missing == 0

\* Mutant: the locked fold is the last there is.
LastFold(years) == years[Len(years)]

\* fold_rows[3], which raises when there are fewer.
LockedFold(years) == IF Len(years) > 3 THEN years[4] ELSE Missing

\* Averages of no folds raise, too.
Report ==
  /\ study.stage = "folded" /\ study.name # "train"
  /\ IF study.years = <<>> \/ (Studies[study.name].locked /\ LockedFold(study.years) = Missing) THEN Raises
     ELSE IF Len(study.horizons) > 1 THEN NextHorizon /\ UNCHANGED reports
     ELSE /\ study' = NoStudy
          /\ reports' = [reports EXCEPT ![study.name] =
               LET locked == Studies[study.name].locked
                   history == IF locked THEN SubSeq(study.years, 1, 3) ELSE study.years
               IN  [history |-> {history[i] : i \in DOMAIN history},
                    locked |-> IF locked THEN LockedFold(study.years) ELSE 0]]

StudyStep == SplitFolds \/ LearnOrChoose \/ ScoreFold \/ Report

StudyKilled == study # NoStudy /\ Raises
-----------------------------------------------------------------------------
Rows(record, part) == PartOf(Frame, record.year, part)

(***************************************************************************)
(* Whatever a study scores on a test year was learnt from labels that had  *)
(* ended, with the embargo to spare, when the year began: a missing day    *)
(* that stretches a label, a refit or a choice never lets the year in.     *)
(* The baseline it is measured against was learnt from no other labels     *)
(* either.  But which baseline that is, two scripts decide by the test     *)
(* year itself (pipeline.py:261, regime_analysis.py:142): the stronger.    *)
(***************************************************************************)
TestYearStaysBlind ==
  \A part \in study.score.behind \cup (study.score.against \ {"test"}) :
    \A r \in Rows(study.score, part) : r.end < YearStart(study.score.year) - Embargo

(***************************************************************************)
(* A choice between candidates, or of a baseline on the test year, is made *)
(* on rows none of them has seen: the labels they were fitted on had ended *)
(* before the first of those rows.                                         *)
(***************************************************************************)
SelectionIsHeldOut ==
  LET selection == Rows(study.choice, study.choice.on)
      fitted == UNION {Rows(study.choice, part) : part \in study.choice.behind}
  IN  \A r \in fitted : \A t \in selection : r.end < t.at

(***************************************************************************)
(* A report with a locked year locks 2026 and averages the three years     *)
(* before it, however many folds the data allowed.                         *)
(***************************************************************************)
LockedYearIsLast ==
  \A s \in DOMAIN Studies : (Studies[s].locked /\ reports[s] # NoReport) =>
    reports[s] = [history |-> {3, 4, 5}, locked |-> 6]

(***************************************************************************)
(* The macro rows a study reads come from one download: files an           *)
(* interrupted download left half replaced never get that far.             *)
(***************************************************************************)
MacroIsOneDownload ==
  study.name = "fred" => \E d \in 1..downloads : \A s \in SeriesNames : series[s] = d
=============================================================================
