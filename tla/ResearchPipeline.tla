-------------------------- MODULE ResearchPipeline --------------------------
(***************************************************************************)
(* The research side as an operator runs it: commands started one after    *)
(* another.  A mirror download may still be running while a dataset is     *)
(* being built; everything else waits for its turn.  Any command may be    *)
(* killed at any step, and only files survive it.                          *)
(***************************************************************************)
EXTENDS ResearchStudies, BundlePublication

CONSTANT MaxCommands  \* bound: commands started

VARIABLE commands     \* commands started so far

pipelineVars == <<archiveVars, buildVars, fredVars, studyVars, bundle, commands>>

PipelineInit ==
  ArchiveInit /\ BuildInit /\ FredInit /\ StudyInit /\ BundleInit /\ commands = 0

Downloading == tasks # {}
Building == build # NoBuild
Studying == study # NoStudy
ArchiveIdle == ~Downloading
ResearchIdle == ~Studying /\ ~Publishing /\ position = 0

\* Only the crypto build reads what a download writes.
MayOverlap(target) == target \in {"", "crypto"}

Issue == commands < MaxCommands /\ commands' = commands + 1
Fault == faults < MaxFaults /\ faults' = faults + 1

OthersThanArchive == UNCHANGED <<cache, overlooked, build, samples, fredVars, studyVars, bundle>>
OthersThanBuild == UNCHANGED <<archiveVars, fredVars, studyVars, bundle>>
OthersThanFred == UNCHANGED <<archiveVars, buildVars, studyVars, bundle>>
OthersThanStudy == UNCHANGED <<archiveVars, buildVars, fredVars>>

-----------------------------------------------------------------------------
\* download-history, download-derivatives-history, download-month
MirrorCommand ==
  /\ ResearchIdle /\ MayOverlap(build.target) /\ Issue
  /\ \E files \in MirrorCommands : Command(files)
  /\ Touch /\ OthersThanArchive

MirrorStep == ArchiveStep /\ Touch /\ OthersThanArchive /\ UNCHANGED commands

BuildDatasetCommand ==
  /\ ResearchIdle /\ Issue
  /\ BuildCommand /\ (Downloading => MayOverlap(build'.target))
  /\ OthersThanBuild

BuildingStep == BuildStep /\ OthersThanBuild /\ UNCHANGED commands

BuildKill ==
  /\ BuildKilled /\ Fault
  /\ UNCHANGED <<remote, raw, parquet, tasks, stage, payload, exit, fredVars, studyVars, bundle, commands>>

FredCommand == ResearchIdle /\ ArchiveIdle /\ ~Building /\ Issue /\ DownloadFred /\ OthersThanFred

FredDownloadStep == FredStep /\ OthersThanFred /\ UNCHANGED commands

FredKill ==
  /\ FredStops /\ Fault
  /\ UNCHANGED <<remote, raw, parquet, tasks, stage, payload, exit, buildVars, studyVars, bundle, commands>>

\* train, train-equity, ablate, analyze-regimes, ablate-...: one horizon, or both.
StudyCommand ==
  /\ ResearchIdle /\ ArchiveIdle /\ ~Building /\ Issue
  /\ \E name \in DOMAIN Studies : \E kind \in Studies[name].kinds, hs \in Studies[name].horizons :
       StartStudy(name, kind, hs)
  /\ OthersThanStudy /\ UNCHANGED bundle

StudyingStep == StudyStep /\ ~Publishing /\ OthersThanStudy /\ UNCHANGED <<bundle, commands>>

\* A trained horizon goes on to its bundle ...
Gated ==
  /\ study.name = "train" /\ study.stage = "folded"
  /\ \E scenario \in BOOLEAN : OpenBundle(study.kind, scenario)
  /\ study' = [study EXCEPT !.stage = "publish"]
  /\ OthersThanStudy /\ UNCHANGED <<reports, commands>>

Publication == BundleStep /\ OthersThanStudy /\ UNCHANGED <<studyVars, commands>>

\* ... and when that is there to the next horizon.  A bundle that does not
\* load ends the command.
Published ==
  /\ study.stage = "publish" /\ ~Publishing
  /\ IF bundle.stage = "reported" /\ Len(study.horizons) > 1 THEN NextHorizon ELSE study' = NoStudy
  /\ OthersThanStudy /\ UNCHANGED <<reports, bundle, commands>>

StudyKill ==
  /\ StudyKilled /\ Fault
  /\ IF Publishing THEN PublicationKilled ELSE UNCHANGED bundle
  /\ UNCHANGED <<remote, raw, parquet, tasks, stage, payload, exit, buildVars, fredVars, commands>>

PipelineNext ==
  \/ MirrorCommand \/ MirrorStep
  \/ BuildDatasetCommand \/ BuildingStep \/ BuildKill
  \/ FredCommand \/ FredDownloadStep \/ FredKill
  \/ StudyCommand \/ StudyingStep \/ Gated \/ Publication \/ Published \/ StudyKill

PipelineSpec == PipelineInit /\ [][PipelineNext]_pipelineVars
=============================================================================
