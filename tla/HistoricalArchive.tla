-------------------------- MODULE HistoricalArchive --------------------------
(***************************************************************************)
(* download-history, download-derivatives-history and download-month: the  *)
(* commands that mirror Binance's public archives.  Worker threads take    *)
(* one file each: payload, checksum file, the raw archive (never           *)
(* overwritten), then its rows as a parquet file.  Neither write is        *)
(* atomic; a file that fails does not stop the others.                     *)
(*                                                                         *)
(* A file on disk is Absent, Torn or of a version.  Two payloads have the  *)
(* same checksum when they are the same version; a torn file has none.     *)
(***************************************************************************)
EXTENDS Integers, FiniteSets

CONSTANTS
  Spot, Futures, \* the archives of the two histories
  Workers,       \* threads of a command
  MaxVersion,    \* bound: an archive is published and then revised
  Unreadable,    \* <<file, version>>: payloads the parser or its checks reject
  MaxFaults      \* bound: failing requests and crashes

Files == Spot \cup Futures
Absent == 0
Torn == -1
Versions == 1..MaxVersion
OnDisk == {Absent, Torn} \cup Versions

ASSUME ArchiveConstants ==
  /\ Spot \cap Futures = {} /\ Workers \in Nat \ {0} /\ MaxVersion \in Nat \ {0}
  /\ Unreadable \subseteq Files \X Versions /\ MaxFaults \in Nat

VARIABLES
  remote,       \* the version data.binance.vision serves of each file
  raw, parquet, \* the two local copies
  tasks,        \* the files of the running command
  stage,        \* how far the command is with each file
  payload,      \* the version a thread has in memory, or Absent
  exit,         \* the last command's files and exit code
  faults        \* failing requests and crashes so far (bounded)

archiveVars == <<remote, raw, parquet, tasks, stage, payload, exit, faults>>

Stages == {"idle", "queued", "get", "verify", "store", "storing", "convert", "converting",
           "done", "failed"}
InFlight == {f \in Files : stage[f] \notin {"idle", "queued", "done", "failed"}}

NoCommand == [files |-> {}, ok |-> FALSE]

ArchiveInit ==
  /\ remote = [f \in Files |-> 1]
  /\ raw = [f \in Files |-> Absent] /\ parquet = [f \in Files |-> Absent]
  /\ tasks = {} /\ stage = [f \in Files |-> "idle"] /\ payload = [f \in Files |-> Absent]
  /\ exit = NoCommand /\ faults = 0

-----------------------------------------------------------------------------
\* The publisher replaces an archive, and its checksum file with it.  Nothing
\* tells when while no command runs, so it does while one does.
Revise(f) ==
  /\ tasks # {}
  /\ remote[f] < MaxVersion /\ remote' = [remote EXCEPT ![f] = @ + 1]
  /\ UNCHANGED <<raw, parquet, tasks, stage, payload, exit, faults>>

\* The whole list of a history, or one month of a spot pair.
Command(files) ==
  /\ tasks = {} /\ files # {}
  /\ tasks' = files /\ stage' = [f \in Files |-> IF f \in files THEN "queued" ELSE "idle"]
  /\ UNCHANGED <<remote, raw, parquet, payload, exit, faults>>

Enter(f, next) == stage' = [stage EXCEPT ![f] = next]

\* A thread is done with a file; other files go on.
Leave(f, outcome) == Enter(f, outcome) /\ payload' = [payload EXCEPT ![f] = Absent]

\* Mutant: two files that exist are a finished download.
BothExist(f) ==
  IF raw[f] = Absent \/ parquet[f] = Absent THEN "get" ELSE "done"

\* existing_download_result: a pair that disagrees is an error, not a miss.
CacheVerdict(f) ==
  IF raw[f] = Absent \/ parquet[f] = Absent THEN "get"
  ELSE IF raw[f] \in Versions /\ parquet[f] = raw[f] THEN "done" ELSE "failed"

Begin(f) ==
  /\ stage[f] = "queued" /\ Cardinality(InFlight) < Workers
  /\ Enter(f, CacheVerdict(f))
  /\ UNCHANGED <<remote, raw, parquet, tasks, payload, exit, faults>>

Get(f) ==
  /\ stage[f] = "get"
  /\ Enter(f, "verify") /\ payload' = [payload EXCEPT ![f] = remote[f]]
  /\ UNCHANGED <<remote, raw, parquet, tasks, exit, faults>>

ChecksumMatches(f) == payload[f] = remote[f]

\* A futures archive is parsed before anything is written.
Verify(f) ==
  /\ stage[f] = "verify"
  /\ IF ChecksumMatches(f) /\ (f \in Futures => <<f, payload[f]>> \notin Unreadable)
     THEN Enter(f, "store") /\ UNCHANGED payload
     ELSE Leave(f, "failed")
  /\ UNCHANGED <<remote, raw, parquet, tasks, exit, faults>>

RequestFails(f) ==
  /\ stage[f] \in {"get", "verify"} /\ faults < MaxFaults /\ faults' = faults + 1
  /\ Leave(f, "failed")
  /\ UNCHANGED <<remote, raw, parquet, tasks, exit>>

\* Mutant: whatever lies there is kept.
NeverClashes(f) == FALSE

\* "Immutable raw archive changed".
Clashes(f) == raw[f] # Absent /\ raw[f] # payload[f]

Store(f) ==
  /\ stage[f] = "store"
  /\ IF Clashes(f) THEN Leave(f, "failed") /\ UNCHANGED raw
     ELSE /\ UNCHANGED payload
          /\ IF raw[f] = Absent
             THEN Enter(f, "storing") /\ raw' = [raw EXCEPT ![f] = Torn]
             ELSE Enter(f, "convert") /\ UNCHANGED raw
  /\ UNCHANGED <<remote, parquet, tasks, exit, faults>>

Stored(f) ==
  /\ stage[f] = "storing"
  /\ Enter(f, "convert") /\ raw' = [raw EXCEPT ![f] = payload[f]]
  /\ UNCHANGED <<remote, parquet, tasks, payload, exit, faults>>

\* A spot archive is parsed after it has been stored.
Convert(f) ==
  /\ stage[f] = "convert"
  /\ IF <<f, payload[f]>> \in Unreadable
     THEN Leave(f, "failed") /\ UNCHANGED parquet
     ELSE Enter(f, "converting") /\ parquet' = [parquet EXCEPT ![f] = Torn] /\ UNCHANGED payload
  /\ UNCHANGED <<remote, raw, tasks, exit, faults>>

Converted(f) ==
  /\ stage[f] = "converting"
  /\ Leave(f, "done") /\ parquet' = [parquet EXCEPT ![f] = payload[f]]
  /\ UNCHANGED <<remote, raw, tasks, exit, faults>>

\* The command ends when every future has; failures make the exit code 1.
Stop(ok) ==
  /\ exit' = [files |-> tasks, ok |-> ok]
  /\ tasks' = {} /\ stage' = [f \in Files |-> "idle"] /\ payload' = [f \in Files |-> Absent]

Exit ==
  /\ tasks # {} /\ \A f \in tasks : stage[f] \in {"done", "failed"}
  /\ Stop(\A f \in tasks : stage[f] = "done")
  /\ UNCHANGED <<remote, raw, parquet, faults>>

\* Killed: what was being written stays as it is.
Crash ==
  /\ tasks # {} /\ faults < MaxFaults /\ faults' = faults + 1
  /\ Stop(FALSE)
  /\ UNCHANGED <<remote, raw, parquet>>
-----------------------------------------------------------------------------
\* download-history, download-derivatives-history, download-month
MirrorCommands == {Spot, Futures} \cup {{f} : f \in Spot}

ArchiveStep ==
  \/ \E f \in Files :
       \/ Revise(f) \/ Begin(f) \/ Get(f) \/ Verify(f) \/ RequestFails(f)
       \/ Store(f) \/ Stored(f) \/ Convert(f) \/ Converted(f)
  \/ Exit \/ Crash

ArchiveNext == ArchiveStep \/ \E files \in MirrorCommands : Command(files)

ArchiveSpec == ArchiveInit /\ [][ArchiveNext]_archiveVars
-----------------------------------------------------------------------------
ArchiveTypeOK ==
  /\ remote \in [Files -> Versions] /\ raw \in [Files -> OnDisk] /\ parquet \in [Files -> OnDisk]
  /\ tasks \subseteq Files /\ stage \in [Files -> Stages]
  /\ payload \in [Files -> Versions \cup {Absent}]
  /\ \A f \in Files : stage[f] # "idle" <=> f \in tasks
  /\ \A f \in InFlight : payload[f] # Absent <=> stage[f] # "get"
  /\ exit \in [files : SUBSET Files, ok : BOOLEAN] /\ faults \in 0..MaxFaults

(***************************************************************************)
(* Rows come from verified payloads only: a whole parquet file holds the   *)
(* version of the raw archive beside it, which can be read, whatever       *)
(* crashed, was revised or failed before.                                  *)
(***************************************************************************)
VerifiedFrames ==
  \A f \in Files : parquet[f] \in Versions =>
    raw[f] = parquet[f] /\ <<f, parquet[f]>> \notin Unreadable

(***************************************************************************)
(* Exit code 0 means a complete mirror: every file of the command has both *)
(* copies, whole and of one version, and later commands leave them.        *)
(***************************************************************************)
ExitZeroMeansComplete ==
  exit.ok => \A f \in exit.files : parquet[f] \in Versions /\ raw[f] = parquet[f]
=============================================================================
