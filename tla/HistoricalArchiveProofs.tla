----------------------- MODULE HistoricalArchiveProofs -----------------------
(***************************************************************************)
(* Theorems about HistoricalArchive for every set of files, number of      *)
(* threads, revisions, unreadable payloads and faults: what is in the      *)
(* mirror was verified, and exit code 0 means that it is complete.         *)
(*                                                                         *)
(* Both follow from what a file's stage says about its two copies and the  *)
(* payload in memory (Settled).  The step lemmas do not speak of `faults`, *)
(* so that they also serve where other commands count faults.              *)
(***************************************************************************)
EXTENDS HistoricalArchive, TLAPS

\* The types without the bound on faults.
Typed ==
  /\ remote \in [Files -> Versions] /\ raw \in [Files -> OnDisk] /\ parquet \in [Files -> OnDisk]
  /\ tasks \subseteq Files /\ stage \in [Files -> Stages]
  /\ payload \in [Files -> Versions \cup {Absent}]
  /\ \A f \in Files : stage[f] # "idle" <=> f \in tasks
  /\ exit \in [files : SUBSET Files, ok : BOOLEAN]

Readable(f, v) == v \in Versions /\ <<f, v>> \notin Unreadable

\* A file is only worked on while its parquet copy is missing or torn, and
\* both copies are written from the payload in memory.
Settled(f) ==
  /\ parquet[f] \in Versions => raw[f] = parquet[f] /\ Readable(f, parquet[f])
  /\ stage[f] \in {"get", "verify", "store", "storing", "convert", "converting"} =>
       parquet[f] \notin Versions
  /\ stage[f] \in {"verify", "store", "storing", "convert", "converting"} => payload[f] \in Versions
  /\ stage[f] \in {"idle", "queued", "get", "done", "failed"} => payload[f] = Absent
  /\ stage[f] = "storing" => raw[f] = Torn
  /\ stage[f] \in {"convert", "converting"} => raw[f] = payload[f]
  /\ stage[f] = "converting" => Readable(f, payload[f])
  /\ stage[f] = "done" => parquet[f] \in Versions

ArchiveInv ==
  /\ Typed
  /\ \A f \in Files : Settled(f)
  /\ exit.ok => \A f \in exit.files : parquet[f] \in Versions

-----------------------------------------------------------------------------
\* 0 and -1 are no versions.
LEMMA VersionFacts ==
  Versions \subseteq Nat /\ Absent \notin Versions /\ Torn \notin Versions /\ Absent # Torn
  /\ 1 \in Versions /\ \A v \in Versions : v < MaxVersion => v + 1 \in Versions
BY ArchiveConstants DEF Versions, Absent, Torn

\* Nothing has been downloaded.
LEMMA InitHolds == ArchiveInit => ArchiveInv
BY VersionFacts DEF ArchiveInit, ArchiveInv, Typed, Settled, OnDisk, Stages, NoCommand, Readable

\* A step on one file: the other files keep what is known of them.
LEMMA OneFile ==
  ASSUME ArchiveInv, NEW f \in Files, Typed', Settled(f)',
         parquet[f] \in Versions => parquet'[f] \in Versions,
         \A g \in Files \ {f} : raw'[g] = raw[g] /\ parquet'[g] = parquet[g]
                                /\ stage'[g] = stage[g] /\ payload'[g] = payload[g],
         exit' = exit
  PROVE  ArchiveInv'
<1>1. \A g \in Files : Settled(g)'
  BY DEF ArchiveInv, Settled
<1>2. exit'.ok => \A g \in exit'.files : parquet'[g] \in Versions
  BY DEF ArchiveInv, Typed
<1> QED BY <1>1, <1>2 DEF ArchiveInv

LEMMA ReviseKeeps == ASSUME ArchiveInv, NEW f \in Files, Revise(f) PROVE ArchiveInv'
BY VersionFacts DEF ArchiveInv, Typed, Settled, Revise

LEMMA CommandKeeps ==
  ASSUME ArchiveInv, NEW files \in SUBSET Files, Command(files) PROVE ArchiveInv'
BY VersionFacts DEF ArchiveInv, Typed, Settled, Command, Stages

LEMMA BeginKeeps == ASSUME ArchiveInv, NEW f \in Files, Begin(f) PROVE ArchiveInv'
<1>1. CacheVerdict(f) \in {"get", "done", "failed"}
  BY DEF CacheVerdict
<1>2. Typed'
  BY <1>1 DEF ArchiveInv, Typed, Begin, Enter, Stages
<1>3. Settled(f)'
  BY <1>1, VersionFacts DEF ArchiveInv, Typed, Settled, Begin, Enter, CacheVerdict
<1>4. \A g \in Files \ {f} : stage'[g] = stage[g]
  BY DEF ArchiveInv, Typed, Begin, Enter
<1>5. raw' = raw /\ parquet' = parquet /\ payload' = payload /\ exit' = exit
  BY DEF Begin
<1> QED BY <1>2, <1>3, <1>4, <1>5, OneFile

LEMMA GetKeeps == ASSUME ArchiveInv, NEW f \in Files, Get(f) PROVE ArchiveInv'
<1>1. Typed'
  BY DEF ArchiveInv, Typed, Get, Enter, Stages
<1>2. Settled(f)'
  BY DEF ArchiveInv, Typed, Settled, Get, Enter
<1>3. \A g \in Files \ {f} : stage'[g] = stage[g] /\ payload'[g] = payload[g]
  BY DEF ArchiveInv, Typed, Get, Enter
<1>4. raw' = raw /\ parquet' = parquet /\ exit' = exit
  BY DEF Get
<1> QED BY <1>1, <1>2, <1>3, <1>4, OneFile

\* A file that fails in flight: nothing on disk changes.
LEMMA FailKeeps ==
  ASSUME ArchiveInv, NEW f \in Files, stage[f] \in Stages \ {"idle"}, Leave(f, "failed"),
         UNCHANGED <<remote, raw, parquet, tasks, exit>>
  PROVE  ArchiveInv'
<1>1. Typed'
  BY DEF ArchiveInv, Typed, Leave, Enter, Stages
<1>2. Settled(f)'
  BY DEF ArchiveInv, Typed, Settled, Leave, Enter
<1>3. \A g \in Files \ {f} : stage'[g] = stage[g] /\ payload'[g] = payload[g]
  BY DEF ArchiveInv, Typed, Leave, Enter
<1> QED BY <1>1, <1>2, <1>3, OneFile

LEMMA VerifyKeeps == ASSUME ArchiveInv, NEW f \in Files, Verify(f) PROVE ArchiveInv'
<1>1. CASE Leave(f, "failed")
  BY <1>1, FailKeeps DEF Verify, Stages
<1>2. CASE Enter(f, "store") /\ UNCHANGED payload
  <2>1. Typed'
    BY <1>2 DEF ArchiveInv, Typed, Verify, Enter, Stages
  <2>2. Settled(f)'
    BY <1>2 DEF ArchiveInv, Typed, Settled, Verify, Enter
  <2>3. \A g \in Files \ {f} : stage'[g] = stage[g]
    BY <1>2 DEF ArchiveInv, Typed, Verify, Enter
  <2>4. raw' = raw /\ parquet' = parquet /\ payload' = payload /\ exit' = exit
    BY <1>2 DEF Verify
  <2> QED BY <2>1, <2>2, <2>3, <2>4, OneFile
<1> QED BY <1>1, <1>2 DEF Verify

LEMMA StoreKeeps == ASSUME ArchiveInv, NEW f \in Files, Store(f) PROVE ArchiveInv'
<1>1. CASE Clashes(f)
  BY <1>1, FailKeeps DEF Store, Stages
<1>2. CASE ~Clashes(f) /\ raw[f] = Absent
  <2>1. Typed'
    BY <1>2 DEF ArchiveInv, Typed, Store, Enter, Stages, OnDisk
  <2>2. Settled(f)'
    BY <1>2 DEF ArchiveInv, Typed, Settled, Store, Enter
  <2>3. \A g \in Files \ {f} : stage'[g] = stage[g] /\ raw'[g] = raw[g]
    BY <1>2 DEF ArchiveInv, Typed, Store, Enter
  <2>4. parquet' = parquet /\ payload' = payload /\ exit' = exit
    BY <1>2 DEF Store
  <2> QED BY <2>1, <2>2, <2>3, <2>4, OneFile
<1>3. CASE ~Clashes(f) /\ raw[f] # Absent
  <2>1. Typed'
    BY <1>3 DEF ArchiveInv, Typed, Store, Enter, Stages
  <2>2. Settled(f)'
    BY <1>3 DEF ArchiveInv, Typed, Settled, Store, Enter, Clashes
  <2>3. \A g \in Files \ {f} : stage'[g] = stage[g]
    BY <1>3 DEF ArchiveInv, Typed, Store, Enter
  <2>4. raw' = raw /\ parquet' = parquet /\ payload' = payload /\ exit' = exit
    BY <1>3 DEF Store
  <2> QED BY <2>1, <2>2, <2>3, <2>4, OneFile
<1> QED BY <1>1, <1>2, <1>3

LEMMA StoredKeeps == ASSUME ArchiveInv, NEW f \in Files, Stored(f) PROVE ArchiveInv'
<1>1. payload[f] \in Versions /\ parquet[f] \notin Versions
  BY DEF ArchiveInv, Settled, Stored
<1>2. Typed'
  BY <1>1 DEF ArchiveInv, Typed, Stored, Enter, Stages, OnDisk
<1>3. Settled(f)'
  BY <1>1 DEF ArchiveInv, Typed, Settled, Stored, Enter
<1>4. \A g \in Files \ {f} : stage'[g] = stage[g] /\ raw'[g] = raw[g]
  BY DEF ArchiveInv, Typed, Stored, Enter
<1>5. parquet' = parquet /\ payload' = payload /\ exit' = exit
  BY DEF Stored
<1> QED BY <1>2, <1>3, <1>4, <1>5, OneFile

LEMMA ConvertKeeps == ASSUME ArchiveInv, NEW f \in Files, Convert(f) PROVE ArchiveInv'
<1>1. payload[f] \in Versions /\ parquet[f] \notin Versions
  BY DEF ArchiveInv, Settled, Convert
<1>2. CASE Leave(f, "failed") /\ UNCHANGED parquet
  BY <1>2, FailKeeps DEF Convert, Stages
<1>3. CASE <<f, payload[f]>> \notin Unreadable
  <2>1. Typed'
    BY <1>3 DEF ArchiveInv, Typed, Convert, Enter, Stages, OnDisk
  <2>2. Settled(f)'
    BY <1>1, <1>3, VersionFacts DEF ArchiveInv, Typed, Settled, Convert, Enter, Readable
  <2>3. \A g \in Files \ {f} : stage'[g] = stage[g] /\ parquet'[g] = parquet[g]
    BY <1>3 DEF ArchiveInv, Typed, Convert, Enter
  <2>4. raw' = raw /\ payload' = payload /\ exit' = exit
    BY <1>3 DEF Convert
  <2> QED BY <1>1, <2>1, <2>2, <2>3, <2>4, OneFile
<1> QED BY <1>2, <1>3 DEF Convert

LEMMA ConvertedKeeps == ASSUME ArchiveInv, NEW f \in Files, Converted(f) PROVE ArchiveInv'
<1>1. payload[f] \in Versions /\ parquet[f] \notin Versions /\ raw[f] = payload[f]
      /\ Readable(f, payload[f])
  BY DEF ArchiveInv, Settled, Converted
<1>2. Typed'
  BY <1>1 DEF ArchiveInv, Typed, Converted, Leave, Enter, Stages, OnDisk
<1>3. Settled(f)'
  BY <1>1 DEF ArchiveInv, Typed, Settled, Converted, Leave, Enter, Readable
<1>4. \A g \in Files \ {f} : stage'[g] = stage[g] /\ parquet'[g] = parquet[g]
                                /\ payload'[g] = payload[g]
  BY DEF ArchiveInv, Typed, Converted, Leave, Enter
<1>5. raw' = raw /\ exit' = exit
  BY DEF Converted
<1> QED BY <1>1, <1>2, <1>3, <1>4, <1>5, OneFile

\* The command is over, or was killed: no file is in memory any more.
LEMMA StopKeeps ==
  ASSUME ArchiveInv, NEW ok \in BOOLEAN, Stop(ok), UNCHANGED <<remote, raw, parquet>>,
         ok => \A f \in tasks : parquet[f] \in Versions
  PROVE  ArchiveInv'
<1>1. Typed'
  BY DEF ArchiveInv, Typed, Stop, Stages
<1>2. \A f \in Files : Settled(f)'
  BY DEF ArchiveInv, Typed, Settled, Stop
<1>3. exit'.ok => \A f \in exit'.files : parquet'[f] \in Versions
  BY DEF Stop
<1> QED BY <1>1, <1>2, <1>3 DEF ArchiveInv

LEMMA ExitKeeps == ASSUME ArchiveInv, Exit PROVE ArchiveInv'
<1>1. \A f \in tasks : f \in Files /\ (stage[f] = "done" => parquet[f] \in Versions)
  BY DEF ArchiveInv, Typed, Settled
<1> QED BY <1>1, StopKeeps DEF Exit

LEMMA CrashKeeps == ASSUME ArchiveInv, Crash PROVE ArchiveInv'
BY StopKeeps DEF Crash

\* Every step of a running command keeps the invariant.
LEMMA ArchiveStepKeeps == ArchiveInv /\ ArchiveStep => ArchiveInv'
<1> SUFFICES ASSUME ArchiveInv, ArchiveStep PROVE ArchiveInv'
  OBVIOUS
<1>1. CASE Exit
  BY <1>1, ExitKeeps
<1>2. CASE Crash
  BY <1>2, CrashKeeps
<1>3. ASSUME NEW f \in Files, RequestFails(f) PROVE ArchiveInv'
  BY <1>3, FailKeeps DEF RequestFails, Stages
<1>4. ASSUME NEW f \in Files,
             \/ Revise(f) \/ Begin(f) \/ Get(f) \/ Verify(f)
             \/ Store(f) \/ Stored(f) \/ Convert(f) \/ Converted(f)
      PROVE  ArchiveInv'
  BY <1>4, ReviseKeeps, BeginKeeps, GetKeeps, VerifyKeeps, StoreKeeps, StoredKeeps,
     ConvertKeeps, ConvertedKeeps
<1> QED BY <1>1, <1>2, <1>3, <1>4 DEF ArchiveStep

\* Starting a command does, too.
LEMMA MirrorCommandKeeps ==
  ArchiveInv /\ (\E files \in MirrorCommands : Command(files)) => ArchiveInv'
<1> SUFFICES ASSUME ArchiveInv, NEW files \in MirrorCommands, Command(files) PROVE ArchiveInv'
  OBVIOUS
<1>1. files \in SUBSET Files
  BY DEF MirrorCommands, Files
<1> QED BY <1>1, CommandKeeps

LEMMA ArchiveStutters == ArchiveInv /\ UNCHANGED archiveVars => ArchiveInv'
BY DEF ArchiveInv, Typed, Settled, archiveVars

-----------------------------------------------------------------------------
(***************************************************************************)
(* The inductive invariant holds in every state of the mirror.             *)
(***************************************************************************)
THEOREM ArchiveIsSettled == ArchiveSpec => []ArchiveInv
<1>1. ArchiveInv /\ [ArchiveNext]_archiveVars => ArchiveInv'
  BY ArchiveStepKeeps, MirrorCommandKeeps, ArchiveStutters DEF ArchiveNext
<1> QED BY InitHolds, <1>1, PTL DEF ArchiveSpec

LEMMA InvImpliesFrames == ArchiveInv => VerifiedFrames
BY DEF ArchiveInv, Settled, VerifiedFrames, Readable

LEMMA InvImpliesComplete == ArchiveInv => ExitZeroMeansComplete
BY DEF ArchiveInv, Typed, Settled, ExitZeroMeansComplete

(***************************************************************************)
(* Rows come from verified payloads only, whatever crashed or was revised. *)
(***************************************************************************)
THEOREM FramesAreVerified == ArchiveSpec => []VerifiedFrames
BY ArchiveIsSettled, InvImpliesFrames, PTL

(***************************************************************************)
(* A command that ended with exit code 0 left a complete mirror of its     *)
(* files, and no later command undoes it.                                  *)
(***************************************************************************)
THEOREM ExitZeroIsComplete == ArchiveSpec => []ExitZeroMeansComplete
BY ArchiveIsSettled, InvImpliesComplete, PTL

(***************************************************************************)
(* Type correctness, the bound on faults included.                         *)
(***************************************************************************)
THEOREM ArchiveTypes == ArchiveSpec => []ArchiveTypeOK
<1>1. ArchiveInit => faults \in 0..MaxFaults
  BY ArchiveConstants DEF ArchiveInit
<1>2. faults \in 0..MaxFaults /\ [ArchiveNext]_archiveVars => (faults \in 0..MaxFaults)'
  <2> SUFFICES ASSUME faults \in 0..MaxFaults, [ArchiveNext]_archiveVars
               PROVE  faults' \in 0..MaxFaults
    OBVIOUS
  <2>1. CASE faults < MaxFaults /\ faults' = faults + 1
    BY <2>1, ArchiveConstants
  <2>2. CASE faults' = faults
    BY <2>2
  <2>3. ASSUME NEW f \in Files, Verify(f) \/ Store(f) \/ Convert(f) PROVE faults' = faults
    BY <2>3 DEF Verify, Store, Convert
  <2>4. ASSUME NEW f \in Files,
               \/ Revise(f) \/ Begin(f) \/ Get(f) \/ RequestFails(f) \/ Stored(f) \/ Converted(f)
        PROVE  faults' = faults \/ (faults < MaxFaults /\ faults' = faults + 1)
    BY <2>4 DEF Revise, Begin, Get, RequestFails, Stored, Converted
  <2>5. Exit \/ Crash \/ (\E files \in MirrorCommands : Command(files)) =>
          faults' = faults \/ (faults < MaxFaults /\ faults' = faults + 1)
    BY DEF Exit, Crash, Command
  <2> QED BY <2>1, <2>2, <2>3, <2>4, <2>5 DEF ArchiveNext, ArchiveStep, archiveVars
<1>3. ArchiveInv /\ faults \in 0..MaxFaults => ArchiveTypeOK
  BY VersionFacts DEF ArchiveInv, Typed, Settled, ArchiveTypeOK, InFlight, Stages
<1> QED BY ArchiveIsSettled, <1>1, <1>2, <1>3, PTL DEF ArchiveSpec
-----------------------------------------------------------------------------
(* What becomes of a copy once it is there. *)

Working == {"get", "verify", "store", "storing", "convert"}

\* The raw archive comes first, and only a file without rows is worked on.
CopiesInOrder(f) ==
  /\ parquet[f] # Absent => raw[f] # Absent
  /\ stage[f] \in Working => parquet[f] = Absent

CopyInv == ArchiveInv /\ \A f \in Files : CopiesInOrder(f)

\* A copy that is there is only touched by the write that is creating it.
CopyStep(f) ==
  /\ raw[f] # Absent /\ stage[f] # "storing" => raw'[f] = raw[f]
  /\ parquet[f] # Absent /\ stage[f] # "converting" => parquet'[f] = parquet[f]

LEMMA CopiesKeepOrder ==
  ASSUME CopyInv, [ArchiveNext]_archiveVars, NEW f \in Files
  PROVE  CopyStep(f) /\ CopiesInOrder(f)'
<1>1. Typed /\ Settled(f) /\ CopiesInOrder(f)
  BY DEF CopyInv, ArchiveInv
<1>2. CASE UNCHANGED archiveVars
  BY <1>1, <1>2 DEF archiveVars, CopyStep, CopiesInOrder
<1>3. CASE \E files \in MirrorCommands : Command(files)
  BY <1>1, <1>3 DEF Command, CopyStep, CopiesInOrder, Working
<1>4. CASE Exit \/ Crash
  BY <1>1, <1>4 DEF Exit, Crash, Stop, CopyStep, CopiesInOrder, Working
<1>5. CASE \E g \in Files : Revise(g) \/ Get(g) \/ Verify(g) \/ RequestFails(g)
  BY <1>1, <1>5 DEF Revise, Get, Verify, RequestFails, Enter, Leave, Typed, CopyStep,
    CopiesInOrder, Working
<1>6. CASE \E g \in Files : Begin(g)
  BY <1>1, <1>6 DEF Begin, Enter, CacheVerdict, Typed, CopyStep, CopiesInOrder, Working
<1>7. CASE \E g \in Files : Store(g) \/ Stored(g)
  BY <1>1, <1>7, VersionFacts DEF Store, Stored, Clashes, Enter, Leave, Typed, Settled,
    CopyStep, CopiesInOrder, Working
<1>8. CASE \E g \in Files : Convert(g) \/ Converted(g)
  BY <1>1, <1>8, VersionFacts DEF Convert, Converted, Enter, Leave, Typed, Settled,
    CopyStep, CopiesInOrder, Working
<1> QED
  BY <1>2, <1>3, <1>4, <1>5, <1>6, <1>7, <1>8 DEF ArchiveNext, ArchiveStep

LEMMA CopyInvariant == ArchiveSpec => []CopyInv
<1>1. ArchiveInit => CopyInv
  BY InitHolds DEF ArchiveInit, CopyInv, CopiesInOrder, Working
<1>2. CopyInv /\ [ArchiveNext]_archiveVars => CopyInv'
  <2>1. CopyInv /\ [ArchiveNext]_archiveVars => ArchiveInv'
    BY ArchiveStepKeeps, MirrorCommandKeeps, ArchiveStutters DEF ArchiveNext, CopyInv
  <2> QED BY <2>1, CopiesKeepOrder DEF CopyInv
<1> QED BY <1>1, <1>2, PTL DEF ArchiveSpec

\* A copy once whole is never changed.
WholeCopiesStay ==
  [][\A f \in Files : /\ raw[f] \in Versions => raw'[f] = raw[f]
                      /\ parquet[f] \in Versions => parquet'[f] = parquet[f]]_archiveVars

(***************************************************************************)
(* The mirror is immutable: "Immutable raw archive changed" is an error    *)
(* and no command, revision upstream or crash changes a whole raw archive  *)
(* or the rows made of it.                                                 *)
(***************************************************************************)
THEOREM MirrorIsImmutable == ArchiveSpec => WholeCopiesStay
<1>1. CopyInv /\ [ArchiveNext]_archiveVars =>
        [\A f \in Files : /\ raw[f] \in Versions => raw'[f] = raw[f]
                          /\ parquet[f] \in Versions => parquet'[f] = parquet[f]]_archiveVars
  <2> SUFFICES ASSUME CopyInv, [ArchiveNext]_archiveVars, NEW f \in Files
               PROVE  /\ raw[f] \in Versions => raw'[f] = raw[f]
                      /\ parquet[f] \in Versions => parquet'[f] = parquet[f]
    OBVIOUS
  <2>1. CopyStep(f) /\ Settled(f)
    BY CopiesKeepOrder DEF CopyInv, ArchiveInv
  <2>2. raw[f] \in Versions => stage[f] # "storing"
    BY <2>1, VersionFacts DEF Settled
  <2>3. parquet[f] \in Versions => stage[f] # "converting"
    BY <2>1 DEF Settled
  <2> QED BY <2>1, <2>2, <2>3, VersionFacts DEF CopyStep
<1> QED BY <1>1, CopyInvariant, PTL DEF ArchiveSpec, WholeCopiesStay

\* A copy that is torn, and that nothing is writing, stays torn.
TornCopiesStay ==
  [][\A f \in Files :
       /\ raw[f] = Torn /\ stage[f] # "storing" => raw'[f] = Torn
       /\ parquet[f] = Torn /\ stage[f] # "converting" => parquet'[f] = Torn]_archiveVars

(***************************************************************************)
(* The price of it: what a kill leaves half written no later command       *)
(* repairs, the checksum comparison turns the file away each time, until   *)
(* somebody removes it.                                                    *)
(***************************************************************************)
THEOREM TornCopiesAreNotRepaired == ArchiveSpec => TornCopiesStay
<1>1. CopyInv /\ [ArchiveNext]_archiveVars =>
        [\A f \in Files :
           /\ raw[f] = Torn /\ stage[f] # "storing" => raw'[f] = Torn
           /\ parquet[f] = Torn /\ stage[f] # "converting" => parquet'[f] = Torn]_archiveVars
  BY CopiesKeepOrder, VersionFacts DEF CopyStep
<1> QED BY <1>1, CopyInvariant, PTL DEF ArchiveSpec, TornCopiesStay
=============================================================================
