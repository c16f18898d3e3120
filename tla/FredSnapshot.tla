---------------------------- MODULE FredSnapshot ----------------------------
(***************************************************************************)
(* download-fred-market and the loader of its files.  The series are       *)
(* fetched and overwritten one by one; the manifest with their checksums   *)
(* comes last.  The content of a file is the number of the download that   *)
(* wrote it: each is another vintage.                                      *)
(***************************************************************************)
EXTENDS Naturals

CONSTANTS
  SeriesCount,   \* series of FRED_MARKET_SERIES, in order
  MaxDownloads   \* bound: downloads started

ASSUME FredConstants == SeriesCount \in Nat \ {0} /\ MaxDownloads \in Nat

VARIABLES
  series,    \* per file: the download that wrote it, 0 if there is none
  manifest,  \* per file: the checksum the manifest gives; 0 without a manifest
  downloads, \* downloads started
  position   \* the series the running download is at, 0 when none runs

fredVars == <<series, manifest, downloads, position>>

SeriesNames == 1..SeriesCount

\* Nothing yet, or one complete download.
FredInit ==
  /\ downloads \in 0..1 /\ position = 0
  /\ series = [s \in SeriesNames |-> downloads] /\ manifest = series

DownloadFred ==
  /\ position = 0 /\ downloads < MaxDownloads
  /\ downloads' = downloads + 1 /\ position' = 1
  /\ UNCHANGED <<series, manifest>>

FetchSeries ==
  /\ position \in SeriesNames
  /\ series' = [series EXCEPT ![position] = downloads] /\ position' = position + 1
  /\ UNCHANGED <<manifest, downloads>>

WriteManifest ==
  /\ position = SeriesCount + 1
  /\ manifest' = [s \in SeriesNames |-> downloads] /\ position' = 0
  /\ UNCHANGED <<series, downloads>>

\* A refused answer raises, a killed process just stops: what was written stays.
FredStops ==
  /\ position # 0 /\ position' = 0
  /\ UNCHANGED <<series, manifest, downloads>>

FredStep == FetchSeries \/ WriteManifest

\* Mutant: the loader does not compare checksums.
FilesExist == \A s \in SeriesNames : series[s] # 0 /\ manifest[s] # 0

\* load_fred_market_features: a manifest, and every file as it says.
FilesMatchManifest == \A s \in SeriesNames : manifest[s] # 0 /\ series[s] = manifest[s]
=============================================================================
