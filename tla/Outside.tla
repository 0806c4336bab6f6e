------------------------------- MODULE Outside -------------------------------
(***************************************************************************)
(* What comes into a project from outside: sheets of test cases, and the   *)
(* tests of its test repositories.  They share no state, so scene says     *)
(* which of the two moves.                                                 *)
(***************************************************************************)
EXTENDS Imports

CONSTANTS MaxFiles, Threshold, FastPath, TopK, BatchSize, Sure, Repos, Threads, CasesOf, Archives,
          MaxScans, MaxScanEvents

VARIABLES scene, live, head, status, tests, results, scan, scans, scanEvents, apart, torn, stuck

Scan == INSTANCE RepoScan WITH MaxEvents <- MaxScanEvents, events <- scanEvents
scanVars == <<live, head, status, tests, results, scan, scans, scanEvents, apart, torn, stuck>>

ASSUME ArchivesAssumption == Scan!ScanAssumption

OutsideInit == scene \in {"sheets", "scans"} /\ Init /\ Scan!Init
OutsideNext == \/ scene = "sheets" /\ Next /\ UNCHANGED <<scene, scanVars>>
               \/ scene = "scans" /\ Scan!Next /\ UNCHANGED <<scene, vars>>
OutsideSpec == OutsideInit /\ [][OutsideNext]_<<scene, vars, scanVars>>

\* That of RepoScan, here; repo_scan_worker.py: a feature's coverage and a
\* repository's rows and status are those of its scans.
ScansSound == Scan!ScansSound
=============================================================================
