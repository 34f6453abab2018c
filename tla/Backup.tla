------------------------------- MODULE Backup -------------------------------
(***************************************************************************)
(* The backup goroutine (startBackup, backup: db.go) over the two files it *)
(* works on, through failed steps, crashes, a shutdown in the middle of a  *)
(* copy and whatever else is found at the temporary path.                  *)
(***************************************************************************)
EXTENDS Naturals

CONSTANTS MaxStops, MaxDiskFaults   \* bounds: ends of the process, and failed steps

ASSUME BackupConstants == MaxStops \in Nat /\ MaxDiskFaults \in Nat

VARIABLES
    saved,      \* what is at path: nothing, half a copy, or a copy and its age
    tmp,        \* what is at path.tmp: nothing, half a copy, a whole one, or
                \* something that is no file, which os.Remove removes or not
    stage,      \* the goroutine
    stopping,   \* shutdown waits for it
    dbOpen,     \* openDB has run, and closeDB has not
    stops, diskFaults

backupVars == <<saved, tmp, stage, stopping, dbOpen, stops, diskFaults>>

Files == {"partial", "whole"}
Others == {"other", "kept"}

BackupInit ==
    /\ saved \in {"absent", "fresh", "stale"} /\ tmp \in {"absent"} \cup Files \cup Others
    /\ stage = "check" /\ stopping = FALSE /\ dbOpen = TRUE
    /\ stops = 0 /\ diskFaults = 0

DiskFault == diskFaults < MaxDiskFaults /\ diskFaults' = diskFaults + 1
Remove == tmp' = IF tmp = "kept" THEN tmp ELSE "absent"

-----------------------------------------------------------------------------
(* The goroutine.                                                          *)

Check ==
    /\ stage = "check"
    /\ stage' = IF saved = "fresh" THEN "wait" ELSE "clear"
    /\ UNCHANGED <<saved, tmp, stopping, dbOpen, stops, diskFaults>>

\* A file left by a run that died; the removal's own error is not looked at.
ClearTmp ==
    /\ stage = "clear" /\ stage' = "vacuum"
    /\ \/ /\ tmp' = IF tmp \in Files THEN "absent" ELSE tmp
          /\ UNCHANGED diskFaults
       \/ DiskFault /\ UNCHANGED tmp
    /\ UNCHANGED <<saved, stopping, dbOpen, stops>>

\* vacuum into: refused for a destination that exists, which the cleanup of any
\* error then removes.  It writes the file bit by bit.
Vacuum ==
    /\ stage = "vacuum"
    /\ \/ tmp = "absent" /\ tmp' = "partial" /\ stage' = "copying"
       \/ tmp # "absent" /\ Remove /\ stage' = "wait"
    /\ UNCHANGED <<saved, stopping, dbOpen, stops, diskFaults>>

\* Mutant: the copy is written at its destination.
CopyInPlace ==
    /\ stage = "copying"
    /\ \/ /\ saved' = "fresh" /\ tmp' = "absent" /\ stage' = "script" /\ UNCHANGED diskFaults
       \/ /\ DiskFault /\ saved' = "partial" /\ tmp' = "absent" /\ stage' = "wait"
    /\ UNCHANGED <<stopping, dbOpen, stops>>

Copied ==
    /\ stage = "copying"
    /\ \/ tmp' = "whole" /\ stage' = "rename" /\ UNCHANGED diskFaults
       \/ DiskFault /\ Remove /\ stage' = "wait"
    /\ UNCHANGED <<saved, stopping, dbOpen, stops>>

Rename ==
    /\ stage = "rename"
    /\ \/ /\ saved' = (IF tmp = "whole" THEN "fresh" ELSE "partial")
          /\ tmp' = "absent" /\ stage' = "script" /\ UNCHANGED diskFaults
       \/ DiskFault /\ Remove /\ stage' = "wait" /\ UNCHANGED saved
    /\ UNCHANGED <<stopping, dbOpen, stops>>

\* Mutant: a script that hangs is waited for.
ScriptHangs == stage = "script" /\ UNCHANGED backupVars

\* The script, killed with its children when its time is out.
ScriptEnds ==
    /\ stage = "script" /\ stage' = "wait"
    /\ UNCHANGED <<saved, tmp, stopping, dbOpen, stops, diskFaults>>

\* select: the wait is over, or stop is closed.
WaitOver ==
    /\ stage = "wait"
    /\ stage' = "check" \/ (stopping /\ stage' = "ended")
    /\ UNCHANGED <<saved, tmp, stopping, dbOpen, stops, diskFaults>>

Work == Check \/ ClearTmp \/ Vacuum \/ Copied \/ Rename \/ ScriptEnds

-----------------------------------------------------------------------------
(* Time, whoever else has the disk, and the process.                       *)

Age ==
    /\ saved = "fresh" /\ saved' = "stale"
    /\ UNCHANGED <<tmp, stage, stopping, dbOpen, stops, diskFaults>>

SomeoneDeletes ==
    /\ DiskFault /\ saved # "absent" /\ saved' = "absent"
    /\ UNCHANGED <<tmp, stage, stopping, dbOpen, stops>>

SomeonePuts ==
    /\ DiskFault /\ tmp = "absent" /\ tmp' \in Others
    /\ UNCHANGED <<saved, stage, stopping, dbOpen, stops>>

ShutDown ==
    /\ dbOpen /\ ~stopping /\ stops < MaxStops /\ stops' = stops + 1 /\ stopping' = TRUE
    /\ UNCHANGED <<saved, tmp, stage, dbOpen, diskFaults>>

CloseDB ==
    /\ stopping /\ dbOpen /\ stage = "ended" /\ dbOpen' = FALSE
    /\ UNCHANGED <<saved, tmp, stage, stopping, stops, diskFaults>>

\* The process is started again, after a shutdown or a crash.
Begin == stage' = "check" /\ stopping' = FALSE /\ dbOpen' = TRUE

StartAgain ==
    /\ ~dbOpen /\ Begin
    /\ UNCHANGED <<saved, tmp, stops, diskFaults>>

Crash ==
    /\ stops < MaxStops /\ stops' = stops + 1 /\ Begin
    /\ UNCHANGED <<saved, tmp, diskFaults>>

BackupNext ==
    \/ Work \/ WaitOver \/ Age \/ SomeoneDeletes \/ SomeonePuts
    \/ ShutDown \/ CloseDB \/ StartAgain \/ Crash

BackupSpec == BackupInit /\ [][BackupNext]_backupVars

\* Copies, scripts and waits end, and the service is started again.
BackupFairSpec ==
    /\ BackupSpec
    /\ WF_backupVars(Work) /\ WF_backupVars(WaitOver)
    /\ WF_backupVars(CloseDB) /\ WF_backupVars(StartAgain)

-----------------------------------------------------------------------------
(* Properties.                                                             *)

BackupTypes ==
    /\ saved \in {"absent", "partial", "fresh", "stale"}
    /\ tmp \in {"absent"} \cup Files \cup Others
    /\ stage \in {"check", "clear", "vacuum", "copying", "rename", "script", "wait", "ended"}
    /\ stopping \in BOOLEAN /\ dbOpen \in BOOLEAN
    /\ stops \in Nat /\ diskFaults \in Nat

\* What is at path is a whole copy, whenever the process dies or a step fails:
\* there is never "a truncated file exactly where the last good backup was".
NeverTruncated == saved # "partial"

\* The database is open for as long as a copy reads it.
CopyHasDatabase == stage \in {"vacuum", "copying"} => dbOpen

\* A backup missing or stale is retaken, unless something os.Remove cannot
\* remove has taken the temporary path.
BackupTaken == saved # "fresh" ~> saved = "fresh" \/ tmp = "kept"
=============================================================================
