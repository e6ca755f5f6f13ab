--------------------------- MODULE ModelDownload ---------------------------
(***************************************************************************)
(* scripts/download_models.py: the files gclaw-voice needs are fetched one *)
(* after the other, each under a temporary name that is changed at the     *)
(* end.  The script may be killed between any two steps and run again; one *)
(* runs at a time.  A file is the number of blocks in it.  The machine     *)
(* itself does not fail: nothing is synced before the name is changed, and *)
(* what a disk has of a file after that is not modelled.                   *)
(***************************************************************************)
EXTENDS Naturals, Sequences

CONSTANTS
    Files,   \* the files main() asks for, in order
    Blocks,  \* blocks in a whole file
    NoFile   \* no such file

Names == {Files[i] : i \in DOMAIN Files}

ASSUME DownloadAssumption ==
    /\ Files \in Seq(Names) /\ Files # <<>>
    /\ \A i, j \in DOMAIN Files : Files[i] = Files[j] => i = j
    /\ Blocks \in Nat \ {0}
    /\ NoFile \notin Nat

VARIABLES
    disk,     \* what is there under each final name
    tmp,      \* what is there under each name with .tmp
    nth,      \* the index of the file main() is at, 0 when no script runs
    doing,    \* download_file(): "check", "copy", "rename" or "cleanup"
    success,  \* main()'s success
    exit,     \* how the last run ended
    cut       \* files whose transfer ended early without an error

downloadVars == <<disk, tmp, nth, doing, success, exit, cut>>

File == Files[nth]

DownloadInit ==
    /\ disk = [f \in Names |-> NoFile]
    /\ tmp = [f \in Names |-> NoFile]
    /\ nth = 0 /\ doing = "check" /\ success = TRUE
    /\ exit = "none"
    /\ cut = {}

StartScript ==
    /\ nth = 0
    /\ nth' = 1 /\ doing' = "check" /\ success' = TRUE
    /\ UNCHANGED <<disk, tmp, exit, cut>>

(* download_file() returns s, and main() goes on to the next file or ends. *)
Returns(s) ==
    /\ success' = (success /\ s)
    /\ doing' = "check"
    /\ IF nth = Len(Files)
       THEN nth' = 0 /\ exit' = (IF success' THEN "ok" ELSE "failed")
       ELSE nth' = nth + 1 /\ exit' = exit

Skip ==
    /\ nth # 0 /\ doing = "check"
    /\ disk[File] # NoFile
    /\ Returns(TRUE)
    /\ UNCHANGED <<disk, tmp, cut>>

Request ==
    /\ nth # 0 /\ doing = "check"
    /\ disk[File] = NoFile
    /\ tmp' = [tmp EXCEPT ![File] = 0]
    /\ doing' = "copy"
    /\ UNCHANGED <<disk, nth, success, exit, cut>>

CopyInPlace ==  \* faulty: the final name is used from the start
    /\ nth # 0 /\ doing = "copy" /\ tmp[File] < Blocks
    /\ tmp' = [tmp EXCEPT ![File] = @ + 1]
    /\ disk' = [disk EXCEPT ![File] = tmp'[File]]
    /\ UNCHANGED <<nth, doing, success, exit, cut>>

CopyBlock ==
    /\ nth # 0 /\ doing = "copy" /\ tmp[File] < Blocks
    /\ tmp' = [tmp EXCEPT ![File] = @ + 1]
    /\ UNCHANGED <<disk, nth, doing, success, exit, cut>>

(* read() returns nothing: the end of the file, or of a connection that    *)
(* was closed early, which the script does not tell apart.                 *)
StreamEnds ==
    /\ nth # 0 /\ doing = "copy"
    /\ doing' = "rename"
    /\ cut' = IF tmp[File] < Blocks THEN cut \cup {File} ELSE cut
    /\ UNCHANGED <<disk, tmp, nth, success, exit>>

Rename ==
    /\ nth # 0 /\ doing = "rename"
    /\ disk' = [disk EXCEPT ![File] = tmp[File]]
    /\ tmp' = [tmp EXCEPT ![File] = NoFile]
    /\ Returns(TRUE)
    /\ UNCHANGED cut

(* An exception: no connection, an HTTP status, a full disk. *)
Fails ==
    /\ nth # 0
    /\ doing \in {"copy", "rename"} \/ (doing = "check" /\ disk[File] = NoFile)
    /\ doing' = "cleanup"
    /\ UNCHANGED <<disk, tmp, nth, success, exit, cut>>

CleanUp ==
    /\ nth # 0 /\ doing = "cleanup"
    /\ tmp' = [tmp EXCEPT ![File] = NoFile]
    /\ Returns(FALSE)
    /\ UNCHANGED <<disk, cut>>

(* The user interrupts the script, or somebody kills it: no except clause  *)
(* catches that, and what is written and renamed stays as it is.           *)
Killed ==
    /\ nth # 0
    /\ nth' = 0 /\ doing' = "check"
    /\ exit' = "killed"
    /\ UNCHANGED <<disk, tmp, success, cut>>

Downloads ==
    \/ StartScript \/ Skip \/ Request \/ CopyBlock \/ StreamEnds \/ Rename \/ CleanUp

DownloadNext == Downloads \/ Fails \/ Killed

DownloadSpec == DownloadInit /\ [][DownloadNext]_downloadVars
=============================================================================
