------------------------------- MODULE InPlace -------------------------------
(***************************************************************************)
(* How tq replaces a file: trim --in-place (crates/tq/src/cli/             *)
(* toonl_trim.rs) and upgrade (upgrade.rs), whose Windows form moves the   *)
(* running program aside first.  Processes run at the same time and may    *)
(* die at any step, operations of the file system may fail, and a power    *)
(* loss ruins what was written and not synced.  A process identifier may   *)
(* come again, and find what an earlier process left.  Of a file's content *)
(* only its completeness is kept: "none" is no file, "partial" an          *)
(* incomplete one, "written" a complete one not on disk yet, and "whole".  *)
(***************************************************************************)
EXTENDS Naturals

CONSTANTS Pids,         \* process identifiers
          MaxAttempts   \* names tried for a temporary file, 100 in the code

ASSUME InPlaceAssumption == MaxAttempts \in Nat \ {0}

VARIABLES
  kind,     \* "trim", "upgrade" or "windows upgrade": all processes replace one file
  file,     \* the file that is replaced
  temp,     \* temporary files, by process identifier and attempt
  parked,   \* where a process moved the program that it replaces
  pc,       \* where each process is
  attempt,  \* the temporary file it uses
  broken    \* a process died, or could not undo, while the file was moved aside

inPlaceVars == <<kind, file, temp, parked, pc, attempt, broken>>

Attempts == 0..MaxAttempts - 1
Files == {"none", "partial", "written", "whole"}
Steps == {"idle", "creating", "writing", "syncing", "renaming", "clearing", "parking", "replacing",
          "restoring", "unparking"}

InPlaceTypeOK ==
  /\ kind \in {"trim", "upgrade", "windows upgrade"}
  /\ file \in Files
  /\ temp \in [Pids -> [Attempts -> Files]]
  /\ parked \in [Pids -> Files]
  /\ pc \in [Pids -> Steps]
  /\ attempt \in [Pids -> Attempts]
  /\ broken \in BOOLEAN

InPlaceInit ==
  /\ kind \in {"trim", "upgrade", "windows upgrade"}
  /\ file = "whole"
  /\ temp = [p \in Pids |-> [k \in Attempts |-> "none"]]
  /\ parked = [p \in Pids |-> "none"]
  /\ pc = [p \in Pids |-> "idle"]
  /\ attempt = [p \in Pids |-> 0]
  /\ broken = FALSE

Temp(p) == temp[p][attempt[p]]
SetTemp(p, content) == temp' = [temp EXCEPT ![p][attempt[p]] = content]
Advance(p, step) == pc' = [pc EXCEPT ![p] = step]
\* The file may be removed, and the process ends with its error.
Abandon(p) ==
  /\ \E content \in {"none", Temp(p)} : SetTemp(p, content)
  /\ Advance(p, "idle")

-----------------------------------------------------------------------------
(* Both tools write a new file beside the old one and sync it.             *)

\* A trim reads the file and an upgrade runs from it.
Begin(p) ==
  /\ pc[p] = "idle" /\ file # "none"
  /\ attempt' = [attempt EXCEPT ![p] = 0]
  /\ Advance(p, "creating")
  /\ UNCHANGED <<kind, file, temp, parked, broken>>

\* create_new takes no name that is in use; an upgrade takes over its own.
Create(p) ==
  /\ pc[p] = "creating"
  /\ kind = "trim" => Temp(p) = "none"
  /\ SetTemp(p, "partial") /\ Advance(p, "writing")
  /\ UNCHANGED <<kind, file, parked, attempt, broken>>
NameTaken(p) ==
  /\ pc[p] = "creating" /\ kind = "trim"
  /\ Temp(p) # "none"
  /\ IF attempt[p] + 1 < MaxAttempts
       THEN attempt' = [attempt EXCEPT ![p] = @ + 1] /\ UNCHANGED pc
       ELSE Advance(p, "idle") /\ UNCHANGED attempt
  /\ UNCHANGED <<kind, file, temp, parked, broken>>

WriteTemp(p) ==
  /\ pc[p] = "writing"
  /\ SetTemp(p, "written") /\ Advance(p, "syncing")
  /\ UNCHANGED <<kind, file, parked, attempt, broken>>

\* As if the file were renamed without being synced.
sync_all_skipped(p) ==
  /\ pc[p] = "syncing"
  /\ SetTemp(p, "written")
  /\ Advance(p, IF kind = "windows upgrade" THEN "clearing" ELSE "renaming")
  /\ UNCHANGED <<kind, file, parked, attempt, broken>>
sync_all(p) ==
  /\ pc[p] = "syncing"
  /\ SetTemp(p, "whole")
  /\ Advance(p, IF kind = "windows upgrade" THEN "clearing" ELSE "renaming")
  /\ UNCHANGED <<kind, file, parked, attempt, broken>>

\* An upgrade that cannot write its file leaves it; a trim removes it.
WriteFails(p) ==
  /\ pc[p] \in {"creating", "writing", "syncing"}
  /\ IF kind = "trim" /\ pc[p] # "creating" THEN Abandon(p) ELSE Advance(p, "idle") /\ UNCHANGED temp
  /\ UNCHANGED <<kind, file, parked, attempt, broken>>

Rename(p) ==
  /\ pc[p] = "renaming"
  /\ file' = Temp(p)
  /\ SetTemp(p, "none") /\ Advance(p, "idle")
  /\ UNCHANGED <<kind, parked, attempt, broken>>
RenameFails(p) ==
  /\ pc[p] = "renaming"
  /\ Abandon(p)
  /\ UNCHANGED <<kind, file, parked, attempt, broken>>

-----------------------------------------------------------------------------
(* swap_in_place on Windows                                                *)

\* A program parked under this name before goes, if it can be removed.
ClearParked(p) ==
  /\ pc[p] = "clearing"
  /\ \E content \in {"none", parked[p]} : parked' = [parked EXCEPT ![p] = content]
  /\ Advance(p, "parking")
  /\ UNCHANGED <<kind, file, temp, attempt, broken>>

Park(p) ==
  /\ pc[p] = "parking" /\ file # "none"
  /\ parked' = [parked EXCEPT ![p] = file]
  /\ file' = "none"
  /\ Advance(p, "replacing")
  /\ UNCHANGED <<kind, temp, attempt, broken>>
ParkFails(p) ==
  /\ pc[p] = "parking"
  /\ Abandon(p)
  /\ UNCHANGED <<kind, file, parked, attempt, broken>>

Replace(p) ==
  /\ pc[p] = "replacing"
  /\ file' = Temp(p)
  /\ SetTemp(p, "none") /\ Advance(p, "unparking")
  /\ UNCHANGED <<kind, parked, attempt, broken>>
ReplaceFails(p) ==
  /\ pc[p] = "replacing"
  /\ Advance(p, "restoring")
  /\ UNCHANGED <<kind, file, temp, parked, attempt, broken>>
Restore(p) ==
  /\ pc[p] = "restoring"
  /\ Abandon(p)
  /\ file' = parked[p]
  /\ parked' = [parked EXCEPT ![p] = "none"]
  /\ UNCHANGED <<kind, attempt, broken>>
RestoreFails(p) ==
  /\ pc[p] = "restoring"
  /\ Abandon(p)
  /\ broken' = TRUE
  /\ UNCHANGED <<kind, file, parked, attempt>>

\* The old program stays while it runs.
Unpark(p) ==
  /\ pc[p] = "unparking"
  /\ \E content \in {"none", parked[p]} : parked' = [parked EXCEPT ![p] = content]
  /\ Advance(p, "idle")
  /\ UNCHANGED <<kind, file, temp, attempt, broken>>

-----------------------------------------------------------------------------
(* What happens to processes                                               *)

Swapping(p) == pc[p] \in {"replacing", "restoring"}
Crash(p) ==
  /\ pc[p] # "idle"
  /\ Advance(p, "idle")
  /\ broken' = (broken \/ Swapping(p))
  /\ UNCHANGED <<kind, file, temp, parked, attempt>>

Ruined(content) == IF content = "written" THEN "partial" ELSE content
PowerLoss ==
  /\ pc' = [p \in Pids |-> "idle"]
  /\ file' = Ruined(file)
  /\ parked' = [p \in Pids |-> Ruined(parked[p])]
  /\ temp' = [p \in Pids |-> [k \in Attempts |-> Ruined(temp[p][k])]]
  /\ broken' = (broken \/ \E p \in Pids : Swapping(p))
  /\ UNCHANGED <<kind, attempt>>

WriteStep(p) == Begin(p) \/ Create(p) \/ NameTaken(p) \/ WriteTemp(p) \/ sync_all(p) \/ WriteFails(p)
RenameStep(p) == Rename(p) \/ RenameFails(p)
SwapStep(p) == \/ ClearParked(p) \/ Park(p) \/ ParkFails(p) \/ Replace(p) \/ ReplaceFails(p)
               \/ Restore(p) \/ RestoreFails(p) \/ Unpark(p)
InPlaceNext ==
  \/ \E p \in Pids : WriteStep(p) \/ RenameStep(p) \/ SwapStep(p) \/ Crash(p)
  \/ PowerLoss
InPlaceSpec == InPlaceInit /\ [][InPlaceNext]_inPlaceVars

-----------------------------------------------------------------------------
(* Properties *)

\* docs/toonl-reddb-spec.md:811, upgrade.rs:453: whoever looks at the file finds a
\* complete one, on disk.  Only Windows has a moment without it, which lasts
\* beyond an upgrade only if the upgrade died in it or could not undo it; the
\* old program is then still there, whatever other processes do.
FileStaysWhole ==
  /\ file \in {"none", "whole"}
  /\ file = "none" => /\ kind = "windows upgrade"
                      /\ broken \/ \E p \in Pids : Swapping(p)
                      /\ \E p \in Pids : parked[p] = "whole"
=============================================================================
