---------------------------- MODULE RenameApply -----------------------------
(***************************************************************************)
(* The file transaction of deixis_apply_rename: apply_rename_preview of    *)
(* src/src/workspace_edits.rs, run on a blocking thread under the          *)
(* exclusive workspace gate, while other programs write to the same files  *)
(* and the client may cancel.                                              *)
(*                                                                         *)
(* Each system call on a project file is one action.  Stages and backups   *)
(* have unique names, so what happens to them alone is part of the action  *)
(* that causes it.  A canonical path that changed counts as other content. *)
(***************************************************************************)
EXTENDS Naturals, FiniteSets

CONSTANTS
  N,         \* number of files in the preview
  MayFail,   \* the operations that may fail
  MaxEdits   \* bound of the writes by other programs

Files == 1..N
Operations == {"stage", "cleanup", "move", "install", "remove", "restore",
               "discard"}

ASSUME RenameApplyAssumption ==
  /\ N \in Nat
  /\ MayFail \subseteq Operations
  /\ MaxEdits \in Nat

VARIABLES
  target,     \* the project's files
  stage,      \* their .new siblings
  backup,     \* their .bak siblings
  pc,         \* how far the transaction is
  at,         \* index of the file it works on
  staged,     \* length of `staged`
  moved,      \* files with StagedFile.original_moved
  installed,  \* files with StagedFile.replacement_installed
  conflicts,  \* what validate_unchanged found
  reported,   \* files named in cleanup or rollback failures, or in warnings
  verdict,    \* "open", or how it will end once the stages are removed
  cancelled,  \* the CancellationToken is cancelled
  outside,    \* history: what each file would hold without the transaction
  raced,      \* history: files others wrote behind the last validation
  edits       \* writes by other programs so far

files == <<target, stage, backup>>
progress == <<staged, moved, installed, conflicts, reported, verdict>>
world == <<cancelled, outside, raced, edits>>
vars == <<files, pc, at, progress, world>>

\* "old" is RenameFilePreview.before, "new" what its edits make of it,
\* "partial" the start of that; Foreign is what other programs write.
Contents == {"old", "new", "partial", "foreign", "absent"}
Foreign == {"old", "foreign", "absent"}
Refusals == {"canceled", "conflict", "stage failed"}
Verdicts == Refusals \cup {"failed", "rollback failed", "applied"}
EarlyPCs == {"idle", "validating", "staging", "revalidating", "deciding",
             "cleaning"}
CommitPCs == {"moving", "installing"}
RollbackPCs == {"removing", "restoring", "unstaging"}
PCs == EarlyPCs \cup CommitPCs \cup RollbackPCs \cup {"discarding", "done"}

Init ==
  /\ target = [f \in Files |-> "old"]
  /\ stage = [f \in Files |-> "absent"]
  /\ backup = [f \in Files |-> "absent"]
  /\ pc = "idle"
  /\ at = 1
  /\ staged = 0
  /\ moved = {}
  /\ installed = {}
  /\ conflicts = {}
  /\ reported = {}
  /\ verdict = "open"
  /\ cancelled = FALSE
  /\ outside = target
  /\ raced = {}
  /\ edits = 0

-----------------------------------------------------------------------------
(* Other programs and the client                                           *)

\* The files whose last validation is past and which may still be replaced.
Exposed ==
  {f \in Files :
     \/ pc = "revalidating" /\ f < at
     \/ pc \in {"deciding"} \cup CommitPCs
     \/ pc \in RollbackPCs /\ f \in moved /\ f < at
     \/ pc \in {"removing", "restoring"} /\ f \in moved /\ f = at}

OthersWrite(f, content) ==
  /\ edits < MaxEdits
  /\ edits' = edits + 1
  /\ target' = [target EXCEPT ![f] = content]
  /\ outside' = [outside EXCEPT ![f] = content]
  /\ raced' = IF f \in Exposed THEN raced \cup {f} ELSE raced
  /\ UNCHANGED <<stage, backup, pc, at, progress, cancelled>>

Cancel ==
  /\ ~cancelled
  /\ cancelled' = TRUE
  /\ UNCHANGED <<files, pc, at, progress, outside, raced, edits>>

-----------------------------------------------------------------------------
(* Validation and staging                                                  *)

Goto(to, index) == pc' = to /\ at' = index

\* Nothing is staged yet, or cleanup_staged runs first.
Refuse(why) ==
  /\ verdict' = why
  /\ Goto(IF staged = 0 THEN "done" ELSE "cleaning", 1)
  /\ UNCHANGED <<files, staged, moved, installed, conflicts, reported, world>>

Begin ==
  /\ pc = "idle"
  /\ \/ cancelled /\ Refuse("canceled")
     \/ /\ ~cancelled
        /\ Goto("validating", 1)
        /\ UNCHANGED <<files, progress, world>>

\* validate_unchanged reads one file after the other.
Check ==
  /\ pc \in {"validating", "revalidating"}
  /\ at \in Files
  /\ conflicts' = IF target[at] = "old" THEN conflicts
                                        ELSE conflicts \cup {at}
  /\ Goto(pc, at + 1)
  /\ UNCHANGED <<files, staged, moved, installed, reported, verdict, world>>

CheckEnds ==
  /\ pc \in {"validating", "revalidating"}
  /\ at = N + 1
  /\ \/ conflicts # {} /\ Refuse("conflict")
     \/ /\ conflicts = {}
        /\ Goto(IF pc = "validating" THEN "staging" ELSE "deciding", 1)
        /\ UNCHANGED <<files, progress, world>>

\* The cancellation checks before each stage and after the last.
StagingCanceled ==
  /\ pc = "staging"
  /\ cancelled
  /\ Refuse("canceled")

Stage ==
  /\ pc = "staging"
  /\ at \in Files
  /\ ~cancelled
  /\ target[at] # "absent"
  /\ stage' = [stage EXCEPT ![at] = "new"]
  /\ staged' = staged + 1
  /\ Goto("staging", at + 1)
  /\ UNCHANGED <<target, backup, moved, installed, conflicts, reported,
                 verdict, world>>

\* The mutant that leaves a stage it could not write.
StageFailsLeaving ==
  /\ pc = "staging"
  /\ at \in Files
  /\ ~cancelled
  /\ target[at] # "absent"
  /\ "stage" \in MayFail
  /\ stage' = [stage EXCEPT ![at] = "partial"]
  /\ verdict' = "stage failed"
  /\ Goto(IF staged = 0 THEN "done" ELSE "cleaning", 1)
  /\ UNCHANGED <<target, backup, staged, moved, installed, conflicts, reported,
                 world>>

\* No metadata or no new file; or it could not be written and is removed,
\* or could not be removed either.
StageFails ==
  /\ pc = "staging"
  /\ at \in Files
  /\ ~cancelled
  /\ target[at] = "absent" \/ "stage" \in MayFail
  /\ \/ UNCHANGED <<stage, reported>>
     \/ /\ target[at] # "absent"
        /\ "cleanup" \in MayFail
        /\ stage' = [stage EXCEPT ![at] = "partial"]
        /\ reported' = reported \cup {at}
  /\ verdict' = "stage failed"
  /\ Goto(IF staged = 0 THEN "done" ELSE "cleaning", 1)
  /\ UNCHANGED <<target, backup, staged, moved, installed, conflicts, world>>

\* The mutant that validates once.
StagingEndsUnchecked ==
  /\ pc = "staging"
  /\ at = N + 1
  /\ ~cancelled
  /\ Goto("deciding", 1)
  /\ UNCHANGED <<files, progress, world>>

StagingEnds ==
  /\ pc = "staging"
  /\ at = N + 1
  /\ ~cancelled
  /\ Goto("revalidating", 1)
  /\ UNCHANGED <<files, progress, world>>

\* cleanup_staged: the stages in order, then the verdict stands.
Cleanup ==
  /\ pc = "cleaning"
  /\ \/ /\ stage' = [stage EXCEPT ![at] = "absent"]
        /\ UNCHANGED reported
     \/ /\ "cleanup" \in MayFail
        /\ reported' = reported \cup {at}
        /\ UNCHANGED stage
  /\ Goto(IF at = staged THEN "done" ELSE "cleaning", at + 1)
  /\ UNCHANGED <<target, backup, staged, moved, installed, conflicts, verdict,
                 world>>

-----------------------------------------------------------------------------
(* Commit and rollback                                                     *)

\* The last look at the cancellation: from here on the commit runs.
Decide ==
  /\ pc = "deciding"
  /\ \/ cancelled /\ Refuse("canceled")
     \/ /\ ~cancelled
        /\ Goto("moving", 1)
        /\ UNCHANGED <<files, progress, world>>

\* The mutant that sets one flag for both renames.
MoveUnrecorded ==
  /\ pc = "moving"
  /\ at \in Files
  /\ target[at] # "absent"
  /\ backup' = [backup EXCEPT ![at] = target[at]]
  /\ target' = [target EXCEPT ![at] = "absent"]
  /\ Goto("installing", at)
  /\ UNCHANGED <<stage, progress, world>>

Move ==
  /\ pc = "moving"
  /\ at \in Files
  /\ target[at] # "absent"
  /\ backup' = [backup EXCEPT ![at] = target[at]]
  /\ target' = [target EXCEPT ![at] = "absent"]
  /\ moved' = moved \cup {at}
  /\ Goto("installing", at)
  /\ UNCHANGED <<stage, staged, installed, conflicts, reported, verdict,
                 world>>

\* The mutant that removes each backup as soon as its file is replaced.
InstallDiscarding ==
  /\ pc = "installing"
  /\ target' = [target EXCEPT ![at] = stage[at]]
  /\ stage' = [stage EXCEPT ![at] = "absent"]
  /\ backup' = [backup EXCEPT ![at] = "absent"]
  /\ installed' = installed \cup {at}
  /\ Goto("moving", at + 1)
  /\ UNCHANGED <<staged, moved, conflicts, reported, verdict, world>>

\* rename replaces a file that another program created meanwhile.
Install ==
  /\ pc = "installing"
  /\ target' = [target EXCEPT ![at] = stage[at]]
  /\ stage' = [stage EXCEPT ![at] = "absent"]
  /\ installed' = installed \cup {at}
  /\ Goto("moving", at + 1)
  /\ UNCHANGED <<backup, staged, moved, conflicts, reported, verdict, world>>

\* Either rename failed: roll back from the last file to the first.
CommitFails ==
  /\ \/ /\ pc = "moving"
        /\ at \in Files
        /\ target[at] = "absent" \/ "move" \in MayFail
     \/ pc = "installing" /\ "install" \in MayFail
  /\ Goto("removing", N)
  /\ UNCHANGED <<files, progress, world>>

\* rollback, first half: the replacement is removed where there is one.
Remove ==
  /\ pc = "removing"
  /\ at \in Files
  /\ target' = IF at \in installed THEN [target EXCEPT ![at] = "absent"]
                                   ELSE target
  /\ at \in installed => target[at] # "absent"
  /\ Goto("restoring", at)
  /\ UNCHANGED <<stage, backup, progress, world>>

\* The mutant that tries the same file again.
RemoveRetried ==
  /\ pc = "removing"
  /\ at \in installed
  /\ target[at] = "absent" \/ "remove" \in MayFail
  /\ reported' = reported \cup {at}
  /\ Goto("removing", at)
  /\ UNCHANGED <<files, staged, moved, installed, conflicts, verdict, world>>

\* What is not there cannot be removed; the file is given up on.
RemoveFails ==
  /\ pc = "removing"
  /\ at \in installed
  /\ target[at] = "absent" \/ "remove" \in MayFail
  /\ reported' = reported \cup {at}
  /\ Goto("removing", at - 1)
  /\ UNCHANGED <<files, staged, moved, installed, conflicts, verdict, world>>

\* rollback, second half: the original comes back, over whatever is there.
Restore ==
  /\ pc = "restoring"
  /\ IF at \in moved
       THEN /\ target' = [target EXCEPT ![at] = backup[at]]
            /\ backup' = [backup EXCEPT ![at] = "absent"]
       ELSE UNCHANGED <<target, backup>>
  /\ Goto("unstaging", at)
  /\ UNCHANGED <<stage, progress, world>>

RestoreFails ==
  /\ pc = "restoring"
  /\ at \in moved
  /\ "restore" \in MayFail
  /\ reported' = reported \cup {at}
  /\ Goto("unstaging", at)
  /\ UNCHANGED <<files, staged, moved, installed, conflicts, verdict, world>>

\* A stage that was not installed is removed.
Unstage ==
  /\ pc = "unstaging"
  /\ \/ /\ stage' = [stage EXCEPT ![at] = "absent"]
        /\ UNCHANGED reported
     \/ /\ at \notin installed
        /\ "cleanup" \in MayFail
        /\ reported' = reported \cup {at}
        /\ UNCHANGED stage
  /\ Goto("removing", at - 1)
  /\ UNCHANGED <<target, backup, staged, moved, installed, conflicts, verdict,
                 world>>

RollbackEnds ==
  /\ pc = "removing"
  /\ at = 0
  /\ verdict' = IF reported = {} THEN "failed" ELSE "rollback failed"
  /\ Goto("done", 1)
  /\ UNCHANGED <<files, staged, moved, installed, conflicts, reported, world>>

CommitEnds ==
  /\ pc = "moving"
  /\ at = N + 1
  /\ verdict' = "applied"
  /\ Goto("discarding", 1)
  /\ UNCHANGED <<files, staged, moved, installed, conflicts, reported, world>>

\* A backup that cannot be removed is a warning.
Discard ==
  /\ pc = "discarding"
  /\ at \in Files
  /\ \/ /\ backup' = [backup EXCEPT ![at] = "absent"]
        /\ UNCHANGED reported
     \/ /\ "discard" \in MayFail
        /\ reported' = reported \cup {at}
        /\ UNCHANGED backup
  /\ Goto("discarding", at + 1)
  /\ UNCHANGED <<target, stage, staged, moved, installed, conflicts, verdict,
                 world>>

DiscardEnds ==
  /\ pc = "discarding"
  /\ at = N + 1
  /\ Goto("done", 1)
  /\ UNCHANGED <<files, progress, world>>
-----------------------------------------------------------------------------
Validation == Begin \/ Check \/ CheckEnds
Staging == StagingCanceled \/ Stage \/ StageFails \/ StagingEnds \/ Cleanup
Commit == Decide \/ Move \/ Install \/ CommitFails \/ CommitEnds
Rollback ==
  Remove \/ RemoveFails \/ Restore \/ RestoreFails \/ Unstage \/ RollbackEnds
Apply ==
  Validation \/ Staging \/ Commit \/ Rollback \/ Discard \/ DiscardEnds

Next ==
  \/ \E f \in Files, c \in Foreign : OthersWrite(f, c)
  \/ Cancel
  \/ Apply

Spec == Init /\ [][Next]_vars

\* The blocking thread runs; a system call returns.
FairSpec == Spec /\ WF_vars(Apply)

-----------------------------------------------------------------------------
(* Properties                                                              *)

FilesOK ==
  /\ target \in [Files -> Contents]
  /\ stage \in [Files -> Contents]
  /\ backup \in [Files -> Contents]
  /\ outside \in [Files -> Contents]

CountersOK ==
  /\ pc \in PCs
  /\ at \in 0..(N + 1)
  /\ pc \in {"cleaning", "installing", "restoring", "unstaging"}
       => at \in Files
  /\ staged \in 0..N
  /\ edits \in 0..MaxEdits

MarksOK ==
  /\ moved \subseteq 1..staged
  /\ installed \subseteq moved
  /\ conflicts \subseteq Files
  /\ reported \subseteq Files
  /\ raced \subseteq Files
  /\ verdict \in Verdicts \cup {"open"}

\* Shape of the state, and what the two flags of a staged file mean.
TypeOK == FilesOK /\ CountersOK /\ MarksOK

\* Whenever the process dies, and whatever fails, the content of every file is
\* still in the project or in its backup until all replacements are in place,
\* except for a file another program wrote in the race DESIGN.md concedes.
NothingIsLost ==
  installed # Files =>
    \A f \in Files \ raced : outside[f] \in {target[f], backup[f]}

\* What is left beside the project's files in the end has been reported.
ResidueIsReported ==
  pc = "done" =>
    \A f \in Files \ reported : stage[f] = "absent" /\ backup[f] = "absent"

Contract == INSTANCE EditContract WITH
  Open <- "open", Applied <- "applied", Old <- "old", New <- "new",
  files <- IF pc \in CommitPCs \cup RollbackPCs THEN outside ELSE target,
  excused <- raced \cup (IF verdict = "rollback failed" THEN reported ELSE {})

\* All files or none: behind the gate the transaction is one step, taken only
\* from the contents that were previewed; a refusal or a rollback leaves every
\* file as other programs have it, a failed restore excepted, which is named.
KeepsContract == Contract!Spec

\* An application that has begun ends, rollback included.
ApplicationEnds == pc = "validating" ~> pc = "done"
=============================================================================
