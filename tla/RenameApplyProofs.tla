------------------------- MODULE RenameApplyProofs --------------------------
(***************************************************************************)
(* Proofs about RenameApply, for every number of files, every choice of    *)
(* operations that may fail and every number of writes by others.          *)
(***************************************************************************)
EXTENDS RenameApply, TLAPS

-----------------------------------------------------------------------------
(* The inductive invariant, in three parts                                 *)

OpenPCs == {"idle", "validating", "staging", "revalidating", "deciding"}

\* How the counters and flags follow the program counter.
ProgressInv ==
  /\ pc \in {"idle", "validating"} => staged = 0
  /\ pc = "staging" => staged = at - 1
  /\ pc = "cleaning" => at <= staged
  /\ pc \in {"revalidating", "deciding"} \cup CommitPCs \cup RollbackPCs
       => staged = N
  /\ pc \in EarlyPCs => moved = {}
  /\ pc = "moving" => moved = 1..(at - 1) /\ installed = 1..(at - 1)
  /\ pc = "installing" => moved = 1..at /\ installed = 1..(at - 1)

\* What is known of the verdict at each of them.
VerdictInv ==
  /\ pc \in OpenPCs \cup CommitPCs \cup RollbackPCs => verdict = "open"
  /\ pc = "cleaning" => verdict \in Refusals
  /\ pc = "discarding" => verdict = "applied"
  /\ pc = "done" => verdict # "open"
  /\ verdict = "applied" => installed = Files

\* A file the rollback is through with, and one it has yet to come to.
Restored(f) ==
  \/ target[f] = outside[f]
  \/ f \in reported /\ backup[f] = outside[f]
Restorable(f) ==
  IF f \in moved THEN backup[f] = outside[f] ELSE target[f] = outside[f]
Behind(f) == f > at \/ (f = at /\ pc = "unstaging")

\* Where the content is that other programs gave a file.
ContentInv ==
  /\ pc \in EarlyPCs => \A f \in Files : target[f] = outside[f]
  /\ \A f \in Files \ raced :
       /\ pc = "revalidating" /\ f < at
            => f \in conflicts \/ outside[f] = "old"
       /\ pc \in {"deciding"} \cup CommitPCs => outside[f] = "old"
       /\ pc \in CommitPCs =>
            /\ Restorable(f)
            /\ f \in installed => target[f] = "new"
       /\ pc \in RollbackPCs => IF Behind(f) THEN Restored(f)
                                             ELSE Restorable(f)
       /\ pc = "done" /\ verdict # "applied"
            => outside[f] \in {target[f], backup[f]}

Gone(file, f) == file[f] = "absent" \/ f \in reported

\* What lies beside the project's files.
ResidueInv ==
  \A f \in Files :
    /\ pc \in EarlyPCs \cup {"discarding"} \cup CommitPCs \cup RollbackPCs
         => (f \notin moved => backup[f] = "absent")
    /\ pc \in OpenPCs \cup CommitPCs =>
         stage[f] = IF f <= staged /\ f \notin installed THEN "new"
                                                         ELSE "absent"
    /\ pc = "cleaning" /\ (f < at \/ f > staged) => Gone(stage, f)
    /\ pc \in RollbackPCs /\ Behind(f) => Gone(backup, f)
    /\ pc \in RollbackPCs /\ (f > at \/ f \in installed) => Gone(stage, f)
    /\ pc = "discarding" => stage[f] = "absent"
    /\ pc = "discarding" /\ f < at => Gone(backup, f)
    /\ pc = "done" => Gone(stage, f) /\ Gone(backup, f)

-----------------------------------------------------------------------------
(* Types and progress                                                      *)

\* Every step keeps the files within Contents.
LEMMA FilesStep ==
  FilesOK /\ CountersOK /\ [Next]_vars => FilesOK'
<1> USE RenameApplyAssumption
    DEF Files, files, progress, world, Goto, Contents, Foreign
<1> SUFFICES ASSUME FilesOK, CountersOK, [Next]_vars
             PROVE  FilesOK'
  OBVIOUS
<1>1. ASSUME NEW f \in Files, NEW c \in Foreign, OthersWrite(f, c)
      PROVE  FilesOK'
  BY <1>1 DEF FilesOK, CountersOK, OthersWrite
<1>2. CASE Cancel
  BY <1>2 DEF FilesOK, CountersOK, Cancel
<1>3. CASE Begin
  BY <1>3 DEF FilesOK, CountersOK, Begin, Refuse
<1>4. CASE Check
  BY <1>4 DEF FilesOK, CountersOK, Check
<1>5. CASE CheckEnds
  BY <1>5 DEF FilesOK, CountersOK, CheckEnds, Refuse
<1>6. CASE StagingCanceled
  BY <1>6 DEF FilesOK, CountersOK, StagingCanceled, Refuse
<1>7. CASE Stage
  BY <1>7 DEF FilesOK, CountersOK, Stage
<1>8. CASE StageFails
  BY <1>8 DEF FilesOK, CountersOK, StageFails
<1>9. CASE StagingEnds
  BY <1>9 DEF FilesOK, CountersOK, StagingEnds
<1>10. CASE Cleanup
  BY <1>10 DEF FilesOK, CountersOK, Cleanup
<1>11. CASE Decide
  BY <1>11 DEF FilesOK, CountersOK, Decide, Refuse
<1>12. CASE Move
  BY <1>12 DEF FilesOK, CountersOK, Move
<1>13. CASE Install
  BY <1>13 DEF FilesOK, CountersOK, Install
<1>14. CASE CommitFails
  BY <1>14 DEF FilesOK, CountersOK, CommitFails
<1>15. CASE CommitEnds
  BY <1>15 DEF FilesOK, CountersOK, CommitEnds
<1>16. CASE Remove
  BY <1>16 DEF FilesOK, CountersOK, Remove
<1>17. CASE RemoveFails
  BY <1>17 DEF FilesOK, CountersOK, RemoveFails
<1>18. CASE Restore
  BY <1>18 DEF FilesOK, CountersOK, Restore
<1>19. CASE RestoreFails
  BY <1>19 DEF FilesOK, CountersOK, RestoreFails
<1>20. CASE Unstage
  BY <1>20 DEF FilesOK, CountersOK, Unstage
<1>21. CASE RollbackEnds
  BY <1>21 DEF FilesOK, CountersOK, RollbackEnds
<1>22. CASE Discard
  BY <1>22 DEF FilesOK, CountersOK, Discard
<1>23. CASE DiscardEnds
  BY <1>23 DEF FilesOK, CountersOK, DiscardEnds
<1>24. CASE UNCHANGED vars
  BY <1>24 DEF FilesOK, CountersOK, vars
<1> QED
  BY <1>1, <1>2, <1>3, <1>4, <1>5, <1>6, <1>7, <1>8, <1>9, <1>10, <1>11, <1>12,
     <1>13, <1>14, <1>15, <1>16, <1>17, <1>18, <1>19, <1>20, <1>21, <1>22,
     <1>23, <1>24
     DEF Next, Apply, Validation, Staging, Commit, Rollback

\* The index stays on the list wherever it is used.
LEMMA CountersStep ==
  CountersOK /\ MarksOK /\ ProgressInv /\ [Next]_vars => CountersOK'
<1> USE RenameApplyAssumption
    DEF Files, files, progress, world, Goto,
        EarlyPCs, CommitPCs, RollbackPCs, PCs
<1> SUFFICES ASSUME CountersOK, MarksOK, ProgressInv, [Next]_vars
             PROVE  CountersOK'
  OBVIOUS
<1>1. ASSUME NEW f \in Files, NEW c \in Foreign, OthersWrite(f, c)
      PROVE  CountersOK'
  BY <1>1 DEF CountersOK, OthersWrite
<1>2. CASE Cancel
  BY <1>2 DEF CountersOK, Cancel
<1>3. CASE Begin
  BY <1>3 DEF CountersOK, Begin, Refuse
<1>4. CASE Check
  BY <1>4 DEF CountersOK, Check
<1>5. CASE CheckEnds
  BY <1>5 DEF CountersOK, CheckEnds, Refuse
<1>6. CASE StagingCanceled
  BY <1>6 DEF CountersOK, StagingCanceled, Refuse
<1>7. CASE Stage
  BY <1>7 DEF CountersOK, ProgressInv, Stage
<1>8. CASE StageFails
  <2>1. /\ pc' = IF staged = 0 THEN "done" ELSE "cleaning"
        /\ at' = 1 /\ staged' = staged /\ edits' = edits
    BY <1>8 DEF StageFails
  <2> QED
    BY <2>1 DEF CountersOK
<1>9. CASE StagingEnds
  BY <1>9 DEF CountersOK, StagingEnds
<1>10. CASE Cleanup
  BY <1>10 DEF CountersOK, ProgressInv, Cleanup
<1>11. CASE Decide
  BY <1>11 DEF CountersOK, Decide, Refuse
<1>12. CASE Move
  BY <1>12 DEF CountersOK, Move
<1>13. CASE Install
  BY <1>13 DEF CountersOK, Install
<1>14. CASE CommitFails
  BY <1>14 DEF CountersOK, ProgressInv, CommitFails
<1>15. CASE CommitEnds
  BY <1>15 DEF CountersOK, CommitEnds
<1>16. CASE Remove
  BY <1>16 DEF CountersOK, Remove
<1>17. CASE RemoveFails
  BY <1>17 DEF CountersOK, MarksOK, RemoveFails
<1>18. CASE Restore
  BY <1>18 DEF CountersOK, Restore
<1>19. CASE RestoreFails
  BY <1>19 DEF CountersOK, RestoreFails
<1>20. CASE Unstage
  BY <1>20 DEF CountersOK, Unstage
<1>21. CASE RollbackEnds
  <2>1. pc' = "done" /\ at' = 1 /\ staged' = staged /\ edits' = edits
    BY <1>21 DEF RollbackEnds
  <2> QED
    BY <2>1 DEF CountersOK
<1>22. CASE Discard
  BY <1>22 DEF CountersOK, Discard
<1>23. CASE DiscardEnds
  BY <1>23 DEF CountersOK, DiscardEnds
<1>24. CASE UNCHANGED vars
  BY <1>24 DEF CountersOK, vars
<1> QED
  BY <1>1, <1>2, <1>3, <1>4, <1>5, <1>6, <1>7, <1>8, <1>9, <1>10, <1>11, <1>12,
     <1>13, <1>14, <1>15, <1>16, <1>17, <1>18, <1>19, <1>20, <1>21, <1>22,
     <1>23, <1>24
     DEF Next, Apply, Validation, Staging, Commit, Rollback

\* The flags of a staged file are set in the order of its two renames.
LEMMA MarksStep ==
  CountersOK /\ MarksOK /\ ProgressInv /\ [Next]_vars => MarksOK'
<1> USE RenameApplyAssumption
    DEF Files, files, progress, world, Goto,
        EarlyPCs, CommitPCs, RollbackPCs
<1> SUFFICES ASSUME CountersOK, MarksOK, ProgressInv, [Next]_vars
             PROVE  MarksOK'
  OBVIOUS
<1>1. ASSUME NEW f \in Files, NEW c \in Foreign, OthersWrite(f, c)
      PROVE  MarksOK'
  BY <1>1 DEF MarksOK, OthersWrite
<1>2. CASE Cancel
  BY <1>2 DEF CountersOK, MarksOK, ProgressInv, Cancel
<1>3. CASE Begin
  BY <1>3 DEF MarksOK, Verdicts, Refusals, Begin, Refuse
<1>4. CASE Check
  BY <1>4 DEF CountersOK, MarksOK, ProgressInv, Check
<1>5. CASE CheckEnds
  BY <1>5 DEF MarksOK, Verdicts, Refusals, CheckEnds, Refuse
<1>6. CASE StagingCanceled
  BY <1>6 DEF MarksOK, Verdicts, Refusals, StagingCanceled, Refuse
<1>7. CASE Stage
  BY <1>7 DEF CountersOK, MarksOK, ProgressInv, Stage
<1>8. CASE StageFails
  BY <1>8 DEF MarksOK, Verdicts, Refusals, StageFails
<1>9. CASE StagingEnds
  BY <1>9 DEF CountersOK, MarksOK, ProgressInv, StagingEnds
<1>10. CASE Cleanup
  BY <1>10 DEF CountersOK, MarksOK, ProgressInv, Cleanup
<1>11. CASE Decide
  BY <1>11 DEF MarksOK, Verdicts, Refusals, Decide, Refuse
<1>12. CASE Move
  BY <1>12 DEF CountersOK, MarksOK, ProgressInv, Move
<1>13. CASE Install
  BY <1>13 DEF CountersOK, MarksOK, ProgressInv, Install
<1>14. CASE CommitFails
  BY <1>14 DEF CountersOK, MarksOK, ProgressInv, CommitFails
<1>15. CASE CommitEnds
  BY <1>15 DEF MarksOK, Verdicts, Refusals, CommitEnds
<1>16. CASE Remove
  BY <1>16 DEF CountersOK, MarksOK, ProgressInv, Remove
<1>17. CASE RemoveFails
  BY <1>17 DEF CountersOK, MarksOK, ProgressInv, RemoveFails
<1>18. CASE Restore
  BY <1>18 DEF CountersOK, MarksOK, ProgressInv, Restore
<1>19. CASE RestoreFails
  BY <1>19 DEF CountersOK, MarksOK, ProgressInv, RestoreFails
<1>20. CASE Unstage
  BY <1>20 DEF CountersOK, MarksOK, ProgressInv, Unstage
<1>21. CASE RollbackEnds
  BY <1>21 DEF MarksOK, Verdicts, Refusals, RollbackEnds
<1>22. CASE Discard
  BY <1>22 DEF CountersOK, MarksOK, ProgressInv, Discard
<1>23. CASE DiscardEnds
  BY <1>23 DEF CountersOK, MarksOK, ProgressInv, DiscardEnds
<1>24. CASE UNCHANGED vars
  BY <1>24 DEF CountersOK, MarksOK, ProgressInv, vars
<1> QED
  BY <1>1, <1>2, <1>3, <1>4, <1>5, <1>6, <1>7, <1>8, <1>9, <1>10, <1>11, <1>12,
     <1>13, <1>14, <1>15, <1>16, <1>17, <1>18, <1>19, <1>20, <1>21, <1>22,
     <1>23, <1>24
     DEF Next, Apply, Validation, Staging, Commit, Rollback

\* Counters and flags follow the program counter.
LEMMA ProgressStep ==
  CountersOK /\ MarksOK /\ ProgressInv /\ [Next]_vars => ProgressInv'
<1> USE RenameApplyAssumption
    DEF Files, files, progress, world, Goto,
        EarlyPCs, CommitPCs, RollbackPCs
<1> SUFFICES ASSUME CountersOK, MarksOK, ProgressInv, [Next]_vars
             PROVE  ProgressInv'
  OBVIOUS
<1>1. ASSUME NEW f \in Files, NEW c \in Foreign, OthersWrite(f, c)
      PROVE  ProgressInv'
  BY <1>1 DEF CountersOK, MarksOK, ProgressInv, OthersWrite
<1>2. CASE Cancel
  BY <1>2 DEF CountersOK, MarksOK, ProgressInv, Cancel
<1>3. CASE Begin
  BY <1>3 DEF CountersOK, MarksOK, ProgressInv, Begin, Refuse
<1>4. CASE Check
  BY <1>4 DEF CountersOK, MarksOK, ProgressInv, Check
<1>5. CASE CheckEnds
  BY <1>5 DEF CountersOK, ProgressInv, CheckEnds, Refuse
<1>6. CASE StagingCanceled
  BY <1>6 DEF CountersOK, MarksOK, ProgressInv, StagingCanceled, Refuse
<1>7. CASE Stage
  BY <1>7 DEF CountersOK, MarksOK, ProgressInv, Stage
<1>8. CASE StageFails
  <2>1. /\ pc' = IF staged = 0 THEN "done" ELSE "cleaning"
        /\ at' = 1 /\ UNCHANGED <<staged, moved, installed>>
    BY <1>8 DEF StageFails
  <2>2. moved = {}
    BY <1>8 DEF StageFails, ProgressInv
  <2> QED
    BY <2>1, <2>2 DEF CountersOK, ProgressInv
<1>9. CASE StagingEnds
  BY <1>9 DEF CountersOK, MarksOK, ProgressInv, StagingEnds
<1>10. CASE Cleanup
  BY <1>10 DEF CountersOK, ProgressInv, Cleanup
<1>11. CASE Decide
  <2>1. 1..0 = {} /\ installed = {} /\ moved = {} /\ staged = N
    BY <1>11 DEF MarksOK, ProgressInv, Decide
  <2>2. CASE cancelled
    BY <1>11, <2>1, <2>2 DEF CountersOK, Decide, Refuse, ProgressInv
  <2>3. CASE ~cancelled
    <3>1. /\ pc' = "moving" /\ at' = 1
          /\ UNCHANGED <<moved, installed, staged>>
      BY <1>11, <2>3 DEF Decide
    <3>2. 1..(at' - 1) = {}
      BY <3>1
    <3> QED
      BY <2>1, <3>1, <3>2 DEF ProgressInv
  <2> QED
    BY <2>2, <2>3
<1>12. CASE Move
  BY <1>12 DEF CountersOK, MarksOK, ProgressInv, Move
<1>13. CASE Install
  BY <1>13 DEF CountersOK, MarksOK, ProgressInv, Install
<1>14. CASE CommitFails
  BY <1>14 DEF CountersOK, MarksOK, ProgressInv, CommitFails
<1>15. CASE CommitEnds
  BY <1>15 DEF CountersOK, MarksOK, ProgressInv, CommitEnds
<1>16. CASE Remove
  BY <1>16 DEF CountersOK, MarksOK, ProgressInv, Remove
<1>17. CASE RemoveFails
  BY <1>17 DEF CountersOK, MarksOK, ProgressInv, RemoveFails
<1>18. CASE Restore
  BY <1>18 DEF CountersOK, MarksOK, ProgressInv, Restore
<1>19. CASE RestoreFails
  BY <1>19 DEF CountersOK, MarksOK, ProgressInv, RestoreFails
<1>20. CASE Unstage
  BY <1>20 DEF CountersOK, MarksOK, ProgressInv, Unstage
<1>21. CASE RollbackEnds
  BY <1>21 DEF CountersOK, MarksOK, ProgressInv, RollbackEnds
<1>22. CASE Discard
  BY <1>22 DEF CountersOK, MarksOK, ProgressInv, Discard
<1>23. CASE DiscardEnds
  BY <1>23 DEF CountersOK, MarksOK, ProgressInv, DiscardEnds
<1>24. CASE UNCHANGED vars
  BY <1>24 DEF CountersOK, MarksOK, ProgressInv, vars
<1> QED
  BY <1>1, <1>2, <1>3, <1>4, <1>5, <1>6, <1>7, <1>8, <1>9, <1>10, <1>11, <1>12,
     <1>13, <1>14, <1>15, <1>16, <1>17, <1>18, <1>19, <1>20, <1>21, <1>22,
     <1>23, <1>24
     DEF Next, Apply, Validation, Staging, Commit, Rollback

\* The verdict is open until the transaction refuses, ends or rolled back.
LEMMA VerdictStep ==
  CountersOK /\ MarksOK /\ ProgressInv /\ VerdictInv /\ [Next]_vars
    => VerdictInv'
<1> USE RenameApplyAssumption
    DEF Files, files, progress, world, Goto,
        EarlyPCs, CommitPCs, RollbackPCs, OpenPCs, Refusals
<1> SUFFICES ASSUME CountersOK, MarksOK, ProgressInv, VerdictInv, [Next]_vars
             PROVE  VerdictInv'
  OBVIOUS
<1>1. ASSUME NEW f \in Files, NEW c \in Foreign, OthersWrite(f, c)
      PROVE  VerdictInv'
  BY <1>1 DEF ProgressInv, VerdictInv, OthersWrite
<1>2. CASE Cancel
  BY <1>2 DEF ProgressInv, VerdictInv, Cancel
<1>3. CASE Begin
  BY <1>3 DEF ProgressInv, VerdictInv, Begin, Refuse
<1>4. CASE Check
  BY <1>4 DEF ProgressInv, VerdictInv, Check
<1>5. CASE CheckEnds
  BY <1>5 DEF ProgressInv, VerdictInv, CheckEnds, Refuse
<1>6. CASE StagingCanceled
  BY <1>6 DEF ProgressInv, VerdictInv, StagingCanceled, Refuse
<1>7. CASE Stage
  BY <1>7 DEF ProgressInv, VerdictInv, Stage
<1>8. CASE StageFails
  BY <1>8 DEF CountersOK, ProgressInv, MarksOK, VerdictInv, StageFails
<1>9. CASE StagingEnds
  BY <1>9 DEF ProgressInv, VerdictInv, StagingEnds
<1>10. CASE Cleanup
  BY <1>10 DEF ProgressInv, VerdictInv, Cleanup
<1>11. CASE Decide
  BY <1>11 DEF ProgressInv, VerdictInv, Decide, Refuse
<1>12. CASE Move
  BY <1>12 DEF ProgressInv, VerdictInv, Move
<1>13. CASE Install
  BY <1>13 DEF ProgressInv, VerdictInv, Install
<1>14. CASE CommitFails
  BY <1>14 DEF ProgressInv, VerdictInv, CommitFails
<1>15. CASE CommitEnds
  BY <1>15 DEF ProgressInv, VerdictInv, CommitEnds
<1>16. CASE Remove
  BY <1>16 DEF ProgressInv, VerdictInv, Remove
<1>17. CASE RemoveFails
  BY <1>17 DEF ProgressInv, VerdictInv, RemoveFails
<1>18. CASE Restore
  BY <1>18 DEF ProgressInv, VerdictInv, Restore
<1>19. CASE RestoreFails
  BY <1>19 DEF ProgressInv, VerdictInv, RestoreFails
<1>20. CASE Unstage
  BY <1>20 DEF ProgressInv, VerdictInv, Unstage
<1>21. CASE RollbackEnds
  BY <1>21 DEF ProgressInv, VerdictInv, RollbackEnds
<1>22. CASE Discard
  BY <1>22 DEF ProgressInv, VerdictInv, Discard
<1>23. CASE DiscardEnds
  BY <1>23 DEF ProgressInv, VerdictInv, DiscardEnds
<1>24. CASE UNCHANGED vars
  BY <1>24 DEF ProgressInv, VerdictInv, vars
<1> QED
  BY <1>1, <1>2, <1>3, <1>4, <1>5, <1>6, <1>7, <1>8, <1>9, <1>10, <1>11, <1>12,
     <1>13, <1>14, <1>15, <1>16, <1>17, <1>18, <1>19, <1>20, <1>21, <1>22,
     <1>23, <1>24
     DEF Next, Apply, Validation, Staging, Commit, Rollback

-----------------------------------------------------------------------------
(* Where contents are and what is left over                                *)

\* What a step leaves beside the files it removes later, or reports.
LEMMA ResidueStep ==
  FilesOK /\ CountersOK /\ MarksOK /\ ProgressInv /\ ResidueInv /\ [Next]_vars
    => ResidueInv'
<1> USE RenameApplyAssumption
    DEF Files, files, progress, world, Goto,
        EarlyPCs, CommitPCs, RollbackPCs, OpenPCs, Behind, Gone
<1> SUFFICES ASSUME FilesOK, CountersOK, MarksOK, ProgressInv, ResidueInv,
                    [Next]_vars
             PROVE  ResidueInv'
  OBVIOUS
<1>1. ASSUME NEW f \in Files, NEW c \in Foreign, OthersWrite(f, c)
      PROVE  ResidueInv'
  BY <1>1
     DEF FilesOK, CountersOK, MarksOK, ProgressInv, ResidueInv,
         OthersWrite
<1>2. CASE Cancel
  BY <1>2 DEF FilesOK, CountersOK, MarksOK, ProgressInv, ResidueInv, Cancel
<1>3. CASE Begin
  BY <1>3
     DEF FilesOK, CountersOK, MarksOK, ProgressInv, ResidueInv, Begin,
         Refuse
<1>4. CASE Check
  BY <1>4 DEF FilesOK, CountersOK, MarksOK, ProgressInv, ResidueInv, Check
<1>5. CASE CheckEnds
  BY <1>5
     DEF FilesOK, CountersOK, MarksOK, ProgressInv, ResidueInv,
         CheckEnds, Refuse
<1>6. CASE StagingCanceled
  BY <1>6
     DEF FilesOK, CountersOK, MarksOK, ProgressInv, ResidueInv,
         StagingCanceled, Refuse
<1>7. CASE Stage
  BY <1>7 DEF FilesOK, CountersOK, MarksOK, ProgressInv, ResidueInv, Stage
<1>8. CASE StageFails
  <2>1. /\ pc = "staging" /\ at \in Files /\ staged = at - 1 /\ moved = {}
        /\ pc' = IF staged = 0 THEN "done" ELSE "cleaning"
        /\ at' = 1 /\ UNCHANGED <<staged, moved, backup>>
    BY <1>8 DEF StageFails, ProgressInv
  <2>2. \A f \in Files : f > staged => Gone(stage, f)'
    <3>1. \A f \in Files : f > staged => stage[f] = "absent"
      BY <2>1 DEF ResidueInv
    <3>2. CASE UNCHANGED <<stage, reported>>
      BY <3>1, <3>2
    <3>3. CASE /\ stage' = [stage EXCEPT ![at] = "partial"]
               /\ reported' = reported \cup {at}
      BY <3>1, <3>3 DEF FilesOK
    <3> QED
      BY <1>8, <3>2, <3>3 DEF StageFails
  <2>3. \A f \in Files : backup'[f] = "absent"
    BY <2>1 DEF ResidueInv
  <2> QED
    BY <2>1, <2>2, <2>3 DEF CountersOK, ResidueInv
<1>9. CASE StagingEnds
  BY <1>9
     DEF FilesOK, CountersOK, MarksOK, ProgressInv, ResidueInv,
         StagingEnds
<1>10. CASE Cleanup
  BY <1>10 DEF FilesOK, CountersOK, MarksOK, ProgressInv, ResidueInv, Cleanup
<1>11. CASE Decide
  BY <1>11
     DEF FilesOK, CountersOK, MarksOK, ProgressInv, ResidueInv, Decide,
         Refuse
<1>12. CASE Move
  BY <1>12 DEF FilesOK, CountersOK, MarksOK, ProgressInv, ResidueInv, Move
<1>13. CASE Install
  BY <1>13 DEF FilesOK, CountersOK, MarksOK, ProgressInv, ResidueInv, Install
<1>14. CASE CommitFails
  BY <1>14
     DEF FilesOK, CountersOK, MarksOK, ProgressInv, ResidueInv,
         CommitFails
<1>15. CASE CommitEnds
  BY <1>15
     DEF FilesOK, CountersOK, MarksOK, ProgressInv, ResidueInv,
         CommitEnds
<1>16. CASE Remove
  BY <1>16 DEF FilesOK, CountersOK, MarksOK, ProgressInv, ResidueInv, Remove
<1>17. CASE RemoveFails
  BY <1>17
     DEF FilesOK, CountersOK, MarksOK, ProgressInv, ResidueInv,
         RemoveFails
<1>18. CASE Restore
  BY <1>18 DEF FilesOK, CountersOK, MarksOK, ProgressInv, ResidueInv, Restore
<1>19. CASE RestoreFails
  BY <1>19
     DEF FilesOK, CountersOK, MarksOK, ProgressInv, ResidueInv,
         RestoreFails
<1>20. CASE Unstage
  BY <1>20 DEF FilesOK, CountersOK, MarksOK, ProgressInv, ResidueInv, Unstage
<1>21. CASE RollbackEnds
  <2>1. /\ pc = "removing" /\ at = 0 /\ pc' = "done"
        /\ UNCHANGED <<stage, backup, reported>>
    BY <1>21 DEF RollbackEnds
  <2>2. \A f \in Files : f > at
    BY <2>1
  <2>3. \A f \in Files : Gone(stage, f) /\ Gone(backup, f)
    BY <2>1, <2>2 DEF ResidueInv
  <2> QED
    BY <2>1, <2>3 DEF ResidueInv
<1>22. CASE Discard
  BY <1>22 DEF FilesOK, CountersOK, MarksOK, ProgressInv, ResidueInv, Discard
<1>23. CASE DiscardEnds
  BY <1>23
     DEF FilesOK, CountersOK, MarksOK, ProgressInv, ResidueInv,
         DiscardEnds
<1>24. CASE UNCHANGED vars
  BY <1>24 DEF FilesOK, CountersOK, MarksOK, ProgressInv, ResidueInv, vars
<1> QED
  BY <1>1, <1>2, <1>3, <1>4, <1>5, <1>6, <1>7, <1>8, <1>9, <1>10, <1>11, <1>12,
     <1>13, <1>14, <1>15, <1>16, <1>17, <1>18, <1>19, <1>20, <1>21, <1>22,
     <1>23, <1>24
     DEF Next, Apply, Validation, Staging, Commit, Rollback

\* No step loses the content other programs gave a file in time.
LEMMA ContentStep ==
  FilesOK /\ CountersOK /\ MarksOK /\ ProgressInv /\ VerdictInv
    /\ ResidueInv /\ ContentInv /\ [Next]_vars
    => ContentInv'
<1> USE RenameApplyAssumption
    DEF Files, files, progress, world, Goto,
        EarlyPCs, CommitPCs, RollbackPCs, OpenPCs, Behind, Gone, Restored,
        Restorable, Exposed, Refusals
<1> SUFFICES ASSUME FilesOK, CountersOK, MarksOK, ProgressInv, VerdictInv,
                    ResidueInv, ContentInv, [Next]_vars
             PROVE  ContentInv'
  OBVIOUS
<1>1. ASSUME NEW f \in Files, NEW c \in Foreign, OthersWrite(f, c)
      PROVE  ContentInv'
  BY <1>1
     DEF FilesOK, CountersOK, MarksOK, ProgressInv, ContentInv,
         OthersWrite
<1>2. CASE Cancel
  BY <1>2 DEF FilesOK, CountersOK, MarksOK, ProgressInv, ContentInv, Cancel
<1>3. CASE Begin
  BY <1>3
     DEF FilesOK, CountersOK, MarksOK, ProgressInv, ContentInv, Begin,
         Refuse
<1>4. CASE Check
  BY <1>4 DEF FilesOK, CountersOK, MarksOK, ProgressInv, ContentInv, Check
<1>5. CASE CheckEnds
  BY <1>5
     DEF FilesOK, CountersOK, MarksOK, ProgressInv, ContentInv,
         CheckEnds, Refuse
<1>6. CASE StagingCanceled
  BY <1>6
     DEF FilesOK, CountersOK, MarksOK, ProgressInv, ContentInv,
         StagingCanceled, Refuse
<1>7. CASE Stage
  BY <1>7 DEF FilesOK, CountersOK, MarksOK, ProgressInv, ContentInv, Stage
<1>8. CASE StageFails
  BY <1>8
     DEF FilesOK, CountersOK, MarksOK, ProgressInv, ContentInv,
         StageFails
<1>9. CASE StagingEnds
  BY <1>9
     DEF FilesOK, CountersOK, MarksOK, ProgressInv, ContentInv,
         StagingEnds
<1>10. CASE Cleanup
  BY <1>10 DEF FilesOK, CountersOK, MarksOK, ProgressInv, ContentInv, Cleanup
<1>11. CASE Decide
  BY <1>11
     DEF FilesOK, CountersOK, MarksOK, ProgressInv, ContentInv, Decide,
         Refuse
<1>12. CASE Move
  BY <1>12 DEF FilesOK, CountersOK, MarksOK, ProgressInv, ContentInv, Move
<1>13. CASE Install
  BY <1>13
     DEF FilesOK, CountersOK, MarksOK, ProgressInv, ResidueInv,
         ContentInv, Install
<1>14. CASE CommitFails
  BY <1>14
     DEF FilesOK, CountersOK, MarksOK, ProgressInv, ContentInv,
         CommitFails
<1>15. CASE CommitEnds
  BY <1>15
     DEF FilesOK, CountersOK, MarksOK, ProgressInv, ContentInv,
         CommitEnds
<1>16. CASE Remove
  BY <1>16 DEF FilesOK, CountersOK, MarksOK, ProgressInv, ContentInv, Remove
<1>17. CASE RemoveFails
  BY <1>17
     DEF FilesOK, CountersOK, MarksOK, ProgressInv, ContentInv,
         RemoveFails
<1>18. CASE Restore
  BY <1>18 DEF FilesOK, CountersOK, MarksOK, ProgressInv, ContentInv, Restore
<1>19. CASE RestoreFails
  BY <1>19
     DEF FilesOK, CountersOK, MarksOK, ProgressInv, ContentInv,
         RestoreFails
<1>20. CASE Unstage
  BY <1>20 DEF FilesOK, CountersOK, MarksOK, ProgressInv, ContentInv, Unstage
<1>21. CASE RollbackEnds
  BY <1>21
     DEF FilesOK, CountersOK, MarksOK, ProgressInv, ContentInv,
         RollbackEnds
<1>22. CASE Discard
  BY <1>22 DEF FilesOK, CountersOK, MarksOK, ProgressInv, ContentInv, Discard
<1>23. CASE DiscardEnds
  BY <1>23 DEF VerdictInv, ContentInv, DiscardEnds
<1>24. CASE UNCHANGED vars
  BY <1>24 DEF FilesOK, CountersOK, MarksOK, ProgressInv, ContentInv, vars
<1> QED
  BY <1>1, <1>2, <1>3, <1>4, <1>5, <1>6, <1>7, <1>8, <1>9, <1>10, <1>11, <1>12,
     <1>13, <1>14, <1>15, <1>16, <1>17, <1>18, <1>19, <1>20, <1>21, <1>22,
     <1>23, <1>24
     DEF Next, Apply, Validation, Staging, Commit, Rollback

-----------------------------------------------------------------------------
(* The invariant                                                           *)

IInv == TypeOK /\ ProgressInv /\ VerdictInv /\ ContentInv /\ ResidueInv

\* It holds of a preview that was just taken.
LEMMA InvariantInit == Init => IInv
<1> USE RenameApplyAssumption
    DEF Init, Files, EarlyPCs, CommitPCs, RollbackPCs, OpenPCs
<1> SUFFICES ASSUME Init PROVE IInv
  OBVIOUS
<1>1. FilesOK
  BY DEF FilesOK, Contents
<1>2. CountersOK
  BY DEF CountersOK, PCs
<1>3. MarksOK
  BY DEF MarksOK
<1>4. ProgressInv
  BY DEF ProgressInv
<1>5. VerdictInv
  BY DEF VerdictInv
<1>6. ContentInv
  BY DEF ContentInv
<1>7. ResidueInv
  BY DEF ResidueInv
<1> QED
  BY <1>1, <1>2, <1>3, <1>4, <1>5, <1>6, <1>7 DEF IInv, TypeOK

\* Every step keeps it.
LEMMA InvariantStep == IInv /\ [Next]_vars => IInv'
  BY FilesStep, CountersStep, MarksStep, ProgressStep, VerdictStep,
     ContentStep, ResidueStep DEF IInv, TypeOK

\* It holds throughout.
LEMMA Invariant == Spec => []IInv
  BY InvariantInit, InvariantStep, PTL DEF Spec

\* The state keeps its shape: in particular a replacement is installed only
\* where the original was moved, and only staged files are moved.
THEOREM TypeCorrect == Spec => []TypeOK
<1>1. IInv => TypeOK
  BY DEF IInv
<1> QED
  BY <1>1, Invariant, PTL

\* The content of every file survives, in place or in its backup, until all
\* replacements are installed: commit_file and rollback of workspace_edits.rs.
THEOREM NothingIsLostHolds == Spec => []NothingIsLost
<1>1. IInv => NothingIsLost
  <2> SUFFICES ASSUME IInv, installed # Files, NEW f \in Files \ raced
               PROVE  outside[f] \in {target[f], backup[f]}
    BY DEF NothingIsLost
  <2> USE DEF IInv, ContentInv, Restorable, Restored
  <2>1. CASE pc \in EarlyPCs
    BY <2>1
  <2>2. CASE pc \in CommitPCs
    BY <2>2
  <2>3. CASE pc \in RollbackPCs
    BY <2>3
  <2>4. CASE pc \in {"discarding", "done"}
    BY <2>4 DEF VerdictInv
  <2> QED
    BY <2>1, <2>2, <2>3, <2>4 DEF TypeOK, CountersOK, PCs
<1> QED
  BY <1>1, Invariant, PTL

\* Stages and backups left behind in the end are reported: cleanup_staged,
\* rollback and the warnings of apply_rename_preview_with.
THEOREM ResidueIsReportedHolds == Spec => []ResidueIsReported
<1>1. IInv => ResidueIsReported
  BY DEF IInv, ResidueInv, Gone, ResidueIsReported
<1> QED
  BY <1>1, Invariant, PTL

-----------------------------------------------------------------------------
(* The refinement                                                          *)

View == IF pc \in CommitPCs \cup RollbackPCs THEN outside ELSE target
Excused ==
  raced \cup (IF verdict = "rollback failed" THEN reported ELSE {})

\* A fresh preview is a fresh contract.
LEMMA ContractInit == Init => Contract!Init
  BY DEF Init, Contract!Init, CommitPCs, RollbackPCs

\* A step that neither changes what the gate's waiters see nor settles.
Quiet == UNCHANGED <<View, verdict, Excused>>

\* Before and after the commit the project's files show as they are.
LEMMA EarlyQuiet ==
  ASSUME pc \in EarlyPCs \cup {"discarding", "done"},
         pc' \in EarlyPCs \cup {"discarding", "done"},
         verdict # "rollback failed" \/ reported' = reported,
         UNCHANGED <<target, verdict, raced>>
  PROVE  Quiet
  BY DEF Quiet, View, Excused, EarlyPCs, CommitPCs, RollbackPCs

\* During commit and rollback what happens to them does not show.
LEMMA CommitQuiet ==
  ASSUME pc \in CommitPCs \cup RollbackPCs,
         pc' \in CommitPCs \cup RollbackPCs,
         verdict = "open",
         UNCHANGED <<outside, verdict, raced>>
  PROVE  Quiet
  BY DEF Quiet, View, Excused

\* A refusal settles the call and leaves every file alone.
LEMMA RefusalSettles ==
  ASSUME IInv, pc \in OpenPCs, verdict' \in Refusals,
         pc' \in {"done", "cleaning"}, target' = target
  PROVE  Contract!Settle
<1>1. verdict = "open"
  BY DEF IInv, VerdictInv
<1>2. pc \notin CommitPCs \cup RollbackPCs
  BY DEF OpenPCs, CommitPCs, RollbackPCs
<1>3. pc' \notin CommitPCs \cup RollbackPCs
  BY DEF CommitPCs, RollbackPCs
<1>4. verdict' # "open" /\ verdict' # "applied"
  BY DEF Refusals
<1> QED
  BY <1>1, <1>2, <1>3, <1>4 DEF Contract!Settle

\* Every step is a step of the contract or does not show.
LEMMA ContractStep == IInv /\ [Next]_vars => Contract!Next \/ Quiet
<1> SUFFICES ASSUME IInv, [Next]_vars PROVE Contract!Next \/ Quiet
  OBVIOUS
<1> USE DEF files, progress, world, Goto
<1>1. ASSUME NEW f \in Files, NEW c \in Foreign, OthersWrite(f, c)
      PROVE  Contract!Next
  <2>1. \A g \in Files \ {f} :
          target'[g] = target[g] /\ outside'[g] = outside[g]
    BY <1>1 DEF OthersWrite, IInv, TypeOK, FilesOK
  <2>2. pc' = pc /\ verdict' = verdict /\ reported' = reported
        /\ raced \subseteq raced'
    BY <1>1 DEF OthersWrite
  <2>3. Contract!Others(f)
    BY <2>1, <2>2 DEF Contract!Others
  <2> QED
    BY <2>3 DEF Contract!Next
<1>2. CASE Cancel
  BY <1>2 DEF Cancel, Quiet, View, Excused
<1>3. CASE Begin
  <2>1. CASE cancelled
    <3>1. Contract!Settle
      BY <1>3, <2>1, RefusalSettles DEF Begin, Refuse, OpenPCs, Refusals
    <3> QED
      BY <3>1 DEF Contract!Next
  <2>2. CASE ~cancelled
    BY <1>3, <2>2, EarlyQuiet DEF Begin, EarlyPCs
  <2> QED
    BY <2>1, <2>2
<1>4. CASE Check
  BY <1>4, EarlyQuiet DEF Check, EarlyPCs
<1>5. CASE CheckEnds
  <2>1. CASE conflicts # {}
    <3>1. Contract!Settle
      BY <1>5, <2>1, RefusalSettles DEF CheckEnds, Refuse, OpenPCs, Refusals
    <3> QED
      BY <3>1 DEF Contract!Next
  <2>2. CASE conflicts = {}
    BY <1>5, <2>2, EarlyQuiet DEF CheckEnds, EarlyPCs
  <2> QED
    BY <2>1, <2>2
<1>6. CASE StagingCanceled
  <2>1. Contract!Settle
    BY <1>6, RefusalSettles DEF StagingCanceled, Refuse, OpenPCs, Refusals
  <2> QED
    BY <2>1 DEF Contract!Next
<1>7. CASE Stage
  BY <1>7, EarlyQuiet DEF Stage, EarlyPCs
<1>8. CASE StageFails
  <2>1. Contract!Settle
    BY <1>8, RefusalSettles DEF StageFails, OpenPCs, Refusals
  <2> QED
    BY <2>1 DEF Contract!Next
<1>9. CASE StagingEnds
  BY <1>9, EarlyQuiet DEF StagingEnds, EarlyPCs
<1>10. CASE Cleanup
  <2>1. verdict # "rollback failed"
    BY <1>10 DEF Cleanup, IInv, VerdictInv, Refusals
  <2> QED
    BY <1>10, <2>1, EarlyQuiet DEF Cleanup, EarlyPCs
<1>11. CASE Decide
  <2>1. CASE cancelled
    <3>1. Contract!Settle
      BY <1>11, <2>1, RefusalSettles DEF Decide, Refuse, OpenPCs, Refusals
    <3> QED
      BY <3>1 DEF Contract!Next
  <2>2. CASE ~cancelled
    <3>1. pc = "deciding" /\ pc' = "moving"
          /\ UNCHANGED <<files, progress, world>>
      BY <1>11, <2>2 DEF Decide
    <3>2. target = outside
      BY <3>1 DEF IInv, TypeOK, FilesOK, ContentInv, EarlyPCs
    <3> QED
      BY <3>1, <3>2 DEF Quiet, View, Excused, CommitPCs, RollbackPCs
  <2> QED
    BY <2>1, <2>2
<1>12. CASE Move \/ Install \/ CommitFails \/ Remove \/ RemoveFails
             \/ Restore \/ RestoreFails \/ Unstage
  <2>1. pc \in CommitPCs \cup RollbackPCs
    BY <1>12 DEF Move, Install, CommitFails, Remove, RemoveFails, Restore,
                 RestoreFails, Unstage, CommitPCs, RollbackPCs
  <2>2. pc' \in CommitPCs \cup RollbackPCs
    BY <1>12 DEF Move, Install, CommitFails, Remove, RemoveFails, Restore,
                 RestoreFails, Unstage, CommitPCs, RollbackPCs
  <2>3. UNCHANGED <<outside, verdict, raced>>
    BY <1>12 DEF Move, Install, CommitFails, Remove, RemoveFails, Restore,
                 RestoreFails, Unstage
  <2>4. verdict = "open"
    BY <2>1 DEF IInv, VerdictInv
  <2> QED
    BY <2>1, <2>2, <2>3, <2>4, CommitQuiet
<1>13. CASE CommitEnds
  <2>1. /\ pc = "moving" /\ at = N + 1 /\ pc' = "discarding"
        /\ verdict' = "applied"
        /\ UNCHANGED <<target, outside, raced>>
    BY <1>13 DEF CommitEnds
  <2>2. installed = Files
    BY <2>1, RenameApplyAssumption DEF IInv, ProgressInv, Files
  <2>3. \A f \in Files \ raced : outside[f] = "old" /\ target[f] = "new"
    BY <2>1, <2>2 DEF IInv, ContentInv, CommitPCs
  <2>4. verdict = "open"
    BY <2>1 DEF IInv, VerdictInv, CommitPCs
  <2>5. Contract!Settle
    BY <2>1, <2>3, <2>4 DEF Contract!Settle, CommitPCs, RollbackPCs
  <2> QED
    BY <2>5 DEF Contract!Next
<1>14. CASE RollbackEnds
  <2>1. /\ pc = "removing" /\ at = 0 /\ pc' = "done"
        /\ verdict' = IF reported = {} THEN "failed" ELSE "rollback failed"
        /\ UNCHANGED <<target, outside, raced, reported>>
    BY <1>14 DEF RollbackEnds
  <2>2. \A f \in Files \ (raced \cup reported) : target[f] = outside[f]
    <3>1. \A f \in Files : Behind(f)
      <4>1. \A f \in Files : f > 0
        BY RenameApplyAssumption DEF Files
      <4> QED
        BY <2>1, <4>1 DEF Behind
    <3> QED
      BY <2>1, <3>1 DEF IInv, ContentInv, Restored, RollbackPCs
  <2>3. verdict = "open"
    BY <2>1 DEF IInv, VerdictInv, RollbackPCs
  <2>4. verdict' # "open" /\ verdict' # "applied"
    BY <2>1
  <2>5. \A f \in Files \ Excused' : target'[f] = outside[f]
    BY <2>1, <2>2 DEF Excused
  <2>6. Contract!Settle
    BY <2>1, <2>3, <2>4, <2>5
       DEF Contract!Settle, CommitPCs, RollbackPCs, Excused
  <2> QED
    BY <2>6 DEF Contract!Next
<1>15. CASE Discard \/ DiscardEnds
  <2>1. verdict # "rollback failed"
    BY <1>15 DEF Discard, DiscardEnds, IInv, VerdictInv
  <2>2. pc = "discarding" /\ pc' \in {"discarding", "done"}
        /\ UNCHANGED <<target, verdict, raced>>
    BY <1>15 DEF Discard, DiscardEnds
  <2> QED
    BY <2>1, <2>2, EarlyQuiet
<1>16. CASE UNCHANGED vars
  BY <1>16 DEF vars, Quiet, View, Excused
<1> QED
  BY <1>1, <1>2, <1>3, <1>4, <1>5, <1>6, <1>7, <1>8, <1>9, <1>10, <1>11,
     <1>12, <1>13, <1>14, <1>15, <1>16
     DEF Next, Apply, Validation, Staging, Commit, Rollback

\* The transaction implements EditContract: behind the workspace gate it is
\* one step that replaces every file or none.
THEOREM KeepsContractHolds == Spec => KeepsContract
<1>1. IInv /\ [Next]_vars
        => [Contract!Next]_<<View, verdict, Excused>>
  BY ContractStep DEF Quiet
<1> QED
  BY <1>1, ContractInit, Invariant, PTL
     DEF Spec, KeepsContract, Contract!Spec, View, Excused
=============================================================================
