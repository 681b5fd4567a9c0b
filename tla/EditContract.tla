---------------------------- MODULE EditContract ----------------------------
(***************************************************************************)
(* What deixis_apply_rename promises of the project's files: it ends with  *)
(* one verdict, and either every file got its replacement or none did.     *)
(*                                                                         *)
(* files is the project as the calls see it that wait for the workspace    *)
(* gate; what the transaction does in between is not theirs to see.        *)
(***************************************************************************)
CONSTANTS Files, Open, Applied, Old, New
VARIABLES
  files,    \* the content of each file
  verdict,  \* Open, or how the application ended
  excused   \* files nothing is promised about: others changed them too late
            \* to be noticed, or the verdict names them

Init ==
  /\ files = [f \in Files |-> Old]
  /\ verdict = Open
  /\ excused = {}

Others(f) ==
  /\ \A g \in Files \ {f} : files'[g] = files[g]
  /\ excused \subseteq excused'
  /\ UNCHANGED verdict

\* Applied only to the contents the preview was made from.
Settle ==
  /\ verdict = Open
  /\ verdict' # Open
  /\ \A f \in Files \ excused' :
       IF verdict' = Applied
         THEN files[f] = Old /\ files'[f] = New
         ELSE files'[f] = files[f]

Next == Settle \/ \E f \in Files : Others(f)

Spec == Init /\ [][Next]_<<files, verdict, excused>>
=============================================================================
