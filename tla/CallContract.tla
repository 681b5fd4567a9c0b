---------------------------- MODULE CallContract ----------------------------
(***************************************************************************)
(* What request_value_until of src/src/lsp.rs promises its caller: a call  *)
(* settles once, with a verdict there are grounds for at that moment.      *)
(* What counts as grounds is the implementer's affair: see Requests.       *)
(***************************************************************************)
CONSTANTS Calls, Open
VARIABLES
  verdict,  \* Open, or how the call ended
  grounds   \* the verdicts each call could now be given

Init == verdict = [c \in Calls |-> Open]

Settle(c) ==
  /\ verdict[c] = Open
  /\ verdict'[c] # Open
  /\ verdict' = [verdict EXCEPT ![c] = verdict'[c]]
  /\ verdict'[c] \in grounds[c]

Next == \E c \in Calls : Settle(c)

Spec == Init /\ [][Next]_verdict
=============================================================================
