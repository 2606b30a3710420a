---------------------------- MODULE GovernedChange ----------------------------
(***************************************************************************)
(* What the control plane promises of one change, whichever graph works on *)
(* it: nothing is released that a reviewer did not approve at the last     *)
(* gate, what was refused there is never released, and a change does not   *)
(* stay in the works.                                                      *)
(*                                                                         *)
(* This is the human-in-the-loop promise of docs/system-design.md 6.2-6.4, *)
(* in the terms both topologies share.  SdlcGraph and SpecialistGraph      *)
(* implement it, each under its own refinement mapping.                    *)
(***************************************************************************)
VARIABLES
  phase,    \* "working": before the last gate, "review": parked at it,
            \* "releasing": approved, not yet landed, "withdrawing": refused,
            \* not yet over, "stopped": reported as given up, though a late
            \* decision takes it up, "released" and "ended": over
  verdict   \* what the reviewer said at the last gate

vars == <<phase, verdict>>

Phases == {"working", "review", "releasing", "withdrawing", "stopped",
           "released", "ended"}
Verdicts == {"none", "approved", "refused"}

Init == phase = "working" /\ verdict = "none"

\* The finished work is put before a reviewer.
Submit ==
  /\ phase = "working"
  /\ phase' = "review" /\ UNCHANGED verdict

\* A reviewer may answer, or answer late; a verdict is given once.
Answerable == verdict = "none" /\ phase \in {"review", "stopped"}

\* The reviewer approves; the change may land in the same step.
Approve ==
  /\ Answerable
  /\ verdict' = "approved"
  /\ phase' \in {"releasing", "released"}

\* The reviewer refuses; the change may be withdrawn in the same step.
Refuse ==
  /\ Answerable
  /\ verdict' = "refused"
  /\ phase' \in {"withdrawing", "ended"}

Release ==
  /\ phase = "releasing"
  /\ phase' = "released" /\ UNCHANGED verdict

Withdraw ==
  /\ phase = "withdrawing"
  /\ phase' = "ended" /\ UNCHANGED verdict

\* The run fails or expires: for good, or with its work still to be taken up.
GiveUp ==
  /\ \/ phase \in {"working", "review", "releasing"} /\ phase' = "ended"
     \/ phase \in {"working", "review", "withdrawing"} /\ phase' = "stopped"
  /\ UNCHANGED verdict

\* A late decision takes the work up where it was.
TakeUp ==
  /\ phase = "stopped"
  /\ phase' \in IF verdict = "none" THEN {"working", "review"} ELSE {"withdrawing"}
  /\ UNCHANGED verdict

Next == Submit \/ Approve \/ Refuse \/ Release \/ Withdraw \/ GiveUp \/ TakeUp

\* Only a decision that does not come may keep a change waiting.
Progress == phase \notin {"review", "stopped"} /\ Next

Spec == Init /\ [][Next]_vars /\ WF_vars(Progress)
=============================================================================
