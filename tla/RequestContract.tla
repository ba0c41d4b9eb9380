--------------------------- MODULE RequestContract ---------------------------
(***************************************************************************)
(* What a caller of the Hydrus client may rely on, and TaggerRun does: a   *)
(* request that is reported accepted was applied; one that is reported     *)
(* failed may have been applied all the same, or may be later; the         *)
(* caller's own giving up is reported only when it did give up; and every  *)
(* request is reported.                                                    *)
(***************************************************************************)

VARIABLES
  applied,  \* did Hydrus apply the request?
  givenUp,  \* has the caller given up?
  told      \* what the caller was told

vars == <<applied, givenUp, told>>

Init == applied = FALSE /\ givenUp = FALSE /\ told = "nothing"

Apply == applied' = TRUE /\ UNCHANGED <<givenUp, told>>

GiveUp == givenUp' = TRUE /\ UNCHANGED <<applied, told>>

Tell(answer) ==
  /\ told = "nothing"
  /\ told' = answer
  /\ UNCHANGED <<applied, givenUp>>

Accept == applied /\ Tell("accepted")
Fail   == Tell("failed")
Cancel == givenUp /\ Tell("given up")

Next == Apply \/ GiveUp \/ Accept \/ Fail \/ Cancel

Spec == Init /\ [][Next]_vars

FairSpec == Spec /\ WF_vars(Accept \/ Fail \/ Cancel)

=============================================================================
