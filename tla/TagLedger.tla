------------------------------ MODULE TagLedger ------------------------------
(***************************************************************************)
(* What the tagger promises about the tags of its files, however runs are  *)
(* interrupted and requests get lost or held up: Hydrus is asked for a tag *)
(* set only while it is stored as wanted, adds none it was not asked for,  *)
(* and is believed to have one only if it has; and a tag set that stays    *)
(* wanted is requested, delivered and acknowledged in the end.  Nothing is *)
(* taken back: a request made once may be delivered long after the file's  *)
(* tags have changed.                                                      *)
(***************************************************************************)
CONSTANTS File, TagSet, Empty, None

VARIABLES
  wanted,       \* tag set each file is to have, None while undecided
  requested,    \* tag sets Hydrus was asked to add to the file
  delivered,    \* tag sets it did add
  acknowledged  \* tag set known to be delivered, None for none

ledgerVars == <<wanted, requested, delivered, acknowledged>>

Init ==
  /\ wanted = [f \in File |-> None]
  /\ requested = [f \in File |-> {}]
  /\ delivered = [f \in File |-> {}]
  /\ acknowledged = [f \in File |-> None]

\* Tags are decided for some files, once more for some of them.
Want ==
  /\ \E S \in SUBSET File : \E new \in [S -> TagSet] :
       wanted' = [f \in File |-> IF f \in S THEN new[f] ELSE wanted[f]]
  /\ UNCHANGED <<requested, delivered, acknowledged>>

Requestable == {f \in File : wanted[f] \notin {None, Empty}}

\* Hydrus is asked for the tags of some files, perhaps not for the first time.
Request ==
  /\ \E S \in SUBSET Requestable :
       requested' = [f \in File |-> IF f \in S THEN requested[f] \cup {wanted[f]}
                                              ELSE requested[f]]
  /\ UNCHANGED <<wanted, delivered, acknowledged>>

\* Requests are applied, the latest or older ones, to any of their files.
Deliver ==
  /\ delivered' \in [File -> SUBSET TagSet]
  /\ \A f \in File : /\ delivered[f] \subseteq delivered'[f]
                     /\ delivered'[f] \subseteq delivered[f] \cup requested[f]
  /\ UNCHANGED <<wanted, requested, acknowledged>>

Acknowledge ==
  /\ \E S \in SUBSET {f \in File : wanted[f] \in delivered[f]} :
       acknowledged' = [f \in File |-> IF f \in S THEN wanted[f] ELSE acknowledged[f]]
  /\ UNCHANGED <<wanted, requested, delivered>>

Next == Want \/ Request \/ Deliver \/ Acknowledge

Spec == Init /\ [][Next]_ledgerVars

\* The next thing one file still lacks: its tags are requested, delivered, or
\* acknowledged.
Advance(f) ==
  \/ /\ wanted[f] \notin {None, Empty} \cup requested[f]
     /\ requested' = [requested EXCEPT ![f] = @ \cup {wanted[f]}]
     /\ UNCHANGED <<wanted, delivered, acknowledged>>
  \/ /\ wanted[f] \in requested[f] \ delivered[f]
     /\ delivered' = [delivered EXCEPT ![f] = @ \cup {wanted[f]}]
     /\ UNCHANGED <<wanted, requested, acknowledged>>
  \/ /\ wanted[f] \in delivered[f] \ {acknowledged[f]}
     /\ acknowledged' = [acknowledged EXCEPT ![f] = wanted[f]]
     /\ UNCHANGED <<wanted, requested, delivered>>

FairSpec == Spec /\ \A f \in File : WF_ledgerVars(Advance(f))

=============================================================================
