\* Two of three ids can tie for a name, or share all files; three files leave room
\* for similarities of one third, one half and two thirds.
CONSTANTS
  Id = {1, 2, 3}
  Name = {1, 2}
  MaxFiles = 3
  MinOverlap = 2
  MinJaccard <- Half
  MaxRunnerUpRatio <- ThreeQuarter
SPECIFICATION Spec
INVARIANTS PairedExactly OneToOne SuggestedIsBest ClearCaseIsSuggested
CHECK_DEADLOCK FALSE
