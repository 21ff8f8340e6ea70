SPECIFICATION Spec
CONSTANTS
  Texts <- MCTexts
  Folded <- MCFolded
  Halves <- MCHalves
  DigitForms <- MCDigitForms
  None = None
INVARIANTS ProvenanceOnlyDemotes ConditionsPartitionReadings DecidedOnlyOnCompleteEvidence
