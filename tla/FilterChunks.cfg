CONSTANTS
  Items <- Mixed
  MaxItems = 3
  Narrated <- MCNarrated
  Hidden <- MCHidden
SPECIFICATION Spec
INVARIANTS TypeOK SameAsWhole NoBlankRuns NarrativeKept BlocksAreDropped NothingWithheld
