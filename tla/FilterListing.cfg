CONSTANTS
  Items <- Listings
  MaxItems = 2
  Narrated <- MCNarrated
  Hidden <- MCHidden
SPECIFICATION Spec
INVARIANTS BlocksAreDropped
