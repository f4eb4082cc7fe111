CONSTANTS
  account = account
  right = right
  wrong = wrong
  hero = hero
  None = None
  Credentials <- MCCredentials
  Valid <- MCValid
  Games = {gs, old}
  Storm = {gs}
  Roster <- MCRoster
  MaxClicks = 3
SPECIFICATION FairSpec
INVARIANTS TypeOK RepliesInStep LaunchedAsAsked OneFrontEndPerSession Settled
PROPERTIES ListIsWhole LoginIsAnswered
