CONSTANTS
  account = account
  right = right
  wrong = wrong
  hero = hero
  None = None
  Credentials <- MCCredentials
  Valid <- MCValid
  Games = {gs}
  Storm = {gs}
  Roster <- MCRoster
  MaxClicks = 2
SPECIFICATION Spec
INVARIANT QuitBeforeClosed
