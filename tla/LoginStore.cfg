CONSTANTS
  MaxRuns = 2
  MaxClicks <- MCMaxClicks
  Accounts = {a1}
  Passwords = {right, wrong}
  Characters = {c1}
  Commands = {wrayth}
  None = None
SPECIFICATION Spec
INVARIANTS TypeOK RememberedWasAccepted ConfigReadable TemplateKept
