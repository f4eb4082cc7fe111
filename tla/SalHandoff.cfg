CONSTANTS
  Launchers = {l1, l2}
  MaxFrontEnds = 2
  MaxHandoffs = 2
SPECIFICATION FairSpec
INVARIANTS TypeOK KeyPresentedOnce PresentsItsOwn NoCutFileLeft
PROPERTIES KeyGoesAway KeysAreSingleUse
