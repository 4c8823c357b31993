SPECIFICATION FairSpec
CONSTANTS
  Handles = {h1, h2, h3, h4}
  Races <- MCRaces
INVARIANTS
  NoUseAfterFree
  LiveWhileReferenced
  FreedWhenUnreferenced
  CountsExact
  CallbacksBalanced
PROPERTIES
  PromoteOnlyFailsUnpinned
  LockFree
