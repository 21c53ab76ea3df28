SPECIFICATION FairSpec
CONSTANTS
  Head = {timer_ring, pool_ring}
  Ordered = {timer_ring}
  Member = {a, b, c}
  NoRing = NoRing
  Key <- LowKeys
INVARIANTS TypeOK LinksInverse LinksFollowPlaces OrderedRings
PROPERTIES FailsOnlyOnMisuse KeepsPromise SearchEnds
