SPECIFICATION Spec
CONSTANTS
  Conns = {c1, c2, c3}
  MaxCalls = 2
  MaxOffers = 2
  Leavers = {c1, c2}
INVARIANTS TypeOK TwoCallsExplained GhostsExplained PairsOnly NoOfferFromTheGone
SYMMETRY Symmetry
CHECK_DEADLOCK FALSE
