CONSTANTS
  Token = {1}
  Worker = {w1, w2}
  Handler = {h1}
  QueueDepth = 1
  Listings = {{}, {1}}
  Prunable = {1}
  Replies = {"401", "404", "timeout"}
SPECIFICATION RefreshSpec
INVARIANTS RefreshTypeOK NoStuckInflight SingleFlight StopBoundsWork
PROPERTIES ImplementsCycle VerdictsAreEarned
SYMMETRY MCSymmetry
CHECK_DEADLOCK FALSE
