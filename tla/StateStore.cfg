SPECIFICATION Spec
CONSTANTS
  Writers = {w1, w2}
  Subscribers = {s1, s2}
  MaxUpdates = 3
SYMMETRY Symmetric
INVARIANTS
  NothingOlderThanSubscription
  NoLostNotification
  FreshUnlessOverlapped
CHECK_DEADLOCK FALSE
