\* Each condition variable is used with signals only or broadcasts only.
SPECIFICATION Spec
CONSTANTS
  Users = {u1, u2, u3}
  Main = Main
  Nobody = Nobody
  Signals = {s1, s2}
  Broadcasts = {b}
  Delays = {1, 2}
SYMMETRY UserSymmetry
INVARIANT TypeOK
INVARIANT RunnableCounted
INVARIANT WaitingIsListLength
INVARIANT MarkedIsWoken
INVARIANT TimerQueueOK
INVARIANT NeverBroken
PROPERTY ImplementsVirtualTime
