\* The discrete-event library of misc.c: signals wake the oldest waiter.
SPECIFICATION FairSpec
CONSTANTS
  Nobody = Nobody
  Customers = {c1, c2, c3}
  Barbers = {b1}
  MaxChairs = 2
  TimerMax = 3
  CounterMod = 1
  FifoWakeup = TRUE
  SpuriousWakeups = FALSE
INVARIANT FinishedIsWoken
INVARIANT CountersExact
PROPERTY WaitingLeaves
PROPERTY ImplementsLiveShop
