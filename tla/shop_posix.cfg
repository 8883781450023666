\* POSIX condition variables: any waiter may be woken, also without a signal; the
\* chairs are queue.c's list.
SPECIFICATION ShopQueueSpec
CONSTANTS
  Nobody = Nobody
  Customers = {c1, c2, c3, c4}
  Barbers = {b1, b2}
  MaxChairs = 3
  Nodes = {n1, n2, n3, n4}
  NULL = NULL
  Garbage = Garbage
  TimerMax = 4
  CounterMod = 1
  FifoWakeup = FALSE
  SpuriousWakeups = TRUE
SYMMETRY ShopQueueSymmetry
INVARIANT TypeOK
INVARIANT WaitingAccounted
INVARIANT NoSleepingBarber
INVARIANT NeverExits
INVARIANT IInv
INVARIANT QueueIsChairs
PROPERTY ImplementsShop
