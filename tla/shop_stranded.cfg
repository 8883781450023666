\* POSIX wakeups with one barber: a signal meant for a finished customer may
\* wake another one.
SPECIFICATION FairSpec
CONSTANTS
  Nobody = Nobody
  Customers = {c1, c2}
  Barbers = {b1}
  MaxChairs = 2
  TimerMax = 2
  CounterMod = 1
  FifoWakeup = FALSE
  SpuriousWakeups = FALSE
PROPERTY FinishedLeaves
