CONSTANTS
  Main = main
  Kthreads = {t1, t2, t3}
  Creators = {main}
  NULL = NULL
SPECIFICATION FairSpec
INVARIANTS SchedulerInv NoThreadLost
PROPERTIES DeadStaysDead RoundRobin ServedIfInterruptible
