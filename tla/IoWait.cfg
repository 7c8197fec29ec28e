\* Two coroutines that poll twice each; two threads that trigger.
CONSTANTS
  t1 = t1
  t2 = t2
  a1 = a1
  a2 = a2
  Tasks = {t1, t2}
  Triggerers = {a1, a2}
  NoSentry = NoSentry
  MaxPoll = 2
SPECIFICATION FairSpec
CHECK_DEADLOCK FALSE
INVARIANTS TypeOK QueueIsParked NoLostTrigger
PROPERTY TriggeredPollReturns
