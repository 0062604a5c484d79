CONSTANTS
  Callers = {t1, t2}
  Attempts = 3
  MaxLag = 2
  MaxInbox = 2
SPECIFICATION FairSpec
INVARIANT TypeOK
INVARIANT OkIsTheAnswer
INVARIANT UndisturbedIsAnswered
PROPERTY CallsReturn
CHECK_DEADLOCK FALSE
