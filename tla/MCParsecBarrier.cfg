CONSTANTS
    Thread = {t1, t2, t3, t4}
    NoThread = NoThread
    Max = 4
    Rounds = 3
SPECIFICATION FairSpec
INVARIANTS
    TypeOK
    Phases
    OneMaster
    NoLostWakeup
    InLockstep
PROPERTIES ImplementsRendezvous AllPass
\* Threads stop calling after Rounds rounds.
CHECK_DEADLOCK FALSE
