SPECIFICATION FairSpec
CONSTANTS
    m1 = m1
    m2 = m2
    m3 = m3
    r1 = r1
    r2 = r2
    t1 = t1
    f1 = f1
    c1 = c1
    c2 = c2
    Messages = {m1, m2, m3}
    Runners = {r1}
    Timed = {t1}
    Flushers = {f1}
    Cleaners = {c1, c2}
    Null = Null

INVARIANTS
    TypeOK
    Linked
    OneHolder
    NoLostWakeUp
    StopWakesAll
PROPERTIES
    ImplementsQueue
    PostedRuns
    StopEndsExec
    AllReleased
