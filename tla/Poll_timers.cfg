SPECIFICATION Spec
CONSTANTS
    g1 = g1
    t1 = t1
    Goroutine = {g1, g2}
    Timer = {t1, t2}
    TimersOf <- AllAndOne
    FilesOf <- FilesAndNone
    Endless = {g1}
    MayAsk <- FirstTimerFirst
    NumFds = 3
    Width = 3
    MaxDeadline = 2
    MaxNow = 3
    Unset = Unset
    Fired = Fired
INVARIANTS
    PollTypeOK
    SomethingAnswered
    NoTimerEarly
    OneOwner
PROPERTY
    TimersFire
CHECK_DEADLOCK FALSE
