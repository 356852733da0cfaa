CONSTANTS
    Thread = {t1, t2}
    Null = Null
    Text = Text
    Idle = Idle
    Pipe = 1
    MaxLogger = 2
    MaxLog = 3
    MaxFault = 1
SPECIFICATION LogFairSpec
PROPERTIES Drained EndReturns ExitEnds
CHECK_DEADLOCK FALSE
