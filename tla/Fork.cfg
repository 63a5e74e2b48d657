CONSTANTS
    TASK_MM = mm
    TASK_FS = fs
    TASK_SYS = sys
    ANY = ANY
    INTERRUPT = INTERRUPT
    INIT_PID = 1
    NR_CHILDREN = 2
    TickCallers = {3}
    Proc <- MCProc
    NoMessage <- NoMsg
SPECIFICATION Spec
INVARIANTS
    StackMatchesCall
    RightAnswers
PROPERTY ForkReturns
CHECK_DEADLOCK FALSE
