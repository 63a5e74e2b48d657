CONSTANTS
    Proc = {fs, tty, u1, u2}
    Users = {u1, u2}
    TASK_TTY = tty
    TASK_FS = fs
    ANY = ANY
    INTERRUPT = INTERRUPT
    NoMessage <- NoMsg
    NR_CONSOLES = 1
    KB_IN_BYTES = 1
    TTY_IN_BYTES = 2
    Printable = {"x"}
    MaxCount = 1
    MaxTyped = 1
SPECIFICATION Spec
PROPERTY WriteReturns
CHECK_DEADLOCK FALSE
