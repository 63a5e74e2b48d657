CONSTANTS
    Proc = {fs, tty, u1}
    Users = {u1}
    TASK_TTY = tty
    TASK_FS = fs
    ANY = ANY
    INTERRUPT = INTERRUPT
    NoMessage <- NoMsg
    NR_CONSOLES = 2
    KB_IN_BYTES = 2
    TTY_IN_BYTES = 2
    Printable = {"x"}
    MaxCount = 2
    MaxTyped = 3
SPECIFICATION Spec
INVARIANTS
    KeysInOrder
    ReadReturnsLine
    ReplyIsWanted
    SuspendedIsServed
CHECK_DEADLOCK FALSE
