CONSTANTS
    tty = tty
    hd = hd
    fs = fs
    user = user
    spin = spin
    Proc <- FileProcs
    TASK_TTY = tty
    TASK_HD = hd
    ANY = ANY
    INTERRUPT = INTERRUPT
    NO_TASK = NO_TASK
    Calls <- FileCalls
    Body = {m1}
SPECIFICATION Spec
INVARIANTS
    QueueHoldsSenders
    NoSendCycle
    NoMissedRendezvous
    KernelAssertsHold
    MessageArrives
PROPERTIES
    SenderWaitsForReceiver
    AnswerFromPeer
    ImplementsMessages
