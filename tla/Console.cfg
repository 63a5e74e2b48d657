CONSTANTS
    NR_CONSOLES = 2
    SCREEN_WIDTH = 3
    SCREEN_SIZE = 6
    v_mem_limit = 14
    Concurrent = FALSE
SPECIFICATION ConsoleSpec
INVARIANTS
    CursorInConsole
    ScreenShowsCurrent
    WindowInConsole
PROPERTIES
    OutCharReturns
