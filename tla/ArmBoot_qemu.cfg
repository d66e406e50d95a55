CONSTANTS
    Words = 2
    stdout_putf = 1
    Machines = {"spin_table"}
    Loaded = 524288
    LOW_MEMORY = 8
    PAGE_SIZE = 2
SPECIFICATION SafeSpec
INVARIANT StartsThere
