SPECIFICATION LiveSpec
CONSTANTS
    TASK_ID_COUNT = 3
    Mutexes = {m1}
    UserEvents = {wake}
    WaitFlags = {FALSE}
PROPERTIES
    TopTaskGetsMutex
    TopTaskWakes
