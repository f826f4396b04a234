SPECIFICATION Spec
CONSTANTS
    t1 = t1
    t2 = t2
    None = None
    Image = Image
    Threads = {t1, t2}
    Globals <- MCGlobals
    Starts = {1, 2}
    Sizes = {1, 4}
    Width = 5
    HeapEnd = 7
    MemoryEnd = 11
    MaxCalls = 3
    Untraced = {}
    Races = {}
INVARIANT SharedAccessRecorded
CHECK_DEADLOCK FALSE
