\* One heartbeat function; the clock up to 5 s, eight ticks (two checkSaves).
CONSTANTS
    Funcs = {hb}
    Adder <- TAdder
    Interval <- TInterval
    Times <- TTimes
    Part = 1
    MaxTime = 5
    MaxTicks = 8
SPECIFICATION Spec
INVARIANT NeverDropped
CHECK_DEADLOCK FALSE
