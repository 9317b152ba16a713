SPECIFICATION Spec
CONSTANTS
    MaxFreq = 1024
    TopFreq = 32768
    MaxRate = 15
    DefaultFreq = 340
    CounterMod = 1073741824
    Requests = {2, 1024, 16384}
    Selected = {1, 2, 3}
INVARIANTS
    NoDivideByZero
CHECK_DEADLOCK FALSE
