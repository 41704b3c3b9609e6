\* at most three writers: the tasks of a WebSocket; with one, those of a response
CONSTANTS
    w1 = w1
    w2 = w2
    w3 = w3
    Writers = {w1, w2, w3}
    High = 16
    MaxPush = 6
    MaxPop = 5
SPECIFICATION Spec
INVARIANTS TypeOK BackPressure NeverStranded
PROPERTY DrainedMeansEmpty
