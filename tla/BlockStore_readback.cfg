SPECIFICATION FocusSpec
CONSTANTS
    r = r
    z = z
    w1 = w1
    w2 = w2
    Workers = {w1}
    Blocks <- Unshrunk
    Raw <- Unshrunk
    PayLen <- Length
    N <- Units
INVARIANTS FoundIsStored
