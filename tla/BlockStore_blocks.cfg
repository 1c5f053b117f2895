SPECIFICATION FocusSpec
CONSTANTS
    r = r
    z = z
    w1 = w1
    w2 = w2
    Workers = {w1, w2}
    Blocks <- Both
    Raw <- Unshrunk
    PayLen <- Lengths
    N <- Units
INVARIANTS TypeOK AckedIntact FoundIsWhole QuietReadFinds
PROPERTIES LostOnlyToRewrite IsRegister RequestsAnswered
