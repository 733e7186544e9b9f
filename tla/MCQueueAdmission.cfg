\* Back-pressure: two producers race through the admission window.
SPECIFICATION Spec
CONSTANTS
    Tasks = {t1, t2, t3}
    Producers = {p1, p2}
    Consumers = {c1}
    Maintainers = {m1}
    DueStamps = {d1}
    MaxLen = 2
    AdmitLimit = 1
    LongIdle = TRUE
    Faults = {}
    MaxAttempt = 1
    MaxAdds = 4
SYMMETRY ClientSymmetry
INVARIANT BackPressure
