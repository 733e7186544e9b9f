\* Two tasks, two consumers, failing or half-done XADD and ZREM, crashes.
SPECIFICATION OrderedSpec
CONSTANTS
    Tasks = {t1, t2}
    Producers = {p1}
    Consumers = {c1, c2}
    Maintainers = {m1}
    DueStamps = {d1}
    MaxLen = 2
    AdmitLimit = 2
    LongIdle = TRUE
    Faults = {"crash", "XADD", "ZREM"}
    MaxAttempt = 0
    MaxAdds = 3
SYMMETRY ClientSymmetry
INVARIANT NoSilentLoss
INVARIANT WorkIsUndisturbed
PROPERTY TrimOnlyConsumed
