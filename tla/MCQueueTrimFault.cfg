\* XPENDING may fail while TrimConsumed computes its position.
SPECIFICATION Spec
CONSTANTS
    Tasks = {t1}
    Producers = {p1}
    Consumers = {c1}
    Maintainers = {m1}
    DueStamps = {d1}
    MaxLen = 2
    AdmitLimit = 2
    LongIdle = TRUE
    Faults = {"XPENDING"}
    MaxAttempt = 0
    MaxAdds = 3
PROPERTY TrimOnlyConsumed
