\* Requests with a Reset or a Snapshot, field by field.
SPECIFICATION Spec
CONSTANTS
    Confirmed = {c1, c2}
    Unconfirmed = {u1}
    Latencies <- MCLatencies
    PerMs = 2
    MaxReaders = 1
SYMMETRY Symmetry
INVARIANTS
    GaugeOffByReset
    HistogramConsistent
    OutcomeCountedOnce
    LatencyCoversSuccesses
CHECK_DEADLOCK FALSE
