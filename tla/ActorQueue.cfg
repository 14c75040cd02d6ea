\* Three concurrent submits and two concurrent closes.
SPECIFICATION Spec
CONSTANTS
    Requests = {a, b, c}
    Closers = {k1, k2}
    Sentinel = Sentinel
INVARIANTS MetricsAddUp CloseDrains
PROPERTIES EveryRequestAnswered EveryCloseReturns ImplementsService
