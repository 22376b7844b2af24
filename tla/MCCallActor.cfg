SPECIFICATION Spec
CONSTANTS
    Failures = {"request", "access", "keys"}
    LateConfig = {"callee"}
    LateDh = {"caller"}
    Forgets = {"caller"}
INVARIANTS TypeOK ChecksHold ReadyIsAgreed OnlyRefusalSleeps EndReaches
PROPERTIES ShownForward
CHECK_DEADLOCK FALSE
