SPECIFICATION Spec
CONSTANTS
    Alpha = {"s", "v"}
    Other = {" "}
    Blank = {" "}
    ARCH_WORDS <- Tokens
    MaxLine = 5
    MaxMain = 1
CHECK_DEADLOCK FALSE
INVARIANT LeaksAreReported
