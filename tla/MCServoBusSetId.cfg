SPECIFICATION ServoSpec
CONSTANTS
    Servos = {1}
    Ids = {1, 2}
    Rates = {1, 2}
    DefaultRate = 1
    DefaultId = 1
    Retries = 1
INVARIANTS IdIsUnchanged
CHECK_DEADLOCK FALSE
