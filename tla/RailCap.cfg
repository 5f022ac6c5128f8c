CONSTANTS
    Nonce = {n1, n2}
    Payer = {y1}
    MaxDaily = 1
    Window = 2
    Attempt = Attempt
SPECIFICATION RailSpec
INVARIANT DailyCapHolds
CHECK_DEADLOCK FALSE
