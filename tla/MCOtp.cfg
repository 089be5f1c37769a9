\* Two sends and two verifies overlap, and a wrong answer leaves room for another.
\* Time, codes and answers are bounded.
SPECIFICATION Spec
CONSTANTS
    Sender = {s1, s2}
    Verifier = {v1, v2}
    OTP_EXPIRE_SECONDS = 1
    OTP_RATE_WINDOW_SECONDS = 2
    OTP_RATE_LIMIT = 1
    MAX_ATTEMPTS = 2
    MaxTime = 2
    MaxSends = 3
    MaxAnswers = 3
SYMMETRY Symmetry
CHECK_DEADLOCK FALSE
INVARIANTS
    TypeOK
    AcceptedInTime
    AcceptedOnce
    LockedOut
    WindowBudget
