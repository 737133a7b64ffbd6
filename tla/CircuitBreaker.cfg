\* The production values in small: three attempts per call.
SPECIFICATION Spec
CONSTANTS
    Threshold = 3
    Cooldown = 3
    MinInterval = 2
    Retries = 2
    PowersOfTwo <- Powers
    RetryAfters = {0, 5}
    MaxDelay = 4
    MaxFailures = 7
INVARIANTS OpenAtThreshold NoCallWhileOpen
