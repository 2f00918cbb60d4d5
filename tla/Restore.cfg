\* A crash, and nothing else, while a restore is installed or recovered from.
SPECIFICATION Spec
CONSTANTS
    None = None
    MaxRestores = 1
    MaxCrashes = 1
    MaxFailures = 0
INVARIANT RecoveryConverges
CHECK_DEADLOCK FALSE
