CONSTANT Limits <- QueryOnly
SPECIFICATION HostSpec
CHECK_DEADLOCK FALSE
INVARIANT OldPointUpByTrail
