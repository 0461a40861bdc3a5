CONSTANT Limits <- MCLimits
SPECIFICATION Spec
CHECK_DEADLOCK FALSE
INVARIANTS BacktrackRestores ThrowRestores OuterKept OldPointUpByTrail
PROPERTY CollectionKeepsTerms
