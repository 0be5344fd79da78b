SPECIFICATION Spec
CONSTANTS
    Cidrs <- ThreeCidrs
    Arrays <- ShortArrays
CHECK_DEADLOCK FALSE
INVARIANTS TypeOK ReturnsReference IgnoresOrder
