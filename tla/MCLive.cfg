SPECIFICATION MCSpec
PROPERTY CallsReturn
PROPERTY DataArrives
CHECK_DEADLOCK FALSE
