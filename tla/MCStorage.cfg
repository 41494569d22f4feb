SPECIFICATION Spec
PROPERTIES
    ReadsBack
    ReadsAreRight
    AckedWritesSurvive
CHECK_DEADLOCK FALSE
