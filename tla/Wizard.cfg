SPECIFICATION Spec
CONSTANTS
    Wizards = {w1, w2}
    Nobody = Nobody
INVARIANTS TypeOK HonestSuccess
PROPERTIES CancelStopsInput WizardsEnd
CHECK_DEADLOCK FALSE
