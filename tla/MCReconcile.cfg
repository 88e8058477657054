\* An update that says one thing replaces another.
CONSTANTS
    ana = ana
    bo = bo
    e1 = e1
    e2 = e2
    Nothing = Nothing
    Person = {ana, bo}
    Entry = {e1, e2}
    Day = {0, 7, 14}
SPECIFICATION DecisionSpec
INVARIANT NoAssertionFails
CHECK_DEADLOCK FALSE
