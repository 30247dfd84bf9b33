SPECIFICATION Spec
CONSTANTS
    d1 = d1
    d2 = d2
    Trip = {t1}
    Seat = {s1}
    Date <- MCDate
    Criteria <- MCCriteria
    Request = {r1, r2}
    MaxChanges = 2
    None = None
SYMMETRY Symmetry
INVARIANTS
    AnswersSound
    NothingWithheld
CHECK_DEADLOCK FALSE
