SPECIFICATION Spec
CONSTANTS
    Trip = {t1}
    Vehicle = {v1, v2}
    Counts = {1}
    Seat = {s1, s2}
    Admin = {a1, a2}
    Token = {k1}
    Orphan = Orphan
    None = None
SYMMETRY Symmetry
INVARIANTS LayoutAgrees BookingsStand GrantedHoldStands LocksOwned
PROPERTIES BlockedSurvivesVehicleChange
