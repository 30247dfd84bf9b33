SPECIFICATION PartsSpec
CONSTANTS
    Call = {c1, c2, c3, c4}
    Threshold = 2
    Timeout = 2
    Cooldown = 3
    MaxTime = 16
    Seat = {s1}
    Viewer = {v1}
    Resolver = {r1}
    MaxEvents = 3
    Booker = {booker1, booker2}
    Editor = {editor1, editor2}
    Dispatcher = {dispatcher1}
    BookingMax = 2
    TripMax = 2
    None = None
    Nobody = Nobody
INVARIANTS
    PartsSound
    TrialsOrderly
    NoPileUp
    KeepsOneLink
    ViewersTold
    TornOnlyWhenTaken
PROPERTIES
    EventsHandled
    PoolsCallsEnd
CHECK_DEADLOCK FALSE
