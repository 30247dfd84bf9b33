SPECIFICATION Spec
CONSTANTS
    Slots = {slot1, slot2}
    Items = {item1, item2}
    Holds = {hold1, hold2}
    Options = {default, cheap, refused}
    Default = default
    Refused = {refused}
    Words = {nothing, da, dalat}
    Blank = nothing
    Fields = {old, new}
    Unborn = Unborn
    Deleted = Deleted
    None = None
    CheckoutClicks = 5
    SearchClicks = 5
    CatalogClicks = 3
    ReportClicks = 4
    SessionClicks = 4
INVARIANTS
    WithinReach
    BookingIsShown
    PagesTrue
    ValidSessionKept
PROPERTIES
    EditsUndoNothing
    SpinnersStop
CHECK_DEADLOCK FALSE
