SPECIFICATION PiSpec
CONSTANTS
    Files = {m1, m2}
    Lenex = {m1, m2}
    Heats = {h1, h2}
    None = None
    Allowed = {}
    MaxSwims = 1
    MaxOps = 3
    TVs = {tv}
    Looks = {plain, own}
    Names = {boss, helper}
    First = boss
    Beyond = {}
CHECK_DEADLOCK FALSE
SYMMETRY Symmetry
INVARIANTS
    TimesOfTheirMeet
    ScheduleIsSaved
    SettingsSurvive
    MeetKeepsItsOwn
    LoginEndsSessions
    FieldsInBounds
    TVToldItsView
