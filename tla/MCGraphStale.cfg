CONSTANTS
    q1 = q1
    q2 = q2
    oc1 = oc1
    oc2 = oc2
    oh = oh
    oe1 = oe1
    oe2 = oe2
    oi = oi
    c1 = c1
    c2 = c2
    h = h
    e1 = e1
    e2 = e2
    i = i
    w = w
    Subjects <- MCSubjects
    Observers <- MCObservers
    Clients <- MCClients
    Forwarders <- MCForwarders
    Target <- MCTarget
    Discarding <- MCDiscarding
    Holdable = {}
    Droppable = {}
    Registrable = {}
    Wiring <- MCWiring
    Quotes <- MCQuotes
    Curves <- MCCurves
    Instruments <- MCInstruments
    Handles <- MCHandles
    Engines <- MCEngines
    Lazies <- MCLazies
    Own <- MCOwn
    CurveInputs <- MCCurveInputs
    EngineInputs <- MCEngineInputs
    DirectInputs <- MCDirectInputs
    EngineHandle <- MCEngineHandle
    FirstCurve <- MCFirstCurve
    FirstEngine <- MCFirstEngine
    Dates <- MCDates
    NoCurve = NoCurve
    NoEngine = NoEngine
    Habits <- MCStaleHabits
    MaxNotify = 2
    MaxEdits = 0
SPECIFICATION GraphSpec
CHECK_DEADLOCK FALSE
INVARIANT CachesAreCurrent
