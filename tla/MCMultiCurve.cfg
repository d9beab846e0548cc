CONSTANTS
    qa = qa
    qb = qb
    qn = qn
    oa = oa
    ob = ob
    on = on
    a = a
    b = b
    n = n
    hub = hub
    wa = wa
    wn = wn
    Subjects <- MCSubjects
    Observers <- MCObservers
    Clients <- MCClients
    Forwarders = {}
    Target <- MCTarget
    Discarding <- MCDiscarding
    Holdable = {}
    Droppable = {}
    Registrable = {}
    Wiring <- MCWiring
    Lazies <- MCLazies
    Own <- MCOwn
    Quotes <- MCQuotes
    Contributors <- MCContributors
    Cachers <- MCCachers
    Base <- MCBase
    Hub = hub
    CurveInputs <- MCCurveInputs
    Listens <- MCListens
    CallbackOps <- MCCallbacks
    MaxTrials = 2
    MaxNotify = 2
    MaxEdits = 2
SPECIFICATION FairMultiSpec
CHECK_DEADLOCK FALSE
INVARIANTS ContributorsAreSolved ReadersAreTold TellsFreeUpdaters
PROPERTIES NoSilentFallback MultiTerminates
