CONSTANTS
    date = date
    n1 = n1
    n2 = n2
    o1 = o1
    o2 = o2
    i1 = i1
    i2 = i2
    w1 = w1
    w2 = w2
    k1 = k1
    k2 = k2
    Subjects <- MCSubjects
    Observers <- MCObservers
    Clients <- MCClients
    Forwarders <- MCIndexes
    Target <- MCTarget
    Discarding = {}
    Holdable = {}
    Droppable = {}
    Registrable = {}
    Wiring <- MCWiring
    MaxNotify = 2
    MaxEdits = 1
    Keys <- MCKeys
    Indexes <- MCIndexes
    KeyOf <- MCKeyOf
    DateSubject = date
    Notifier <- MCNotifier
    Watches <- MCWatches
    Pins <- MCPins
    CallbackOps = {"read", "add"}
    MaxDay = 2
    Rates = {1, 2, 4}
    Batches <- MCBatches
SPECIFICATION SettingsSpec
CHECK_DEADLOCK FALSE
PROPERTY CloseValueIsNoOp
