CONSTANTS
    q = q
    s = s
    f = f
    r = r
    w = w
    d = d
    Subjects <- MCSubjects
    Observers <- MCObservers
    Clients <- MCClients
    Forwarders <- MCForwarders
    Target <- MCTarget
    Discarding <- MCDiscarding
    Holdable <- MCHoldable
    Droppable <- MCDroppable
    Registrable <- MCRegistrable
    Wiring <- MCWiring
    MaxNotify = 2
    MaxEdits = 2
SPECIFICATION FairSpec
INVARIANTS NoNotificationDropped OutermostDrains NoSecondBorrow
PROPERTIES NotificationTerminates
CHECK_DEADLOCK FALSE
