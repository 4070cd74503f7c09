\* Two threads and three events of any of these kinds: two writes that overtake each other, an edit by another client or in the admin, a failure or crash. Refreshing the whole calendar repairs the cache.
SPECIFICATION ThreeFairSpec
PROPERTY Converges
CONSTANTS
    u1 = u1
    u2 = u2
    u3 = u3
    p1 = p1
    p2 = p2
    w1 = w1
    dachraum = dachraum
    T1 = T1
    T2 = T2
    T3 = T3
    NoUid = NoUid
    Rooms = {dachraum}
    NoRoom = NoRoom
    Titles = {T1, T2, T3}
    Unparsable = {T3}
    BadRules = {2}
    Period = 4
    MonthLen = 4
    Months = {0, 1, 2}
    WindowSpan = 8
    Today = 0
    TTL = 1
    Ids = {0, 1, 2, 3, 4}
    NoDate = NoDate
    NoEvent = NoEvent
    NoRow = NoRow
    Uids <- TwoUids
    Procs <- TwoProcs
    WorkerOf <- OneWorker
    Workers = {w1}
    Ops <- AllOps
    Payloads <- SomeGarbled
    Ranges <- WholeYear
    Forces = {TRUE}
    Occs = {9}
    ExternalEvents <- OnePayload
    FaultKinds <- AllFaultKinds
    MaxFaults = 1
    MaxWrites = 2
    MaxEdits = 1
    MaxNow = 0
    Existing <- WeeklyOnServer
    Cached <- JustU1
