\* One request at a time through every endpoint as keys expire, without failures: after each, the cache mirrors the server.
SPECIFICATION Spec
INVARIANT QuiescentAgreement
CONSTANTS
    u1 = u1
    u2 = u2
    u3 = u3
    p1 = p1
    p2 = p2
    w1 = w1
    dachraum = dachraum
    T1 = T1
    T2 = T2
    T3 = T3
    NoUid = NoUid
    Rooms = {dachraum}
    NoRoom = NoRoom
    Titles = {T1, T2, T3}
    Unparsable = {T3}
    BadRules = {}
    Period = 4
    MonthLen = 4
    Months = {0, 1, 2}
    WindowSpan = 8
    Today = 0
    TTL = 1
    Ids = {0, 1, 2, 3, 4}
    NoDate = NoDate
    NoEvent = NoEvent
    NoRow = NoRow
    Uids <- ThreeUids
    Procs <- OneProc
    WorkerOf <- OneWorker
    Workers = {w1}
    Ops <- AllOps
    Payloads <- MixedPayloads
    Ranges <- WholeYear
    Forces = {TRUE, FALSE}
    Occs = {9, 13}
    ExternalEvents = {}
    FaultKinds <- NoFaultKinds
    MaxFaults = 0
    MaxWrites = 3
    MaxEdits = 0
    MaxNow = 1
    Existing <- WeeklyOnServer
    Cached <- JustU1
