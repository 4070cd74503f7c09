\* One request at a time in two workers, for whole months, as keys expire and events come and go: an answer without a sync misses nothing on the server.
SPECIFICATION SerialSpec
INVARIANT NoMasking
SYMMETRY Alike
CONSTANTS
    u1 = u1
    u2 = u2
    u3 = u3
    p1 = p1
    p2 = p2
    w1 = w1
    dachraum = dachraum
    T1 = T1
    T2 = T2
    T3 = T3
    NoUid = NoUid
    Rooms = {dachraum}
    NoRoom = NoRoom
    Titles = {T1, T2, T3}
    Unparsable = {T3}
    BadRules = {}
    Period = 4
    MonthLen = 4
    Months = {0, 1, 2}
    WindowSpan = 8
    Today = 0
    TTL = 1
    Ids = {0, 1, 2, 3, 4}
    NoDate = NoDate
    NoEvent = NoEvent
    NoRow = NoRow
    Uids <- ThreeUids
    Procs <- TwoProcs
    WorkerOf <- EachAWorker
    Workers <- TwoProcs
    Ops = {"get", "create", "delete"}
    Payloads <- TalkPayloads
    Ranges <- TwoMonths
    Forces = {FALSE, TRUE}
    Occs = {}
    ExternalEvents = {}
    FaultKinds <- NoFaultKinds
    MaxFaults = 0
    MaxWrites = 2
    MaxEdits = 0
    MaxNow = 3
    Existing <- TwoMonthsOnServer
    Cached = {}
