\* Two workers, every endpoint, outside edits, one failure or crash: the cache never shows content the server never had, and a sync over the whole calendar deletes only rows of events that are gone.
SPECIFICATION Spec
INVARIANT TypeOK
INVARIANT RowsReflectServer
PROPERTY CleanupSound
SYMMETRY Alike
CONSTANTS
    u1 = u1
    u2 = u2
    u3 = u3
    p1 = p1
    p2 = p2
    w1 = w1
    dachraum = dachraum
    T1 = T1
    T2 = T2
    T3 = T3
    NoUid = NoUid
    Rooms = {dachraum}
    NoRoom = NoRoom
    Titles = {T1, T2, T3}
    Unparsable = {T3}
    BadRules = {}
    Period = 4
    MonthLen = 4
    Months = {0, 1, 2}
    WindowSpan = 8
    Today = 0
    TTL = 1
    Ids = {0, 1, 2, 3, 4}
    NoDate = NoDate
    NoEvent = NoEvent
    NoRow = NoRow
    Uids <- TwoUids
    Procs <- TwoProcs
    WorkerOf <- EachAWorker
    Workers <- TwoProcs
    Ops <- AllOps
    Payloads <- OnePayload
    Ranges <- WholeYear
    Forces = {TRUE}
    Occs = {1}
    ExternalEvents <- OnePayload
    FaultKinds <- FaultsButSearch
    MaxFaults = 1
    MaxWrites = 2
    MaxEdits = 1
    MaxNow = 0
    Existing <- WeeklyOnServer
    Cached <- JustU1
