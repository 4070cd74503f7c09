\* Two visitors, three threads in two workers, one failure, crash or visitor giving up, an admin who edits and deletes: 201 means stored and told to the admins, and trying again leads to 201.
SPECIFICATION FairSpec
CHECK_DEADLOCK FALSE
INVARIANT TypeOK
PROPERTY KeepsPromise
PROPERTY EventuallyAccepted
CONSTANTS
    p1 = p1
    p2 = p2
    p3 = p3
    w1 = w1
    w2 = w2
    Workers = {w1, w2}
    WorkerOf <- TwoAndOne
    question = question
    complaint = complaint
    spam = spam
    Procs <- ThreeThreads
    Intents = {question, complaint, spam}
    Valid = {question, complaint}
    Unmailable = {complaint}
    Statuses = {"new", "closed"}
    Nobody = Nobody
    Nothing = Nothing
    FaultKinds = {"database", "mail", "timeout", "crash"}
    MaxFaults = 1
    MaxTries = 2
    MaxEdits = 2
