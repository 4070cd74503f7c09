\* One request at a time, the admin and account deletion: a member has one booking a day.
SPECIFICATION Spec
INVARIANT TypeOK
INVARIANT OnePerDay
CONSTANTS
    alice = alice
    bob = bob
    p1 = p1
    p2 = p2
    Procs = {p1}
    Users <- TwoUsers
    Dates = {1, 2, 3}
    Saturdays = {1, 2}
    Listed = {1, 2}
    Slots = {10, 11}
    Nobody = Nobody
    Nothing = Nothing
    Ops = {"book", "cancel", "add", "change", "remove", "leave"}
    MaxWrites = 4
