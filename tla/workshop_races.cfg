\* Two threads booking, cancelling and listing, the admin adding and deleting, accounts deleted: the table is an atomic register of slots, and what the listing shows is honoured.
SPECIFICATION Spec
PROPERTY ActsAtOnce
PROPERTY CancelsOwn
PROPERTY HonoredOffer
SYMMETRY Alike
CONSTANTS
    alice = alice
    bob = bob
    p1 = p1
    p2 = p2
    Procs <- TwoThreads
    Users <- TwoUsers
    Dates = {1, 2, 3}
    Saturdays = {1, 2}
    Listed = {1, 2}
    Slots = {10, 11}
    Nobody = Nobody
    Nothing = Nothing
    Ops = {"book", "cancel", "add", "list", "remove", "leave"}
    MaxWrites = 2
