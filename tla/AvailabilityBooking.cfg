SPECIFICATION Spec
CONSTANTS
    Requests = {r1, r2}
    Items = {car}
    ItemOf <- MCItemOf
    CustomerOf <- MCCustomerOf
    Taps = {t1, t2}
    Pollers = {p1, p2}
    Server = p1
    Messages = {m1, m2}
    MaxFaults = 2
    None = None
    r1 = r1
    r2 = r2
    car = car
    cust = cust
SYMMETRY Symmetric
CHECK_DEADLOCK FALSE
INVARIANTS TypeOK OrphanNeedsCut ClaimHasTurn
PROPERTIES LinkStays KeepsPromise
