SPECIFICATION Spec
CONSTANTS
    r1 = r1
    r2 = r2
    r3 = r3
    alice = alice
    bob = bob
    office = office
    Requests = {r1, r2, r3}
    Clients = {alice, bob}
    Ips = {office}
    ClientOf <- OfficeClients
    IpOf <- OfficeIps
    ClientLimit = 1
    IpLimit = 2
    DailyLimit = 1
    Window = 2
    Horizon = 3
SYMMETRY SameGuests
INVARIANTS
    WindowCeiling
    DayAccounting
CHECK_DEADLOCK FALSE
