SPECIFICATION Spec
CONSTANTS
    None = None
    alice = alice
    bob = bob
    carl = carl
    cora = cora
    north = north
    south = south
    east = east
    k1 = k1
    long = long
    OrderIds = {1, 2}
    Customers = {alice, bob}
    Couriers = {carl, cora}
    Addresses = {north, south, east}
    Keys = {k1, long}
    Requests = {r1, r2}
    Commands <- AssignCommands
    KeyLength <- MCKeyLength
PROPERTY
    BusyMeansOrderInProgress
