SPECIFICATION Spec
CONSTANTS
    Keys <- MCKeys
    limit = 2
    window = 3
    TicksPerSecond = 2
    Requests = {r1, r2}
    Subjects = {ann, bob}
    Passwords = {right, wrong}
    Logins <- MCLogins
    Registrations <- MCRegistrations
    Stored <- MCStored
    None = None
    r1 = r1
    r2 = r2
    net = net
    ann = ann
    bob = bob
    right = right
    wrong = wrong
INVARIANTS
    BudgetsAreExact
    IInv
PROPERTY HashOnlyImproves
SYMMETRY MCSymmetry
