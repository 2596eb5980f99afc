\* Sign-ins, removals, a connect, a sign-out everywhere and the deletion of the
\* account, in the groups of Together.
CONSTANTS
    g1 = g1
    g2 = g2
    o1 = o1
    o2 = o2
    i1 = i1
    i2 = i2
    n1 = n1
    c1 = c1
    c2 = c2
    c3 = c3
    c4 = c4
    None = None
    SignIns = {i1, i2}
    Connects = {n1}
    Calls = {c1, c2, c3, c4}
    TripOf <- MCTripOf
    Removals = {"x1", "x2"}
    SignOuts = {"w1"}
    Closings = {"k1"}
    Accounts = {g1, g2, o1, o2}
    ProviderOf <- MCProviderOf
    EmailOf <- MCEmailOf
    Beta = {"a@x", "b@x"}
SPECIFICATION Spec
CONSTRAINT Together
CHECK_DEADLOCK FALSE
INVARIANTS
    UsersCanComeBack
    NothingOfTheDeleted
PROPERTIES
    AccountsStayWithTheirUser
    EndedSessionsStayEnded
