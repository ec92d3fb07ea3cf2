\* One client, one login; the next one does not start.
SPECIFICATION Spec
CONSTANTS
    a1 = a1
    a2 = a2
    c1 = c1
    Accounts = {a1, a2}
    Clients = {c1}
    NoAccount = NoAccount
    MaxLogins = 1
    MaxVersion = 2
    MaxFaults = 1
SYMMETRY Symmetry
INVARIANTS
    LoginStrandsNobody
