\* Two logins of two accounts, one kind of trouble at a time.
SPECIFICATION Spec
CONSTANTS
    a1 = a1
    a2 = a2
    c1 = c1
    c2 = c2
    Accounts = {a1, a2}
    Clients = {c1, c2}
    NoAccount = NoAccount
    MaxLogins = 2
    MaxVersion = 3
    MaxFaults = 1
SYMMETRY Symmetry
VIEW View
CONSTRAINT OneTrouble
INVARIANTS
    TypeOK
    StoredIsOwn
    ActiveIsInUse
    ListedHasCredential
    ListedCanReturn
