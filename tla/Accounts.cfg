SPECIFICATION Spec
CONSTANTS
    c1 = c1
    c2 = c2
    c3 = c3
    Calls = {c1, c2, c3}
    e1 = e1
    Earlier = {e1}
    None = None
    Addresses <- MCAddresses
    Normalised <- MCNormalised
    Passwords = {"p1", "p2"}
    Otps = {"o1", "o2"}
    Offers <- MCOffers
    Openings <- MCOpenings
    PoolSize = 2
SYMMETRY Symmetry
INVARIANTS
    TypeOK
    OneAccountPerAddress
    AccountsHaveWallets
    AnswersAreTrue
    StoredCodeIsDelivered
    TokensAreHonoured
PROPERTIES
    ImplementsAccountLifecycle
