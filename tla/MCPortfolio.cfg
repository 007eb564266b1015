SPECIFICATION Spec
CONSTANTS
    c1 = c1
    c2 = c2
    c3 = c3
    srv = srv
    srv2 = srv2
    app = app
    Inspected <- ThreeContainers
    Stocks <- OneEach
    Zero = Zero
    Unknown = Unknown
    Watch = Watch
    Listings = {listing}
    listing = listing
    User = User
    MaxCalls = 3
INVARIANT TypeOK
PROPERTIES
    ImplementsPortfolioSet
    AllSeen
    TotalRight
    PauseNotLost
