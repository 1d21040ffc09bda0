SPECIFICATION FairSpec
CONSTANTS
    Vendors = {vendor1}
    Changes = {{"date"}, {"date", "amount"}}
    RacingDeclines = FALSE
    MaxVersions = 4
INVARIANTS
    TypeOK
    OneContractInForce
    SignedByAll
PROPERTIES
    AnsweredOnce
    PaidPriceStays
    RequestEnds
    ClosedRequestIsQuiet
CHECK_DEADLOCK FALSE
