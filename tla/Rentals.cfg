SPECIFICATION FairSpec
CONSTANTS
    chairs = chairs
    tent = tent
    Items <- MCItems
    Customers = {c1, c2}
    Forms <- MCForms
    Stocks <- MCStocks
    Ticks = 2
    MaxRentals = 3
    MaxEdits = 1
    Nobody = Nobody
INVARIANTS
    TypeOK
PROPERTIES
    BookedWithinStock
    CheckoutEnds
CHECK_DEADLOCK FALSE
