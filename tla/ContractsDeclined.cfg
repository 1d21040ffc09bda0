SPECIFICATION Spec
CONSTANTS
    Vendors = {vendor1}
    Changes = {{"date"}, {"date", "amount"}}
    RacingDeclines = TRUE
    MaxVersions = 4
PROPERTY OnlyPendingDeclined
CHECK_DEADLOCK FALSE
