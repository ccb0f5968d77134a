SPECIFICATION Spec
CONSTANTS
    Producers = {p1}
    Starts <- MCStarts
    Offered <- MCOffered
    Filters <- MCFilters
    MaxLength = 2
    MaxAccepted = 1
INVARIANTS
    DigestNamesMeaning
    OneAcceptedEncoding
