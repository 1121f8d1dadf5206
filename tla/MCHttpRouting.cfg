\* Every request of MCHttpRouting, cut at any place.
CONSTANTS
    Word <- AllWords
    Request <- Requests
    Nobody = Nobody
SPECIFICATION RoutingSpec
INVARIANTS
    UnderstoodAsMeant
    WorksForSomebody
    MostSpecific
