\* Two clients with a place each, and three clients for one place.
SPECIFICATION Spec
CONSTANTS
    Connections = {c1, c2, c3}
    PagesOf <- MCPagesOf
    Pong = Pong
    MaxRevisions = 2
    Settings <- MCSettings
INVARIANTS TypeOK FetchingClientIsCurrent AtMostOnce DocumentBeforeEvent ClosedGivesPlaceBack
SYMMETRY Symmetry
