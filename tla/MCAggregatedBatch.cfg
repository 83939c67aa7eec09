SPECIFICATION Spec
CONSTANTS
    None = None
    ValueError = ValueError
    Records <- MCRecords
    MaxRecords = 3
INVARIANTS
    RoundTrip
    NoPartialRecord
    EstimateCovers
