SPECIFICATION Spec
CONSTANTS
    Postings = {p1, p2, p3}
    MaxId = 3
    None = None
SYMMETRY Symmetry
INVARIANTS
    TypeOK
    FlatFamilies
    AuditMatchesGrouping
    IdentityRecordedOnce
    StoredJDIsRegistered
PROPERTIES
    JDWriteOnce
    
    
