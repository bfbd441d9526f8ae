SPECIFICATION EnrichSpec
CONSTANTS
    Postings = {p1, p2}
    MaxId = 2
    None = None
SYMMETRY Symmetry
VIEW CallView
PROPERTIES
    AnswerServesRequest
    UnavailableIsTrue
