\* Two runs that share a company, imported by two sessions.
SPECIFICATION Spec
CONSTANTS
    Runs = {"r1", "r2"}
    Files <- MCFiles
    RunOf <- MCRunOf
    KindOf <- MCKindOf
    IdOf <- MCIdOf
    CompanyOf <- MCCompanyOf
    Importers = {p1, p2}
    Postgres = TRUE
    LongFiles = {1}
    Rewrites = FALSE
    MaxVersions = 1
    MaxImports = 3
INVARIANTS
    RowsTrue
    LinksResolve
PROPERTIES
    PriorRowsKept
    LinkedWhenKnown
CHECK_DEADLOCK FALSE
SYMMETRY MCSymmetry
