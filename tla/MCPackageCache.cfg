\* Four packages; at most two faults of seven in a build.
CONSTANTS
    Packages <- MCPackages
    Listing <- MCListing
    Imports <- MCImports
    TestPaths = {"t.test", "c.test"}
    Bare = {"c"}
    Faults <- MCFaults
    MaxFaults = 2
    None = None
SPECIFICATION Spec
INVARIANTS
    TypeOK
    CachePristine
    OneDescription
    OwnFaultsOnly
PROPERTIES
    BuildEnds
    RefinesBuild
