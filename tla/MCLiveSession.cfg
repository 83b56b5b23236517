CONSTANTS
    r1 = r1
    r2 = r2
    r3 = r3
    Roots <- MCRoots
    Frame <- MCFrame
    Mappings <- MCMappings
    Identifiers = {0, 1}
SYMMETRY Symmetry
SPECIFICATION Spec
INVARIANT NoStaleTranslation
