CONSTANTS
    Configs <- MCConfigs
    Catalog <- MCCatalog
    Compiling <- MCCompiling
    Mistyped = Mistyped
    Words = {"", "x", " x", "y", "["}
    Empty = ""
    Unpadded <- MCUnpadded
SPECIFICATION Spec
INVARIANTS
    TypeOK
    RefusedForFirstFault
    ValuesMerged
CHECK_DEADLOCK FALSE
