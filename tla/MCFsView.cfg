SPECIFICATION Spec
CONSTANTS
    Names = {"a", "b", "h", "l", "r", "t", "."}
    Ids = {1, 2, 3, 4, 5, 6, 7, 8, 9, 10, 11, 12, 13, 14, 15, 16}
    NoBinding = NoBinding
    NotLink = NotLink
    None = None
    MaxLinks = 3
    Tracees = {1, 2}
    Spaces = {1, 2}
    Worlds <- MCWorlds
    UserPaths <- MCUserPaths
    Lookups <- MCLookups
    Probes <- MCProbes
    Binds <- MCBinds
    Pivots <- MCPivots
    Renames <- MCRenames
    Special <- MCSpecial
    Scratch <- MCScratch
    Guests <- MCGuests
CHECK_DEADLOCK FALSE
INVARIANTS ResolvesLikeLinux CwdNamesItsDirectory UmountUndoesMount
PROPERTIES ChildSeesTheSame
