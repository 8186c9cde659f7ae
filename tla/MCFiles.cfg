CONSTANTS
    NFD = 2
    MaxIno = 6
    MaxMounts = 5
    Entries <- MCEntries
    Target <- MCTarget
    Calls <- MCCalls
SPECIFICATION Spec
INVARIANTS
    LookupExact
    OneInodePerEntry
    DescriptorsKept
    BootRoot
    StopsJustified
