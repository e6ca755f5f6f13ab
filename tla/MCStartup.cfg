\* The start of the shell beside the download script and G.
SPECIFICATION StartupSpec
CONSTANTS
    BlockLen = 2
    MacLen = 1
    StampLen = 1
    IvLen = 1
    Places <- MCPlaces
    Named = "named"
    Machines <- MCMachines
    Here = "here"
    Nobody = "nobody"
    Texts <- MCTexts
    KeyNames <- MCKeyNames
    Main = "main"
    Contents <- MCContents
    Written <- MCWritten
    Torn = Torn
    Absent = Absent
    MaxWrites = 1
    Files <- MCFiles
    Blocks = 2
    NoFile = NoFile
    Models <- MCFiles
INVARIANTS
    EachKeyOnItsOwn
    FirstPlaceWins
    WholeUnlessCut
