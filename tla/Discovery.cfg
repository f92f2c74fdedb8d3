SPECIFICATION Spec
CONSTANTS
    Wait = 2
    MaxErrors = 1
    c1 = c1
    c2 = c2
    c3 = c3
    i1 = i1
    i2 = i2
    a1 = a1
    a2 = a2
    nick = nick
    other = other
    Cameras = {c1, c2, c3}
    Interfaces = {i1, i2}
    Addresses = {a1, a2}
    Reach <- MCReach
    Name <- MCName
    FlashIp <- MCFlashIp
    OldFirmware = {c3}
    Urls <- MCUrls
    NoAddress = NoAddress
    BadAddress = BadAddress
    AllInterfaces = AllInterfaces
    MaxSearches = 2
INVARIANTS
    TypeOK
    WaitBounded
PROPERTIES
    SearchDecides
    ConfiguredAsAsked
    SearchEnds
CHECK_DEADLOCK FALSE
