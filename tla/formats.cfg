\* Three frames of either kind fed in both ways; two packets of up to two bytes that mean
\* something, packed in every way; pictures of three segments of up to two blocks; two
\* changes of address.
CONSTANTS
    MaxFrames = 3
    Body = 2
    Leads = {0, 1}
    Sources = {"packets", "reads"}
    MaxPackets = 2
    MediaBytes = {36, 28}
    MaxMedia = 2
    MaxPreface = 1
    Contributors = {0, 1}
    Words = {0, 1}
    Paddings = {0, 2}
    Before = {0, 1}
    Block = 2
    HeaderLen = 2
    HashLen = 4
    MaxSegments = 3
    MaxBlocks = 2
    Hosts = {"10.0.0.2"}
    Ports = {554}
    MaxChanges = 2
SPECIFICATION FormatsSpec
CHECK_DEADLOCK FALSE
INVARIANTS
    TypeOK
    PacketsAreExact
    NoForeignData
    CutsAreLocal
    MediaInStep
    CutPictureIsPrefix
    WholePictureIsExact
    InventoryAgrees
