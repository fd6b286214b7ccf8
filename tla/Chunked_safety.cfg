\* Three handlers; files of no, one and three parts; part number 0 is sent by a client
\* that counts from zero.
SPECIFICATION Spec
CONSTANTS
    Clients = {c1, c2, c3}
    PartNumbers = {0, 1, 2, 3}
    SizeOf <- MCSizeOf
    Sizes = {0, 2, 5}
    ChunkSize = 2
    NoPart = NoPart
\* Once the file has expired, there is nothing left to do.
CHECK_DEADLOCK FALSE
SYMMETRY ClientSymmetry
INVARIANTS TypeOK CountTracksParts BytesTrackParts StoredHasEnoughParts StoredHasEveryPart
    CompleteSettlesFile IInv
PROPERTIES FailedFileStaysFailed ImplementsAssembly
