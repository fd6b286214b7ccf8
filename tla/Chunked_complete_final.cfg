\* The last part is recorded while another handler completes the session.
SPECIFICATION Spec
CONSTANTS
    Clients = {c1, c2}
    PartNumbers = {0, 1, 2, 3}
    SizeOf <- MCSizeOf
    Sizes = {0, 2, 5}
    ChunkSize = 2
    NoPart = NoPart
\* Once the file has expired, there is nothing left to do.
CHECK_DEADLOCK FALSE
PROPERTY CompleteIsFinal
