\* Two requests with two files between them, a notification, and a cleanup that
\* takes one file at a time and may be cut short; the older file is failed, deleted
\* and saved by hand.
SPECIFICATION FairSpec
CONSTANTS
    MaxFiles = 2
    Requests = {r1, r2}
    NoRequest = NoRequest
    BatchSize = 1
    MaxFilesPerRequest = 2
    Handled = {1}
    MaxSaves = 1
INVARIANTS TypeOK NoLiveFileLosesItsBlob OrphansAreFaults StoredIsAnnounced WarnedWereAnnounced CompleteBatchIsAnnounced IInv
PROPERTIES ExpiredAreDeleted ImplementsCustody
