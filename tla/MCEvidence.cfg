SPECIFICATION Spec
CONSTANTS
    Photos <- Bills
    Readable <- Sharp
    NoPhoto = NoPhoto
    Mailed = "mailed"
    Names <- CameraNames
    Requests = {r1, r2}
    MaxUploads = 2
    MaxCorrections = 1
    MaxResets = 1
    MaxChanges = 3
SYMMETRY Interchangeable
INVARIANTS
    EvidenceTypeOK
    RowsHaveTheirFile
    FiguresAreOwnUnlessFreed
    CorrectionsStand
