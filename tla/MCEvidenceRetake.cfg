SPECIFICATION Spec
CONSTANTS
    Photos <- Bills
    Readable <- Sharp
    NoPhoto = NoPhoto
    Mailed = "mailed"
    Names <- CameraNames
    Requests = {r1}
    MaxUploads = 2
    MaxCorrections = 1
    MaxResets = 0
    MaxChanges = 3
INVARIANT FiguresAreOwn
