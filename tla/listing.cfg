SPECIFICATION FairSpec
CONSTANTS
    Ids = {1, 2, 3}
    Photos <- MCPhotos
    Limits = {1, 2, 3}
    DefaultLimit = 2
    MaxLimit = 2
    MaxTime = 3
    MaxUploads = 2
    None = None
INVARIANTS NoRepeats Complete
PROPERTY PagingEnds
