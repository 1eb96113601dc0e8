SPECIFICATION Spec
CONSTANTS
    u1 = u1  u2 = u2  u3 = u3  u4 = u4  d1 = d1  d2 = d2  g1 = g1
    x = x  y = y  c1 = c1  c2 = c2
    top = top  cam = cam  aux = aux  today = today  tomorrow = tomorrow
    None = None
    Stems = {x, y}
    Contents = {c1, c2}
    Photos <- MCPhotos
    Root = top
    Dirs = {top, cam, aux, today, tomorrow}
    Days = {today}
    Requests <- ClashRequests
    Uploads = {u1, u2}
    Deletes = {}
    Reads = {}
    Waiting = {}
    CrossDevice = FALSE
    Faults = {}
    FtpFileOps = {}
SYMMETRY OpSymmetry
INVARIANT RowsReadable
