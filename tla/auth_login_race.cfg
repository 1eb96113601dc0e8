SPECIFICATION Spec
CONSTANTS
    l1 = l1  l2 = l2  l3 = l3  o1 = o1  o2 = o2  u1 = u1  u2 = u2
    f1 = f1  f2 = f2  f3 = f3  q1 = q1
    admin = admin  camera = camera  p0 = p0  p1 = p1  p2 = p2
    Keep = Keep  Blank = Blank  None = None
    Logins = {l1, l2}
    Logouts = {}
    Updates = {u1}
    FtpUpdates = {}
    Calls = {}
    Names = {admin}
    Passwords = {p0, p1}
    SeedName = admin
    SeedPassword = p0
    SeedFtpName = admin
    SeedFtpPassword = p0
    SeedFtpAnonymous = FALSE
    Faults = {}
SYMMETRY KindSymmetry
INVARIANT NoSessionFromOldPassword
