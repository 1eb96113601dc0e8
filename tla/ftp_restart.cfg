SPECIFICATION Spec
CONSTANTS
    s1 = s1  s2 = s2  s3 = s3  s4 = s4  t1 = t1  t2 = t2  t3 = t3
    None = None
    Starts = {s1, s2, s3}
    Stops = {t1, t2}
    Faults = {}
INVARIANT StatusIsTrue
