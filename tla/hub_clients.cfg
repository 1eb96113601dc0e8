SPECIFICATION FairSpec
CONSTANTS
    c1 = c1  c2 = c2  s1 = s1  s2 = s2
    None = None
    Clients = {c1, c2}
    Senders = {s1}
INVARIANTS FedOrClosed NoChangeMissed
PROPERTIES BroadcastEnds DeadLeave
