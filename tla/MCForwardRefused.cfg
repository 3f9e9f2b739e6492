SPECIFICATION FairForwardSpec
CONSTANTS
    h1 = h1
    h2 = h2
    m1 = m1
    m2 = m2
    r1 = r1
    r2 = r2
    Cards = {h1, h2}
    Home = h1
    Members = {m1, m2}
    Peer = m1
    Requests = {r1, r2}
    FirstRoutes = {"peer", "phone", "group", "selection", "assist", "refused"}
    LaterRoutes = {"peer", "phone", "group", "assist", "refused"}
    Policies = {"resume", "terminate"}
    Nobody = Nobody
INVARIANTS
  ResumeRestores
CHECK_DEADLOCK FALSE
