SPECIFICATION FairSpec
CONSTANTS
    c1 = c1  c2 = c2  s1 = s1  s2 = s2  g1 = g1  g2 = g2  r = r
    Clients = {c1, c2}
    Streams = {s1, s2}
    StreamOf <- EachItsStream
    NoClient = NoClient
    Generators = {g1, g2}
    FeedOf <- OneFeed
    NoGenerator = NoGenerator
    Demo = {g1}
    Producers = {g1, g2, r}
    BufCap = 1
    DropLimit = 0
    DropMax = 2
CHECK_DEADLOCK FALSE
INVARIANTS
    ClientsClosedOnce
PROPERTIES
    LaggardEvicted
    StoppedEnds
