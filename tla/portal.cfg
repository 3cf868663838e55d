CONSTANTS
    t1 = t1
    t2 = t2
    c1 = c1
    c2 = c2
    w1 = w1
    n1 = n1
    n2 = n2
    Unassign = Unassign
    Nobody = Nobody
    Reset = Reset
    Status = Status
    NoForm = NoForm
    Disturbed = Disturbed
    NoFile = NoFile
    NoSid = 0
    Gone = Gone
    NoPage = NoPage
    NoTab = NoTab
    Sid <- MCSid
    Tab <- MCTab
    Case <- MCCase
    Worker <- MCWorker
    Need <- MCNeed
    File <- MCFile
    Scenario <- MCScenario
    Listed = 1
    MaxReleases = 1
SPECIFICATION FairSpec
INVARIANTS TypeOK BannerWasEarned CalmBannerIsLatest CalmFormIsOwn ReturnsWhereAsked
PROPERTIES ReadOnlyTakesEffect RequestsEnd
