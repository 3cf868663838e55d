CONSTANTS
    t1 = t1
    t2 = t2
    s1 = s1
    s2 = s2
    NoCache = NoCache
    Elsewhere = Elsewhere
    SectionOf <- MCSectionOf
    Updatable <- MCUpdatable
    AllowUserDesc = {1}
    NeedCount = 3
    Tab = {t1, t2}
    Mishaps = {}
    MaxMishaps = 0
    MaxForms = 2
    MaxRequests = 0
SPECIFICATION Spec
PROPERTIES ValidatedSectionsAnswered
