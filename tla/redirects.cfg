CONSTANTS
    a = a
    b = b
    qa = qa
    na = na
    qb = qb
    yes = yes
    no = no
    text = text
    tome = tome
    blank = blank
    t1 = t1
    t2 = t2
    CheckAnswers = CHECK_ANSWERS
    NoAnswer = NoAnswer
    NoCache = NoCache
    NoSheet = NoSheet
    Elsewhere = Elsewhere
    Page <- MCPage
    Question <- MCQuestion
    PageOf <- MCPageOf
    Answer <- MCAnswer
    Nested <- MCNested
    ListedPages <- MCListedPages
    QuestionType <- MCQuestionType
    Mandatory <- MCQuestion
    Matching <- MCMatching
    Length <- MCLength
    Input <- MCInput
    WithoutFreeText = {}
    ShortLimit = 1
    LongLimit = 2
    Blank = blank
    Bad = tome
    NextPage <- MCNextPage
    Complete <- MCComplete
    FirstPage = a
    Version = {1, 2}
    Tab = {t1}
    Concurrent = FALSE
    ProfileEdits = TRUE
    MaxHistory = 3
    Mishaps = {}
    MaxMishaps = 0
    MaxRequests = 0
SPECIFICATION FairSpec
PROPERTIES PathwayOpens OnlyCheckAnswersLoops ValidJourneyIsKept VersionPinned
