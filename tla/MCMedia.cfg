SPECIFICATION Spec
CONSTANTS
    NoAddr = NoAddr
    NoFmtp = NoFmtp
    NoMedia = NoMedia
    Invalid = Invalid
    NoCodec = NoCodec
    Other = Other
    Down = Down
    NoReply = NoReply
    Bare = Bare
    InitialOffers <- MCInitialOffers
    InitialAnswers <- MCInitialAnswers
    Reoffers <- MCReoffers
    MaxOffers = 3
    UpdateCapacity = 1
    Local = "local"
    AudioPort = 40000
    VideoPort = 40002
    MaxWidth = 1280
INVARIANTS LastAnswerRules EndsAgree
PROPERTY OffersAnswered
CHECK_DEADLOCK FALSE
