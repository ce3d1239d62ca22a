CONSTANTS
    NULL = NULL
    Unread = unread
    AddressMax = 2
    SubaddressMax = 2
    BearerMax = 2
    InfoRecsMax = 2
    AlphaMax = 2
    NumberMax = 1
    Versions = {2, 3, 4, 5, 6, 7}
    Payloads <- MCPayloads
    Responses <- MCResponses
SPECIFICATION Spec
CHECK_DEADLOCK FALSE
INVARIANTS
    NoNumberMadeUp
    CutRequestHonest
    SameFormat
    CallsReadBack
    SignalReadable
    NetworksGrouped
    RefusedReplyMarked
