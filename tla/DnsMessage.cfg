SPECIFICATION ReplySpec
CONSTANTS
    Questions <- MCQuestions
    Names <- MCNames
    Addresses <- MCAddresses
    TransId <- MCTransId
    MaxAnswers = 2
INVARIANTS
    NamesRead
    Understood
CHECK_DEADLOCK FALSE
