SPECIFICATION Spec
CONSTANTS
    p = p
    s = s
    node = node
    Actors = {p, s, node}
    None = None
    Node = node
    Scripts <- AllScripts
    MaxAnswers = 1
INVARIANTS
    TypeOK
    SubscribersGetOne
    OrderKept
    CallbacksMatch
    NodeIsTold
PROPERTIES
    AnswerArrives
