\* Three masters for two places, and the poll loop; slaves answer in time or not at all.
SPECIFICATION Spec
CONSTANTS
    Masters = {m1, m2, m3}
    Poller = poller
    Units = {u1}
    MaxConnections = 2
    MaxReqs = 2
    MaxLosses = 0
    LateReplies = FALSE
    None = none
SYMMETRY AnyMaster
INVARIANTS OneTransaction AnswersInOrder OwnAnswer
CHECK_DEADLOCK FALSE
