SPECIFICATION Spec
CONSTANTS
    m1 = m1
    m2 = m2
    Members = {m1, m2}
    Rank <- MCRank
    MaxOpen = 6
    MaxRounds = 2
    None = None
INVARIANT AnswersCounted
