SPECIFICATION Spec
CONSTANTS
    s1 = s1
    s2 = s2
    Session = {s1, s2}
    Text = {"a", "b"}
    MaxChars = 3
    MaxMessages = 2
    OtherSources = {"gateway"}
    Modes <- MCStream
    MaxLines = 3
    Done = Done
    Nothing = Nothing
    Size <- MCSize
INVARIANTS
    StreamKeepsItsConsumer
SYMMETRY Sessions
CHECK_DEADLOCK FALSE
