SPECIFICATION HooksSpec
CONSTANTS
    Session = {"s1"}
    MaxLines = 2
    MaxHooks = 2
    MaxErrors = 1
INVARIANTS
    FlushedAtStop
