SPECIFICATION Spec
CONSTANTS
    Senders = {s1, s2}
    JobCap = 2
    Dupes = TRUE
    MaxTicks = 4
INVARIANTS
    LoadTypeOK
    JobsCounted
    SentWereAccepted
    ExactUnlessFailed
PROPERTIES
    Reports
