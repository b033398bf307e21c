CONSTANTS
    Entries <- FewDates
    Links <- TwoLinks
    Today = 20250615
    MaxEdits = 3
    MaxRedeploys = 1

SPECIFICATION Spec
INVARIANT NeverMisread
INVARIANT ClearStaysClear
INVARIANT ResultIsOfForm
