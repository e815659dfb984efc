CONSTANTS
    c1 = c1
    c2 = c2
    Clients = {c1, c2}
    Plans <- WritingPlans
    Retention = 1
    MaxOutcomes = 3
SPECIFICATION Spec
SYMMETRY Symmetry
INVARIANTS
    OutcomeTellsWrites
    JournalTellsWrites
PROPERTIES
    RecentOutcomesSurvive
CHECK_DEADLOCK FALSE
