\* Two entries of up to three characters, hosts of up to five; the caps within reach.
\* A load ends.
CONSTANTS
    MaxHost = 3
    MaxLabel = 2
    Literals <- MCLiterals
    MaxEntries = 2
    MaxText = 3
SPECIFICATION Spec
INVARIANTS
    TypeOK
    PermitsByLabels
    SpellingIsIrrelevant
CHECK_DEADLOCK FALSE
