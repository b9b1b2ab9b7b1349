\* Every pair of conversations of up to three messages over two roles and
\* two contents.
CONSTANTS
    Roles <- MCRoles
    Contents <- MCContents
    MaxLen = 3
SPECIFICATION Spec
CHECK_DEADLOCK FALSE
INVARIANT
    FormatCorrect
