SPECIFICATION Spec
CONSTANTS
    Bar = "|"
    NotRows = NotRows
    NoBaseline = NoBaseline
    Texts <- MCTexts
    Words <- MCWords
INVARIANTS
    OrderIsPermutation
    PermutationIsOrder
\* A comparison is one step.
CHECK_DEADLOCK FALSE
