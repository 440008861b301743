SPECIFICATION ListSpec
CONSTANTS
    PageNumbers <- MCPageNumbers
    UmMax = 2
    Small = 2
    MaxLength = 6
INVARIANTS
    ListsSound
    SearchFinds
    SortIsSafe
