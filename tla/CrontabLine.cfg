\* The month field, IntMax scaled to 99: atoi() makes -1 of 199 and 1 of 201.
CONSTANTS
    Low = 1
    High = 12
    NameCount = 12
    IntMax = 99
    Numbers = {0, 1, 5, 13, 98}
    Wide = {199, 201}
    Months = {0, 3}
    RawLength = 4
    Texts <- MCTexts
    Lines <- MCLines
    Dates <- MCDates
    MaxLength = 6
SPECIFICATION Spec
CHECK_DEADLOCK FALSE
INVARIANTS TypeOK FieldRight RunsWhenMeant CommandSplit
