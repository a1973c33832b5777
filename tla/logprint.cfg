\* Twelve bytes, two calls: most pairs of directives meet the end of the array.
SPECIFICATION Spec
CONSTANTS
    Capacity = 12
    Char <- Strings
    Formats <- SmallFormats
    MaxCalls = 2
INVARIANT TextAsAsked
\* The bound on the calls ends it.
CHECK_DEADLOCK FALSE
