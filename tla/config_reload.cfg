\* Any file of two lines, edited between the calls of load().
SPECIFICATION Spec
CONSTANTS
    Files <- SmallFiles
    NoFile = NoFile
INVARIANT ReloadTakesEffect
