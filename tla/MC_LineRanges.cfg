\* Tables of up to three entries over bytecode indices 0..4 and two source
\* lines, so that a line can own two disjoint ranges (a loop body); class
\* names of up to three characters with a package separator and a nested
\* class marker, in every position.
CONSTANTS
    MaxBci = 4
    Lines = {10, 20}
    MaxEntries = 3
    NameChars = {"a", "/", "$"}
    MaxNameLen = 3
SPECIFICATION Spec
INVARIANT SamplesChargedOnSelectedLine RowNamesSelectedClassAndLine
