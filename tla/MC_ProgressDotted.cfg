\* The progress_point option written with '.' between packages, the form
\* the scope options accept; search_scopes values up to 2 characters.
CONSTANTS
    OptionChars = {"L", "a", ".", "|"}
    NameChars = {"L", "a", "/"}
    MaxValueLen = 2
    MaxIgnoredLen = 1
    MaxNameLen = 3
    OptionTails <- MCDottedTails
SPECIFICATION Spec
INVARIANT AcceptedProgressClassResolvable
CHECK_DEADLOCK FALSE
