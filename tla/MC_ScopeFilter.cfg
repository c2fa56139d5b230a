\* search_scopes values up to 3 characters and ignored_scopes values up to
\* 2 over {L, a, ., |}, followed by every option list of MCTails; class
\* names up to 3 characters over {L, a, /}.
CONSTANTS
    OptionChars = {"L", "a", ".", "|"}
    NameChars = {"L", "a", "/"}
    MaxValueLen = 3
    MaxIgnoredLen = 2
    MaxNameLen = 3
    OptionTails <- MCTails
SPECIFICATION Spec
INVARIANT AllowedScopeDivergesOnlyOnMarkerScopes
\* After a class is classified the agent keeps loading classes; an agent
\* that reported a configuration error takes no further step.
CHECK_DEADLOCK FALSE
