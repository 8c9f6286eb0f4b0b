SPECIFICATION RegenerationSpec
CONSTANT Documents <- MCDocuments
CONSTANT Files <- MCFiles
INVARIANT RegeneratesSame
INVARIANT LoadsWhatIsDeclared
