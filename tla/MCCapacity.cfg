SPECIFICATION RegenerationSpec
CONSTANT Documents <- MCDocuments
CONSTANT Files <- MCFiles
INVARIANT OnlyCapacityOne
