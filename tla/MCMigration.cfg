CONSTANT CacheLag = 3
SPECIFICATION FairSpec
INVARIANTS NoDowntime
PROPERTIES MigrationCompletes
