CONSTANTS
    Backup <- MCBackup
    RowSources <- MCRowSources
    RowCount = 2
    MaxPlan = 1
    Compensable = {"message", "memory"}
SPECIFICATION MigrationSpec
INVARIANTS UndoneReadsBack
CHECK_DEADLOCK FALSE
