CONSTANTS
  a1 = a1
  Admin <- OneAdmin
  MaxIds = 3
  MaxFiles = 2
SPECIFICATION BackupSpec
INVARIANTS LineageSurvivesImport
CHECK_DEADLOCK FALSE
