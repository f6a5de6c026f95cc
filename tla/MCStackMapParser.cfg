SPECIFICATION Spec
CONSTANTS
  Tables <- MCTables
  Garbage = Garbage
INVARIANTS
  TablesRead
  RecordsAligned
  InSection
