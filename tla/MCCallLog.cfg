SPECIFICATION CallLogSpec
CONSTANTS
LogLimit = 2
RowLimit = 3
MaxRecords = 4
MaxContacts = 2
MaxStarts = 2
INVARIANTS LogIsTable EntryMeansItsContact
PROPERTIES RecordsAreWritten
CHECK_DEADLOCK FALSE
