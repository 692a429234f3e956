SPECIFICATION JournalSpec
CONSTANTS
    e1 = e1
    e2 = e2
    e3 = e3
    Entries = {e1, e2, e3}
    Undecodable = {e3}
    MaxRecords = 4
    MaxFileRecords = 3
ACTION_CONSTRAINT OneLateAppend
INVARIANTS
    JournalTypeOK
    OpensToWhatWasAcknowledged
    HealthyJournalReopens
PROPERTIES
    AcknowledgedForEver
