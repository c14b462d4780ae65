SPECIFICATION Spec
CONSTANTS
    r1 = r1
    r2 = r2
    anna = anna
    NoEmail = NoEmail
    NoRow = NoRow
    Requests <- MCRequests
    Emails <- MCEmails
    Life = 1
    MaxSerial = 4
SYMMETRY Interchangeable
INVARIANTS
    TypeOK
    ErasedStaysErased
    DeletedStaysDeleted
PROPERTIES
    ExpiredUnread
    LiveWritesOrdered
CHECK_DEADLOCK FALSE
