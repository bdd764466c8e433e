\* Three slots and five reports: the indexes wrap, and the queue (of two
\* reports) is full while one is being received and another written.  Three
\* events and a history of two, so that it goes round as well.
CONSTANTS
    kQueueDepth = 3
    MaxReports = 5
    MaxSession = 2
    kHistoryDepth = 2
    MaxEvents = 3
    MaxFaults = 1
SPECIFICATION FairLabSpec
INVARIANTS TypeOK NeverTheSameSlot SessionIsRecorded
PROPERTIES IsFifo AcceptedIsReceived
\* The host may stop sending.
CHECK_DEADLOCK FALSE
