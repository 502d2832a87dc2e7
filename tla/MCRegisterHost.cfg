SPECIFICATION HostSpec
CONSTANTS
    n1 = n1
    Hosts = {1}
    Names = {n1}
    Mirror = Mirror
    NoRecord = NoRecord
    Values = {1}
    ValueFlags = {0}
    Origins = {1}
    RemoteRecords <- MCRemoteRecords
    TtlMs = 2
    MaxCount = 1
    MaxWall = 3
    MaxCounter = 1
    FloorBatchMs = 1
INVARIANTS HostTypeOK ClockCoversStore NotedSurvivesRestart ClockCoversFile
PROPERTIES OnlyRestartsRegress NoDeadOnArrival
