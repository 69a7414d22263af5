\* Three readers or two workers, and a cap of three and a half blocks: the last
\* request is a short one, and at the cap a stream ends while others are underway.
CONSTANTS
    Streams = {s1, s2, s3}
    Workers = {s1, s2}
    MaxStreams = 3
    MaxBytes = 7
    Block = 2
SPECIFICATION FairSpec
CHECK_DEADLOCK FALSE
INVARIANTS
    NeverAsksTooMuch
    OnlyLateReleasesRefuse
    ReportedIsCharged
PROPERTIES
    DownloadEnds
