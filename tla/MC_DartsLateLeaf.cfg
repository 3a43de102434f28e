SPECIFICATION Spec
CONSTANTS
    Width = 2
    Initial = 60
    Jobs <- LateJobs
    Probes <- MCProbes
    NoJob = NoJob
INVARIANTS NeverCores
\* an object with a failed build and no file can only be cleared and built again
CHECK_DEADLOCK FALSE
