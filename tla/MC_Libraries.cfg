SPECIFICATION LibrariesSpec
CONSTANTS
    Width = 2
    Initial = 60
    Jobs <- MCJobs
    Probes <- MCProbes
    NoJob = NoJob
    t1 = t1
    t2 = t2
    t3 = t3
INVARIANTS DartsIsADictionary DartsStaysInside WordsAreFound CharIsItsCode StringIsItsText
           ConfigurationIsTheFile FormatsAgree HelpersAgree OneObject
PROPERTIES ArrayGrowsByLine BuildReturns
\* calls are bounded, and a text has an end
CHECK_DEADLOCK FALSE
