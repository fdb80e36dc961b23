SPECIFICATION FairBoot
CONSTANTS
  Interfaces <- MCInterfaces
  PoolOf <- MCPoolOf
  MaxWorkers = 2
  MaxFailures = 1
  Files <- MCFiles
  Cores = {0, 2}
INVARIANTS StartsSafely ServesWhatTheFileSays LogsAsConfigured ReloadsWhatItWrote
PROPERTY ComesUpOrBack
