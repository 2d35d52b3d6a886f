SPECIFICATION Spec
CONSTANTS
  Arts = {"icon", "preview"}
  Icons = {"icon"}
  MaxRetries = 1
  MaxJobs = 2
  MaxCleans = 1
INVARIANTS TypeOK JobsAreKept CacheIsResumed
PROPERTY JobsEnd
