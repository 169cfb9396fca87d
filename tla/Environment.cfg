SPECIFICATION FairSpec
CONSTANTS
    Threads = {t1, t2}
    Conns = {c1}
    NULL = NULL
    Failures = {"loadLib", "loadLibValidate", "envNlsCreate", "errorAlloc", "threadKeyInit", "threadKeyGet", "threadKeySet", "contextAlloc", "lookupCharSet", "poolCreate", "initHandle", "lookupEncoding", "sodaMetadataCache", "attach", "descriptorAlloc", "nlsCharSetConvert", "dateTimeConstruct"}
INVARIANTS OneEnvironment ReadyForCalls ReturnsToLivePool
PROPERTY CallsEnd
CHECK_DEADLOCK FALSE
