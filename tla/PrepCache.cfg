\* Room for three of seven keys: two threads with and without eviction.
CONSTANTS
    Threads = {t1, t2}
    CacheTemplates <- MCTemplates
    TemplateKeys <- MCKeys
    Tokenized <- MCTokenized
    cache_key <- MCcache_key
    maximum_entries = 3
    MaxCalls = 3
SPECIFICATION CacheSpec
SYMMETRY Symmetry
CHECK_DEADLOCK FALSE
INVARIANTS
    AnswersMatch
    PublishedOnce
