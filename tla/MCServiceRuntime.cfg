\* Three submissions on a machine with two processors.
CONSTANTS
    s1 = s1
    s2 = s2
    s3 = s3
    Submissions = {s1, s2, s3}
    Workers = 2
    RemoteMemory = TRUE
SPECIFICATION RuntimeSpec
PROPERTY RetrievalIsHarmless
CHECK_DEADLOCK FALSE
