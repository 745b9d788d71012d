SPECIFICATION FairSpec
CONSTANTS
    Mounts = {m1, m2, m3}
    Allowed = {m1, m2}
INVARIANTS TypeOK OnlyAllowedMounted ErrorIsFinal
PROPERTY WaitingMountSettled
CHECK_DEADLOCK FALSE
