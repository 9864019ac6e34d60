CONSTANTS
    t1 = t1
    t2 = t2
    Tab = {t1, t2}
    ann = ann
    bob = bob
    User = {ann, bob}
    k1 = k1
    k2 = k2
    Token = {k1, k2}
    Null = Null
SPECIFICATION FairSpec
INVARIANTS TokenMatchesSession
PROPERTIES TabsSettle
CHECK_DEADLOCK FALSE
