\* Three concurrent activations of three versions.
SPECIFICATION FairSpec
CONSTANTS
    Versions = {v1,v2,v3}
    NoVersion = none
    Txns = {t1,t2,t3}
    NoTx = notx
INVARIANTS
    TypeOK
PROPERTIES
    ImplementsStore
    ActivationsEnd
