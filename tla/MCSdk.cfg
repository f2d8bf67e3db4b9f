SPECIFICATION SdkSpec
CONSTANTS
    Request = {t1, t2}
    Ticks = {tick}
    BundleNow = {}
    Account = {ann}
    Modes <- MCModes
    InitialMode <- Timed
    Foreign = foreign
    MaxBlocks = 2
    NodeMayErr = TRUE
    SenderOf <- MCSenderOf
SYMMETRY Symmetry
INVARIANTS SdkTypeOK NobodyIsStuck NoSelfInflictedCrash OutcomeIsTrue PhantomFlagIsRight
CHECK_DEADLOCK FALSE
