\* Good and bad configurations; requests may hang; the process ends for good.
SPECIFICATION FairSpec
CONSTANTS
    Request = {r1, r2}
    Environments <- SomeEnvironments
    KEKNames <- SomeKEKNames
    Words <- SomeWords
    KeyTexts <- SomeKeyTexts
    DefaultMaxBody = 64
INVARIANTS
    ServesOnlyIfSound
    KeysAreThoseListed
PROPERTIES
    WatchdogWarns
    SignalEndsProcess
CHECK_DEADLOCK FALSE
