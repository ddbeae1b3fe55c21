\* A request is being served when the signal arrives.
SPECIFICATION Spec
CONSTANTS
    Request = {r1}
    Environments <- SoundEnvironments
    KEKNames <- SomeKEKNames
    Words <- SomeWords
    KeyTexts <- SomeKeyTexts
    DefaultMaxBody = 64
INVARIANT ShutdownIsGraceful
CHECK_DEADLOCK FALSE
