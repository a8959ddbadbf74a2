CONSTANTS
    Messages <- SentMessages
    Noise = {6, 128}
    MaxFaults = 3
SPECIFICATION Spec
INVARIANTS
    AcceptedAsSent
    OneErrorRepaired
