SPECIFICATION Spec
CONSTANTS
    MaxSms = 2
    MaxCmti = 2
    MaxUnplugs = 1
    MaxLate = 1
    MaxBacklog = 4
    QueueCapacity = 3
INVARIANTS NoCommandForgotten OnlyLateAnswersConfuse HangsOnlyWhenUnplugged
PROPERTIES Reconnects ReplyWritten
