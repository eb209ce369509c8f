SPECIFICATION Spec
CONSTANTS
    TelegramUsers = {}
    Labels = {l1}
    BotTasks = {}
    ApiTasks = {a1, a2, a3}
    ConflictOnCreate = FALSE
    SecretInGet = TRUE
    MaxSecret = 1
    MaxFaults = 1
INVARIANTS
    SecondConflictUnreachable
    DeletedLabelsDisabled
    LinkAnswersStayTrue
    IndInv
PROPERTY EveryRequestEnds
