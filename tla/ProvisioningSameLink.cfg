SPECIFICATION Spec
CONSTANTS
    TelegramUsers = {u1}
    Labels = {}
    BotTasks = {b1, b2}
    ApiTasks = {}
    ConflictOnCreate = FALSE
    SecretInGet = FALSE
    MaxSecret = 1
    MaxFaults = 0
INVARIANT SameLinkEveryTime
