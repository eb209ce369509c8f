SPECIFICATION Spec
CONSTANTS
    TelegramUsers = {u1}
    Labels = {}
    BotTasks = {b1}
    ApiTasks = {a1}
    ConflictOnCreate = FALSE
    SecretInGet = TRUE
    MaxSecret = 1
    MaxFaults = 0
INVARIANT ListedStatusIsTelemts
