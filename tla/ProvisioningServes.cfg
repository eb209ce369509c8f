SPECIFICATION Spec
CONSTANTS
    TelegramUsers = {u1}
    Labels = {}
    BotTasks = {b1, b2}
    ApiTasks = {a1}
    ConflictOnCreate = FALSE
    SecretInGet = TRUE
    MaxSecret = 1
    MaxFaults = 2
INVARIANT IdleStoresAgree
PROPERTIES EventuallyServed PressIsServed
