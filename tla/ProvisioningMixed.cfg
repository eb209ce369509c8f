SPECIFICATION Spec
CONSTANTS
    TelegramUsers = {u1}
    Labels = {l1}
    BotTasks = {b1, b2}
    ApiTasks = {a1}
    ConflictOnCreate = TRUE
    SecretInGet = TRUE
    MaxSecret = 2
    MaxFaults = 1
SYMMETRY TaskSymmetry
INVARIANTS TypeOK RowsHaveTelemtUser SecretsWereIssued
PROPERTY RefinesLifecycle
