SPECIFICATION Spec
SYMMETRY Symmetry
CONSTANTS
    None = None
    Clients = {c1, c2}
    Properties = {value_history, sensors_config}
    TextProperties = {}
    NumberProperties = {value_history}
    ConfigProperties = {sensors_config}
    Payloads = {n1, n2, config, blank}
    Numbers = {n1, n2}
    Configs = {config}
    Unusable = {blank}
    Blank = blank
    MaxInbox = 2
INVARIANTS
    TypeOK
    SettledSettingIsRetained
    PoisonNeverRests
