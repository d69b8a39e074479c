SPECIFICATION SessionSpec

CONSTANTS
    Tabs = {tab1}
    Wallets = {anna, ben}
    Nobody = nobody
    Old = old
    MaxFiles = 2

INVARIANTS
    MismatchHasNoBundle

CHECK_DEADLOCK FALSE
