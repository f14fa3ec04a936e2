\* One change of destination while a batch is in flight.
SPECIFICATION Spec
CONSTANTS
    Accounts = {1, 2}
    MaxRevisions = 2
    MaxOutputs = 1
    Transparent = TRUE
    Preferences <- AllPreferences
PROPERTIES
    HoldStopsPayouts
