SPECIFICATION Spec
CONSTANTS
    Cities = {a, b}
    Here = here
    None = None
    MaxChanges = 2
PROPERTY CityIsRelocated
