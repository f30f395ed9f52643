SPECIFICATION Spec
CONSTANTS
    Cities = {a, b}
    Here = here
    None = None
    MaxChanges = 3
PROPERTIES NewCityIsShown
