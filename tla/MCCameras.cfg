SPECIFICATION Spec
CONSTANTS
    door = door
    Hosts = {door}
    Found <- MCFound
    Savers = {s1, s2}
    Weather = weather
    MaxAdds = 3
    NoHost = NoHost
INVARIANTS MergeLeavesTheBest IdMeansItsDevice
PROPERTY DuplicatesMerge
