SPECIFICATION Spec
CONSTANTS
    Boards <- MCBoards
    Percents <- MCPercents
INVARIANTS DarkIsCovered SliderTellsBrightness
