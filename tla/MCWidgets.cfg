CONSTANTS
    PIXELS_PER_TIME_UNIT = 3
    DRAG_THRESHOLD = 2
    Percents = {0, 15, 35, 50, 85, 100}
    Pixels <- SomePixels
    Widths = {3, 5}
    Times = {0, 2, 3}
SPECIFICATION WidgetsSpec
INVARIANTS
    SegmentsAddUp ChartInRange
