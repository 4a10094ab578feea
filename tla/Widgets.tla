------------------------------ MODULE Widgets ------------------------------
(***************************************************************************)
(* Two widgets that keep a state of their own under the mouse: the slider  *)
(* that splits a process into segments (components/process_input.py) and   *)
(* the Gantt chart that slides or fits (components/visual_widgets.py).     *)
(* The poll timer gives the chart new intervals, or none, in the middle of *)
(* any gesture.                                                            *)
(*                                                                         *)
(* The mouse is at a percent of the slider's bar, or at a pixel of the     *)
(* chart; intervals end at whole units of time.                            *)
(***************************************************************************)
EXTENDS Integers

CONSTANTS
    PIXELS_PER_TIME_UNIT,
    DRAG_THRESHOLD,
    Percents,       \* where the mouse may be on the slider
    Pixels,         \* and on the chart, or how far its wheel turns
    Widths,         \* of the chart; no less than one unit of time
    Times           \* when the intervals of a snapshot end

ASSUME WidgetsAssumption ==
    /\ PIXELS_PER_TIME_UNIT \in Nat \ {0}
    /\ DRAG_THRESHOLD \in Nat \ {0}
    /\ Percents \subseteq 0 .. 100
    /\ Pixels \subseteq Int
    /\ Widths \subseteq Nat /\ \A w \in Widths : w >= PIXELS_PER_TIME_UNIT
    /\ Times \subseteq Nat

VARIABLES
    slider,     \* the three percentages and the handle that is held
    chart,      \* GanttWidget
    button      \* the left button of the mouse is down on the chart

widgetVars == <<slider, chart, button>>

Greater(x, bound) == IF x < bound THEN bound ELSE x
Lesser(x, bound) == IF x > bound THEN bound ELSE x
Distance(x, y) == IF x < y THEN y - x ELSE x - y

-----------------------------------------------------------------------------
(* SegmentAllocationSlider.                                                *)

MinSegmentPercent == 10
NoHandle == 0

FirstHandle(s) == s.text
SecondHandle(s) == s.text + s.data
NearestHandle(s, at) ==
    IF Distance(at, FirstHandle(s)) <= Distance(at, SecondHandle(s)) THEN 1 ELSE 2

(* Mutant: the first handle is not stopped by the second one.              *)
FirstCutAnywhere(s, at) == Greater(at, MinSegmentPercent)

FirstCut(s, at) ==
    Greater(Lesser(at, SecondHandle(s) - MinSegmentPercent), MinSegmentPercent)
SecondCut(s, at) ==
    Greater(Lesser(at, 100 - MinSegmentPercent), FirstHandle(s) + MinSegmentPercent)

Cut(s, first, second) ==
    [s EXCEPT !.text = first, !.data = second - first, !.dynamic = 100 - second]

MoveActiveHandle(s, at) ==
    CASE s.handle = 1 -> Cut(s, FirstCut(s, at), SecondHandle(s))
      [] s.handle = 2 -> Cut(s, FirstHandle(s), SecondCut(s, at))
      [] OTHER -> s

-----------------------------------------------------------------------------
(* GanttWidget.                                                            *)

ContentWidth(g) ==
    IF g.mode = "fit" THEN Greater(g.width, 1)
    ELSE Greater(g.total * PIXELS_PER_TIME_UNIT, g.width)
MaxScroll(g) == Greater(ContentWidth(g) - g.width, 0)
Clamped(g) == [g EXCEPT !.scroll = Greater(Lesser(@, MaxScroll(g)), 0)]

(* Mutant: whoever follows the chart is not taken to its new end.          *)
SettledWhereItWas(g) == Clamped(g)

Settled(g) ==
    IF g.mode = "slide" /\ g.follow THEN [g EXCEPT !.scroll = MaxScroll(g)]
    ELSE Clamped(g)

Slide(g) == [g EXCEPT !.mode = "slide", !.follow = TRUE]
ToggleMode(g) ==
    IF g.mode = "fit" THEN [Slide(g) EXCEPT !.scroll = MaxScroll(Slide(g))]
    ELSE [g EXCEPT !.mode = "fit", !.scroll = 0, !.follow = TRUE]

-----------------------------------------------------------------------------
(* The specification.                                                      *)

WidgetsInit ==
    /\ slider = [text |-> 30, data |-> 30, dynamic |-> 40, handle |-> NoHandle]
    /\ \E w \in Widths :
          chart = [total |-> 1, mode |-> "slide", scroll |-> 0, width |-> w,
                   press_x |-> 0, press_scroll |-> 0, dragging |-> FALSE,
                   follow |-> TRUE]
    /\ button = FALSE

PressSlider(at) ==
    /\ slider' = MoveActiveHandle([slider EXCEPT !.handle = NearestHandle(slider, at)], at)
    /\ UNCHANGED <<chart, button>>
DragSlider(at) ==
    /\ slider.handle # NoHandle
    /\ slider' = MoveActiveHandle(slider, at)
    /\ UNCHANGED <<chart, button>>
ReleaseSlider ==
    /\ slider' = [slider EXCEPT !.handle = NoHandle]
    /\ UNCHANGED <<chart, button>>

(* A time of 0 is a state without intervals.                               *)
SetSegments(time) ==
    /\ chart' = Settled([chart EXCEPT !.total = Greater(time, 1)])
    /\ UNCHANGED <<slider, button>>
ClearChart ==
    /\ chart' = [chart EXCEPT !.total = 1, !.scroll = 0, !.follow = TRUE]
    /\ UNCHANGED <<slider, button>>
ResizeChart(w) ==
    /\ chart' = Settled([chart EXCEPT !.width = w])
    /\ UNCHANGED <<slider, button>>

PressChart(x) ==
    /\ ~button /\ button' = TRUE
    /\ chart' = [chart EXCEPT !.press_x = x, !.press_scroll = chart.scroll,
                              !.dragging = FALSE]
    /\ UNCHANGED slider
DragChart(x) ==
    /\ button /\ chart.mode = "slide"
    /\ Distance(x, chart.press_x) >= DRAG_THRESHOLD
    /\ chart' = Clamped([chart EXCEPT !.dragging = TRUE, !.follow = FALSE,
                            !.scroll = chart.press_scroll - (x - chart.press_x)])
    /\ UNCHANGED <<slider, button>>
ReleaseChart ==
    /\ button /\ button' = FALSE
    /\ chart' = IF chart.dragging THEN chart ELSE ToggleMode(chart)
    /\ UNCHANGED slider
TurnWheel(pixels) ==
    /\ chart.mode = "slide"
    /\ chart' = Clamped([chart EXCEPT !.scroll = @ - pixels, !.follow = FALSE])
    /\ UNCHANGED <<slider, button>>

WidgetsNext ==
    \/ \E at \in Percents : PressSlider(at) \/ DragSlider(at)
    \/ ReleaseSlider
    \/ \E time \in Times : SetSegments(time)
    \/ ClearChart
    \/ \E w \in Widths : ResizeChart(w)
    \/ \E x \in Pixels : PressChart(x) \/ DragChart(x) \/ TurnWheel(x)
    \/ ReleaseChart

WidgetsSpec == WidgetsInit /\ [][WidgetsNext]_widgetVars

-----------------------------------------------------------------------------
(* The properties.                                                         *)

(* Whatever the mouse does, the percentages are whole, none is below the   *)
(* minimum and they add up to 100: ADD accepts every process of the form   *)
(* (valid_segment_percentages), and nothing is left of it to the defaults. *)
SegmentsAddUp ==
    /\ {slider.text, slider.data, slider.dynamic} \subseteq MinSegmentPercent .. 100
    /\ slider.text + slider.data + slider.dynamic = 100

(* The chart never shows what lies beyond its ends, though it may become   *)
(* shorter, wider or empty in the middle of a drag; unless the user has    *)
(* moved it since it was last toggled or cleared, it shows the present end *)
(* (scroll_x, _auto_follow and _clamp_scroll_x).                           *)
ChartInRange ==
    /\ chart.scroll \in 0 .. MaxScroll(chart)
    /\ chart.follow => chart.scroll = MaxScroll(chart)
=============================================================================
