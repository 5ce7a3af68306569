------------------------------ MODULE MCInput ------------------------------
\* Small values of the constants of Input: a free XDG window on one workspace
\* and a tiled XWayland window on the other, and two keys: one to stretch, and
\* one that yields two symbols, of which one activates the other workspace and
\* one is bound to nothing.
EXTENDS Input

MCPoint(x, y) == [a \in Axes |-> IF a = "x" THEN x ELSE y]

MCViews       == {"panes", "game"}
MCHome        == [v \in MCViews |-> IF v = "panes" THEN 2 ELSE 1]
MCFirstRegion == [v \in MCViews |-> IF v = "panes"
                    THEN [pos |-> MCPoint(100, 100), dim |-> MCPoint(70, 60)]
                    ELSE [pos |-> MCPoint(120, 110), dim |-> MCPoint(90, 20)]]
MCFrame       == [a \in Axes |-> IF a = "x" THEN [low |-> 4, high |-> 3]
                                           ELSE [low |-> 2, high |-> 2]]
MCPoints      == {MCPoint(110, 105), MCPoint(205, 130)}

MCCorners     == {[a \in Axes |-> IF a = "x" THEN "low" ELSE "none"]}

MCKeys   == {"left", "tab"}
MCYields == [k \in MCKeys |-> IF k = "left" THEN << "Left" >> ELSE << "Tab", "Section" >>]
MCSymbols    == {"Left", "Tab", "Section"}
MCBound      == [p \in MCSymbols \X {"mod"} |->
                   CASE p[1] = "Left" -> "stretch" [] p[1] = "Tab" -> "switch" [] OTHER -> NoAction]
MCRepeatable == {<< "Left", "mod" >>}

MCActivations == [a \in {"switch"} |-> 1]
MCStretches   == [a \in {"stretch"} |-> [axis |-> "x", edge |-> "low", change |-> -50]]
=============================================================================
