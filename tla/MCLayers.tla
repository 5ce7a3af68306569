------------------------------ MODULE MCLayers ------------------------------
\* Small values of the constants of Layers: a bar at the top of the screen that
\* can grow, a dock at its left that can be used by keyboard and can change its
\* layer, and a launcher that asks for no room, for the keyboard, and at times
\* for margins that leave nothing of it.
EXTENDS Layers

MCSpans(x, y, w, h) == [a \in Axes |-> IF a = "x" THEN [pos |-> x, dim |-> w] ELSE [pos |-> y, dim |-> h]]
MCRegions == [o \in Outputs |-> IF o = "desk" THEN {MCSpans(0, 0, 40, 30), MCSpans(0, 0, 60, 30)}
                                              ELSE {MCSpans(60, 0, 40, 30)}]

MCSize(w, h) == [a \in Axes |-> IF a = "x" THEN w ELSE h]
MCMargin(top, left) == [e \in Sides |-> IF e = "top" THEN top ELSE IF e = "left" THEN left ELSE 0]

MCBar(height) == [layer |-> "top", anchor |-> {"left", "right", "top"}, size |-> MCSize(0, height),
                  zone |-> height, margin |-> MCMargin(1, 0), interactive |-> FALSE]
MCDock(layer) == [layer |-> layer, anchor |-> {"left"}, size |-> MCSize(5, 10), zone |-> 6,
                  margin |-> MCMargin(0, 0), interactive |-> TRUE]
MCLauncher(eager) == [layer |-> "overlay", anchor |-> {"top"}, size |-> MCSize(20, 8), zone |-> 0,
                  margin |-> MCMargin(0, 0), interactive |-> eager]

MCSurfaces == {"bar", "dock", "launcher"}
MCOffers == [s \in MCSurfaces |->
  CASE s = "bar"  -> {MCBar(3)}
    [] s = "dock" -> {MCDock("top"), MCDock("bottom")}
    [] s = "launcher" -> {MCLauncher(TRUE), [MCLauncher(TRUE) EXCEPT !.anchor = {"left", "right"},
                            !.size = MCSize(0, 5), !.margin = MCMargin(0, 70)]}]

MCAsks   == [s \in MCSurfaces |-> IF s = "launcher" THEN Outputs ELSE {"desk"}]
MCHome   == [v \in Views |-> "desk"]
MCParent == [m \in Menus |-> CHOOSE v \in Views : TRUE]
=============================================================================
