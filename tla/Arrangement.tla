---------------------------- MODULE Arrangement ----------------------------
(***************************************************************************)
(* LayoutHandler::arrange (src/kranewl/layout.cc): the regions a layout    *)
(* with data d gives to n views on a screen region s, in their order. The  *)
(* views are only told apart by two positions: lead, the view a paper      *)
(* layout spreads out (the focused one, or the one focused last), and      *)
(* focus, the focused one (0 when none of them is).                        *)
(***************************************************************************)
EXTENDS LayoutHandler

\* View::MIN_VIEW_DIM
MinViewWidth  == 25
MinViewHeight == 10

Share(length, percent) == Quot(length * percent, 100)

\* The region of the i-th of n views piled into r, and side by side in it.
Piled(r, i, n)  == [r EXCEPT !.y = @ + (i - 1) * Quot(r.h, n), !.h = Quot(@, n)]
Beside(r, i, n) == [r EXCEPT !.x = @ + (i - 1) * Quot(r.w, n), !.w = Quot(@, n)]

----------------------------------------------------------------------------
(* The arrangements.                                                       *)

\* A free region is the view's own, whatever the screen.
FreeRegion == [x |-> 60, y |-> 40, w |-> 300, h |-> 200]

ArrangeFloat(n)              == [i \in 1..n |-> FreeRegion]
ArrangeSingleFloat(n, focus) == [i \in 1..n |-> IF i = focus THEN FreeRegion ELSE Null]

Centered(s, w, h) ==
  [x |-> IF w <= s.w THEN s.x + Quot(s.w - w, 2) ELSE s.x,
   y |-> IF h <= s.h THEN s.y + Quot(s.h - h, 2) ELSE s.y, w |-> w, h |-> h]
ArrangeCenter(d, s, n) ==
  [i \in 1..n |-> Centered(s, Quot(s.w * d.factor, 95),
                           Quot(s.h * (MaxMainCount - d.count), MaxMainCount))]

ArrangeMonocle(s, n) == [i \in 1..n |-> s]

\* Mutant: the main views of a layout without a stack keep to their column.
MainColumnNarrow(d, s, n) == [s EXCEPT !.w = IF d.count > 0 THEN Share(@, d.factor) ELSE 0]

\* The column of the main views and the column of the stack. Without a main
\* view the stack has the whole width, without a stack the main views have.
MainColumn(d, s, n) ==
  [s EXCEPT !.w = IF n <= d.count THEN @ ELSE IF d.count > 0 THEN Share(@, d.factor) ELSE 0]
StackColumn(d, s) ==
  IF d.count > 0 THEN [s EXCEPT !.x = @ + Share(s.w, d.factor), !.w = @ - Share(s.w, d.factor)]
                 ELSE s

MainCount(d, n) == IF n <= d.count THEN n ELSE d.count

ArrangeDoubleDeck(d, s, n) ==
  [i \in 1..n |-> IF i <= d.count THEN MainColumn(d, s, n) ELSE StackColumn(d, s)]
ArrangeMainDeck(d, s, n) ==
  [i \in 1..n |-> IF i <= d.count THEN MainColumn(d, s, n)
                  ELSE Piled(StackColumn(d, s), i - d.count, n - d.count)]
ArrangeStackDeck(d, s, n) ==
  [i \in 1..n |-> IF i <= d.count THEN Piled(MainColumn(d, s, n), i, MainCount(d, n))
                  ELSE StackColumn(d, s)]

\* Mutant: the stack is counted from the first view.
ArrangeDoubleStackShifted(d, s, n) ==
  [i \in 1..n |-> IF i <= d.count THEN Piled(MainColumn(d, s, n), i, MainCount(d, n))
                  ELSE Piled(StackColumn(d, s), i, n - d.count)]
ArrangeDoubleStack(d, s, n) ==
  [i \in 1..n |-> IF i <= d.count THEN Piled(MainColumn(d, s, n), i, MainCount(d, n))
                  ELSE Piled(StackColumn(d, s), i - d.count, n - d.count)]

ArrangeHorizontalStack(s, n) == [i \in 1..n |-> Beside(s, i, n)]
ArrangeVerticalStack(s, n)   == [i \in 1..n |-> Piled(s, i, n)]

\* The width of the spread view, at least half the screen, and of the others.
LeadWidth(d, s)      == Share(s.w, IF d.factor > 50 THEN d.factor ELSE 50)
FoldedWidth(d, s, n) == Quot(s.w - LeadWidth(d, s), n - 1)

ArrangePaper(d, s, n, lead) ==
  [i \in 1..n |->
    [s EXCEPT !.x = @ + (i - 1) * FoldedWidth(d, s, n)
                      + (IF i > lead THEN LeadWidth(d, s) - FoldedWidth(d, s, n) ELSE 0),
              !.w = IF i = lead THEN LeadWidth(d, s) ELSE FoldedWidth(d, s, n)]]
ArrangeOverlappingPaper(d, s, n) ==
  [i \in 1..n |-> [s EXCEPT !.x = @ + (i - 1) * FoldedWidth(d, s, n), !.w = LeadWidth(d, s)]]

----------------------------------------------------------------------------
(* LayoutHandler::arrange.                                                 *)

\* Two arrangements divide the screen by the number of views before they know
\* that there is one: the division is undefined, and may end the process.
DividesByCount(kind) ==
  kind \in {"HorizontalStack", "CompactHorizontalStack", "VerticalStack",
            "CompactVerticalStack"}

\* One view has the whole screen in every layout that shares it out.
TiledCells(kind, d, s, n, lead) ==
  IF n = 1 THEN << s >>
  ELSE CASE kind = "MainDeck"   -> ArrangeMainDeck(d, s, n)
         [] kind = "StackDeck"  -> ArrangeStackDeck(d, s, n)
         [] kind = "DoubleDeck" -> ArrangeDoubleDeck(d, s, n)
         [] kind \in {"Paper", "CompactPaper"} -> ArrangePaper(d, s, n, lead)
         [] kind = "OverlappingPaper"          -> ArrangeOverlappingPaper(d, s, n)
         [] kind \in {"DoubleStack", "CompactDoubleStack"} -> ArrangeDoubleStack(d, s, n)
         [] kind \in {"HorizontalStack", "CompactHorizontalStack"} -> ArrangeHorizontalStack(s, n)
         [] OTHER -> ArrangeVerticalStack(s, n)

Cells(kind, d, s, n, lead, focus) ==
  IF n = 0 THEN << >>
  ELSE CASE kind \in {"Float", "FramelessFloat"} -> ArrangeFloat(n)
         [] kind \in SingleKinds -> ArrangeSingleFloat(n, focus)
         [] kind = "Center"  -> ArrangeCenter(d, s, n)
         [] kind = "Monocle" -> ArrangeMonocle(s, n)
         [] OTHER -> TiledCells(kind, d, s, n, lead)

Inset(r, e) ==
  [x |-> r.x + e.left, y |-> r.y + e.top,
   w |-> r.w - e.left - e.right, h |-> r.h - e.top - e.bottom]

WithinMargin(kind, d, screen) == IF Config(kind).margin THEN Inset(screen, d.margin) ELSE screen

AtLeast(value, lowest) == IF value < lowest THEN lowest ELSE value

Gapped(r, gap) ==
  [x |-> r.x + gap, y |-> r.y + gap,
   w |-> AtLeast(r.w - 2 * gap, MinViewWidth), h |-> AtLeast(r.h - 2 * gap, MinViewHeight)]

WithGaps(kind, d, cells) ==
  IF Config(kind).gap THEN [i \in DOMAIN cells |-> Gapped(cells[i], d.gap)] ELSE cells

Arrange(kind, d, screen, n, lead, focus) ==
  WithGaps(kind, d, Cells(kind, d, WithinMargin(kind, d, screen), n, lead, focus))
=============================================================================
