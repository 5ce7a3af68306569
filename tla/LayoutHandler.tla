--------------------------- MODULE LayoutHandler ---------------------------
(***************************************************************************)
(* LayoutHandler (src/kranewl/layout.cc): the eighteen kinds of layout,    *)
(* the settings each of them keeps, and the region each kind gives to each *)
(* of n views.                                                             *)
(*                                                                         *)
(* A handler is a record                                                   *)
(*   kind, prevKind  m_kind, m_prev_kind                                   *)
(*   sets            by kind, the Cycle of the layout's data: the places   *)
(*                   1 to 3 stand for the pointers the Cycle holds         *)
(*   data            by kind, what the three places hold                   *)
(* and every method is an operator from handlers to handlers. A setting is *)
(* [margin, gap, count, factor], the factor in percent. A region is        *)
(* [x, y, w, h]; arranging n views gives a sequence of n regions.          *)
(*                                                                         *)
(* Colours and the frames a kind draws are left out, and so is the         *)
(* rounding of float: a share of a width is its exact value, truncated.    *)
(***************************************************************************)
EXTENDS Cycle

FreeKinds == {"Float", "FramelessFloat", "SingleFloat", "FramelessSingleFloat"}

\* The groups of LayoutKind, as its comments name them.
OverlappingKinds    == {"Center", "Monocle", "MainDeck", "StackDeck", "DoubleDeck"}
NonOverlappingKinds ==
  {"Paper", "CompactPaper", "OverlappingPaper", "DoubleStack", "CompactDoubleStack",
   "HorizontalStack", "CompactHorizontalStack", "VerticalStack", "CompactVerticalStack"}
LayoutKind == FreeKinds \union OverlappingKinds \union NonOverlappingKinds

SingleKinds     == {"SingleFloat", "FramelessSingleFloat"}
PaperKinds      == {"Paper", "CompactPaper", "OverlappingPaper"}
GaplessKinds    == {"CompactPaper", "CompactDoubleStack", "CompactHorizontalStack",
                    "CompactVerticalStack"}
PersistentKinds == SingleKinds \union PaperKinds

\* The free half of kind_to_config: neither margin nor gap.
FreeConfig(kind) ==
  [free |-> TRUE, margin |-> FALSE, gap |-> FALSE,
   persistent |-> kind \in SingleKinds, single |-> kind \in SingleKinds]

\* Mutant: a compact layout is not arranged again when the focus moves.
TiledConfigIdle(kind) ==
  [free |-> FALSE, margin |-> TRUE, gap |-> kind \notin GaplessKinds,
   persistent |-> kind \in PersistentKinds \ GaplessKinds, single |-> FALSE]

\* The tiled half.
TiledConfig(kind) ==
  [free |-> FALSE, margin |-> TRUE, gap |-> kind \notin GaplessKinds,
   persistent |-> kind \in PersistentKinds, single |-> FALSE]

Config(kind) == IF kind \in FreeKinds THEN FreeConfig(kind) ELSE TiledConfig(kind)

----------------------------------------------------------------------------
(* The data of a layout.                                                   *)

Edges    == {"left", "top", "right", "bottom"}
Places   == 1..3
NoMargin == [e \in Edges |-> 0]

MaxMainCount == 16
MaxGapSize   == 300
MaxMargin    == [e \in Edges |-> IF e \in {"left", "right"} THEN 700 ELSE 400]

DefaultData(kind) ==
  IF kind = "Center" THEN [margin |-> NoMargin, gap |-> 0, count |-> 5, factor |-> 40]
                     ELSE [margin |-> NoMargin, gap |-> 0, count |-> 1, factor |-> 50]

LayoutData == [margin : {m \in [Edges -> Nat] : \A e \in Edges : m[e] <= MaxMargin[e]},
               gap : 0..MaxGapSize, count : 0..MaxMainCount, factor : 5..95]

ThreePlaces(c) == InsertAtBack(InsertAtBack(InsertAtBack(c, 1), 2), 3)

\* A layout nobody ever chooses keeps its default data: kinds are the others.
NewHandler(kinds) ==
  [kind |-> "Float", prevKind |-> "Float",
   sets |-> [k \in kinds |-> ThreePlaces(EmptyCycle(TRUE))],
   data |-> [k \in kinds |-> [p \in Places |-> DefaultData(k)]]]

ActivePlace(h, kind) == ActiveElement(h.sets[kind])
ActiveData(h)        == h.data[h.kind][ActivePlace(h, h.kind)]

WithData(h, d) == [h EXCEPT !.data[h.kind][ActivePlace(h, h.kind)] = d]
WithSet(h, c)  == [h EXCEPT !.sets[h.kind] = c]

\* C++ division, which truncates toward zero.
Quot(a, b) == IF a >= 0 THEN a \div b ELSE -((-a) \div b)

Clamp(value, lowest, highest) ==
  IF value <= lowest THEN lowest ELSE IF value >= highest THEN highest ELSE value

----------------------------------------------------------------------------
(* The operations.                                                         *)

SetKind(h, kind) ==
  IF kind = h.kind THEN h ELSE [h EXCEPT !.prevKind = h.kind, !.kind = kind]
SetPrevKind(h) == [h EXCEPT !.prevKind = h.kind, !.kind = h.prevKind]

CopyDataFromPrevLayout(h) ==
  WithData(h, h.data[h.prevKind][ActivePlace(h, h.prevKind)])

\* The data active before the present one, if the history remembers any.
SetPrevLayoutData(h) ==
  LET history == h.sets[h.kind].stack
  IN  IF history = << >> THEN h
      ELSE WithSet(h, ActivateElement(h.sets[h.kind], history[Len(history)]))

CycleLayoutData(h, direction) == WithSet(h, CycleActive(h.sets[h.kind], direction))

ChangeGapSize(h, change) ==
  WithData(h, [ActiveData(h) EXCEPT !.gap = Clamp(@ + change, 0, MaxGapSize)])
ChangeMainCount(h, change) ==
  WithData(h, [ActiveData(h) EXCEPT !.count = Clamp(@ + change, 0, MaxMainCount)])
ChangeMainFactor(h, change) ==
  WithData(h, [ActiveData(h) EXCEPT !.factor = Clamp(@ + change, 5, 95)])

ChangeMarginAt(h, edge, change) ==
  WithData(h, [ActiveData(h) EXCEPT !.margin[edge] = Clamp(@ + change, 0, MaxMargin[edge])])

\* All four edges, the horizontal ones by half as much again.
ChangeMargin(h, change) ==
  WithData(h, [ActiveData(h) EXCEPT !.margin =
    [e \in Edges |-> Clamp(@[e] + (IF e \in {"left", "right"} THEN Quot(3 * change, 2) ELSE change),
                           0, MaxMargin[e])]])

ResetGapSize(h)    == WithData(h, [ActiveData(h) EXCEPT !.gap = DefaultData(h.kind).gap])
ResetMargin(h)     == WithData(h, [ActiveData(h) EXCEPT !.margin = DefaultData(h.kind).margin])

ResetLayoutData(h) == WithData(h, DefaultData(h.kind))

\* What save_layout writes: the kind and its data in order, not which of them
\* is the active one.
SavedLayout(h) ==
  [kind |-> h.kind, data |-> [i \in Places |-> h.data[h.kind][h.sets[h.kind].elements[i]]]]

\* Mutants: the data read are put in the layout that was in use before the
\* file named another; the cycle that was cleared is not filled again.
LoadLayoutHere(h, file) ==
  [SetKind(h, file.kind) EXCEPT !.sets[h.kind] = ThreePlaces(ClearCycle(@)),
                                !.data[h.kind] = file.data]
LoadLayoutForgetful(h, file) ==
  [SetKind(h, file.kind) EXCEPT !.sets[file.kind] = ClearCycle(@),
                                !.data[file.kind] = file.data]

\* load_layout: set_kind, then the data of that layout are deleted and the
\* ones read inserted at the back, which leaves the last of them active.
LoadLayout(h, file) ==
  [SetKind(h, file.kind) EXCEPT !.sets[file.kind] = ThreePlaces(ClearCycle(@)),
                                !.data[file.kind] = file.data]
=============================================================================
