# kranewl in TLA+

Specifications of the control logic of kranewl, a tiling Wayland compositor in
C++ on wlroots: which windows, workspaces, contexts and outputs there are, where
each window is kept, what is shown and where, who has the focus and the
keyboard, and what keys and the pointer do to all that. The repository has no
documentation or tests; the specifications are read from the code, its comments
and its log messages.

The compositor is one process with one event loop. Handlers of client requests,
input and output events run to completion one after the other, so every handler
is one step of the specification. What makes the program hard is not parallel
threads but the number of places one fact is kept in (a window is in a
workspace's views, in one of its tracks, in the histories of both, among the
icons or not, pointed at by `mp_active`, `mp_focus`, `mp_jumped_from`, ...), the
handlers that call each other recursively to keep those places in step, and the
order of requests, which clients and users choose.

## The system

| Part | State | Operations | Correct when |
|---|---|---|---|
| `Cycle<T>` (`cycle.hh`, `cycle.t.hh`) | elements, index of the active one, history stack | insert, remove, replace, swap, reverse, rotate, step, drag, activate | the index stays in range, the history names live elements, removal of the active element falls back to the one left last |
| `Workspace` | views, one track per scene layer, icons, active view, layout handler | add, remove, change track, iconify, move and drag the focus, reorder | tracks partition the views; the active view leads its track; a walk meets every view |
| `LayoutHandler` | current and previous layout kind, a cycle of data per kind; files | choose, toggle, change and reset data, arrange, save and load | tiles lie apart and fill the screen; the screen shows the arrangement of now; every kind has active data |
| `Context` | output, active and previous workspace | activate a workspace | one to one with outputs |
| `Model` | outputs, contexts, workspaces, current of each, `mp_focus`, `mp_jumped_from`, views | every command of a binding, registration and removal of windows and outputs | the focus is the current workspace's active view; exactly the shown views are mapped; no pointer dangles |
| `View`, `XDGView`, `XWaylandView` | workspace, layer, floating, free, fullscreen, contained, iconified, mapped, focused, managed | map, unmap, destroy, requests | nothing refers to an unmapped window |
| `Output` | context, layer surfaces by layer, full and placeable region | come, go and move, arrange layers, focus at cursor when a frame is presented | always has a context; windows are laid out in what panels leave |
| `Layer` | mapped, output, committed state, region | commit, map, unmap, destroy | panels do not cover each other; the keyboard returns when one goes |
| `Keyboard` | action to repeat, timer | press, release, expiry | only what is held is performed; repetition goes on while it is held, and stops |
| `Cursor` | mode, grab (view, beginning, edges) | motion, buttons, interactive move and resize, drag and drop | only the held edge moves; a grab does not outlive its workspace |
| `Seat` | keyboard focus, selections, inhibitors | enter, clear | the keyboard is with something shown |
| `Rules`, `SearchSelector` | default rules | match, merge | - |
| `Server` | backend, globals, listeners | creates everything above on wlroots' signals | - |

Interactions: wlroots signals call static handlers (`XDGView::handle_map`,
`Output::handle_destroy`, ...), which call `Model`; bindings call `Model`
directly; `Model` calls `Workspace`, `Output`, `Context` and `View`; `Workspace`
and `LayoutHandler` keep everything in `Cycle`s. `focus_view`,
`activate_workspace` and `sync_focus` call one another.

## Modules

| Module | Models | How |
|---|---|---|
| `Cycle` | `cycle.t.hh` | a record per cycle, one operator per method |
| `FocusHistory` | (abstract) what a cycle promises: members, one active, a history | state machine |
| `CycleSpec`, `MCCycle` | one cycle under the calls its clients make | one action per method |
| `CycleLemmas`, `CycleProofs` | - | proofs about `CycleSpec`, and that it implements `FocusHistory` |
| `Workspace` | `workspace.cc`, the layout kinds of `layout.cc` | a record per workspace, one operator per method |
| `Model` | `model.cc`, `context.hh`, the state of `view.cc` and `output.cc` | a record for the model, one operator per command |
| `ModelSpec` | the users of the model: bindings, windows, outputs | one action per request; state properties |
| `RoundTrips` | - | properties of two commands in a row |
| `Folding` | - | proofs about loops, for the modules below |
| `ModelProofs` | - | proofs about `Workspace`, `Model` and `ModelSpec`: types, the unique focus, contexts and outputs, the places of the windows |
| `FocusProofs` | - | proofs about `ModelSpec`: who has the focus, what is shown, and what can bring the model down |
| `MCModel` | - | symmetry for the instances of the `.cfg` files |
| `LayoutHandler` | `layout.cc`: kinds, data, files | a record, one operator per method; the data cycles are those of `Cycle` |
| `Arrangement` | `layout.cc`: `arrange` and every `arrange_*` | functions from a screen, data and a number of views to regions |
| `Tiling`, `MCTiling` | a workspace's layout: views that come and go, changes of the layout, files, restarts, and `apply_layout` after each | one action per command |
| `TilingProofs` | - | proofs about `Arrangement` and `Tiling` |
| `Keyboard` | `keyboard.cc`: keys, bindings, the repeat timer | one action per handler |
| `Repeater` | (abstract) what key repetition promises | state machine with fairness |
| `Cursor` | `cursor.cc`: the pointer and the grab, regions of views | a record, one operator per handler |
| `Input`, `MCInput` | `Keyboard` and `Cursor` together on the same windows, `stretch_view` | composition: what a key performs happens in the key's step |
| `InputProofs` | - | proofs about `Input`: repetition, grabs and edges |
| `Layers`, `MCLayers` | `layer.cc`, the arrangement of layers in `output.cc`, the coming, going and moving of outputs in `server.cc`, the keyboard focus | a record, operators for the passes, one action per request |
| `LayersProofs` | - | proofs about `Layers`: the room panels leave, and the keyboard |

A C++ object is a record and a method an operator from records to records.
`model.workspace` is `mp_workspace`, `model.ws[w].tracks[l]` is `m_tracks[l]`,
`model.view[v].ws` is `v->mp_workspace`, and so on (the head of each module
lists the fields). A handler that calls three methods composes three operators
in the code's order. `Null` is a null pointer.

Some fields are not in the code. `down` (in `Tiling` and `Layers` its negation,
`up`) is set where the code dereferences a null
pointer, divides by zero, uses a deleted surface, or deletes a view that is
still referred to: nothing is defined afterwards, so a model that is down takes
no step (in `Tiling`, but the restart), and state properties are about models
that are not. `ModelSpec` splits its steps in `Handled`, the handlers that look
where they go, and `MapOnNoOutput`, the one that always follows a null (see
"What does not hold"). `astray` is set where the recursion of the focus
would be entered with a view of another workspace, where it need not end.

The focus recursion is unrolled: `FocusView` activates the workspace, which
synchronises the focus, which gives the focus to the active view. The inner
`activate_workspace` returns at once as long as the active view of a workspace
belongs to it, and `FocusRecursionEnds` checks that it does.

The modules share one program and differ in what they leave open. `ModelSpec`
decides which window gets the focus and knows no regions; `Tiling` and `Layers`
leave that choice open and compute regions; `Input` leaves open which window
lies under the pointer. `Relayout` of `ModelSpec` stands for what `Layers` and
`Tiling` do to the room and the data of a layout, `RegainFocus` for the return
of the keyboard in `Layers`.

`Keyboard` has a variable for what the event loop knows: a timer that expired is
`due`, and other handlers may run before its call. Disarming the timer does not
take a due call back, destroying it does.

`ModelSpec` groups actions in families (`Families` in a `.cfg`), so that a run
can afford the interactions it is about.

## Runs

Bounds are the constants of the `.cfg` files (and of the `MC` modules they name);
nothing else is cut off. `MaxGrabs`, `MaxCoordinate`, `MaxSurfaces` and
`MaxEdits` stand in guards. Other counters do not grow: a cycle's history holds
an element once. `Shuffle` takes main counts 0..2, which with at most three
views covers an empty, a partial and a full main area.

| Run | Instance | Shows |
|---|---|---|
| `cycle` | 4 elements, recording or not | every cycle of up to 4 elements, its index in range; refines `FocusHistory` |
| `everyday` | 3 windows, 2 workspaces, 1 output, tiled | the containers and the focus agree after every handler; walks meet every window; a command and its inverse restore focus, order and what is shown; a closing window passes the focus on within its track, and one without the focus leaves it alone |
| `reordering` | 3 windows, 1 workspace, two tracks | focus, active view and active element agree however the windows are put in order |
| `layouts` | 3 windows, 1 workspace, all layout behaviours | laying out again after any handler changes nothing; the focus is shown, in a single layout nothing else |
| `fullscreen` | 2 windows: floating, fullscreen and contained | at most one window believes it has the focus, in any mixture |
| `contexts` | 2 windows, 2 contexts of 2 workspaces, 1 output | exactly the workspace on display is mapped |
| `outputs` | 2 windows, 2 outputs, 3 contexts | contexts and outputs stay one to one when outputs come and go; the recursion ends; the model goes down in the known ways only |
| `input` | a free XDG window and a tiled XWayland window on two workspaces, 2 keys (one of two symbols), 2 points, 1 grab | repetition performs what is held and goes on; resizing and stretching, together too, move the held edge only; leaving the workspace ends the grab |
| `layers` | 2 outputs (one of two sizes), bar, dock and launcher of which 2 live at a time, a window, an unmanaged window | windows are laid out in exactly the room left; panels lie apart; the keyboard returns |
| `tiling` | a screen of 1367 by 743 under a panel, 5 kinds of layout, up to 3 tiled windows, one floating, one fullscreen; 2 changes, 1 file | three data per layout, one active; tiles apart, screen filled; the screen shows the arrangement of now; changes stay local |
| `swapped_contexts` | 2 outputs, 2 contexts | violation: see below |
| `depleted_contexts` | 2 outputs, 1 context | violation: see below |

Three windows are enough to have a track with two of them and another window in
another track or workspace, which is what crossing tracks, histories with a
choice and the removal of a neighbour need. The `fullscreen`, `contexts` and
`outputs` runs have two, so that every window can be paired with one in another
state, context or output; the third is traded for those dimensions. Two
workspaces per context have a shown and a hidden one; three contexts and two
outputs always leave one context unshown.

In `input` the first window is free and on the other workspace than the active
one, so that a grab and a change of workspace meet, and small enough to be
stretched to its least size while it is resized; `MaxCoordinate` stops the
stretching of a window that drifts away. One grab is enough, as nothing of a
grab is left to the next but the mode. In `layers` the bar and the dock reserve
room at edges that meet and the launcher reserves none; two of the three alive
at a time give every pair, and each may be on its list twice. In `tiling` the
screen's sides divide by neither two nor three, the steps of the data reach all
their limits within two changes, and `TilesApart` and `ScreenIsFilled` look at
every non-overlapping kind, number of views and leading view for the data of
each state, not only at the kind in use.

Definitions whose comment begins with "Mutant" are not part of the model: each
is an operator with a plausible mistake, and `PROJECT.json` pairs it with a
property that notices when it takes the operator's place.

The runs of `MCModel` are symmetric in windows and outputs: neither is
ordered or compared by the code except by identity, and no liveness is checked
there. Contexts and workspaces are numbers and are not symmetric.

Deadlock is checked except where a model can be down: in all runs of `MCModel`,
which a window may bring down, and in `layers`. `tiling` is restarted instead.

Fairness is assumed in `Input` only, of `Expire` and `Dispatch`: a timer that is
set expires, and libwayland's event loop calls back what it has noted. Both are
weak, for neither is disabled again by others forever while a key is held.
Nobody owes the program a key, a motion or a request, and whatever else a
handler promises it does before it returns, so the other modules state safety
only. `RepeaterSpec` is where fairness matters: a chosen action is performed
again and again as long as it stays chosen, because the timer is set again after
each call.

### What does not hold

Two runs show where the code departs from what it logs:

- `swapped_contexts`: `activate_context` of a context that another output shows
  swaps the two, by two calls of `set_context` of which the second clears what
  the first set (`output.cc:160`). The other output is left with a context whose
  `output()` is null: `focus_view` declines its windows, `apply_layout` passes
  its workspaces over, and a third output would reserve the same context.
- `depleted_contexts`: an output beyond the number of contexts "will not house
  any workspaces" by the log, but `register_output` dereferences its context.

While the runs were chosen, TLC also found combinations in which properties
that hold elsewhere fail. There is no statement in the repository to hold them
against, so they are no findings. Those of the model (the runs leave the
combination out, and `PROJECT.json` lists most of them as hazards):

- A window that is fullscreen and contained, or floating and fullscreen, can
  end in no track or in a track other than its layer's; after it is closed the
  focus names it still (`TracksPartitionViews`, `FocusLeads`,
  `UnmappedIsForgotten`, `KnownWaysDown`). The `fullscreen` run checks what
  holds nevertheless.
- A window that asks to be fullscreen before it is mapped and names no output,
  or one that is unplugged by then, brings the compositor down: `handle_map`
  reads the `data` of a null `fullscreen_output` (`xdg-view.cc:462`). The choice
  of the output is the client's to leave open. `MapOnNoOutput` is this step, in
  every run that maps windows, and `KnownWaysDown` is about all other ones.
- A free layout chosen while the older of two tiled windows has the focus:
  moving the views to their new track makes the newest the workspace's active
  view, `mp_focus` stays (`FocusLeads`), and the focus jumps at the next
  command that synchronises it.
- A fullscreen request of an icon puts it in a track.
- Choosing a layout or nudging puts a fullscreen window that is free on the
  layer for free windows; the next layout puts it back (`LayoutIsSettled`).
- A jump back to a window that was closed focuses it (`UnmappedIsForgotten`), or
  follows a pointer to a deleted one (`KnownWaysDown` names the case).
- An X client that asks for activation of an icon makes it the focus
  (`FocusLeads`).
- The next and previous workspace of all (`stray`) may be of another context:
  `mp_context` and `mp_output` stay, and a window mapped then may ask a context
  without an output for one, which is null (`KnownWaysDown` names the case).
- An output that is attached becomes current without its workspace being laid
  out or the focus moving to it (`LayoutIsSettled`, `FocusLeads`); with the
  last output gone a closing window dereferences the null `mp_output`
  (`KnownWaysDown` names the case).
- A window unmapped and mapped again on the workspace it was on is in no
  container (`remap`; `WindowsAreHome`).
- A window on another track than the closing one's is not returned to even if
  it was focused last: histories are per track. `ClosingReturnsFocus` says what
  is kept.

Those of layouts (in `Tiling` and `Arrangement` as the code has them):

- With no tiled view the four horizontal and vertical stack layouts divide by
  the number of views, which is zero (`layout.cc:1278`, `1341`).
- `OverlappingPaper` is listed among the non-overlapping kinds and overlaps;
  `TilesApart` leaves it out. A gap so large that less than the least size of a
  view is left of a cell lets tiles overlap too (`Roomy`), and margins may
  exceed a small screen.
- A fullscreen view is shrunk by the gap like a tile (`layout.cc:182`).
- Loading a layout makes the last of its data active, whichever was when it was
  saved. `EditsStayLocal` says what does hold.

Those of keys and the pointer (in `Input`):

- A grab is not ended when its window closes (`cursor.cc:327`), and a request of
  a client to move or resize that comes after the button was let go sticks until
  the next release. An XDG window that is tiled can be grabbed by its client's
  request, one under XWayland cannot. Drag and drop that starts over a free
  window moves the window along (`cursor.cc:827`).
- A binding used on a window of another workspace aborts the grab it has begun:
  the window is focused last, which activates its workspace.
- `process_cursor_resize` compares with the region before the last
  (`cursor.cc:380`), so a window may lag one motion behind. A resize requested
  by one edge changes the size along the other axis as well.
- `stretch_view` tests a change of the left edge against the height
  (`model.cc:1926`). A window stretched in the midst of a grab falls back to the
  region the grab began with at the next motion, whence the last disjunct of
  `EdgeStays`.
- Repetition goes on while another client inhibits the input, and is not stopped
  by a key that changes the terminal.

Those of layer surfaces and outputs (in `Layers`):

- A surface that changes its layer stays on its old list too (`layer.cc:179`),
  to be used after it is deleted; one destroyed for want of room is destroyed
  while its list is walked (`output.cc:451`).
- A window that is opened or focused takes the keyboard from a panel that asked
  for it, and the keyboard stays with a panel that unmaps while the output of
  the focused window is detached: `KeyboardReturns` is about a focus on display.
- The parent of an unmanaged window gets the keyboard back though another window
  has the focus; `KeyboardReturns` only says that it is shown.
- A context given to an output that arrives keeps the layout of the output it was
  on until the next one (`model.cc:267`), and surfaces of a detached output never
  get an output again.

## Proofs

Every theorem holds for all values of the constants that satisfy the assumptions
named. What it states beside its hypotheses is what a run checks on an instance.

**Cycles.** `CycleProofs` proves for every set of elements, of any size, that
`CycleSpec!Spec` implies `[]CycleTypeOK` (the index in range), `[]NoDuplicates` and
`[]HistoryIsLive`. None of them is inductive by itself: removing the active
element restores the index from the history, which is in range only if the
history names present elements; the history stays live under removal only if
the element is stored once; and `replace_element` keeps elements distinct only
because the replacement is tested against them. Their conjunction,
`IsCycle(cycle, Elements)`, is inductive; of the model's cycles it is checked by
TLC as part of `WindowsAreHome`. With it the action
property `MovesAreRecorded` is proved: each step that moves the index first puts
the active element on top of the history (`PushLeavesOnTop`), or changes the
elements; a removal or a drag that leaves the elements as they were leaves the
index too (`IdleRemoval`, `IdleDrag`). `HistoryIsImplemented` is the refinement:
a step of a cycle is a step of `FocusHistory`, which knows no positions, or
leaves it alone.

`CycleLemmas` proves, one lemma per operator, that every operation of `Cycle`
maps well-formed cycles to well-formed cycles, and what becomes of the elements
(`InsertHolds`, `RemoveHolds`, ...), from lemmas about the sequence
operators (`IndexOf`, `EraseRemove`, `TurnLeft`, `TurnRight`, `Swapped`). These
are stated for an arbitrary set, so that `TilingProofs` can use them for the
cycles of layout data and the model's proofs for its views and outputs. The only
assumption is `NullIsNoElement`.

**The model.** Loops over views, outputs and bound actions are folds. `Folding`
proves for any operator that what each step keeps the fold keeps, from the
well-foundedness of < on the numbers; a module that folds instantiates it.
`ModelProofs` has one lemma per method of `Workspace`, per operator of `Model` and
per action; `FocusProofs` is built alike on top of it.

- `TypesAreKept` and `OneFocusAlways`. A model that runs is in `Sound(K)`, where K
  are the views that have a workspace: containers, the focus and active views
  are among K; no view outside it is focused, and within it only `mp_focus`; the
  active workspace of a context is its own; attached outputs have a context.
  K is needed because the handlers follow `view->mp_workspace` of whatever a
  container yields, which no type says is not null. Intermediate states of a
  handler belong to `Fit(K, l)`, sound models whose outputs and contexts are
  wired as in l. Assumptions: `CountsAssumption`, `NullAssumption`,
  `KindsAssumption`, `CursorAssumption`.
- `OutputsMatchAlways` (`ContextsMatchOutputs`) under `ContextsStay`: the user has
  no binding of a context, or there is one output. `swapped_contexts` shows that
  without it the property fails.
- `WindowsStayHome` (`WindowsAreHome`) and `TracksStayApart`
  (`TracksPartitionViews`). A place is a container and a
  workspace, and an assignment P gives each view one. `Placed(m, P)`: the view's
  fields agree with its place, its layer is the one its placement calls for
  (fullscreen, free, or tiled), and the views and icons of a workspace, and each
  of its tracks, hold exactly those that P and the layer put there. Each handler
  that takes a window from one container and puts it into another is a change of P
  at that view, with the place "none" between the two; at the end of a handler
  every mapped window has a place (`Settled`). That a view's *layer* follows from
  its placement has to be part of the invariant, for `Workspace::remove_view`
  looks up the track to remove the view from by the layer.

  The hypothesis `Plain` leaves out three families of actions, with each of which
  TLC finds these properties violated on two windows: windows that map again
  (`remap`: `model.cc:848`), fullscreen windows (`fullscreen`, with floating,
  iconifying, containing or a change of layout: `model.cc:1519`), and rules that
  make a window float or fullscreen (`traits`, with a change of layout or a
  nudge: the layer is set without the placement it follows from elsewhere, so
  `View::tile` changes it behind the track). All other families are covered, in
  any combination, several contexts and outputs included.
- `FocusAlwaysLeads` (`FocusLeads`), `AlwaysActiveWhileAny` (`ActiveWhileAny`),
  `UnmappedForgotten` (`UnmappedIsForgotten`), `FocusRecursionAlwaysEnds`
  (`FocusRecursionEnds`), `OnlyMappingGoesDown` (`KnownWaysDown`),
  `LayoutAlwaysSettled` (`LayoutIsSettled`), `FocusAlwaysShown` (`FocusIsShown`)
  and `ShownAlwaysMapped` (`ShownIsMapped`) in
  `FocusProofs`, from one invariant, `FocusInvariant`. None of them is inductive:
  the recursion ends because the active view of the workspace to be entered is
  one of its own, that is so because nothing closed is active there, and the
  workspace entered may be one that was hidden all along. So the
  invariant says of every hidden workspace that its active view, the active one
  of the track it was in last (`m_track_layer`) and that of `m_views` agree
  (`Locked`, in `Calm`), and of the current one that moreover the next step goes
  through that track and `mp_focus` is its active view (`Lead`, `Steady`). It
  rests on a `Placed` assignment in which a window that is not mapped has no
  place (`Firm`), and on the one output pointing to the current context and
  back (`Anchored`). All this is said of models that are not down
  (`Attended`). `HandledAttended` shows that a handler leaves an attended model
  attended, and so up; `OnlyMappingGoesDown` says it of every step but
  `MapOnNoOutput`, which is more than `KnownWaysDown`: of its three cases none
  occurs under `Everyday`.

  What takes the most work is that laying out does not move the focus.
  `apply_layout` tiles or frees each view and puts it in the track for it, which
  activates that track; it is harmless only if every view on display is already
  free or not as the layout wants (`Off` is empty). Handlers that make a view
  float or move it break this for that view alone, lay out, and then give the
  focus to the view moved last: `Ready` is the state in between, in which the
  containers agree with each other but not yet with the focus, and each handler
  is a path through `Base`, `Ready` and `Steady`.

  What is on the screen follows the same path. In `Ready` no view of a hidden
  workspace is mapped and, unless the layout shows one view only, every view on
  display is (`Dim`); in `Steady` moreover the focus is drawn as such, is mapped,
  and is the only one mapped in a layout that shows one (`Bright`). A layout run
  once puts every view on display where and as it is to be (`LayoutRuns`,
  `Lights`), and one that finds it so changes nothing (`PlaceIdle`,
  `LaidOutIdle`): that is `LayoutIsSettled`, which therefore needs the tracks,
  the placements and what is mapped at once. `ShownAlwaysMapped` has the further
  hypothesis that the layout shows more than one view, since one that shows a
  single view unmaps the others, by intention.

  The hypothesis `Everyday` leaves out `remap`, `traits` and `fullscreen` for
  the reasons above, and those families with which "What does not hold" has
  another counterexample: a change of `layout` with the older of two windows in
  focus, an X client's request to `activate` an icon, a `jump` to a window that
  was closed, an `output` that is attached or the last one that goes, and the
  workspace of another context that is reached by `stray`. What
  is left is everything else a user and clients do with windows on any number of
  workspaces and contexts, under any layout in use from the start: mapping,
  closing, focusing by key, pointer or click, reordering, dragging, floating,
  nudging, containing, iconifying, moving to workspaces, entering workspaces and
  contexts. Parts of these properties that hold with more, as the runs
  `layouts`, `contexts` and `outputs` check, stay model-checked there.

**Keys and the pointer.** `InputProofs` proves, for any keys, bindings, windows
and points, that `PerformsWhatIsHeld` holds in every state of `Input` and that the
keyboard implements the safety part of `Repeater`. A step of the system is a step
of `Keyboard` or leaves its variables alone (`Steps`). What the timer performs is
bound to a held key only because what is to be repeated always is
(`RepeatIsHeld`): every release ends the repetition, and a press replaces what
is repeated by something of its own. With the type and `RepeatIsArmed` (the
timer is set, or its call is due) this is the inductive `KeyboardInv`.

The windows add to it that the desk is `Coherent`: while a window is moved or
resized, the grab names a view and the region it had (`SystemInv`). From it
follow `InputTypeOK`, and the action properties `SwitchEndsGrab` and `EdgeStays`: each
handler, and each action performed, is shown to leave a workspace only
with the grab ended and to move held edges only (`Handled`), and by a fold so is
all that a key yields. `EdgeStays` has the hypothesis `OneStretch`, that no key
yields two stretches at once; one that did would move two opposite edges in one
step, as its user asked. The assumptions are `KeyboardAssumption` and
`InputAssumption`.

**Tiling.** `TilingProofs` proves the arithmetic of the arrangements for any
number of views, any screen and any data (`NonOverlapping`). A cell that has an
extent is inside the region shared out, and apart from the others. It rests on
two facts about truncated division, that n quotients do not exceed the dividend,
and that products by an index are monotone (`QuotNat`, `Multiples`), and on the
bounds of a share (`ShareBounds`); piles and rows follow from them
(`PiledApart`, `BesideApart`), the double stack from two piles in columns that
lie apart, the paper layouts from the widths on both sides of the leading view.

That nothing of the screen is lost either (`ScreenIsFilled`, by `Filling`) needs
a sum, which is a fold. No library lemma says what a fold adds up to, so
`TwoSizes` proves it for summands of two values, which is all an arrangement
has: two functions that add up alike are the same (`TotalUnique`), by a least
counterexample among the subsets of a finite set (`SubsetInduction`). A quotient
leaves less than one unit for each part (`Remainder`), so a row, a pile or the
folded views leave less than a line each, and two columns together no more than
one would (`DoubleStackFills`); without a gap a tile in which a view fits is its
cell (`UngappedCell`).

For the system, `HandlerInv` says that each layout keeps a
cycle of three data within their limits, which makes `ActiveData` defined, and
from it follow `LayoutTypeOK`, with `NonOverlapping` `TilesApart`, with `CellsFill`
`ScreenIsFilled`, and, from what each
method writes (`Local`), the action property `EditsStayLocal`.
`PlacedIsCurrent` is proved from the invariant of the views' numbers
(`ViewsInv`): an arrangement that is neither persistent nor single does not
depend on the focus (`FocusFree`), so `focus_view` need not place it anew. The
assumption is `TilingAssumption`.

**Panels and the keyboard.** `LayersProofs` proves `LaidInRoomLeft`
(`WindowsHaveTheRoomLeft`) and `KeyboardReturns` (`KeyboardComesBack`) for any
outputs, regions, panels, states that clients commit, windows and menus. Neither
is inductive. What an output leaves to windows is computed when it is
arranged, from the panels listed then; it still is what they leave later because
every handler that changes a listed panel, a list or a region arranges that
output before it returns, and no handler changes a panel of an output that it
does not arrange. `ShellIsSound` therefore says of every output that its list
names living panels of that output (`Registered`), of every living panel that it
is on the list of its output (`Wired`), and that the room noted for windows is
what the listed panels leave (`Fits`). In the middle of a handler one output is
not settled (`SettledBut`): a panel on its list may be deleted already, a region
new, the room old. `ArrangedSettles` is the lemma that arranging settles it, or
the program is no longer up.

The heart of it is a loop and a sum. `arrange_layers` goes twice through four
lists and takes room from the area as it meets each panel, while `RoomLeft` adds
up what the set of listed panels takes. `Through` relates the area after i
panels to what the first i of them take (`PassStep`, `ShrunkTakes`), where a
panel is met once (`ListsOnce`); `TakenByAny` is that a sum over a finite set
does not depend on the order in which its elements are taken, proved by
induction on subsets from the well-foundedness of < on the numbers
(`SubsetInduction`).

For the keyboard, each handler is split into what hides a panel or a menu and
what comes after. The first gives the keyboard to the focused window if there is
one on display (`UnmapFacts`, `UnmapMenuFacts`), which is mapped by the
invariant (`FocusOpen`); an arrangement afterwards hides nothing and moves the
keyboard only to a panel that is mapped (`ArrangedGood`); and the seat forgets a
destroyed panel only after that (`PanelReturns`). The assumption is
`LayersAssumption`: clients commit states of the protocol's form, and panels,
windows and menus are different things.

**Only model-checked.** Of `ModelSpec`: the properties of `FocusProofs` together
with activation requests, changes of layout and outputs that come and go; of two
commands in a row everything (`RoundTrips`, where a proof would compute whole
histories); of panels `PanelsApart`, which is not
true of every constant (negative margins, or a panel larger than the room there
is, let panels overlap: it is a statement about clients like those of the
instance); and the liveness in `RepeaterSpec`, since the proof system treats
neither fairness nor `ENABLED`.

## Not modelled

- Popups of layer surfaces and windows, decorations, colours, hints, and the
  coordinates of snapping, inflating, centring and nudging: nothing modelled
  depends on them. Rounding of `float` in a layout's factor is left out; shares
  are exact and truncated.
- Layout files that `save_layout` did not write.
- Which window is the topmost under the pointer, the image of the cursor, its
  constraints, gestures and axis events.
- The seat's selections and idle inhibitors (the listener for a destroyed
  inhibitor is one per seat, `seat.cc:134`, and is linked again by a second one).
- Sticky views (their binding is commented out), the unused insertions and
  searches of `Cycle`, commands and methods bound to nothing
  (`move_view_to_context`, `focus_output`, `migrate_layers_to_output`), the
  next and previous window that indicators are drawn for.
- Focus following the cursor is not kept as a flag: a view under the cursor may
  be focused at any time, which covers both settings.
- Parsing of rules, options and the environment; wlroots itself; `kranec`, a
  stub.

## Plan

1. `Cycle`, `Workspace`, `Model`, `ModelSpec`, `RoundTrips`, with the proofs of
   the cycle's invariants (done).
2. `Keyboard` and `Cursor` composed in `Input`, `LayoutHandler`, `Arrangement`
   and `Tiling`, `Layers`, with the proofs about repetition and tiling (done).
3. Proofs of types, of the focus that is unique, of contexts and outputs, of the
   places of the windows, of the grab's end and of its edges (done).
4. Proofs of who has the focus, that the recursion of the focus ends, that
   only one step goes down, of what is laid out, mapped and shown, and of the room
   and the keyboard of `Layers` (done). Left: the lemmas of `RoundTrips`.
5. An abstract desktop (windows on workspaces, one focus, what is visible) that
   `ModelSpec` implements in the runs without the combinations above.
6. The window's life with re-mapping and changes of override-redirect.
