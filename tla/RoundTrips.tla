----------------------------- MODULE RoundTrips -----------------------------
(***************************************************************************)
(* What a user expects of two commands in a row: stepping back, dragging   *)
(* back, switching back or undoing an icon ends where it began, and a walk *)
(* through a workspace meets every window. Each property is about the      *)
(* handlers applied to a reachable state, one after the other.             *)
(***************************************************************************)
EXTENDS ModelSpec

Opposite(d) == IF d = "Forward" THEN "Backward" ELSE "Forward"

\* The states of a walk of n steps with move_focus.
Walk(m, d, n) ==
  LET at[i \in 0..n] == IF i = 0 THEN m ELSE CycleFocusCommand(at[i - 1], d)
  IN  at

(* A walk of as many steps as the workspace has views meets each of them,  *)
(* though it crosses from track to track and every track keeps its own     *)
(* active element.                                                         *)
WalkMeetsAll ==
  LET n == Size(Current(model).views)
  IN  \A d \in Directions :
        n > 1 => {Walk(model, d, n)[i].focus : i \in 1..n} = Members(Current(model).views)

(* One step forward and one back (or the other way round) return the       *)
(* focus, even across the end of a track.                                  *)
StepBackReturns ==
  \A d \in Directions :
    Size(Current(model).views) > 1 =>
      CycleFocusCommand(CycleFocusCommand(model, d), Opposite(d)).focus = focus

(* A view dragged and dragged back leaves the order of the track as it     *)
(* was, and keeps the focus all the while.                                 *)
DragBackRestores ==
  \A d \in Directions :
    Size(CurrentTrack(Current(model))) > 1 =>
      LET there == DragFocusTrackCommand(model, d)
          back  == DragFocusTrackCommand(there, Opposite(d))
      IN  /\ there.focus = focus /\ back.focus = focus
          /\ CurrentTrack(Current(back)).elements = CurrentTrack(Current(model)).elements
          /\ Current(back).views.elements = Current(model).views.elements

(* Another workspace and back: the focus is where it was, every view of    *)
(* this one is mapped again and none of the other.                         *)
SwitchBackReturns ==
  \A w \in WorkspacesOf(model.context) :
    LET back == ActivateWorkspace(ActivateWorkspace(model, w), model.workspace)
    IN  /\ back.focus = focus
        /\ \A v \in Views : back.view[v].mapped = model.view[v].mapped

(* The focus sent away as an icon and taken back (from the top of the      *)
(* icons) has the focus again.                                             *)
IconReturnsFocused ==
  focus # Null => PopDeiconify(SetIconify(model, focus, TRUE)).focus = focus

(* The focus moved to another workspace of the context has the focus there *)
(* when one follows it, and is the only one there to have it.              *)
MovedFocusLeads ==
  focus # Null =>
    \A w \in WorkspacesOf(model.context) \ {model.workspace} :
      LET m == ActivateWorkspace(MoveViewToWorkspace(model, focus, w), w)
      IN  /\ m.focus = focus
          /\ \A v \in Views : m.view[v].focused <=> v = focus

----------------------------------------------------------------------------
(* A window that closes.                                                   *)

Closes(v) == model.view[v].state = "mapped" /\ model'.view[v].state = "unmapped"

(* A window that closes without having the focus leaves the focus alone,   *)
(* whichever workspace and track it was on.                                *)
ClosingAnotherKeepsFocus ==
  [][\A v \in Views \ {focus} : Closes(v) => model'.focus = focus]_model

(* When the focus closes, the view of its track that was left last gets    *)
(* the focus; any view of the track, before one of another track.          *)
ClosingReturnsFocus ==
  [][\A v \in Views :
       Closes(v) /\ v = focus =>
         LET track   == model.ws[model.view[v].ws].tracks[model.view[v].layer]
             history == EraseRemove(track.stack, v)
         IN  /\ history # << >> => model'.focus = history[Len(history)]
             /\ Size(track) > 1 => model'.focus \in Members(track) \ {v}]_model
============================================================================
