------------------------------ MODULE Keyboard ------------------------------
(***************************************************************************)
(* Keyboard (src/kranewl/input/keyboard.cc): one keyboard, the key         *)
(* bindings, and the timer that repeats the action of a key held down.     *)
(*                                                                         *)
(*   attached   the device is there: created, and not yet destroyed        *)
(*   pressed    the keys held down (the device's own state)                *)
(*   repeat     m_repeat_action, or NoAction                               *)
(*   armed      the timer is set                                           *)
(*   due        the event loop has taken note that the timer expired, and  *)
(*              not yet called handle_key_repeat: it may call other        *)
(*              handlers first, which disarm a timer but not this call     *)
(*   performed  the actions the last step performed, in order, NoAction    *)
(*              for a symbol that is bound to none                         *)
(*                                                                         *)
(* create_keyboard sets a delay and a rate above zero, so both tests for   *)
(* them pass. Whether a client has the input to itself (a screen locker)   *)
(* is the environment's, and open at each press. Other keyboards have the  *)
(* same state over again.                                                  *)
(***************************************************************************)
EXTENDS Naturals, Sequences, FiniteSets, SequencesExt

CONSTANTS NoAction,
          Keys, SwitchVTKeys,       \* those that change the virtual terminal
          Symbols, Yields,          \* the symbols each key yields, in order
          Modifiers, Actions,
          Bound,                    \* [symbol, modifiers] to action, or NoAction
          Repeatable                \* the <<symbol, modifiers>> that repeat

ASSUME KeyboardAssumption ==
  /\ SwitchVTKeys \subseteq Keys
  /\ Yields \in [Keys -> Seq(Symbols)]
  /\ Bound \in [Symbols \X Modifiers -> Actions \union {NoAction}]
  /\ Repeatable \subseteq Symbols \X Modifiers
  /\ NoAction \notin Actions

VARIABLES attached, pressed, repeat, armed, due, performed

keyboard == << attached, pressed, repeat, armed, due, performed >>

\* process_key_binding for each symbol in turn: NoAction where none is bound.
ProcessKeyBindings(k, modifiers) ==
  [i \in DOMAIN Yields[k] |-> Bound[<< Yields[k][i], modifiers >>]]

\* Each symbol either takes over the repetition, when its binding repeats, or
\* ends it: the last one decides.
RepeatedBy(k, modifiers) ==
  IF << Last(Yields[k]), modifiers >> \in Repeatable
  THEN Bound[<< Last(Yields[k]), modifiers >>] ELSE NoAction

\* A key is pressed. A key that switches the terminal returns early, and an
\* inhibited keyboard runs no binding: neither touches the repetition.
Press(k, modifiers, inhibited) ==
  /\ attached /\ k \notin pressed
  /\ pressed' = pressed \union {k}
  /\ IF k \in SwitchVTKeys \/ inhibited \/ Yields[k] = << >>
     THEN performed' = << >> /\ UNCHANGED << repeat, armed >>
     ELSE /\ performed' = ProcessKeyBindings(k, modifiers)
          /\ repeat' = RepeatedBy(k, modifiers)
          /\ armed' = (repeat' # NoAction)
  /\ UNCHANGED << attached, due >>

\* Mutant: the timer is stopped and its action kept.
ReleaseKeepingAction(k) ==
  /\ attached /\ k \in pressed
  /\ pressed' = pressed \ {k}
  /\ armed' = FALSE /\ performed' = << >>
  /\ UNCHANGED << attached, due, repeat >>

\* Any release ends the repetition.
Release(k) ==
  /\ attached /\ k \in pressed
  /\ pressed' = pressed \ {k}
  /\ repeat' = NoAction /\ armed' = FALSE /\ performed' = << >>
  /\ UNCHANGED << attached, due >>

Expire ==
  /\ armed
  /\ armed' = FALSE /\ due' = TRUE /\ performed' = << >>
  /\ UNCHANGED << attached, pressed, repeat >>

\* Mutant: the timer is not set again.
DispatchOnce ==
  /\ due /\ due' = FALSE
  /\ armed' = armed
  /\ performed' = IF repeat # NoAction THEN << repeat >> ELSE << >>
  /\ UNCHANGED << attached, pressed, repeat >>

\* handle_key_repeat
Dispatch ==
  /\ due /\ due' = FALSE
  /\ armed' = (armed \/ repeat # NoAction)
  /\ performed' = IF repeat # NoAction THEN << repeat >> ELSE << >>
  /\ UNCHANGED << attached, pressed, repeat >>

Unplug ==
  /\ attached /\ attached' = FALSE
  /\ pressed' = {} /\ repeat' = NoAction /\ armed' = FALSE /\ due' = FALSE /\ performed' = << >>

Plug ==
  /\ ~ attached /\ attached' = TRUE /\ performed' = << >>
  /\ UNCHANGED << pressed, repeat, armed, due >>

KeyboardInit ==
  /\ attached = FALSE /\ pressed = {}
  /\ repeat = NoAction /\ armed = FALSE /\ due = FALSE /\ performed = << >>

KeyboardNext ==
  \/ \E k \in Keys, m \in Modifiers, inhibited \in BOOLEAN : Press(k, m, inhibited)
  \/ \E k \in Keys : Release(k)
  \/ Expire \/ Dispatch \/ Unplug \/ Plug

----------------------------------------------------------------------------
(* Correctness.                                                            *)

KeyboardTypeOK ==
  /\ attached \in BOOLEAN /\ armed \in BOOLEAN /\ due \in BOOLEAN
  /\ pressed \subseteq Keys
  /\ repeat \in Actions \union {NoAction}
  /\ performed \in Seq(Actions \union {NoAction})

\* The actions the keys held down may perform, and may repeat.
ActionsOf(k)    == {Bound[<< s, m >>] : s \in Range(Yields[k]), m \in Modifiers} \ {NoAction}
RepeatableOf(k) ==
  {Bound[p] : p \in {q \in Repeatable : q[1] \in Range(Yields[k])}} \ {NoAction}

\* No action is performed, at once or by repetition, unless a key bound to it
\* is still held down: the call of an expired timer that comes after the
\* release, or after the keyboard went, performs nothing.
PerformsWhatIsHeld ==
  \A i \in DOMAIN performed :
    performed[i] = NoAction \/ \E k \in pressed : performed[i] \in ActionsOf(k)

\* What is to be repeated is bound to a key held down, and the timer is set or
\* has just expired: a repetition never hangs on a timer that is off.
RepeatIsHeld  == repeat # NoAction => \E k \in pressed : repeat \in RepeatableOf(k)
RepeatIsArmed == repeat # NoAction => armed \/ due

\* The keyboard implements a Repeater.
Repeating == INSTANCE Repeater WITH chosen <- repeat, doing <- performed, None <- NoAction,
                                    Performable <- Actions \union {NoAction}
RepeaterSpec == Repeating!Spec
=============================================================================
