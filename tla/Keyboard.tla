------------------------------- MODULE Keyboard -------------------------------
(***************************************************************************)
(* core/platforms/WaylandPlatform.cpp, the keyboard of the seat: which     *)
(* window the keys go to, which keys are down, and the key that repeats.   *)
(*                                                                         *)
(* The compositor queues its events; the client dispatches them one by one *)
(* on its one thread.  A window's key handler may paste, and readClipboard *)
(* makes a wl_display_roundtrip, which dispatches queued events inside the *)
(* handler: a frame on handlers is a call of keyboardKey that has not      *)
(* returned, and what follows it in onKey or onRepeatTimerFire still runs. *)
(*                                                                         *)
(* Keys differ in what a press of them does: an arrow skips composition,   *)
(* a dead key starts one, a letter makes text, the others make none.       *)
(***************************************************************************)
EXTENDS Naturals, Sequences, FiniteSets

CONSTANTS
  Windows,
  Arrows, Letters, DeadKeys, Modifiers,  \* the keys, by what a press of them does
  Nobody,                                \* no window, no key
  MaxKeyEvents,                          \* bound: queued events beyond which the compositor sends none
  MaxHandlers,                           \* bound: handlers inside one another
  MaxDown                                \* bound: keys down at a time

AllKeys == Arrows \cup Letters \cup DeadKeys \cup Modifiers

ASSUME KeyboardAssumption == Nobody \notin Windows \cup AllKeys

VARIABLES
  seat,         \* compositor: its focus, the keys that are down, whether it offers a keyboard
  keyEvents,    \* what it sent and the client has not dispatched
  present,      \* m_waylandState.keyboard
  focus,        \* m_keyboardWindow
  pressedKeys,  \* pressedKeys
  compose,      \* the status of xkbComposeState
  repeatKey,    \* repeatKeyEvent: the key it presses, Nobody for an event with down = false
  rate,         \* repeatRate and repeatDelay are not 0
  timer,        \* repeatTimer is pending
  orphans,      \* repeat timers that are pending and that repeatTimer no longer refers to
  handlers,     \* the calls of keyboardKey that have not returned, innermost last
  lateRelease   \* history: repeatKeyEvent was set to a key that was up by then
repeatVars == <<repeatKey, timer, orphans, lateRelease>>
seatKeyVars == <<seat, keyEvents, present, focus, pressedKeys, compose, rate, repeatVars, handlers>>

Innermost == handlers[Len(handlers)]
Pop == SubSeq(handlers, 1, Len(handlers) - 1)

----------------------------------------------------------------------------
\* The compositor

SendKey(e) == Len(keyEvents) < MaxKeyEvents /\ keyEvents' = Append(keyEvents, e)
KeyboardUnchanged == UNCHANGED <<present, focus, pressedKeys, compose, rate, repeatVars, handlers>>

MoveFocus(w) ==
  /\ seat.offered /\ seat.focus # w /\ Nobody \in {w, seat.focus}
  /\ seat' = [seat EXCEPT !.focus = w]
  /\ SendKey(IF w = Nobody THEN [type |-> "leave"]
             ELSE [type |-> "enter", window |-> w, keys |-> seat.down])
  /\ KeyboardUnchanged

\* A key goes to the focus, if there is one; the keyboard itself knows what is down.
ToggleKey(k) ==
  LET down == IF k \in seat.down THEN seat.down \ {k} ELSE seat.down \cup {k} IN
  /\ seat.offered
  /\ Cardinality(down) <= MaxDown
  /\ seat' = [seat EXCEPT !.down = down]
  /\ IF seat.focus = Nobody THEN UNCHANGED keyEvents
     ELSE SendKey([type |-> "key", key |-> k, down |-> k \in down])
  /\ KeyboardUnchanged

\* The keyboard is unplugged and plugged in: the focus is not entered again by itself.
ToggleKeyboard ==
  /\ seat' = [offered |-> ~seat.offered, focus |-> Nobody, down |-> {}]
  /\ SendKey([type |-> "capabilities", keyboard |-> ~seat.offered])
  /\ KeyboardUnchanged

----------------------------------------------------------------------------
\* The repeat timer

StartRepeatTimer(started) == timer' = (IF rate THEN TRUE ELSE started)
StopRepeatTimer == timer' = FALSE

ResetKeyboardState ==
  /\ StopRepeatTimer
  /\ repeatKey' = Nobody
  /\ compose' = "nothing"
  /\ lateRelease' = FALSE

----------------------------------------------------------------------------
\* What the client dispatches: from its event loop, or inside a handler that pastes

DispatchingKey(type) ==
  /\ keyEvents # <<>> /\ Head(keyEvents).type = type
  /\ keyEvents' = Tail(keyEvents)
  /\ UNCHANGED <<seat, rate>>

Call(what, k) ==
  /\ Len(handlers) < MaxHandlers
  /\ handlers' = Append(handlers, [what |-> what, key |-> k])

OnKeyboardEnterForgetting ==   \* Seeded fault: the keys held during the enter are not recorded.
  /\ DispatchingKey("enter") /\ present
  /\ ResetKeyboardState
  /\ focus' = Head(keyEvents).window
  /\ pressedKeys' = {}
  /\ UNCHANGED <<present, orphans, handlers>>

OnKeyboardEnter ==
  /\ DispatchingKey("enter") /\ present
  /\ ResetKeyboardState
  /\ focus' = Head(keyEvents).window
  /\ pressedKeys' = Head(keyEvents).keys
  /\ UNCHANGED <<present, orphans, handlers>>

OnKeyboardLeave ==
  /\ DispatchingKey("leave") /\ present
  /\ ResetKeyboardState
  /\ focus' = Nobody
  /\ pressedKeys' = {}
  /\ UNCHANGED <<present, orphans, handlers>>

\* A lost capability is a leave; a new one makes a keyboard without a focus.
OnCapabilities ==
  /\ DispatchingKey("capabilities")
  /\ present' = Head(keyEvents).keyboard
  /\ IF present /\ ~present'
     THEN ResetKeyboardState /\ focus' = Nobody /\ pressedKeys' = {}
     ELSE UNCHANGED <<focus, pressedKeys, compose, repeatKey, timer, lateRelease>>
  /\ UNCHANGED <<orphans, handlers>>

IsPress(k) == Head(keyEvents).key = k /\ Head(keyEvents).down /\ k \notin pressedKeys
IsRelease(k) == Head(keyEvents).key = k /\ ~Head(keyEvents).down /\ k \in pressedKeys

\* xkb_compose_state_feed ignores modifiers, so that one pressed while the status
\* is still composed gives the composed text once more.
Fed(k) ==
  CASE k \in DeadKeys -> "composing"
    [] k \in Letters -> IF compose = "composing" THEN "composed" ELSE "nothing"
    [] OTHER -> compose
MakesText(k) == k \in Letters \/ Fed(k) = "composed"

\* onKey, a press up to the call of keyboardKey, or to its end when nothing is called
PressHeard(k) ==
  /\ DispatchingKey("key") /\ present /\ IsPress(k)
  /\ focus # Nobody /\ (k \in Arrows \/ MakesText(k))
  /\ pressedKeys' = pressedKeys \cup {k}
  /\ compose' = (IF k \in Arrows THEN compose ELSE Fed(k))
  /\ Call("press", k)
  /\ UNCHANGED <<present, focus, repeatVars>>

\* A key without text is not delivered, but starts the timer all the same: what
\* repeats is the event before it.
PressSilent(k) ==
  /\ DispatchingKey("key") /\ present /\ IsPress(k)
  /\ focus # Nobody /\ k \notin Arrows /\ ~MakesText(k)
  /\ pressedKeys' = pressedKeys \cup {k}
  /\ compose' = Fed(k)
  /\ StartRepeatTimer(timer)
  /\ UNCHANGED <<present, focus, repeatKey, orphans, lateRelease, handlers>>

ReleaseHeardKeeping(k) ==   \* Seeded fault: repeatKeyEvent keeps the key that was pressed.
  /\ DispatchingKey("key") /\ present /\ IsRelease(k) /\ focus # Nobody
  /\ pressedKeys' = pressedKeys \ {k}
  /\ compose' = (IF compose = "composed" THEN "nothing" ELSE compose)
  /\ lateRelease' = FALSE
  /\ Call("release", Nobody)
  /\ UNCHANGED <<present, focus, repeatKey, timer, orphans>>

ReleaseHeard(k) ==
  /\ DispatchingKey("key") /\ present /\ IsRelease(k) /\ focus # Nobody
  /\ pressedKeys' = pressedKeys \ {k}
  /\ compose' = (IF compose = "composed" THEN "nothing" ELSE compose)
  /\ repeatKey' = Nobody
  /\ lateRelease' = FALSE
  /\ Call("release", Nobody)
  /\ UNCHANGED <<present, focus, timer, orphans>>

\* Without a window the keys are only remembered.  A press of a key that is down,
\* or a release of one that is not, is refused.
KeyUnheard(k) ==
  /\ DispatchingKey("key") /\ present /\ Head(keyEvents).key = k
  /\ focus = Nobody \/ (~IsPress(k) /\ ~IsRelease(k))
  /\ pressedKeys' = (IF Head(keyEvents).down THEN pressedKeys \cup {k} ELSE pressedKeys \ {k})
  /\ UNCHANGED <<present, focus, compose, repeatVars, handlers>>

\* The application destroys a window: references to it are gone, a queued enter
\* finds none (windowForSurf), and the compositor may or may not send a leave.
Destroy(w) ==
  /\ handlers = <<>> /\ w \in {focus, seat.focus}
  /\ focus' = (IF focus = w THEN Nobody ELSE focus)
  /\ seat' = (IF seat.focus = w THEN [seat EXCEPT !.focus = Nobody] ELSE seat)
  /\ LET lost == [i \in DOMAIN keyEvents |->
                    IF keyEvents[i].type = "enter" /\ keyEvents[i].window = w
                    THEN [keyEvents[i] EXCEPT !.window = Nobody] ELSE keyEvents[i]]
     IN  \/ keyEvents' = lost
         \/ /\ seat.focus = w /\ Len(lost) < MaxKeyEvents
            /\ keyEvents' = Append(lost, [type |-> "leave"])
  /\ UNCHANGED <<present, pressedKeys, compose, rate, repeatVars, handlers>>

----------------------------------------------------------------------------
\* The handler returns to onKey or onRepeatTimerFire

Returning(what) ==
  /\ handlers # <<>> /\ Innermost.what = what
  /\ handlers' = Pop
  /\ UNCHANGED <<seat, keyEvents, present, focus, pressedKeys, compose, rate>>

ReturnPress ==
  /\ Returning("press")
  /\ repeatKey' = Innermost.key
  /\ StartRepeatTimer(timer)
  /\ lateRelease' = (Innermost.key \notin pressedKeys)
  /\ UNCHANGED orphans

ReturnRelease ==
  /\ Returning("release")
  /\ StopRepeatTimer
  /\ UNCHANGED <<repeatKey, orphans, lateRelease>>

\* The timer that fired is replaced by a new one; one that was started inside the
\* handler is forgotten, not cancelled.
ReturnFire ==
  /\ Returning("fire")
  /\ timer' = TRUE
  /\ orphans' = (IF timer /\ orphans < 1 THEN orphans + 1 ELSE orphans)
  /\ UNCHANGED <<repeatKey, lateRelease>>

\* onRepeatTimerFire, up to keyboardKey: without a window it ends the repetition.
Fire(orphan) ==
  /\ handlers = <<>> /\ (IF orphan THEN orphans > 0 ELSE timer)
  /\ timer' = (IF orphan THEN timer ELSE FALSE)
  /\ orphans' = (IF orphan THEN orphans - 1 ELSE orphans)
  /\ handlers' = (IF focus = Nobody THEN handlers ELSE <<[what |-> "fire", key |-> Nobody]>>)
  /\ UNCHANGED <<seat, keyEvents, present, focus, pressedKeys, compose, rate, repeatKey, lateRelease>>

\* The compositor is taken to change the repeat rate only while nothing repeats.
RepeatInfo ==
  /\ handlers = <<>> /\ ~timer /\ orphans = 0 /\ seat.down = {}
  /\ rate' = ~rate
  /\ UNCHANGED <<seat, keyEvents, present, focus, pressedKeys, compose, repeatVars, handlers>>

----------------------------------------------------------------------------
KeyboardInit ==
  /\ seat = [offered |-> FALSE, focus |-> Nobody, down |-> {}]
  /\ keyEvents = <<>>
  /\ present = FALSE
  /\ focus = Nobody
  /\ pressedKeys = {}
  /\ compose = "nothing"
  /\ repeatKey = Nobody
  /\ rate = TRUE
  /\ timer = FALSE
  /\ orphans = 0
  /\ handlers = <<>>
  /\ lateRelease = FALSE

KeyboardNext ==
  \/ \E w \in Windows \cup {Nobody} : MoveFocus(w)
  \/ \E k \in AllKeys : ToggleKey(k)
  \/ ToggleKeyboard
  \/ OnKeyboardEnter \/ OnKeyboardLeave \/ OnCapabilities
  \/ \E k \in AllKeys : PressHeard(k) \/ PressSilent(k) \/ ReleaseHeard(k) \/ KeyUnheard(k)
  \/ ReturnPress \/ ReturnRelease \/ ReturnFire
  \/ \E orphan \in BOOLEAN : Fire(orphan)
  \/ RepeatInfo
  \/ \E w \in Windows : Destroy(w)

KeyboardSpec == KeyboardInit /\ [][KeyboardNext]_seatKeyVars

----------------------------------------------------------------------------
\* Properties

\* When the client has dispatched everything it was sent it agrees with the
\* compositor about the focus and about the keys that are down, whatever was
\* held while focus moved or the keyboard went away: otherwise onKey drops a
\* press as a duplicate or a release as a stray one, and a key is stuck.
KeysMatchSeat ==
  keyEvents = <<>> =>
    /\ focus = seat.focus
    /\ seat.focus # Nobody => pressedKeys = seat.down

\* What would repeat is a key that is down: releases of other keys, leaves, enters
\* and presses of keys without text, which all touch the timer or the event it
\* repeats, never leave it with a key that is up.  Only a paste's roundtrip can
\* (lateRelease): it dispatches a release or a leave before onKey stores the press.
RepeatIsHeld == ~lateRelease /\ focus # Nobody /\ repeatKey # Nobody => repeatKey \in pressedKeys
=============================================================================
