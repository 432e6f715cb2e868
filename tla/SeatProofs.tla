------------------------------ MODULE SeatProofs ------------------------------
(***************************************************************************)
(* Proofs about what the seat sends to the windows, for any windows, keys, *)
(* menus and outputs and for queues of any length: the keyboard and its    *)
(* repeated key (Keyboard), the pointer and the popups (Popups), and the   *)
(* surfaces of the session lock (SessionLock).                             *)
(***************************************************************************)
EXTENDS Keyboard, Popups, SessionLock, TLAPS

\* Keyboard

KeyEvent ==
  [type : {"leave"}]
  \cup [type : {"enter"}, window : Windows \cup {Nobody}, keys : SUBSET AllKeys]
  \cup [type : {"key"}, key : AllKeys, down : BOOLEAN]
  \cup [type : {"capabilities"}, keyboard : BOOLEAN]

ClientState == [present : BOOLEAN, focus : Windows \cup {Nobody}, pressed : SUBSET AllKeys]

\* What the client makes of one event, in every one of the handlers for it.
Dispatched(s, e, t) ==
  \/ e.type = "leave" /\ s.present /\ t = [present |-> TRUE, focus |-> Nobody, pressed |-> {}]
  \/ e.type = "enter" /\ s.present /\ t = [present |-> TRUE, focus |-> e.window, pressed |-> e.keys]
  \/ /\ e.type = "key" /\ s.present
     /\ t = [present |-> TRUE, focus |-> s.focus,
             pressed |-> IF e.down THEN s.pressed \cup {e.key} ELSE s.pressed \ {e.key}]
  \/ /\ e.type = "capabilities"
     /\ t = IF s.present /\ ~e.keyboard THEN [present |-> FALSE, focus |-> Nobody, pressed |-> {}]
            ELSE [present |-> e.keyboard, focus |-> s.focus, pressed |-> s.pressed]

\* The client as it is, and as it will be after each of the events that wait
Now == [present |-> present, focus |-> focus, pressed |-> pressedKeys]
Leads(run) ==
  /\ run \in [0 .. Len(keyEvents) -> ClientState]
  /\ run[0] = Now
  /\ \A i \in 1 .. Len(keyEvents) : Dispatched(run[i - 1], keyEvents[i], run[i])

\* ends in agreement with the compositor.
Agrees(s) ==
  /\ s.present = seat.offered /\ s.focus = seat.focus
  /\ seat.focus # Nobody => s.pressed = seat.down

KeyTypes ==
  /\ seat \in [offered : BOOLEAN, focus : Windows \cup {Nobody}, down : SUBSET AllKeys]
  /\ keyEvents \in Seq(KeyEvent)
  /\ seat.focus # Nobody => seat.offered

SeatIInv == KeyTypes /\ \E run : Leads(run) /\ Agrees(run[Len(keyEvents)])
-----------------------------------------------------------------------------
\* An event that brings the client where the compositor is keeps them in agreement.
LEMMA SendingKeepsAgreement ==
  ASSUME SeatIInv, KeyTypes', NEW e \in KeyEvent, keyEvents' = Append(keyEvents, e),
         UNCHANGED <<present, focus, pressedKeys>>,
         \A s \in ClientState : Agrees(s) => \E t \in ClientState : Dispatched(s, e, t) /\ Agrees(t)'
  PROVE  SeatIInv'
<1>1. PICK run : Leads(run) /\ Agrees(run[Len(keyEvents)])
  BY DEF SeatIInv
<1>2. keyEvents \in Seq(KeyEvent) /\ Len(keyEvents) \in Nat
  BY DEF SeatIInv, KeyTypes
<1>3. run[Len(keyEvents)] \in ClientState
  BY <1>1, <1>2 DEF Leads
<1>4. PICK t \in ClientState : Dispatched(run[Len(keyEvents)], e, t) /\ Agrees(t)'
  BY <1>1, <1>3
<1> DEFINE n == Len(keyEvents)
           longer == [i \in 0 .. n + 1 |-> IF i = n + 1 THEN t ELSE run[i]]
<1>5. /\ Len(keyEvents') = n + 1 /\ keyEvents'[n + 1] = e
      /\ \A i \in 1 .. n : keyEvents'[i] = keyEvents[i]
  BY <1>2
<1>6. longer \in [0 .. n + 1 -> ClientState]
  BY <1>1, <1>2, <1>4 DEF Leads
<1>7. longer[0] = Now'
  BY <1>1, <1>2 DEF Leads, Now
<1>8. \A i \in 1 .. n + 1 : Dispatched(longer[i - 1], keyEvents'[i], longer[i])
  <2>1. ASSUME NEW i \in 1 .. n PROVE Dispatched(longer[i - 1], keyEvents'[i], longer[i])
    <3>1. longer[i - 1] = run[i - 1] /\ longer[i] = run[i]
      BY <1>2
    <3> QED BY <1>1, <1>5, <3>1 DEF Leads
  <2>2. ASSUME NEW i, i = n + 1 PROVE Dispatched(longer[i - 1], keyEvents'[i], longer[i])
    <3>1. longer[i - 1] = run[n] /\ longer[i] = t
      BY <1>2, <2>2
    <3> QED BY <1>4, <1>5, <2>2, <3>1
  <2>3. \A i \in 1 .. n + 1 : i \in 1 .. n \/ i = n + 1
    BY <1>2
  <2> QED BY <2>1, <2>2, <2>3
<1>9. longer[n + 1] = t
  BY <1>2
<1> HIDE DEF longer
<1>10. PICK r : r = longer
  OBVIOUS
<1>11. Leads(r)'
  BY <1>5, <1>6, <1>7, <1>8, <1>10 DEF Leads
<1>12. Agrees(r[Len(keyEvents)])'
  <2>1. r[Len(keyEvents')] = t
    BY <1>5, <1>9, <1>10
  <2> QED BY <1>4, <2>1 DEF Agrees
<1> QED BY <1>11, <1>12 DEF SeatIInv

\* The client dispatches the first event that waits, as foreseen.
LEMMA DispatchKeepsAgreement ==
  ASSUME SeatIInv, keyEvents # <<>>, keyEvents' = Tail(keyEvents), UNCHANGED seat,
         Now' \in ClientState,
         \A t \in ClientState : Dispatched(Now, Head(keyEvents), t) => t = Now'
  PROVE  SeatIInv'
<1>1. PICK run : Leads(run) /\ Agrees(run[Len(keyEvents)])
  BY DEF SeatIInv
<1>2. keyEvents \in Seq(KeyEvent) /\ Len(keyEvents) \in Nat \ {0} /\ Head(keyEvents) = keyEvents[1]
  BY DEF SeatIInv, KeyTypes
<1> DEFINE n == Len(keyEvents) - 1
           rest == [i \in 0 .. n |-> run[i + 1]]
<1>3. /\ Len(keyEvents') = n /\ n \in Nat /\ keyEvents' \in Seq(KeyEvent)
      /\ \A i \in 1 .. n : keyEvents'[i] = keyEvents[i + 1]
  BY <1>2
<1>4. rest \in [0 .. n -> ClientState]
  BY <1>1, <1>2 DEF Leads
<1>5. rest[0] = Now'
  <2>1. run[1] \in ClientState /\ Dispatched(run[1 - 1], keyEvents[1], run[1]) /\ run[0] = Now
    BY <1>1, <1>2 DEF Leads
  <2> QED BY <1>2, <2>1
<1>6. \A i \in 1 .. n : Dispatched(rest[i - 1], keyEvents'[i], rest[i])
  <2>1. SUFFICES ASSUME NEW i \in 1 .. n PROVE Dispatched(rest[i - 1], keyEvents'[i], rest[i])
    OBVIOUS
  <2>2. rest[i - 1] = run[(i + 1) - 1] /\ rest[i] = run[i + 1] /\ i + 1 \in 1 .. Len(keyEvents)
    BY <1>2
  <2> QED BY <1>1, <1>3, <2>2 DEF Leads
<1>7. rest[n] = run[Len(keyEvents)]
  BY <1>2
<1> HIDE DEF rest
<1> PICK r : r = rest
  OBVIOUS
<1>8. Leads(r)'
  BY <1>3, <1>4, <1>5, <1>6 DEF Leads
<1>9. Agrees(r[Len(keyEvents)])'
  <2>1. r[Len(keyEvents')] = run[Len(keyEvents)]
    BY <1>3, <1>7
  <2> QED BY <1>1, <2>1 DEF Agrees
<1>10. KeyTypes'
  BY <1>3 DEF SeatIInv, KeyTypes
<1> QED BY <1>8, <1>9, <1>10 DEF SeatIInv

\* A state of the compositor that the client cannot tell from the last one.
LEMMA NothingSentKeepsAgreement ==
  ASSUME SeatIInv, KeyTypes', UNCHANGED <<keyEvents, present, focus, pressedKeys>>,
         \A s \in ClientState : Agrees(s) => Agrees(s)'
  PROVE  SeatIInv'
<1>1. PICK run : Leads(run) /\ Agrees(run[Len(keyEvents)])
  BY DEF SeatIInv
<1>2. run[Len(keyEvents)] \in ClientState /\ keyEvents' = keyEvents
  BY <1>1 DEF Leads, SeatIInv, KeyTypes
<1>3. Leads(run)'
  BY <1>1 DEF Leads, Now
<1>4. Agrees(run[Len(keyEvents)])'
  BY <1>1, <1>2 DEF Agrees
<1> QED BY <1>3, <1>4 DEF SeatIInv

\* The compositor sends what its own state has become.
LEMMA SeatStepsKeepAgreement ==
  ASSUME SeatIInv,
         \/ \E w \in Windows \cup {Nobody} : MoveFocus(w)
         \/ \E k \in AllKeys : ToggleKey(k)
         \/ ToggleKeyboard
  PROVE  SeatIInv'
<1> USE KeyboardAssumption DEF KeyboardUnchanged, SendKey
<1>1. ASSUME NEW w \in Windows \cup {Nobody}, MoveFocus(w) PROVE SeatIInv'
  <2> DEFINE e == IF w = Nobody THEN [type |-> "leave"]
                  ELSE [type |-> "enter", window |-> w, keys |-> seat.down]
  <2>1. /\ seat.offered /\ seat' = [seat EXCEPT !.focus = w]
        /\ keyEvents' = Append(keyEvents, e)
        /\ UNCHANGED <<present, focus, pressedKeys>>
    BY <1>1 DEF MoveFocus
  <2>2. e \in KeyEvent
    BY DEF KeyEvent, SeatIInv, KeyTypes
  <2>3. /\ seat'.offered = seat.offered /\ seat'.focus = w /\ seat'.down = seat.down
        /\ seat' \in [offered : BOOLEAN, focus : Windows \cup {Nobody}, down : SUBSET AllKeys]
    BY <2>1 DEF SeatIInv, KeyTypes
  <2>4. KeyTypes'
    BY <2>1, <2>2, <2>3 DEF SeatIInv, KeyTypes
  <2>5. ASSUME NEW s \in ClientState, Agrees(s)
        PROVE  \E t \in ClientState : Dispatched(s, e, t) /\ Agrees(t)'
    <3>1. CASE w = Nobody
      <4> DEFINE t == [present |-> TRUE, focus |-> Nobody, pressed |-> {}]
      <4>1. t \in ClientState /\ Dispatched(s, e, t) /\ t.present = seat'.offered /\ t.focus = seat'.focus
        BY <2>1, <2>3, <2>5, <3>1 DEF ClientState, Dispatched, Agrees
      <4> QED BY <2>3, <3>1, <4>1 DEF Agrees
    <3>2. CASE w # Nobody
      <4> DEFINE t == [present |-> TRUE, focus |-> w, pressed |-> seat.down]
      <4>1. t \in ClientState /\ t.focus = w /\ t.present = TRUE /\ t.pressed = seat.down
        BY <3>2 DEF ClientState, SeatIInv, KeyTypes
      <4>2. Dispatched(s, e, t)
        BY <2>1, <2>5, <3>2 DEF Dispatched, Agrees
      <4> HIDE DEF t
      <4> QED BY <2>1, <2>3, <4>1, <4>2 DEF Agrees
    <3> QED BY <3>1, <3>2
  <2> HIDE DEF e
  <2> QED BY <2>1, <2>2, <2>4, <2>5, SendingKeepsAgreement
<1>2. ASSUME NEW k \in AllKeys, ToggleKey(k) PROVE SeatIInv'
  <2> DEFINE down == IF k \in seat.down THEN seat.down \ {k} ELSE seat.down \cup {k}
             e    == [type |-> "key", key |-> k, down |-> k \in down]
  <2>1. /\ seat.offered /\ seat' = [seat EXCEPT !.down = down] /\ down \subseteq AllKeys
        /\ UNCHANGED <<present, focus, pressedKeys>>
    BY <1>2 DEF ToggleKey, SeatIInv, KeyTypes
  <2>2. e \in KeyEvent
    BY DEF KeyEvent
  <2>3. /\ seat'.offered = seat.offered /\ seat'.focus = seat.focus /\ seat'.down = down
        /\ seat' \in [offered : BOOLEAN, focus : Windows \cup {Nobody}, down : SUBSET AllKeys]
    BY <2>1 DEF SeatIInv, KeyTypes
  <2>4. CASE seat.focus = Nobody
    <3>1. keyEvents' = keyEvents
      BY <1>2, <2>4 DEF ToggleKey
    <3>2. KeyTypes'
      BY <2>3, <3>1 DEF SeatIInv, KeyTypes
    <3> QED BY <2>1, <2>3, <2>4, <3>1, <3>2, NothingSentKeepsAgreement DEF Agrees
  <2>5. CASE seat.focus # Nobody
    <3>1. keyEvents' = Append(keyEvents, e)
      BY <1>2, <2>5 DEF ToggleKey
    <3>2. KeyTypes'
      BY <2>2, <2>3, <3>1 DEF SeatIInv, KeyTypes
    <3>3. ASSUME NEW s \in ClientState, Agrees(s)
          PROVE  \E t \in ClientState : Dispatched(s, e, t) /\ Agrees(t)'
      <4> DEFINE p == IF e.down THEN s.pressed \cup {e.key} ELSE s.pressed \ {e.key}
                 t == [present |-> TRUE, focus |-> s.focus, pressed |-> p]
      <4>1. p = down
        BY <2>5, <3>3 DEF Agrees
      <4>2. t \in ClientState /\ t.present = TRUE /\ t.focus = s.focus /\ t.pressed = down
        BY <2>1, <4>1 DEF ClientState
      <4>3. Dispatched(s, e, t)
        BY <2>1, <3>3 DEF Dispatched, Agrees
      <4> HIDE DEF t
      <4> QED BY <2>1, <2>3, <3>3, <4>2, <4>3 DEF Agrees
    <3> HIDE DEF e
    <3> QED BY <2>1, <2>2, <3>1, <3>2, <3>3, SendingKeepsAgreement
  <2> QED BY <2>4, <2>5
<1>3. CASE ToggleKeyboard
  <2> DEFINE e == [type |-> "capabilities", keyboard |-> ~seat.offered]
  <2>1. /\ seat' = [offered |-> ~seat.offered, focus |-> Nobody, down |-> {}]
        /\ keyEvents' = Append(keyEvents, e)
        /\ UNCHANGED <<present, focus, pressedKeys>>
    BY <1>3 DEF ToggleKeyboard
  <2>2. e \in KeyEvent
    BY DEF KeyEvent
  <2>3. KeyTypes'
    BY <2>1, <2>2 DEF SeatIInv, KeyTypes
  <2>4. ASSUME NEW s \in ClientState, Agrees(s)
        PROVE  \E t \in ClientState : Dispatched(s, e, t) /\ Agrees(t)'
    <3>1. CASE seat.offered
      <4> DEFINE t == [present |-> FALSE, focus |-> Nobody, pressed |-> {}]
      <4>1. t \in ClientState /\ Dispatched(s, e, t) /\ Agrees(t)'
        BY <2>1, <2>4, <3>1 DEF ClientState, Dispatched, Agrees
      <4> QED BY <4>1
    <3>2. CASE ~seat.offered
      <4> DEFINE t == [present |-> TRUE, focus |-> s.focus, pressed |-> s.pressed]
      <4>1. s.focus = Nobody
        BY <2>4, <3>2 DEF Agrees, SeatIInv, KeyTypes
      <4>2. t \in ClientState /\ Dispatched(s, e, t) /\ Agrees(t)'
        BY <2>1, <2>4, <3>2, <4>1 DEF ClientState, Dispatched, Agrees
      <4> QED BY <4>2
    <3> QED BY <3>1, <3>2
  <2> HIDE DEF e
  <2> QED BY <2>1, <2>2, <2>3, <2>4, SendingKeepsAgreement
<1> QED BY <1>1, <1>2, <1>3

\* The client is in the first state of the run.
LEMMA ClientIsTyped ==
  ASSUME SeatIInv PROVE Now \in ClientState
BY DEF SeatIInv, Leads, KeyTypes

\* The handlers do with the first event what is foreseen.
LEMMA HandlersKeepAgreement ==
  ASSUME SeatIInv,
         \/ OnKeyboardEnter \/ OnKeyboardLeave \/ OnCapabilities
         \/ \E k \in AllKeys : PressHeard(k) \/ PressSilent(k) \/ ReleaseHeard(k) \/ KeyUnheard(k)
  PROVE  SeatIInv'
<1> USE KeyboardAssumption DEF DispatchingKey
<1> DEFINE e == Head(keyEvents)
<1>1. keyEvents # <<>> /\ keyEvents' = Tail(keyEvents) /\ UNCHANGED seat
  BY DEF OnKeyboardEnter, OnKeyboardLeave, OnCapabilities, PressHeard, PressSilent, ReleaseHeard, KeyUnheard
<1>2. e \in KeyEvent
  BY <1>1 DEF SeatIInv, KeyTypes
<1>3. /\ present \in BOOLEAN /\ focus \in Windows \cup {Nobody} /\ pressedKeys \subseteq AllKeys
      /\ Now.present = present /\ Now.focus = focus /\ Now.pressed = pressedKeys
  BY ClientIsTyped DEF ClientState, Now
<1> SUFFICES Now' \in ClientState /\ \A t \in ClientState : Dispatched(Now, e, t) => t = Now'
  BY <1>1, DispatchKeepsAgreement
<1>4. CASE OnKeyboardEnter
  <2>1. e.type = "enter" /\ present' = TRUE /\ present /\ focus' = e.window /\ pressedKeys' = e.keys
    BY <1>3, <1>4 DEF OnKeyboardEnter
  <2>2. e.window \in Windows \cup {Nobody} /\ e.keys \subseteq AllKeys
    BY <1>2, <2>1 DEF KeyEvent
  <2> QED BY <1>3, <2>1, <2>2 DEF Now, ClientState, Dispatched
<1>5. CASE OnKeyboardLeave
  <2>1. e.type = "leave" /\ present' = TRUE /\ focus' = Nobody /\ pressedKeys' = {}
    BY <1>3, <1>5 DEF OnKeyboardLeave
  <2> QED BY <1>3, <2>1 DEF Now, ClientState, Dispatched
<1>6. CASE OnCapabilities
  <2>1. e.type = "capabilities" /\ present' = e.keyboard
    BY <1>6 DEF OnCapabilities
  <2>2. e.keyboard \in BOOLEAN
    BY <1>2, <2>1 DEF KeyEvent
  <2>3. CASE present /\ ~e.keyboard
    <3>1. present' = FALSE /\ focus' = Nobody /\ pressedKeys' = {}
      BY <1>6, <2>1, <2>2, <2>3 DEF OnCapabilities
    <3> QED BY <1>3, <2>1, <2>3, <3>1 DEF Now, ClientState, Dispatched
  <2>4. CASE ~(present /\ ~e.keyboard)
    <3>1. focus' = focus /\ pressedKeys' = pressedKeys
      BY <1>6, <2>1, <2>4 DEF OnCapabilities
    <3> QED BY <1>3, <2>1, <2>2, <2>4, <3>1 DEF Now, ClientState, Dispatched
  <2> QED BY <2>3, <2>4
<1>7. ASSUME NEW k \in AllKeys, PressHeard(k) \/ PressSilent(k) \/ ReleaseHeard(k) \/ KeyUnheard(k)
      PROVE  Now' \in ClientState /\ \A t \in ClientState : Dispatched(Now, e, t) => t = Now'
  <2>1. e.type = "key" /\ e.key = k /\ present /\ present' = present /\ focus' = focus
    BY <1>7 DEF PressHeard, PressSilent, ReleaseHeard, KeyUnheard, IsPress, IsRelease
  <2>2. pressedKeys' = IF e.down THEN pressedKeys \cup {k} ELSE pressedKeys \ {k}
    BY <1>7 DEF PressHeard, PressSilent, ReleaseHeard, KeyUnheard, IsPress, IsRelease
  <2>3. pressedKeys' \subseteq AllKeys
    BY <1>3, <2>2
  <2> HIDE DEF e
  <2> QED BY <1>3, <2>1, <2>2, <2>3 DEF Now, ClientState, Dispatched
<1> QED BY <1>4, <1>5, <1>6, <1>7

\* Of a window that is destroyed nothing is left in the client, now or later.
LEMMA DestroyKeepsAgreement ==
  ASSUME SeatIInv, NEW w \in Windows, Destroy(w)
  PROVE  SeatIInv'
<1> USE KeyboardAssumption
<1>1. PICK run : Leads(run) /\ Agrees(run[Len(keyEvents)])
  BY DEF SeatIInv
<1> DEFINE n == Len(keyEvents)
           Less(e) == IF e.type = "enter" /\ e.window = w THEN [e EXCEPT !.window = Nobody] ELSE e
           lost == [i \in DOMAIN keyEvents |-> Less(keyEvents[i])]
           Without(s) == [present |-> s.present, focus |-> IF s.focus = w THEN Nobody ELSE s.focus,
                          pressed |-> s.pressed]
<1>2. /\ seat' = (IF seat.focus = w THEN [seat EXCEPT !.focus = Nobody] ELSE seat)
      /\ focus' = (IF focus = w THEN Nobody ELSE focus)
      /\ UNCHANGED <<present, pressedKeys>>
      /\ keyEvents' = lost \/ (seat.focus = w /\ keyEvents' = Append(lost, [type |-> "leave"]))
  BY DEF Destroy
<1>3. n \in Nat /\ DOMAIN keyEvents = 1 .. n /\ \A i \in 1 .. n : keyEvents[i] \in KeyEvent
  BY DEF SeatIInv, KeyTypes
<1>4. \A e \in KeyEvent : /\ Less(e) \in KeyEvent
                          /\ Less(e).type = e.type
                          /\ e.type # "enter" => Less(e) = e
                          /\ e.type = "enter" => /\ Less(e).keys = e.keys
                                                 /\ Less(e).window = IF e.window = w THEN Nobody ELSE e.window
  <2>1. SUFFICES ASSUME NEW e \in KeyEvent
                 PROVE  /\ Less(e) \in KeyEvent
                        /\ Less(e).type = e.type
                        /\ e.type # "enter" => Less(e) = e
                        /\ e.type = "enter" => /\ Less(e).keys = e.keys
                                               /\ Less(e).window = IF e.window = w THEN Nobody ELSE e.window
    OBVIOUS
  <2>2. CASE e.type = "enter" /\ e.window = w
    <3>1. e \in [type : {"enter"}, window : Windows \cup {Nobody}, keys : SUBSET AllKeys]
      BY <2>2 DEF KeyEvent
    <3>2. Less(e) = [e EXCEPT !.window = Nobody]
      BY <2>2
    <3>3. Less(e) \in [type : {"enter"}, window : Windows \cup {Nobody}, keys : SUBSET AllKeys]
      BY <3>1, <3>2
    <3> QED BY <2>2, <3>1, <3>2, <3>3 DEF KeyEvent
  <2>3. CASE ~(e.type = "enter" /\ e.window = w)
    BY <2>3
  <2> QED BY <2>2, <2>3
<1>5. \A s \in ClientState : Without(s) \in ClientState
  BY DEF ClientState
<1>6. /\ lost \in Seq(KeyEvent) /\ Len(lost) = n
      /\ \A i \in 1 .. n : lost[i] = Less(keyEvents[i])
  BY <1>3, <1>4
<1> HIDE DEF Less, lost
<1>7. ASSUME NEW s \in ClientState, NEW e \in KeyEvent, NEW t \in ClientState, Dispatched(s, e, t)
      PROVE  Dispatched(Without(s), Less(e), Without(t))
  <2>1. \A r \in ClientState :
          Without(r) = [present |-> r.present, focus |-> IF r.focus = w THEN Nobody ELSE r.focus,
                        pressed |-> r.pressed]
    OBVIOUS
  <2>2. /\ Without(s).present = s.present /\ Without(s).pressed = s.pressed
        /\ Without(s).focus = IF s.focus = w THEN Nobody ELSE s.focus
    BY <2>1
  <2>3. CASE e.type = "leave"
    <3>1. s.present /\ t.present = TRUE /\ t.focus = Nobody /\ t.pressed = {}
      BY <1>7, <2>3 DEF Dispatched
    <3>2. Without(t) = [present |-> TRUE, focus |-> Nobody, pressed |-> {}]
      BY <2>1, <3>1
    <3> HIDE DEF Without
    <3> QED BY <1>4, <2>2, <2>3, <3>1, <3>2 DEF Dispatched
  <2>4. CASE e.type = "enter"
    <3>1. s.present /\ t.present = TRUE /\ t.focus = e.window /\ t.pressed = e.keys
      BY <1>7, <2>4 DEF Dispatched
    <3>2. Less(e).type = "enter" /\ Less(e).keys = e.keys
          /\ Less(e).window = IF e.window = w THEN Nobody ELSE e.window
      BY <1>4, <2>4
    <3>3. Without(t) = [present |-> TRUE, focus |-> Less(e).window, pressed |-> Less(e).keys]
      BY <2>1, <3>1, <3>2
    <3> HIDE DEF Without
    <3> QED BY <2>2, <3>1, <3>2, <3>3 DEF Dispatched
  <2>5. CASE e.type = "key"
    <3> DEFINE p == IF e.down THEN s.pressed \cup {e.key} ELSE s.pressed \ {e.key}
    <3>1. s.present /\ t.present = TRUE /\ t.focus = s.focus /\ t.pressed = p
      BY <1>7, <2>5 DEF Dispatched
    <3>2. Less(e) = e
      BY <1>4, <2>5
    <3>3. Without(t) = [present |-> TRUE, focus |-> Without(s).focus, pressed |-> p]
      BY <2>1, <2>2, <3>1
    <3>4. Without(s).pressed = s.pressed /\ Without(s).present
      BY <2>2, <3>1
    <3> HIDE DEF Without
    <3> QED BY <2>5, <3>2, <3>3, <3>4 DEF Dispatched
  <2>6. CASE e.type = "capabilities"
    <3>1. Less(e) = e
      BY <1>4, <2>6
    <3>2. CASE s.present /\ ~e.keyboard
      <4>1. t.present = FALSE /\ t.focus = Nobody /\ t.pressed = {}
        BY <1>7, <2>6, <3>2 DEF Dispatched
      <4>2. Without(t) = [present |-> FALSE, focus |-> Nobody, pressed |-> {}]
        BY <2>1, <4>1
      <4> HIDE DEF Without
      <4> QED BY <2>2, <2>6, <3>1, <3>2, <4>2 DEF Dispatched
    <3>3. CASE ~(s.present /\ ~e.keyboard)
      <4>1. t.present = e.keyboard /\ t.focus = s.focus /\ t.pressed = s.pressed
        BY <1>7, <2>6, <3>3 DEF Dispatched
      <4>2. Without(t) = [present |-> e.keyboard, focus |-> Without(s).focus, pressed |-> Without(s).pressed]
        BY <2>1, <2>2, <4>1
      <4> HIDE DEF Without
      <4> QED BY <2>2, <2>6, <3>1, <3>3, <4>2 DEF Dispatched
    <3> QED BY <3>2, <3>3
  <2> QED BY <1>7, <2>3, <2>4, <2>5, <2>6 DEF Dispatched
<1> DEFINE ends == [i \in 0 .. n |-> Without(run[i])]
<1>8. run \in [0 .. n -> ClientState] /\ run[n] \in ClientState /\ n \in 0 .. n
  BY <1>1, <1>3 DEF Leads
<1>9. /\ ends \in [0 .. n -> ClientState]
      /\ \A i \in 1 .. n : Dispatched(ends[i - 1], lost[i], ends[i])
      /\ ends[n] = Without(run[n])
  <2>1. ends \in [0 .. n -> ClientState] /\ ends[n] = Without(run[n])
    BY <1>5, <1>8
  <2>2. ASSUME NEW i \in 1 .. n PROVE Dispatched(ends[i - 1], lost[i], ends[i])
    <3>1. i - 1 \in 0 .. n /\ i \in 0 .. n
      BY <1>3
    <3>2. run[i - 1] \in ClientState /\ run[i] \in ClientState /\ keyEvents[i] \in KeyEvent
          /\ Dispatched(run[i - 1], keyEvents[i], run[i])
      BY <1>1, <1>3, <1>8, <3>1 DEF Leads
    <3>3. Dispatched(Without(run[i - 1]), Less(keyEvents[i]), Without(run[i]))
      BY <1>7, <3>2
    <3>4. ends[i - 1] = Without(run[i - 1]) /\ ends[i] = Without(run[i]) /\ lost[i] = Less(keyEvents[i])
      BY <1>6, <3>1
    <3> QED BY <3>3, <3>4
  <2> QED BY <2>1, <2>2
<1>10. ends[0] = Now'
  <2>1. run[0] = Now /\ Now.present = present /\ Now.focus = focus /\ Now.pressed = pressedKeys
    BY <1>1 DEF Leads, Now
  <2>2. ends[0] = Without(run[0])
    BY <1>3
  <2> QED BY <1>2, <2>1, <2>2 DEF Now
<1>11. /\ seat'.offered = seat.offered /\ seat'.down = seat.down
       /\ seat'.focus = IF seat.focus = w THEN Nobody ELSE seat.focus
       /\ seat' \in [offered : BOOLEAN, focus : Windows \cup {Nobody}, down : SUBSET AllKeys]
  BY <1>2 DEF SeatIInv, KeyTypes
<1>12. /\ ends[n].present = seat.offered
       /\ ends[n].focus = IF seat.focus = w THEN Nobody ELSE seat.focus
       /\ ends[n].pressed = run[n].pressed
  BY <1>1, <1>9 DEF Agrees
<1> PICK e : e = ends
  OBVIOUS
<1> HIDE DEF ends, Without
<1>13. CASE keyEvents' = lost
  <2>1. Leads(e)'
    BY <1>6, <1>9, <1>10, <1>13 DEF Leads
  <2>2. Agrees(e[Len(keyEvents)])'
    <3>1. e[Len(keyEvents')] = ends[n]
      BY <1>6, <1>13
    <3> QED BY <1>1, <1>11, <1>12, <3>1 DEF Agrees
  <2>3. KeyTypes'
    BY <1>6, <1>11, <1>13 DEF SeatIInv, KeyTypes
  <2> QED BY <2>1, <2>2, <2>3 DEF SeatIInv
<1>14. CASE seat.focus = w /\ keyEvents' = Append(lost, [type |-> "leave"])
  <2> DEFINE last == [present |-> TRUE, focus |-> Nobody, pressed |-> {}]
             more == [i \in 0 .. n + 1 |-> IF i = n + 1 THEN last ELSE ends[i]]
  <2>1. /\ Len(keyEvents') = n + 1 /\ keyEvents' \in Seq(KeyEvent)
        /\ keyEvents'[n + 1] = [type |-> "leave"] /\ \A i \in 1 .. n : keyEvents'[i] = lost[i]
    <3>1. [type |-> "leave"] \in KeyEvent
      BY DEF KeyEvent
    <3> QED BY <1>3, <1>6, <1>14, <3>1
  <2>2. more \in [0 .. n + 1 -> ClientState]
    <3>1. last \in ClientState
      BY DEF ClientState
    <3> HIDE DEF last
    <3> QED BY <1>3, <1>9, <3>1
  <2>3. more[0] = Now' /\ more[n + 1] = last
    BY <1>3, <1>10
  <2>4. seat.offered
    BY <1>14 DEF SeatIInv, KeyTypes
  <2>5. \A i \in 1 .. n + 1 : Dispatched(more[i - 1], keyEvents'[i], more[i])
    <3>1. ASSUME NEW i \in 1 .. n PROVE Dispatched(more[i - 1], keyEvents'[i], more[i])
      <4>1. more[i - 1] = ends[i - 1] /\ more[i] = ends[i]
        BY <1>3
      <4> QED BY <1>9, <2>1, <4>1
    <3>2. ASSUME NEW i, i = n + 1 PROVE Dispatched(more[i - 1], keyEvents'[i], more[i])
      <4>1. more[i - 1] = ends[n] /\ more[i] = last
        <5>1. i - 1 \in 0 .. n + 1 /\ i - 1 # n + 1 /\ i - 1 = n /\ i \in 0 .. n + 1
          <6>1. Len(keyEvents) \in Nat
            BY <1>3
          <6> QED BY <3>2, <6>1
        <5> HIDE DEF last
        <5> QED BY <3>2, <5>1
      <4>2. ends[n].present = TRUE
        BY <1>12, <2>4, <1>11 DEF SeatIInv, KeyTypes
      <4>3. keyEvents'[i].type = "leave"
        BY <2>1, <3>2
      <4> QED BY <4>1, <4>2, <4>3 DEF Dispatched
    <3>3. \A i \in 1 .. n + 1 : i \in 1 .. n \/ i = n + 1
      BY <1>3
    <3> QED BY <3>1, <3>2, <3>3
  <2>6. seat'.offered = TRUE /\ seat'.focus = Nobody
    BY <1>11, <1>14, <2>4 DEF SeatIInv, KeyTypes
  <2>7. last.present = TRUE /\ last.focus = Nobody
    OBVIOUS
  <2> HIDE DEF more, last
  <2> PICK m : m = more
    OBVIOUS
  <2>8. Leads(m)'
    BY <2>1, <2>2, <2>3, <2>5 DEF Leads
  <2>9. Agrees(m[Len(keyEvents)])'
    BY <2>1, <2>3, <2>6, <2>7 DEF Agrees
  <2>10. KeyTypes'
    BY <1>11, <2>1, <2>6 DEF KeyTypes
  <2> QED BY <2>8, <2>9, <2>10 DEF SeatIInv
<1> QED BY <1>2, <1>13, <1>14

LEMMA NextKeepsAgreement == SeatIInv /\ [KeyboardNext]_seatKeyVars => SeatIInv'
<1> SUFFICES ASSUME SeatIInv, [KeyboardNext]_seatKeyVars PROVE SeatIInv'
  OBVIOUS
<1>1. ASSUME UNCHANGED <<seat, keyEvents, present, focus, pressedKeys>> PROVE SeatIInv'
  <2>1. KeyTypes'
    BY <1>1 DEF SeatIInv, KeyTypes
  <2> QED BY <1>1, <2>1, NothingSentKeepsAgreement DEF Agrees
<1>2. CASE \/ ReturnPress \/ ReturnRelease \/ ReturnFire
           \/ \E orphan \in BOOLEAN : Fire(orphan)
           \/ RepeatInfo \/ UNCHANGED seatKeyVars
  BY <1>1, <1>2 DEF ReturnPress, ReturnRelease, ReturnFire, Returning, Fire, RepeatInfo, seatKeyVars
<1> QED BY <1>2, SeatStepsKeepAgreement, HandlersKeepAgreement, DestroyKeepsAgreement DEF KeyboardNext

LEMMA AgreementInitially == KeyboardInit => SeatIInv
<1> SUFFICES ASSUME KeyboardInit PROVE SeatIInv
  OBVIOUS
<1>1. KeyTypes /\ Len(keyEvents) = 0
  BY DEF KeyboardInit, KeyTypes
<1> PICK run : run = [i \in 0 .. 0 |-> Now]
  OBVIOUS
<1>2. Now \in ClientState
  BY DEF KeyboardInit, Now, ClientState
<1>3. run[0] = Now /\ run \in [0 .. 0 -> ClientState]
  BY <1>2
<1>4. Agrees(Now)
  BY DEF Agrees, Now, KeyboardInit
<1>5. Leads(run) /\ Agrees(run[Len(keyEvents)])
  BY <1>1, <1>3, <1>4 DEF Leads
<1> QED BY <1>1, <1>5 DEF SeatIInv

\* However long the queue and wherever it is dispatched, what the client makes of
\* it is the compositor's focus and the keys that are down.
THEOREM KeysAgreeWithSeat == KeyboardSpec => []KeysMatchSeat
<1>1. SeatIInv => KeysMatchSeat
  <2>1. ASSUME SeatIInv, keyEvents = <<>> PROVE KeysMatchSeat
    <3>1. PICK run : Leads(run) /\ Agrees(run[Len(keyEvents)])
      BY <2>1 DEF SeatIInv
    <3>2. Len(keyEvents) = 0 /\ run[0] = Now
      BY <2>1, <3>1 DEF Leads
    <3> QED BY <3>1, <3>2 DEF Agrees, Now, KeysMatchSeat
  <2> QED BY <2>1 DEF KeysMatchSeat
<1> QED BY <1>1, AgreementInitially, NextKeepsAgreement, PTL DEF KeyboardSpec

\* The key that repeats is stored after its press and forgotten before its release.
LEMMA NextKeepsRepeat == RepeatIsHeld /\ [KeyboardNext]_seatKeyVars => RepeatIsHeld'
<1> SUFFICES ASSUME RepeatIsHeld, [KeyboardNext]_seatKeyVars PROVE RepeatIsHeld'
  OBVIOUS
<1> USE DEF RepeatIsHeld, repeatVars
<1>1. CASE \/ \E w \in Windows \cup {Nobody} : MoveFocus(w)
           \/ \E k \in AllKeys : ToggleKey(k)
           \/ ToggleKeyboard \/ RepeatInfo \/ ReturnRelease \/ ReturnFire
           \/ \E orphan \in BOOLEAN : Fire(orphan)
           \/ UNCHANGED seatKeyVars
  <2>1. UNCHANGED <<focus, pressedKeys, repeatKey, lateRelease>>
    BY <1>1 DEF MoveFocus, ToggleKey, ToggleKeyboard, RepeatInfo, KeyboardUnchanged, seatKeyVars,
                ReturnRelease, ReturnFire, Returning, Fire
  <2> QED BY <2>1
<1>2. CASE OnKeyboardEnter \/ OnKeyboardLeave \/ OnCapabilities
  BY <1>2 DEF OnKeyboardEnter, OnKeyboardLeave, OnCapabilities, ResetKeyboardState
<1>3. ASSUME NEW k \in AllKeys, PressHeard(k) \/ PressSilent(k) \/ ReleaseHeard(k)
      PROVE  RepeatIsHeld'
  <2>1. CASE PressHeard(k) \/ PressSilent(k)
    <3>1. /\ UNCHANGED <<focus, repeatKey, lateRelease>> /\ pressedKeys' = pressedKeys \cup {k}
      BY <2>1 DEF PressHeard, PressSilent
    <3> QED BY <3>1
  <2>2. CASE ReleaseHeard(k)
    BY <2>2 DEF ReleaseHeard
  <2> QED BY <1>3, <2>1, <2>2
<1>4. ASSUME NEW k \in AllKeys, KeyUnheard(k) PROVE RepeatIsHeld'
  <2>1. CASE focus = Nobody
    BY <1>4, <2>1 DEF KeyUnheard
  <2>2. CASE ~IsPress(k) /\ ~IsRelease(k)
    <3>1. UNCHANGED pressedKeys
      BY <1>4, <2>2 DEF KeyUnheard, IsPress, IsRelease
    <3> QED BY <1>4, <3>1 DEF KeyUnheard
  <2> QED BY <1>4, <2>1, <2>2 DEF KeyUnheard
<1>5. CASE ReturnPress
  <2>1. /\ repeatKey' = Innermost.key /\ pressedKeys' = pressedKeys
        /\ lateRelease' = (Innermost.key \notin pressedKeys)
    BY <1>5 DEF ReturnPress, Returning
  <2>2. CASE Innermost.key \in pressedKeys
    BY <2>1, <2>2
  <2>3. CASE Innermost.key \notin pressedKeys
    <3>1. lateRelease'
      BY <2>1, <2>3
    <3> QED BY <3>1
  <2> QED BY <2>2, <2>3
<1>6. ASSUME NEW w \in Windows, Destroy(w) PROVE RepeatIsHeld'
  BY <1>6 DEF Destroy
<1> QED BY <1>1, <1>2, <1>3, <1>4, <1>5, <1>6 DEF KeyboardNext

\* Unless onKey stored a key that was released inside its handler, the key that
\* repeats is down.
THEOREM RepeatedKeyIsHeld == KeyboardSpec => []RepeatIsHeld
<1>1. KeyboardInit => RepeatIsHeld
  BY DEF KeyboardInit, RepeatIsHeld
<1> QED BY <1>1, NextKeepsRepeat, PTL DEF KeyboardSpec
-----------------------------------------------------------------------------
\* Popups

InListed == {listed[i] : i \in DOMAIN listed}

\* m_popups holds only popups that are open, each once, and the one that is, unless
\* two were; a tooltip in it is referred to.
ListedInv ==
  /\ \E S : listed \in Seq(S)
  /\ \A i, j \in DOMAIN listed : listed[i] = listed[j] => i = j
  /\ InListed \subseteq openPopups
  /\ Tooltip \in InListed => tip.shown
  /\ ~overlapped => \/ listed = <<>> /\ openPopups = {}
                    \/ \E p : listed = <<p>> /\ openPopups = {p}

TipInv == tip \in [shown : BOOLEAN, timer : {"none", "pending", "fired"}]

PopupsIInv == TipInv /\ ListedInv /\ PointerIsOnOpenWindow
-----------------------------------------------------------------------------
\* RemoveAt leaves the other elements, in their order.
LEMMA RemoveAtFacts ==
  ASSUME NEW S, NEW s \in Seq(S), NEW k \in DOMAIN s
  PROVE  /\ RemoveAt(s, k) \in Seq(S) /\ Len(RemoveAt(s, k)) = Len(s) - 1
         /\ \A i \in 1 .. Len(s) - 1 : RemoveAt(s, k)[i] = s[IF i < k THEN i ELSE i + 1]
<1>1. Len(s) \in Nat /\ k \in 1 .. Len(s)
  OBVIOUS
<1> DEFINE before == SubSeq(s, 1, k - 1)
           after  == SubSeq(s, k + 1, Len(s))
<1>2. before \in Seq(S) /\ Len(before) = k - 1 /\ \A i \in 1 .. k - 1 : before[i] = s[i]
  BY <1>1
<1>3. after \in Seq(S) /\ Len(after) = Len(s) - k /\ \A i \in 1 .. Len(s) - k : after[i] = s[k + i]
  BY <1>1
<1>4. RemoveAt(s, k) = before \o after
  BY DEF RemoveAt
<1> HIDE DEF before, after
<1>5. Len(before) + Len(after) = Len(s) - 1
  BY <1>1, <1>2, <1>3
<1>6. before \o after \in Seq(S) /\ Len(before \o after) = Len(s) - 1
  BY <1>2, <1>3, <1>5
<1>7. \A i \in 1 .. Len(s) - 1 :
        (before \o after)[i] = IF i <= Len(before) THEN before[i] ELSE after[i - Len(before)]
  BY <1>2, <1>3, <1>5
<1>8. \A i \in 1 .. Len(s) - 1 : (before \o after)[i] = s[IF i < k THEN i ELSE i + 1]
  BY <1>1, <1>2, <1>3, <1>7
<1> QED BY <1>4, <1>6, <1>8

\* What is left of m_popups when p goes.
LEMMA UnlistedFacts ==
  ASSUME ListedInv, NEW p, NEW l, l = Unlisted(p)
  PROVE  /\ \E S : l \in Seq(S)
         /\ \A i, j \in DOMAIN l : l[i] = l[j] => i = j
         /\ {l[i] : i \in DOMAIN l} \subseteq InListed \ {p}
         /\ listed = <<>> \/ listed = <<p>> => l = <<>>
         /\ \A q : q # p /\ listed = <<q>> => l = <<q>>
<1>1. PICK S : listed \in Seq(S)
  BY DEF ListedInv
<1>2. CASE ~\E i \in DOMAIN listed : listed[i] = p
  <2>1. l = listed
    BY <1>2 DEF Unlisted
  <2> QED BY <1>1, <1>2, <2>1 DEF ListedInv, InListed
<1>3. CASE \E i \in DOMAIN listed : listed[i] = p
  <2>1. PICK k \in DOMAIN listed : listed[k] = p /\ l = RemoveAt(listed, k)
    BY <1>3 DEF Unlisted
  <2>2. /\ l \in Seq(S) /\ Len(l) = Len(listed) - 1
        /\ \A i \in 1 .. Len(listed) - 1 : l[i] = listed[IF i < k THEN i ELSE i + 1]
    BY <1>1, <2>1, RemoveAtFacts
  <2>3. Len(listed) \in Nat /\ DOMAIN listed = 1 .. Len(listed)
    BY <1>1
  <2>4. \A i \in DOMAIN l : \E j \in DOMAIN listed \ {k} : l[i] = listed[j]
    BY <2>1, <2>2, <2>3
  <2>5. \A i \in DOMAIN l : l[i] \in InListed \ {p}
    BY <2>1, <2>4 DEF InListed, ListedInv
  <2>6. \A i, j \in DOMAIN l : l[i] = l[j] => i = j
    <3>1. SUFFICES ASSUME NEW i \in DOMAIN l, NEW j \in DOMAIN l, l[i] = l[j]
                   PROVE  i = j
      OBVIOUS
    <3>2. k \in Nat /\ i \in 1 .. Len(listed) - 1 /\ j \in 1 .. Len(listed) - 1
      BY <2>1, <2>2, <2>3
    <3> DEFINE from(x) == IF x < k THEN x ELSE x + 1
    <3>3. from(i) \in DOMAIN listed /\ from(j) \in DOMAIN listed
      BY <2>3, <3>2
    <3>4. listed[from(i)] = listed[from(j)]
      BY <2>2, <3>1, <3>2
    <3>5. from(i) = from(j)
      BY <3>3, <3>4 DEF ListedInv
    <3> QED BY <3>2, <3>5
  <2>7. listed = <<>> \/ listed = <<p>> => l = <<>>
    <3>1. listed # <<>>
      <4>1. Len(listed) # 0
        BY <2>1, <2>3
      <4> QED BY <4>1
    <3>2. listed = <<p>> => Len(l) = 0
      BY <2>2
    <3>3. Len(l) = 0 => l = <<>>
      BY <2>2
    <3> QED BY <3>1, <3>2, <3>3
  <2>8. \A q : listed = <<q>> => q = p
    BY <2>1
  <2> QED BY <2>2, <2>5, <2>6, <2>7, <2>8
<1> QED BY <1>2, <1>3

\* What closing a popup leaves.
LEMMA ClosingKeepsPopups ==
  ASSUME PopupsIInv, NEW p, NEW es, CloseOne(p, es), UNCHANGED <<tip, overlapped>>
  PROVE  PopupsIInv'
<1> USE DEF PopupsIInv
<1>1. /\ openPopups' = openPopups \ {p} /\ listed' = Unlisted(p)
      /\ currentWindow' = (IF currentWindow \in {p} THEN Root ELSE currentWindow)
  BY DEF CloseOne, ClosePopup
<1>2. ListedInv'
  <2>1. /\ \E S : listed' \in Seq(S)
        /\ \A i, j \in DOMAIN listed' : listed'[i] = listed'[j] => i = j
        /\ InListed' \subseteq InListed \ {p}
    <3>1. InListed' = {listed'[i] : i \in DOMAIN listed'}
      BY DEF InListed
    <3> QED BY <1>1, <3>1, UnlistedFacts
  <2>2. ~overlapped' => \/ listed' = <<>> /\ openPopups' = {}
                        \/ \E q : listed' = <<q>> /\ openPopups' = {q}
    <3>1. CASE listed = <<>> /\ openPopups = {}
      BY <1>1, <3>1, UnlistedFacts
    <3>2. ASSUME NEW q, listed = <<q>> /\ openPopups = {q}
          PROVE  \/ listed' = <<>> /\ openPopups' = {}
                 \/ listed' = <<q>> /\ openPopups' = {q}
      BY <1>1, <3>2, UnlistedFacts
    <3> QED BY <3>1, <3>2 DEF ListedInv
  <2> QED BY <1>1, <2>1, <2>2 DEF ListedInv
<1>3. PointerIsOnOpenWindow'
  BY <1>1 DEF PointerIsOnOpenWindow
<1> QED BY <1>2, <1>3 DEF TipInv

\* What opening a popup adds.
LEMMA OpeningKeepsListed ==
  ASSUME ListedInv, NEW p, Opened(p), p \notin InListed,
         p = Tooltip \/ Tooltip \in InListed => tip'.shown
  PROVE  ListedInv'
<1>1. /\ listed' = Append(listed, p) /\ openPopups' = openPopups \cup {p}
      /\ overlapped' = (overlapped \/ openPopups # {})
  BY DEF Opened
<1>2. PICK S : listed \in Seq(S)
  BY DEF ListedInv
<1>3. /\ listed' \in Seq(S \cup {p}) /\ DOMAIN listed = 1 .. Len(listed)
      /\ DOMAIN listed' = 1 .. Len(listed) + 1 /\ Len(listed) \in Nat
      /\ listed'[Len(listed) + 1] = p /\ \A i \in DOMAIN listed : listed'[i] = listed[i]
  <2>1. listed \in Seq(S \cup {p})
    BY <1>2
  <2> QED BY <1>1, <2>1
<1>4. InListed' = InListed \cup {p}
  BY <1>3 DEF InListed
<1>5. \A i, j \in DOMAIN listed' : listed'[i] = listed'[j] => i = j
  BY <1>3 DEF ListedInv, InListed
<1>6. ~overlapped' => listed' = <<p>> /\ openPopups' = {p}
  <2>1. CASE listed = <<>> /\ openPopups = {}
    <3>1. Append(<<>>, p) = <<p>>
      OBVIOUS
    <3> QED BY <1>1, <2>1, <3>1
  <2> QED BY <1>1, <2>1 DEF ListedInv
<1> QED BY <1>1, <1>3, <1>4, <1>5, <1>6 DEF ListedInv

\* The focus of Root's elements refers to a tooltip or not as it is told.
LEMMA HoverKeepsTip ==
  ASSUME TipInv, NEW h, NEW shown \in BOOLEAN, UpdateHover(h, shown)
  PROVE  TipInv' /\ tip'.shown = shown
BY DEF TipInv, UpdateHover

LEMMA ApplicationKeepsPopups ==
  ASSUME PopupsIInv,
         (\E p \in Menus : OpenMenu(p) \/ CloseMenu(p)) \/ \E stray \in BOOLEAN : TooltipTimer(stray)
  PROVE  PopupsIInv'
<1> USE DEF PopupsIInv
<1>1. ASSUME NEW p \in Menus, OpenMenu(p)
      PROVE  PopupsIInv'
  <2>1. TipInv' /\ tip'.shown = tip.shown
    BY <1>1, HoverKeepsTip DEF OpenMenu, TipInv
  <2>2. p \notin InListed /\ p # Tooltip
    BY <1>1, PopupsAssumption DEF OpenMenu, ListedInv
  <2>3. ListedInv'
    BY <1>1, <2>1, <2>2, OpeningKeepsListed DEF OpenMenu, ListedInv
  <2>4. PointerIsOnOpenWindow'
    BY <1>1 DEF OpenMenu, Opened, PointerIsOnOpenWindow
  <2> QED BY <2>1, <2>3, <2>4
<1>2. ASSUME NEW p \in Menus, CloseMenu(p)
      PROVE  PopupsIInv'
  BY <1>2, ClosingKeepsPopups DEF CloseMenu, rootVars
<1>3. ASSUME NEW stray \in BOOLEAN, TooltipTimer(stray)
      PROVE  PopupsIInv'
  <2>1. TipInv' /\ currentWindow' = currentWindow
    <3> DEFINE fired == IF stray THEN tip.timer ELSE "fired"
    <3>0. currentWindow' = currentWindow
      BY <1>3 DEF TooltipTimer
    <3>1. fired \in {"none", "pending", "fired"}
      BY DEF TipInv
    <3>2. \E f \in {"none", "pending", "fired"} :
             tip' = [shown |-> TRUE, timer |-> f] \/ tip' = [tip EXCEPT !.timer = f]
      BY <1>3, <3>1 DEF TooltipTimer
    <3> HIDE DEF fired
    <3>3. PICK f \in {"none", "pending", "fired"} :
             tip' = [shown |-> TRUE, timer |-> f] \/ tip' = [tip EXCEPT !.timer = f]
      BY <3>2
    <3>4. CASE tip' = [shown |-> TRUE, timer |-> f]
      BY <3>0, <3>4 DEF TipInv
    <3>5. CASE tip' = [tip EXCEPT !.timer = f]
      BY <3>0, <3>5 DEF TipInv
    <3> QED BY <3>3, <3>4, <3>5
  <2>2. CASE hover = "hinted" /\ ~tip.shown
    <3>1. Opened(Tooltip) /\ tip'.shown
      BY <1>3, <2>2 DEF TooltipTimer
    <3>2. ListedInv'
      BY <2>2, <3>1, OpeningKeepsListed DEF ListedInv
    <3> QED BY <2>1, <3>1, <3>2 DEF Opened, PointerIsOnOpenWindow
  <2>3. CASE ~(hover = "hinted" /\ ~tip.shown)
    <3>1. tip'.shown = tip.shown /\ UNCHANGED <<openPopups, listed, overlapped>>
      BY <1>3, <2>3 DEF TooltipTimer, TipInv
    <3> QED BY <2>1, <3>1 DEF ListedInv, InListed, PointerIsOnOpenWindow
  <2> QED BY <2>2, <2>3
<1> QED BY <1>1, <1>2, <1>3

\* The compositor's steps, and those of the input method, touch nothing of this.
LEMMA CompositorKeepsPopups ==
  ASSUME PopupsIInv, UNCHANGED <<openPopups, listed, overlapped, currentWindow, tip>>
  PROVE  PopupsIInv'
BY DEF PopupsIInv, TipInv, ListedInv, InListed, PointerIsOnOpenWindow

LEMMA PointerEventsKeepPopups ==
  ASSUME PopupsIInv, SurfaceEnter \/ SurfaceLeave \/ SurfaceMotion
  PROVE  PopupsIInv'
<1> USE DEF PopupsIInv
<1>1. CASE SurfaceEnter
  <2>1. /\ currentWindow' = Head(pointerEvents).surface
        /\ currentWindow' = Root \/ currentWindow' \in InListed
        /\ UNCHANGED <<openPopups, listed, overlapped>>
    BY <1>1 DEF SurfaceEnter, Found, InListed, popupVars
  <2>2. TipInv' /\ tip'.shown = tip.shown
    BY <1>1, HoverKeepsTip DEF SurfaceEnter, TipInv
  <2> QED BY <2>1, <2>2 DEF ListedInv, InListed, PointerIsOnOpenWindow
<1>2. CASE SurfaceLeave
  <2>1. currentWindow' = NoSurface /\ overlapped' = overlapped
    BY <1>2 DEF SurfaceLeave
  <2>2. CASE Head(pointerEvents).surface = Tooltip
    <3>1. /\ openPopups' = openPopups \ {Tooltip} /\ listed' = Unlisted(Tooltip)
          /\ tip' = [tip EXCEPT !.shown = FALSE]
      BY <1>2, <2>2 DEF SurfaceLeave
    <3>2. /\ \E S : listed' \in Seq(S)
          /\ \A i, j \in DOMAIN listed' : listed'[i] = listed'[j] => i = j
          /\ InListed' \subseteq InListed \ {Tooltip}
      BY <3>1, UnlistedFacts DEF InListed
    <3>3. ~overlapped => \/ listed' = <<>> /\ openPopups' = {}
                         \/ \E q : listed' = <<q>> /\ openPopups' = {q}
      <4>1. CASE listed = <<>> /\ openPopups = {}
        BY <3>1, <4>1, UnlistedFacts
      <4>2. ASSUME NEW q, listed = <<q>> /\ openPopups = {q}
            PROVE  \/ listed' = <<>> /\ openPopups' = {}
                   \/ listed' = <<q>> /\ openPopups' = {q}
        BY <3>1, <4>2, UnlistedFacts
      <4> QED BY <4>1, <4>2 DEF ListedInv
    <3> QED BY <2>1, <3>1, <3>2, <3>3 DEF ListedInv, TipInv, PointerIsOnOpenWindow
  <2>3. CASE Head(pointerEvents).surface # Tooltip
    BY <1>2, <2>1, <2>3 DEF SurfaceLeave, ListedInv, InListed, TipInv, PointerIsOnOpenWindow
  <2> QED BY <2>2, <2>3
<1>3. CASE SurfaceMotion
  <2>1. listed = <<>> /\ UNCHANGED <<openPopups, listed, overlapped, currentWindow>>
    BY <1>3 DEF SurfaceMotion, popupVars
  <2>2. TipInv'
    BY <1>3, HoverKeepsTip DEF SurfaceMotion
  <2>3. InListed' = {}
    BY <2>1 DEF InListed
  <2> QED BY <2>1, <2>2, <2>3 DEF ListedInv, PointerIsOnOpenWindow
<1> QED BY <1>1, <1>2, <1>3

\* A press on Root that closes popups lists none of them any more.
LEMMA PressesKeepPopups ==
  ASSUME PopupsIInv, ClosePopups \/ PopupDone
  PROVE  PopupsIInv'
<1> USE DEF PopupsIInv
<1>1. CASE ClosePopups
  <2>1. /\ openPopups' = openPopups \ EveryOther /\ listed' = <<>>
        /\ currentWindow' = Root /\ UNCHANGED <<tip, overlapped>>
    BY <1>1 DEF ClosePopups, ClosePopup
  <2>2. ~overlapped => openPopups' = {}
    <3>1. ASSUME NEW p, listed = <<p>>
          PROVE  EveryOther = {p}
      BY <3>1 DEF EveryOther
    <3> QED BY <2>1, <3>1 DEF ListedInv
  <2>3. InListed' = {} /\ listed' \in Seq({})
    BY <2>1 DEF InListed
  <2> QED BY <2>1, <2>2, <2>3 DEF ListedInv, TipInv, PointerIsOnOpenWindow
<1>2. CASE PopupDone
  BY <1>2, ClosingKeepsPopups DEF PopupDone, rootVars
<1> QED BY <1>1, <1>2

LEMMA NextKeepsPopups == PopupsIInv /\ [PopupsNext]_pointerVars => PopupsIInv'
<1> SUFFICES ASSUME PopupsIInv, [PopupsNext]_pointerVars PROVE PopupsIInv'
  OBVIOUS
<1>1. ASSUME \/ \E s \in Popups \cup {Root, NoSurface} : MovePointer(s)
             \/ \E p \in Popups : DismissPopup(p) \/ ConfigurePopup(p)
             \/ Wiggle \/ Button \/ FocusKeyboard \/ Ignored \/ ButtonToElements
             \/ \E part \in {"preedit", "commit"} : ImCompose(part)
             \/ ImDone \/ UNCHANGED pointerVars
      PROVE  PopupsIInv'
  <2> USE DEF PointerUnchanged, popupVars, rootVars, pointerVars
  <2>1. UNCHANGED <<openPopups, listed, overlapped, currentWindow, tip>>
    BY <1>1 DEF MovePointer, DismissPopup, ConfigurePopup, Wiggle, Button, FocusKeyboard, Ignored,
                ButtonToElements, ImCompose, ImDone
  <2> QED BY <2>1, CompositorKeepsPopups
<1> QED BY <1>1, ApplicationKeepsPopups, PointerEventsKeepPopups, PressesKeepPopups DEF PopupsNext

LEMMA PopupsInitially == PopupsInit => PopupsIInv
<1> SUFFICES ASSUME PopupsInit PROVE PopupsIInv
  OBVIOUS
<1>1. listed = <<>> /\ listed \in Seq({}) /\ InListed = {}
  BY DEF PopupsInit, InListed
<1> QED BY <1>1 DEF PopupsInit, PopupsIInv, TipInv, ListedInv, PointerIsOnOpenWindow

\* However popups and tooltips close, the pointer's window is an open one.
THEOREM PointerStaysOnOpenWindow == PopupsSpec => []PointerIsOnOpenWindow
<1>1. PopupsIInv => PointerIsOnOpenWindow
  BY DEF PopupsIInv
<1> QED BY <1>1, PopupsInitially, NextKeepsPopups, PTL DEF PopupsSpec

\* As long as no two popups were open at once m_popups is the popup that is open.
THEOREM PopupsBlockRoot == PopupsSpec => []BlockedWhilePopupOpen
<1>1. PopupsIInv => BlockedWhilePopupOpen
  <2>1. ASSUME listed = <<>> PROVE {listed[i] : i \in DOMAIN listed} = {}
    BY <2>1
  <2>2. ASSUME NEW p, listed = <<p>> PROVE {listed[i] : i \in DOMAIN listed} = {p}
    BY <2>2
  <2> QED BY <2>1, <2>2 DEF PopupsIInv, ListedInv, BlockedWhilePopupOpen
<1> QED BY <1>1, PopupsInitially, NextKeepsPopups, PTL DEF PopupsSpec
-----------------------------------------------------------------------------
\* SessionLock

LockFlags == [alive : BOOLEAN, found : BOOLEAN, held : BOOLEAN, unlocked : BOOLEAN, denied : BOOLEAN]

LockTypes ==
  /\ \E S : calls \in Seq(S)
  /\ lock \in LockFlags
  /\ surface \in [Outputs -> {"none", "made", "open", "closing"}]

\* Only a lock that was found has surfaces, one that is found or about to be is
\* referred to, and one that was unlocked is held by nobody.
LockedInv ==
  /\ lock.found \/ (\E c \in Calls : c.what = "acquire") => lock.alive
  /\ lock.unlocked => ~lock.held
  /\ \A o \in Outputs : surface[o] # "none" => lock.found

LockIInv == LockTypes /\ LockedInv /\ SurfacesAreAskedToClose
-----------------------------------------------------------------------------
\* A call that waits stays on the stack until it is the innermost and returns.
LEMMA OthersStay ==
  ASSUME NEW S, calls \in Seq(S), calls # <<>>, Return, NEW c \in Calls, c # Top
  PROVE  c \in Calls'
<1>1. PICK i \in 1 .. Len(calls) : c = calls[i]
  BY DEF Calls
<1>2. Len(calls) \in Nat \ {0} /\ i \in 1 .. Len(calls) - 1
  BY <1>1 DEF Top
<1>3. calls' = [j \in 1 .. Len(calls) - 1 |-> calls[j]]
  BY <1>2 DEF Return
<1> QED BY <1>1, <1>2, <1>3 DEF Calls

LEMMA EnterTypes ==
  ASSUME \E S : calls \in Seq(S), NEW c, Enter(c)
  PROVE  (\E S : calls' \in Seq(S)) /\ Calls' = Calls \cup {c}
<1>1. PICK S : calls \in Seq(S)
  OBVIOUS
<1>2. calls \in Seq(S \cup {c})
  BY <1>1
<1>3. calls' = Append(calls, c)
  BY DEF Enter
<1>4. calls' \in Seq(S \cup {c})
  BY <1>2, <1>3
<1>5. Calls' = Calls \cup {c}
  <2>1. /\ DOMAIN calls = 1 .. Len(calls) /\ DOMAIN calls' = 1 .. Len(calls) + 1
        /\ calls'[Len(calls) + 1] = c /\ \A i \in 1 .. Len(calls) : calls'[i] = calls[i]
    BY <1>2, <1>3
  <2>2. Len(calls) \in Nat
    BY <1>2
  <2> QED BY <2>1, <2>2 DEF Calls
<1> QED BY <1>4, <1>5

LEMMA ReturnTypes ==
  ASSUME \E S : calls \in Seq(S), calls # <<>>, Return
  PROVE  (\E S : calls' \in Seq(S)) /\ Calls' \subseteq Calls
<1>1. PICK S : calls \in Seq(S)
  OBVIOUS
<1>2. Len(calls) \in Nat \ {0} /\ Len(calls) - 1 \in 0 .. Len(calls)
  BY <1>1
<1>3. calls' \in Seq(S)
  BY <1>1, <1>2 DEF Return
<1>4. Calls' \subseteq Calls
  BY <1>1, <1>2 DEF Return, Calls
<1> QED BY <1>3, <1>4

LEMMA LockInitially ==
  LockInit => LockIInv
<1> SUFFICES ASSUME LockInit PROVE LockIInv
  OBVIOUS
<1>1. calls \in Seq({[what |-> "attempt"]})
  BY DEF LockInit
<1>2. \A c \in Calls : c.what = "attempt"
  BY DEF LockInit, Calls
<1> QED BY <1>1, <1>2 DEF LockInit, LockIInv, LockTypes, LockFlags, NoLock, LockedInv, SurfacesAreAskedToClose

LEMMA OutputStepsKeepLockIInv ==
  ASSUME LockIInv, NewOutput \/ OutputSynced \/ OutputRemoved \/ Start
  PROVE  LockIInv'
<1> USE DEF LockIInv
<1>1. CASE NewOutput
  <2>1. \E S : calls' \in Seq(S)
    BY <1>1, EnterTypes DEF NewOutput, LockTypes
  <2>2. Calls \subseteq Calls' /\ (\A c \in Calls' \ Calls : c.what = "output")
    BY <1>1, EnterTypes DEF NewOutput, LockTypes
  <2>3. LockTypes' /\ LockedInv'
    BY <1>1, <2>1, <2>2 DEF NewOutput, LockTypes, LockedInv
  <2>4. SurfacesAreAskedToClose'
    BY <1>1, <2>2 DEF NewOutput, SurfacesAreAskedToClose
  <2> QED BY <2>3, <2>4
<1>2. CASE OutputSynced
  <2>1. (\E S : calls' \in Seq(S)) /\ Calls' \subseteq Calls
    BY <1>2, ReturnTypes DEF OutputSynced, LockTypes
  <2>2. [what |-> "unlock"] \in Calls => [what |-> "unlock"] \in Calls'
    BY <1>2, OthersStay DEF OutputSynced, LockTypes
  <2>3. LockTypes' /\ LockedInv'
    BY <1>2, <2>1 DEF OutputSynced, LockTypes, LockedInv
  <2>4. SurfacesAreAskedToClose'
    BY <1>2, <2>2 DEF OutputSynced, SurfacesAreAskedToClose
  <2> QED BY <2>3, <2>4
<1>3. CASE OutputRemoved
  <2> DEFINE gone == Head(lockEvents).output
  <2>1. /\ known' = known \ {gone} /\ Calls' = Calls
        /\ UNCHANGED <<calls, lock>>
        /\ surface' = (IF lock.found THEN Asked({gone}) ELSE surface)
    BY <1>3 DEF OutputRemoved, Calls
  <2> HIDE DEF gone
  <2>2. CASE lock.found
    <3>1. surface' = [o \in Outputs |-> IF o \in {gone} /\ surface[o] = "open" THEN "closing"
                                       ELSE IF o \in {gone} /\ surface[o] = "made" THEN "none" ELSE surface[o]]
      BY <2>1, <2>2 DEF Asked
    <3>2. LockTypes' /\ LockedInv'
      BY <2>1, <2>2, <3>1 DEF LockTypes, LockedInv
    <3>3. SurfacesAreAskedToClose'
      BY <2>1, <3>1 DEF SurfacesAreAskedToClose
    <3> QED BY <3>2, <3>3
  <2>3. CASE ~lock.found
    <3>1. LockTypes' /\ LockedInv'
      BY <2>1, <2>3 DEF LockTypes, LockedInv
    <3>2. SurfacesAreAskedToClose'
      BY <2>1, <2>3 DEF SurfacesAreAskedToClose, LockedInv
    <3> QED BY <3>1, <3>2
  <2> QED BY <2>2, <2>3
<1>4. CASE Start
  <2>1. (\E S : calls' \in Seq(S)) /\ Calls' \subseteq Calls
    BY <1>4, ReturnTypes DEF Start, LockTypes
  <2>2. Top = [what |-> "attempt"] /\ calls # <<>>
    BY <1>4 DEF Start, Top
  <2>3. [what |-> "unlock"] \in Calls => [what |-> "unlock"] \in Calls'
    BY <1>4, <2>2, OthersStay DEF Start, LockTypes
  <2>4. LockTypes' /\ LockedInv'
    BY <1>4, <2>1 DEF Start, LockTypes, LockedInv
  <2>5. SurfacesAreAskedToClose'
    BY <1>4, <2>3 DEF Start, SurfacesAreAskedToClose
  <2> QED BY <2>4, <2>5
<1> QED BY <1>1, <1>2, <1>3, <1>4

LEMMA LockStepsKeepLockIInv ==
  ASSUME LockIInv, Acquire \/ Acquired \/ Unlock \/ Unlocked \/ DropLock
  PROVE  LockIInv'
<1> USE DEF LockIInv
<1>1. CASE Acquire
  <2>1. (\E S : calls' \in Seq(S)) /\ surface' = surface
    BY <1>1, EnterTypes DEF Acquire, LockTypes
  <2>6. lock' = [alive |-> TRUE, found |-> FALSE, held |-> TRUE, unlocked |-> FALSE, denied |-> FALSE]
    BY <1>1 DEF Acquire, NoLock
  <2>2. \A o \in Outputs : surface[o] = "none"
    BY <1>1 DEF Acquire, LockedInv
  <2>3. LockTypes'
    BY <2>1, <2>6 DEF LockTypes, LockFlags
  <2>4. LockedInv'
    BY <2>1, <2>6, <2>2 DEF LockedInv
  <2>5. SurfacesAreAskedToClose'
    BY <1>1, <2>2 DEF Acquire, SurfacesAreAskedToClose
  <2> QED BY <2>3, <2>4, <2>5
<1>2. CASE Acquired
  <2>1. (\E S : calls' \in Seq(S)) /\ Calls' \subseteq Calls
    BY <1>2, ReturnTypes DEF Acquired, LockTypes
  <2>2. [what |-> "unlock"] \in Calls => [what |-> "unlock"] \in Calls'
    BY <1>2, OthersStay DEF Acquired, LockTypes
  <2>3. lock.found \/ \A o \in Outputs : surface[o] = "none"
    BY DEF LockedInv
  <2>4. LockTypes' /\ LockedInv'
    <3>1. PICK S : calls \in Seq(S)
      BY DEF LockTypes
    <3>2. Top \in Calls
      BY <1>2, <3>1 DEF Acquired, Calls, Top
    <3>3. lock.alive
      BY <1>2, <3>2 DEF Acquired, LockedInv
    <3> QED BY <1>2, <2>1, <3>3 DEF Acquired, LockTypes, LockFlags, LockedInv
  <2>5. SurfacesAreAskedToClose'
    BY <1>2, <2>2 DEF Acquired, SurfacesAreAskedToClose, LockTypes, LockFlags
  <2> QED BY <2>4, <2>5
<1>3. CASE Unlock
  <2>1. (\E S : calls' \in Seq(S)) /\ Calls' = Calls \cup {[what |-> "unlock"]}
    BY <1>3, EnterTypes DEF Unlock, LockTypes
  <2>2. lock' \in LockFlags /\ lock'.alive = lock.alive /\ lock'.found = lock.found /\ ~lock'.held
    BY <1>3 DEF Unlock, LockTypes, LockFlags
  <2>3. LockTypes' /\ LockedInv'
    BY <1>3, <2>1, <2>2 DEF Unlock, LockTypes, LockedInv
  <2>4. SurfacesAreAskedToClose'
    BY <1>3, <2>1 DEF Unlock, SurfacesAreAskedToClose
  <2> QED BY <2>3, <2>4
<1>4. CASE Unlocked
  <2>1. (\E S : calls' \in Seq(S)) /\ Calls' \subseteq Calls
    BY <1>4, ReturnTypes DEF Unlocked, LockTypes
  <2>2. surface' = [o \in Outputs |-> IF surface[o] = "open" THEN "closing"
                                     ELSE IF surface[o] = "made" THEN "none" ELSE surface[o]]
    BY <1>4 DEF Unlocked, Asked
  <2>3. LockTypes' /\ LockedInv'
    BY <1>4, <2>1, <2>2 DEF Unlocked, LockTypes, LockedInv
  <2>4. \A o \in Outputs : surface'[o] # "open"
    BY <2>2
  <2>5. SurfacesAreAskedToClose'
    BY <2>4 DEF SurfacesAreAskedToClose
  <2> QED BY <2>3, <2>5
<1>5. CASE DropLock
  <2>1. LockTypes' /\ LockedInv'
    BY <1>5 DEF DropLock, LockTypes, LockFlags, NoLock, LockedInv, Calls
  <2>2. SurfacesAreAskedToClose'
    BY <1>5 DEF DropLock, SurfacesAreAskedToClose
  <2> QED BY <2>1, <2>2
<1> QED BY <1>1, <1>2, <1>3, <1>4, <1>5

LEMMA SurfaceStepsKeepLockIInv ==
  ASSUME LockIInv, NEW o \in Outputs, TogglePlug(o) \/ MakeSurface(o) \/ OpenSurface(o) \/ CloseSurface(o)
  PROVE  LockIInv'
<1> USE DEF LockIInv
<1>1. CASE TogglePlug(o)
  BY <1>1 DEF TogglePlug, LockTypes, LockedInv, SurfacesAreAskedToClose, Calls
<1>2. CASE MakeSurface(o)
  BY <1>2 DEF MakeSurface, LockTypes, LockedInv, SurfacesAreAskedToClose, Calls
<1>3. CASE OpenSurface(o)
  BY <1>3 DEF OpenSurface, LockTypes, LockedInv, SurfacesAreAskedToClose, Calls
<1>4. CASE CloseSurface(o)
  BY <1>4 DEF CloseSurface, LockTypes, LockedInv, SurfacesAreAskedToClose, Calls
<1> QED BY <1>1, <1>2, <1>3, <1>4

LEMMA AnswersKeepLockIInv ==
  ASSUME LockIInv, Decide \/ LockAnswered \/ UNCHANGED lockVars
  PROVE  LockIInv'
<1> USE DEF LockIInv, LockTypes, LockedInv, SurfacesAreAskedToClose, Calls
<1>1. CASE Decide
  BY <1>1 DEF Decide
<1>2. CASE LockAnswered
  <2>1. lock' \in LockFlags /\ \A f \in {"alive", "found", "held", "unlocked"} : lock'[f] = lock[f]
    BY <1>2 DEF LockAnswered, LockFlags
  <2> QED BY <1>2, <2>1 DEF LockAnswered
<1>3. CASE UNCHANGED lockVars
  BY <1>3 DEF lockVars
<1> QED BY <1>1, <1>2, <1>3

\* Wherever the events about outputs are dispatched, at most while an unlock is
\* still waiting for its roundtrip is a surface open that nobody asked to close.
THEOREM LockScreenLeaves == LockSpec => []SurfacesAreAskedToClose
<1>1. LockInit => LockIInv
  BY LockInitially
<1>2. LockIInv /\ [LockNext]_lockVars => LockIInv'
  BY OutputStepsKeepLockIInv, LockStepsKeepLockIInv, SurfaceStepsKeepLockIInv, AnswersKeepLockIInv
  DEF LockNext
<1>3. LockIInv => SurfacesAreAskedToClose
  BY DEF LockIInv
<1> QED BY <1>1, <1>2, <1>3, PTL DEF LockSpec
=============================================================================
