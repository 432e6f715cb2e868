-------------------------------- MODULE MCWindow --------------------------------
(***************************************************************************)
(* What reaches a window and what it shows: the seat's keyboard            *)
(* (Keyboard), its pointer and the popups (Popups), the session lock's     *)
(* surfaces (SessionLock), the elements under pointer, fingers and keys    *)
(* (InputFocus), and the damage of its buffers (BufferDamage).  The parts  *)
(* share no state: each behaviour runs one of them and the others keep     *)
(* their first state.                                                      *)
(***************************************************************************)
EXTENDS InputFocus, Keyboard, Popups, SessionLock, BufferDamage

VARIABLE part
seatVars == <<seatKeyVars, pointerVars, lockVars>>
windowVars == <<vars, seatVars, damageVars, part>>

MCInit ==
  /\ part \in {"elements", "keyboard", "pointer", "lock", "damage"}
  /\ Init /\ KeyboardInit /\ PopupsInit /\ LockInit /\ DamageInit
  /\ part # "damage" => ~embedded

MCNext ==
  /\ UNCHANGED part
  /\ \/ part = "elements" /\ Next /\ UNCHANGED <<seatVars, damageVars>>
     \/ part = "keyboard" /\ KeyboardNext /\ UNCHANGED <<vars, pointerVars, lockVars, damageVars>>
     \/ part = "pointer" /\ PopupsNext /\ UNCHANGED <<vars, seatKeyVars, lockVars, damageVars>>
     \/ part = "lock" /\ LockNext /\ UNCHANGED <<vars, seatKeyVars, pointerVars, damageVars>>
     \/ part = "damage" /\ DamageNext /\ UNCHANGED <<vars, seatVars>>

MCSpec == MCInit /\ [][MCNext]_windowVars
=============================================================================
