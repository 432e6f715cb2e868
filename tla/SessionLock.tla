------------------------------ MODULE SessionLock ------------------------------
(***************************************************************************)
(* Outputs that come and go, and the lock screen on them: the registry of  *)
(* CWaylandPlatform, CWaylandSessionLockState and the lock surfaces of     *)
(* CBackend::openWindow.                                                   *)
(*                                                                         *)
(* Three calls make a wl_display_roundtrip in the middle: the registry's   *)
(* handler of a new output, aquireSessionLock and unlock.  Inside it the   *)
(* events that are queued are dispatched, so the calls nest; calls has the *)
(* ones that are waiting, innermost last.  Starting the platform is such a *)
(* call too.                                                               *)
(*                                                                         *)
(* The application opens a lock surface on each output it is told of,      *)
(* drops one when it was asked to close it, and unlocks what is locked.    *)
(***************************************************************************)
EXTENDS Naturals, Sequences

CONSTANTS
  Outputs,
  MaxLockEvents,  \* bound: queued events beyond which the compositor sends none
  MaxCalls        \* bound: calls waiting for a roundtrip

VARIABLES
  plugged,      \* compositor: the outputs it has
  grants,       \* compositor: what it thinks of the lock: none, asked, locked, denied
  lockEvents,   \* sent and not dispatched
  calls,        \* calls that wait for a roundtrip
  initialized,  \* the platform's initialized
  known,        \* m_outputs
  announced,    \* outputs the application was told of, and not of their removal
  lock,         \* m_sessionLockState: whether it is alive and found, and its flags
  surface       \* per output the lock surface: none, made, open, or closing, which is
                \* open but asked to close
lockVars == <<plugged, grants, lockEvents, calls, initialized, known, announced, lock, surface>>

NoLock == [alive |-> FALSE, found |-> FALSE, held |-> FALSE, unlocked |-> FALSE, denied |-> FALSE]

Calls == {calls[i] : i \in DOMAIN calls}
Top == calls[Len(calls)]
Enter(call) == Len(calls) < MaxCalls /\ calls' = Append(calls, call)
Return == calls' = SubSeq(calls, 1, Len(calls) - 1)

----------------------------------------------------------------------------
\* The compositor

SendLock(e) == Len(lockEvents) < MaxLockEvents /\ lockEvents' = Append(lockEvents, e)

TogglePlug(o) ==
  /\ plugged' = (plugged \ {o}) \cup ({o} \ plugged)
  /\ SendLock([type |-> IF o \in plugged THEN "remove" ELSE "global", output |-> o])
  /\ UNCHANGED <<grants, calls, initialized, known, announced, lock, surface>>

\* It locks the session, or denies it; it may also take a lock away.
Decide ==
  /\ \/ grants = "asked" /\ grants' \in {"locked", "denied"}
     \/ grants = "locked" /\ grants' = "denied"
  /\ SendLock([type |-> grants'])
  /\ UNCHANGED <<plugged, calls, initialized, known, announced, lock, surface>>

----------------------------------------------------------------------------
\* The registry

\* The closeRequest of open surfaces; the others hear it too, but have nothing to close.
Asked(os) == [o \in Outputs |-> IF o \in os /\ surface[o] = "open" THEN "closing"
                                ELSE IF o \in os /\ surface[o] = "made" THEN "none" ELSE surface[o]]

NewOutput ==
  /\ lockEvents # <<>> /\ Head(lockEvents).type = "global"
  /\ known' = known \cup {Head(lockEvents).output}
  /\ Enter([what |-> "output", output |-> Head(lockEvents).output])
  /\ lockEvents' = Tail(lockEvents)
  /\ UNCHANGED <<plugged, grants, initialized, announced, lock, surface>>

\* "We emit a new event where the user expects full data."
OutputSynced ==
  /\ calls # <<>> /\ Top.what = "output"
  /\ Return
  /\ announced' = (IF initialized THEN announced \cup {Top.output} ELSE announced)
  /\ UNCHANGED <<plugged, grants, lockEvents, initialized, known, lock, surface>>

OutputRemovedUnderLock ==   \* Seeded fault: the lock is not told.
  /\ lockEvents # <<>> /\ Head(lockEvents).type = "remove"
  /\ known' = known \ {Head(lockEvents).output}
  /\ announced' = announced \ {Head(lockEvents).output}
  /\ lockEvents' = Tail(lockEvents)
  /\ UNCHANGED <<plugged, grants, calls, initialized, lock, surface>>

\* The lock state, if the platform has one, asks the surface of the output to close.
OutputRemoved ==
  /\ lockEvents # <<>> /\ Head(lockEvents).type = "remove"
  /\ known' = known \ {Head(lockEvents).output}
  /\ announced' = announced \ {Head(lockEvents).output}
  /\ surface' = (IF lock.found THEN Asked({Head(lockEvents).output}) ELSE surface)
  /\ lockEvents' = Tail(lockEvents)
  /\ UNCHANGED <<plugged, grants, calls, initialized, lock>>

\* The platform's last roundtrip is over: the outputs it has found are announced.
Start ==
  /\ ~initialized /\ calls = <<[what |-> "attempt"]>>
  /\ Return
  /\ initialized' = TRUE
  /\ announced' = known
  /\ UNCHANGED <<plugged, grants, lockEvents, known, lock, surface>>

----------------------------------------------------------------------------
\* The lock

\* aquireSessionLock: the state is not found by the platform before the roundtrip ends.
Acquire ==
  /\ calls = <<>> /\ ~lock.alive
  /\ lock' = [NoLock EXCEPT !.alive = TRUE, !.held = TRUE]
  /\ grants' = "asked"
  /\ Enter([what |-> "acquire"])
  /\ UNCHANGED <<plugged, lockEvents, initialized, known, announced, surface>>

Acquired ==
  /\ calls # <<>> /\ Top.what = "acquire"
  /\ Return
  /\ lock' = [lock EXCEPT !.found = TRUE]
  /\ UNCHANGED <<plugged, grants, lockEvents, initialized, known, announced, surface>>

\* setLocked notes the lock and nothing reads it; setFinished denies it.
LockAnswered ==
  /\ lockEvents # <<>> /\ Head(lockEvents).type \in {"locked", "denied"}
  /\ lock' = [lock EXCEPT !.denied = @ \/ (lock.held /\ Head(lockEvents).type = "denied")]
  /\ lockEvents' = Tail(lockEvents)
  /\ UNCHANGED <<plugged, grants, calls, initialized, known, announced, surface>>

Unlock ==
  /\ calls = <<>> /\ lock.held /\ ~lock.unlocked /\ ~lock.denied /\ grants = "locked"
  /\ lock' = [lock EXCEPT !.held = FALSE, !.unlocked = TRUE]
  /\ grants' = "none"
  /\ Enter([what |-> "unlock"])
  /\ UNCHANGED <<plugged, lockEvents, initialized, known, announced, surface>>

Unlocked ==
  /\ calls # <<>> /\ Top.what = "unlock"
  /\ Return
  /\ surface' = Asked(Outputs)
  /\ UNCHANGED <<plugged, grants, lockEvents, initialized, known, announced, lock>>

\* The application lets go of a lock that is over.
DropLock ==
  /\ calls = <<>> /\ lock.alive /\ (lock.unlocked \/ lock.denied)
  /\ \A o \in Outputs : surface[o] = "none"
  /\ lock' = NoLock
  /\ grants' = "none"
  /\ lockEvents' = SelectSeq(lockEvents, LAMBDA e : e.type \notin {"locked", "denied"})
  /\ UNCHANGED <<plugged, calls, initialized, known, announced, surface>>

----------------------------------------------------------------------------
\* Lock surfaces

MakeSurface(o) ==
  /\ calls = <<>> /\ o \in announced /\ surface[o] = "none"
  /\ lock.found /\ ~lock.denied /\ ~lock.unlocked
  /\ surface' = [surface EXCEPT ![o] = "made"]
  /\ UNCHANGED <<plugged, grants, lockEvents, calls, initialized, known, announced, lock>>

\* open(), which may come later: the lock may be gone by then, or the output.
OpenSurface(o) ==
  /\ calls = <<>> /\ surface[o] = "made"
  /\ lock.held /\ o \in known
  /\ surface' = [surface EXCEPT ![o] = "open"]
  /\ UNCHANGED <<plugged, grants, lockEvents, calls, initialized, known, announced, lock>>

\* The application closes and drops what it was asked to close, or what is denied.
CloseSurface(o) ==
  /\ surface[o] = "closing" \/ (surface[o] # "none" /\ lock.denied)
  /\ surface' = [surface EXCEPT ![o] = "none"]
  /\ UNCHANGED <<plugged, grants, lockEvents, calls, initialized, known, announced, lock>>

----------------------------------------------------------------------------
LockInit ==
  /\ plugged = {} /\ grants = "none" /\ lockEvents = <<>>
  /\ calls = <<[what |-> "attempt"]>>
  /\ initialized = FALSE
  /\ known = {} /\ announced = {}
  /\ lock = NoLock
  /\ surface = [o \in Outputs |-> "none"]

LockNext ==
  \/ \E o \in Outputs : TogglePlug(o) \/ MakeSurface(o) \/ OpenSurface(o) \/ CloseSurface(o)
  \/ Decide \/ Start
  \/ NewOutput \/ OutputSynced \/ OutputRemoved
  \/ Acquire \/ Acquired \/ LockAnswered \/ Unlock \/ Unlocked \/ DropLock

LockSpec == LockInit /\ [][LockNext]_lockVars

----------------------------------------------------------------------------
\* Properties

\* No lock surface stays on the screen that nobody was asked to close: after an
\* unlock, and after its output has gone, wherever in an acquire, an unlock or the
\* registry's own roundtrip the events about outputs are dispatched.
SurfacesAreAskedToClose ==
  \A o \in Outputs : surface[o] = "open" =>
    /\ o \in known
    /\ lock.unlocked => [what |-> "unlock"] \in Calls

=============================================================================
