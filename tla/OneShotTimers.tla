---------------------------- MODULE OneShotTimers ----------------------------
(***************************************************************************)
(* What the event loop promises about timers, without threads, queues or a *)
(* mutex: every timer it accepts is called at most once, and only when the *)
(* deadline it was last given is over; and the only reasons for dropping   *)
(* an uncalled one are its cancellation, a purge and the end of the        *)
(* backend.                                                                *)
(***************************************************************************)
EXTENDS Naturals

CONSTANTS Timers

VARIABLES
  status,     \* what became of each timer
  calls,      \* how often each timer was called
  expired,    \* timers whose present deadline is over
  cancelled,  \* timers the application gave up
  purging,    \* a cancelPending() is dropping timers
  closed      \* the backend accepts no timers any more

promiseVars == <<status, calls, expired, cancelled, purging, closed>>

PromiseInit ==
  /\ status = [tm \in Timers |-> "new"]
  /\ calls = [tm \in Timers |-> 0]
  /\ expired = {} /\ cancelled = {} /\ purging = FALSE /\ closed = FALSE

Settle(tm, from, to) == status[tm] = from /\ status' = [status EXCEPT ![tm] = to]

Accept(tm) ==
  /\ ~closed
  /\ Settle(tm, "new", "pending")
  /\ UNCHANGED <<calls, expired, cancelled, purging, closed>>

\* The only step that calls a timer.
Fire(tm) ==
  /\ tm \in expired
  /\ Settle(tm, "pending", "fired")
  /\ calls' = [calls EXCEPT ![tm] = @ + 1]
  /\ UNCHANGED <<expired, cancelled, purging, closed>>

\* Time passes; the application sets a new deadline.
Expire(tm) ==
  /\ status[tm] # "new"
  /\ expired' = expired \cup {tm}
  /\ UNCHANGED <<status, calls, cancelled, purging, closed>>

Rearm(tm) ==
  /\ status[tm] # "new"
  /\ expired' = expired \ {tm}
  /\ UNCHANGED <<status, calls, cancelled, purging, closed>>

GiveUp(tm) ==
  /\ status[tm] # "new"
  /\ cancelled' = cancelled \cup {tm}
  /\ UNCHANGED <<status, calls, expired, purging, closed>>

Drop(tm) ==
  /\ tm \in cancelled
  /\ Settle(tm, "pending", "dropped")
  /\ UNCHANGED <<calls, expired, cancelled, purging, closed>>

BeginPurge ==
  /\ ~purging /\ purging' = TRUE
  /\ UNCHANGED <<status, calls, expired, cancelled, closed>>

\* The pending timers S go at once.
Discard(S) ==
  /\ \A tm \in S : status[tm] = "pending"
  /\ status' = [tm \in Timers |-> IF tm \in S THEN "dropped" ELSE status[tm]]

EndPurge ==
  /\ purging /\ purging' = FALSE
  /\ \E S \in SUBSET Timers : Discard(S)
  /\ UNCHANGED <<calls, expired, cancelled, closed>>

Close ==
  /\ closed' = TRUE
  /\ UNCHANGED <<status, calls, expired, cancelled, purging>>

ShutDown ==
  /\ closed
  /\ \E S \in SUBSET Timers : Discard(S)
  /\ UNCHANGED <<calls, expired, cancelled, purging, closed>>

PromiseNext ==
  \/ \E tm \in Timers : \/ Accept(tm) \/ Fire(tm) \/ Expire(tm) \/ Rearm(tm)
                        \/ GiveUp(tm) \/ Drop(tm)
  \/ BeginPurge \/ EndPurge \/ Close \/ ShutDown

PromiseSpec == PromiseInit /\ [][PromiseNext]_promiseVars
=============================================================================
