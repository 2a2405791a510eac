---------------------------- MODULE TimerService ----------------------------
(***************************************************************************)
(* What timer.c does for those who register callbacks: at each tick every  *)
(* timer whose interval divides the time is called, once; a timer is       *)
(* called once and then as many times again as was asked, or for ever; and *)
(* it is in nobody's way: no other timer has its id.                       *)
(*                                                                         *)
(* The time is counted from the start, not from the registration: the      *)
(* first call may come before the interval has passed (see TimerDelay).    *)
(*                                                                         *)
(* No slots, no allocator, and no order among the timers of a tick.        *)
(***************************************************************************)
EXTENDS Integers, Functions

CONSTANTS
    Id, Func, Interval, Repeat,
    Period,         \* the time is counted modulo Period
    NoFunc

VARIABLES
    active,         \* the timers, by id: function, interval, calls left
    now,
    due,            \* timers still to be called in this tick
    call            \* the function called in the last step, or NoFunc

vars == <<active, now, due, call>>

Forever == -1

Init == active = [id \in {} |-> NoFunc] /\ now = 0 /\ due = {} /\ call = NoFunc

Quiet == due = {} /\ call' = NoFunc

Register ==
    /\ Quiet
    /\ \E id \in Id \ DOMAIN active, f \in Func, n \in Interval, r \in Repeat :
           active' = [i \in DOMAIN active \cup {id} |->
                        IF i # id THEN active[i]
                        ELSE [func |-> f, every |-> n,
                              left |-> IF r = -1 THEN Forever ELSE r + 1]]
    /\ UNCHANGED <<now, due>>

Unregister ==
    /\ Quiet
    /\ \E id \in DOMAIN active : active' = Restrict(active, DOMAIN active \ {id})
    /\ UNCHANGED <<now, due>>

Tick ==
    /\ Quiet
    /\ now' = (now + 1) % Period
    /\ due' = {id \in DOMAIN active : now' % active[id].every = 0}
    /\ UNCHANGED active

\* The last call of a timer ends it.
Call(id) ==
    /\ id \in due
    /\ due' = due \ {id}
    /\ call' = active[id].func
    /\ \/ active[id].left = Forever /\ UNCHANGED active
       \/ active[id].left = 1 /\ active' = Restrict(active, DOMAIN active \ {id})
       \/ active[id].left > 1 /\ active' = [active EXCEPT ![id].left = @ - 1]
    /\ UNCHANGED now

\* Time passes between the calls of a tick, or after them.
Return == call' = NoFunc /\ UNCHANGED <<active, now, due>>

Next ==
    \/ Register
    \/ Unregister
    \/ Tick
    \/ \E id \in Id : Call(id)
    \/ Return

Spec == Init /\ [][Next]_vars

=============================================================================
