------------------------------ MODULE ApiLock ------------------------------
(***************************************************************************)
(* The reentrant lock of a D3DCREATE_MULTITHREADED device: an owner and a  *)
(* depth under a mutex, and a condition variable.  The mutex covers single *)
(* steps; leave lets it go before it notifies.                             *)
(***************************************************************************)
EXTENDS Naturals, FiniteSets

CONSTANT Threads

VARIABLES
    owner,      \* Holder::owner, or "none"
    depth,      \* Holder::depth
    waiting,    \* the threads blocked on the condition variable
    awake,      \* the threads it woke that have not looked at the owner yet
    notifies    \* the threads between their last release and notify_one

lockVars == <<owner, depth, waiting, awake, notifies>>

LockInit ==
    /\ owner = "none" /\ depth = 0
    /\ waiting = {} /\ awake = {} /\ notifies = {}

\* enter, where the lock is free or the caller's already.
enter(t) ==
    /\ owner \in {"none", t} /\ t \notin waiting
    /\ owner' = t
    /\ depth' = depth + 1
    /\ awake' = awake \ {t}
    /\ UNCHANGED <<waiting, notifies>>

\* enter, where another thread holds it: wait, again after a wake-up in vain.
block(t) ==
    /\ owner \notin {"none", t} /\ t \notin waiting
    /\ waiting' = waiting \cup {t}
    /\ awake' = awake \ {t}
    /\ UNCHANGED <<owner, depth, notifies>>

\* leave, mutated: the lock empties and nobody is notified.
leave_mutated(t) ==
    /\ owner = t
    /\ depth' = depth - 1
    /\ owner' = IF depth = 1 THEN "none" ELSE t
    /\ UNCHANGED <<waiting, awake, notifies>>

\* leave, up to the drop of the mutex.
leave(t) ==
    /\ owner = t
    /\ depth' = depth - 1
    /\ IF depth = 1 THEN owner' = "none" /\ notifies' = notifies \cup {t}
                    ELSE UNCHANGED <<owner, notifies>>
    /\ UNCHANGED <<waiting, awake>>

\* notify_one, which wakes one of those that wait by now.
notify(t) ==
    /\ t \in notifies
    /\ notifies' = notifies \ {t}
    /\ \/ waiting = {} /\ UNCHANGED <<waiting, awake>>
       \/ \E w \in waiting : waiting' = waiting \ {w} /\ awake' = awake \cup {w}
    /\ UNCHANGED <<owner, depth>>

\* A condition variable may wake a waiter on its own.
SpuriousWake(t) ==
    /\ t \in waiting
    /\ waiting' = waiting \ {t} /\ awake' = awake \cup {t}
    /\ UNCHANGED <<owner, depth, notifies>>

LockTypeOK ==
    /\ owner \in Threads \cup {"none"} /\ depth \in Nat
    /\ waiting \subseteq Threads /\ awake \subseteq Threads /\ notifies \subseteq Threads
    /\ waiting \cap awake = {}
    /\ (owner = "none") = (depth = 0)

\* With the lock free and a thread blocked on it, a wake-up is on its way: a
\* notification about to happen, or a woken thread that has yet to look.
WakeIsOnItsWay == owner = "none" /\ waiting # {} => notifies # {} \/ awake # {}
=============================================================================
