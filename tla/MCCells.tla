------------------------------ MODULE MCCells ------------------------------
(* Model checking of Completions and LogSink: what the program's threads hand  *)
(* to others without waiting for them. The two share no state, so a behaviour  *)
(* moves one of them: the states are their sum and not their product.          *)
EXTENDS LogSink

CONSTANTS
    MaxFrames, MaxSlots, Budget, Kinds, Natives,
    MaxNews     \* bound: lines of the PE side and fault reports together

VARIABLES
    part,       \* the component this behaviour moves
    cell, head, free, allocated, api, frame, waits, failed, held, flags, pending, registry,
    retired, recovered, pass, nat, owner, todo

C == INSTANCE Completions

cellVars == <<cell, head, free, allocated, api, frame, waits, failed, held, flags, pending,
              registry, retired, recovered, pass, nat, owner, todo>>
all == <<part, vars, cellVars>>

\* The program's threads are interchangeable.
Symmetry == Permutations(Threads)

MCInit ==
    /\ part \in {"cells", "log"} /\ C!Init /\ Init
    /\ part = "cells" => ~sink.early

\* Behaviours with a lease of two slots are kept small: native threads other
\* than the encoder's stay out.
Small ==
    (\E l \in C!AllLeases' : l.kind = "redirty") =>
        \A t \in Natives \ {"encoder"} : todo'[t].cells = << >>

MCNext ==
    \/ part = "cells" /\ C!Next /\ Small /\ UNCHANGED <<part, vars>>
    \/ part = "log" /\ Next /\ pe' + rep' <= MaxNews /\ UNCHANGED <<part, cellVars>>

MCSpec == MCInit /\ [][MCNext]_all

-----------------------------------------------------------------------------
(* Completions: every published cell that was not consumed is on the queue, on *)
(* a detached list or in the hands of the thread that links it, and a          *)
(* destroyed device leaves no slot behind (guest_completions.rs).                *)
NothingLost == part = "cells" => C!NothingLost

(* Completions: what native code owns or has yet to publish for is held by a   *)
(* lease of the PE side, and a packet's storage is given up only after native  *)
(* code dropped the frame that borrows it (owner.rs, retirement.rs).            *)
BackingRetained == part = "cells" => C!BackingRetained

(* Completions: a slot is in the hands of one lease, or retired, or free, and  *)
(* free once only (LeaseRegistry::insert, CompletionPool::recycle_all).        *)
OwnerIsUnique == part = "cells" => C!OwnerIsUnique

(* Completions: with the queue empty a pass would find nothing, so skipping it *)
(* leaves no packet and no lease behind (has_ready, push_submitted).           *)
SkipIsSafe == part = "cells" => C!SkipIsSafe
=============================================================================
