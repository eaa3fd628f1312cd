---------------------------- MODULE Completions ----------------------------
(***************************************************************************)
(* Completion cells, the notification queue they form, the pool that       *)
(* recycles them and the retirement of frame packets and their leases.     *)
(*                                                                         *)
(* The API thread records leases, submits packets and maintains; a second  *)
(* thread of the program may maintain as well.  Native threads replay the  *)
(* packets, own what the leases describe and publish the cells.            *)
(***************************************************************************)
EXTENDS Integers, Sequences, FiniteSets, SequencesExt

CONSTANTS
    MaxFrames,  \* bound: the packets a behaviour submits
    MaxSlots,   \* bound: the slots the pool ever hands out
    Budget,     \* DRAIN_BUDGET: what one drain consumes at most
    Kinds,      \* the kinds of lease a frame may record
    Natives     \* the native threads, with "encoder" among them

Frames == 1..MaxFrames
Slots == 1..MaxSlots

\* A cell is an address: the acquisition and the final cell of a slot, and the
\* replay completion of a packet.
Acquired(s) == <<s, 0>>
Completion(s) == <<s, 1>>
Replay(p) == <<0, p>>
Nil == <<0, 0>>
CellsOf(s) == {Acquired(s), Completion(s)}
Cells == UNION {CellsOf(s) : s \in Slots} \cup {Replay(p) : p \in Frames}

VARIABLES
    cell,       \* LeaseCompletion: complete, queue and next of every cell
    head,       \* CompletionQueue::head
    free,       \* SlotAllocator::free
    allocated,  \* SlotAllocator::allocated
    api,        \* what the API thread is in
    frame,      \* the frame it records or submits
    waits,      \* whether that submission is synchronous
    failed,     \* the device's latched failure
    held,       \* FramePacket: the leases each packet owns
    flags,      \* FramePacket: ADMITTED, CANCELLED and the recording error
    pending,    \* PacketRetirement::pending
    registry,   \* LeaseRegistry::entries
    retired,    \* LeaseRegistry::retired
    recovered,  \* the packets whose recording storage was given up
    pass,       \* the maintenance pass that holds the retirement lock
    nat,        \* where native code is with each packet
    owner,      \* native ownership of what a slot's lease describes
    todo        \* the publications each native thread is in the middle of

pool == <<free, allocated>>
packets == <<held, flags, pending, registry, retired, recovered>>
native == <<nat, owner, todo>>
vars == <<cell, head, pool, api, frame, waits, failed, packets, pass, native>>

-----------------------------------------------------------------------------
(* Cells *)

\* is_complete, mutated: a published cell counts before it was consumed.
is_complete_mutated(c) == cell[c].complete # 0

\* LeaseCompletion::is_complete: a queued cell is complete once consumed.
is_complete(c) ==
    IF cell[c].queue THEN cell[c].complete >= 4 ELSE cell[c].complete # 0

was_rejected(c) == is_complete(c) /\ cell[c].complete % 4 = 2

queued == [complete |-> 0, queue |-> TRUE, next |-> Nil]

\* reset_completed leaves next as it was; the cell is never linked like this.
completed == [complete |-> 1, queue |-> FALSE, next |-> Nil]

\* The cells reachable from c along next.
Chain(c) ==
    LET reach[n \in 0..Cardinality(Cells)] ==
            IF n = 0 THEN {c} \ {Nil}
            ELSE LET r == reach[n - 1]
                 IN  r \cup ({cell[x].next : x \in r} \ {Nil})
    IN  reach[Cardinality(Cells)]

LastOf(c) == CHOOSE x \in Chain(c) : cell[x].next = Nil

-----------------------------------------------------------------------------
(* Leases: a kind and the slots it reserved, the primary one first. *)

LeaseCells(l) == UNION {CellsOf(s) : s \in Range(l.slots)}

\* LeaseCells::reusable, mutated: it looks at the final cell only.
reusable_mutated(l) == is_complete(Completion(l.slots[Len(l.slots)]))

\* LeaseCells::reusable, for every slot of the lease.
reusable(l) == \A c \in LeaseCells(l) : is_complete(c)
Final(l) == Completion(l.slots[Len(l.slots)])

\* The slots a lease of each kind allocates; TRUE where the slot needs its
\* acquisition cell as well.
Needs(k) ==
    CASE k = "page" -> <<TRUE>>
      [] k = "owned" -> <<FALSE>>
      [] k = "redirty" -> <<TRUE, FALSE>>

\* The indices n calls of CompletionPool::allocate hand out.
Popped(n) ==
    [i \in 1..n |-> IF i <= Len(free) THEN free[Len(free) + 1 - i]
                                      ELSE allocated + i - Len(free)]

\* CompletionPool::allocate, once for each slot of a lease of kind k.
allocate(k) ==
    LET needs == Needs(k)
        n == Len(needs)
        slots == Popped(n)
        fresh == IF n > Len(free) THEN n - Len(free) ELSE 0
    IN  /\ allocated + fresh <= MaxSlots
        /\ free' = SubSeq(free, 1, Len(free) - (n - fresh))
        /\ allocated' = allocated + fresh
        /\ cell' = [c \in Cells |->
              IF \E i \in 1..n : c = Completion(slots[i]) \/ (c = Acquired(slots[i]) /\ needs[i])
                THEN queued
              ELSE IF \E i \in 1..n : c = Acquired(slots[i])
                THEN completed
              ELSE cell[c]]
        /\ held' = [held EXCEPT ![frame] = @ \cup {[kind |-> k, slots |-> slots]}]
        /\ owner' = [s \in Slots |-> IF s \in Range(slots) THEN "none" ELSE owner[s]]

-----------------------------------------------------------------------------
NoPass == [stage |-> "none", by |-> "none", list |-> Nil, count |-> 0,
           tail |-> Nil, seen |-> Nil]

LeaseSet ==
    [kind : Kinds, slots : {<<s>> : s \in Slots} \cup (Slots \X Slots)]

ApiPlaces == {"idle", "recording", "calling", "push", "destroying",
              "cancelling", "closed", "forgotten"}
NativePlaces == {"none", "queued", "replaying", "failed", "submitted",
                 "finished", "rejected", "skipped"}

\* Type correctness.
TypeOK ==
    /\ cell \in [Cells -> [complete : {0, 1, 2, 5, 6}, queue : BOOLEAN,
                           next : Cells \cup {Nil}]]
    /\ head \in Cells \cup {Nil}
    /\ free \in Seq(Slots)
    /\ allocated \in 0..MaxSlots
    /\ api \in ApiPlaces
    /\ frame \in 0..MaxFrames
    /\ waits \in BOOLEAN
    /\ failed \in BOOLEAN
    /\ \A p \in Frames : held[p] \subseteq LeaseSet
    /\ flags \in [Frames -> SUBSET {"ADMITTED", "CANCELLED", "error"}]
    /\ pending \subseteq Frames
    /\ registry \subseteq LeaseSet
    /\ retired \in Seq(Slots)
    /\ recovered \subseteq Frames
    /\ pass.stage \in {"none", "take", "drain", "requeue", "walk"}
    /\ pass.by \in {"none", "api", "other"}
    /\ nat \in [Frames -> NativePlaces]
    /\ owner \in [Slots -> {"none", "adopted", "dropped"}]
    /\ \A t \in Natives : todo[t].linking \in BOOLEAN

Init ==
    /\ cell = [c \in Cells |-> IF c[1] = 0 THEN queued
                               ELSE [queued EXCEPT !.queue = FALSE]]
    /\ head = Nil
    /\ free = <<>>
    /\ allocated = 0
    /\ api = "idle"
    /\ frame = 0
    /\ waits = FALSE
    /\ failed = FALSE
    /\ held = [p \in Frames |-> {}]
    /\ flags = [p \in Frames |-> {}]
    /\ pending = {}
    /\ registry = {}
    /\ retired = <<>>
    /\ recovered = {}
    /\ pass = NoPass
    /\ nat = [p \in Frames |-> "none"]
    /\ owner = [s \in Slots |-> "none"]
    /\ todo = [t \in Natives |-> [cells |-> <<>>, linking |-> FALSE, seen |-> Nil]]

-----------------------------------------------------------------------------
(* Native publication.  A thread's todo lists the cells it publishes in     *)
(* order, each with the state it stores.                                    *)

Idle(t) == todo[t].cells = <<>>
Owes(t, s) == todo' = [todo EXCEPT ![t].cells = s]
Publication(c, s) == [cell |-> c, state |-> s]
Done(t) == [todo[t] EXCEPT !.cells = Tail(@), !.linking = FALSE, !.seen = Nil]

\* publish_state up to its first load of the head: a cell that was published
\* before is left alone.
publish_state(t) ==
    /\ ~Idle(t)
    /\ ~todo[t].linking
    /\ LET c == Head(todo[t].cells).cell IN
       IF cell[c].complete # 0
         THEN /\ todo' = [todo EXCEPT ![t] = Done(t)]
              /\ UNCHANGED cell
         ELSE /\ cell' = [cell EXCEPT ![c].complete = Head(todo[t].cells).state,
                                      ![c].next = head]
              /\ todo' = [todo EXCEPT ![t].linking = TRUE, ![t].seen = head]
    /\ UNCHANGED <<head, pool, api, frame, waits, failed, packets, pass, nat, owner>>

\* One round of publish_state's loop: the exchange, and a new load if it fails.
link(t) ==
    /\ todo[t].linking
    /\ LET c == Head(todo[t].cells).cell IN
       IF head = todo[t].seen
         THEN /\ head' = c
              /\ todo' = [todo EXCEPT ![t] = Done(t)]
              /\ UNCHANGED cell
         ELSE /\ cell' = [cell EXCEPT ![c].next = head]
              /\ todo' = [todo EXCEPT ![t].seen = head]
              /\ UNCHANGED head
    /\ UNCHANGED <<pool, api, frame, waits, failed, packets, pass, nat, owner>>

-----------------------------------------------------------------------------
(* Native replay *)

\* The frame message the encoder takes next.
NextFrame(p) ==
    /\ nat[p] = "queued"
    /\ Idle("encoder")
    /\ \A q \in Frames : nat[q] # "replaying" /\ (q < p => nat[q] # "queued")

failed_replay == \E p \in Frames : nat[p] = "failed"

\* The packet decodes and its replay starts.
Decode(p) ==
    /\ NextFrame(p)
    /\ ~failed_replay
    /\ nat' = [nat EXCEPT ![p] = "replaying"]
    /\ UNCHANGED <<cell, head, pool, api, frame, waits, failed, packets, pass, owner, todo>>

\* prepare_packet fails: its guard rejects the packet.
RejectPacket(p) ==
    /\ NextFrame(p)
    /\ ~failed_replay
    /\ nat' = [nat EXCEPT ![p] = "rejected"]
    /\ Owes("encoder", <<Publication(Replay(p), 2)>>)
    /\ failed' = TRUE
    /\ UNCHANGED <<cell, head, pool, api, frame, waits, packets, pass, owner>>

\* After a failed replay the encoder decodes nothing and publishes nothing.
SkipPacket(p) ==
    /\ NextFrame(p)
    /\ failed_replay
    /\ nat' = [nat EXCEPT ![p] = "skipped"]
    /\ failed' = TRUE
    /\ UNCHANGED <<cell, head, pool, api, frame, waits, packets, pass, owner, todo>>

SetOwner(l, o) == owner' = [s \in Slots |-> IF s \in Range(l.slots) THEN o ELSE owner[s]]
OwnerIs(l, o) == owner[l.slots[1]] = o

\* A record of the packet adopts its descriptor: adopt_read acknowledges the
\* read at once, the other descriptors publish nothing.
Adopt(p, l) ==
    /\ nat[p] = "replaying"
    /\ Idle("encoder")
    /\ l \in held[p]
    /\ OwnerIs(l, "none")
    /\ SetOwner(l, "adopted")
    /\ IF l.kind = "page"
         THEN Owes("encoder", <<Publication(Acquired(l.slots[1]), 1)>>)
         ELSE UNCHANGED todo
    /\ UNCHANGED <<cell, head, pool, api, frame, waits, failed, packets, pass, nat>>

\* NativeFeedback::publish: the upload emitted, or declined; each at most once.
Feedback(l) ==
    /\ l.kind = "redirty"
    /\ Idle("encoder")
    /\ OwnerIs(l, "adopted")
    /\ \E c \in CellsOf(l.slots[1]) :
          /\ cell[c].complete = 0
          /\ Owes("encoder", <<Publication(c, 1)>>)
    /\ UNCHANGED <<cell, head, pool, api, frame, waits, failed, packets, pass, nat, owner>>

\* The owner drops on any native thread: a page or an owned page publishes its
\* final cell; NativeFeedback declines an upload nobody answered, finishes
\* both notifications and then publishes the final cell.
DropOwner(l, t) ==
    /\ Idle(t)
    /\ OwnerIs(l, "adopted")
    /\ \A u \in Natives : \A i \in 1..Len(todo[u].cells) :
          todo[u].cells[i].cell \notin LeaseCells(l)
    /\ SetOwner(l, "dropped")
    /\ LET e == l.slots[1]
           fin == <<Publication(Final(l), 1)>>
           both == <<Publication(Acquired(e), 1), Publication(Completion(e), 1)>>
           silent == \A c \in CellsOf(e) : cell[c].complete = 0
       IN  Owes(t, IF l.kind # "redirty" THEN fin
                   ELSE IF silent THEN <<Publication(Completion(e), 1)>> \o both \o fin
                   ELSE both \o fin)
    /\ UNCHANGED <<cell, head, pool, api, frame, waits, failed, packets, pass, nat>>

\* Every record replayed: the frame goes on to the submit.
IntoFrame(p) ==
    /\ nat[p] = "replaying"
    /\ Idle("encoder")
    /\ \A l \in held[p] : ~OwnerIs(l, "none")
    /\ nat' = [nat EXCEPT ![p] = "submitted"]
    /\ UNCHANGED <<cell, head, pool, api, frame, waits, failed, packets, pass, owner, todo>>

\* A record is malformed: the packet is kept with what it adopted so far.
ReplayFails(p) ==
    /\ nat[p] = "replaying"
    /\ Idle("encoder")
    /\ nat' = [nat EXCEPT ![p] = "failed"]
    /\ failed' = TRUE
    /\ UNCHANGED <<cell, head, pool, api, frame, waits, packets, pass, owner, todo>>

\* The submitted frame drops, its replay completion last.
DropFrame(p, t) ==
    /\ nat[p] = "submitted"
    /\ Idle(t)
    /\ nat' = [nat EXCEPT ![p] = "finished"]
    /\ Owes(t, <<Publication(Replay(p), 1)>>)
    /\ UNCHANGED <<cell, head, pool, api, frame, waits, failed, packets, pass, owner>>

\* Destruction drops the failed packet after every owner.
DropFailed(p) ==
    /\ api \in {"destroying", "forgotten"}
    /\ nat[p] = "failed"
    /\ Idle("encoder")
    /\ \A q \in Frames : nat[q] # "queued"
    /\ \A s \in Slots : owner[s] # "adopted"
    /\ nat' = [nat EXCEPT ![p] = "rejected"]
    /\ Owes("encoder", <<Publication(Replay(p), 2)>>)
    /\ UNCHANGED <<cell, head, pool, api, frame, waits, failed, packets, pass, owner>>

\* Native destruction has joined every worker.
Quiet ==
    /\ \A p \in Frames : nat[p] \notin {"queued", "replaying", "submitted", "failed"}
    /\ \A s \in Slots : owner[s] # "adopted"
    /\ \A t \in Natives : Idle(t)

-----------------------------------------------------------------------------
(* A maintenance pass, under the retirement lock *)

Locked == pass.stage # "none"
Enter(who) == [NoPass EXCEPT !.stage = "take", !.by = who]

take_ready ==
    /\ pass.stage = "take"
    /\ head' = Nil
    /\ pass' = [pass EXCEPT !.stage = "drain", !.list = head, !.count = 0]
    /\ UNCHANGED <<cell, pool, api, frame, waits, failed, packets, native>>

\* One notification of the detached list: the cell is consumed, and the lease
\* registered under its token retires if that was the last.  The code leaves
\* the cell's next as it is; nothing reads it again before allocate resets it.
drain ==
    /\ pass.stage = "drain"
    /\ pass.list # Nil
    /\ pass.count < Budget
    /\ LET c == pass.list
           done == {l \in registry : /\ c \in LeaseCells(l)
                                     /\ \A d \in LeaseCells(l) \ {c} : is_complete(d)}
       IN  /\ cell' = [cell EXCEPT ![c].complete = @ + 4, ![c].next = Nil]
           /\ pass' = [pass EXCEPT !.list = cell[c].next, !.count = @ + 1]
           /\ registry' = registry \ done
           /\ retired' = retired \o (IF done = {} THEN <<>> ELSE (CHOOSE l \in done : TRUE).slots)
    /\ UNCHANGED <<head, pool, api, frame, waits, failed, held, flags, pending,
                   recovered, native>>

\* The budget ends inside the list: its last cell is linked before the head.
requeue ==
    /\ pass.stage = "drain"
    /\ pass.list # Nil
    /\ pass.count = Budget
    /\ cell' = [cell EXCEPT ![LastOf(pass.list)].next = head]
    /\ pass' = [pass EXCEPT !.stage = "requeue", !.tail = LastOf(pass.list), !.seen = head]
    /\ UNCHANGED <<head, pool, api, frame, waits, failed, packets, native>>

\* requeue_exchange, mutated: it puts the list back over what was published
\* since the head was read.
requeue_exchange_mutated ==
    /\ pass.stage = "requeue"
    /\ head' = pass.list
    /\ pass' = [pass EXCEPT !.stage = "drain", !.list = Nil]
    /\ UNCHANGED <<cell, pool, api, frame, waits, failed, packets, native>>

\* One round of requeue's loop.
requeue_exchange ==
    /\ pass.stage = "requeue"
    /\ IF head = pass.seen
         THEN /\ head' = pass.list
              /\ pass' = [pass EXCEPT !.stage = "drain", !.list = Nil]
              /\ UNCHANGED cell
         ELSE /\ cell' = [cell EXCEPT ![pass.tail].next = head]
              /\ pass' = [pass EXCEPT !.seen = head]
              /\ UNCHANGED head
    /\ UNCHANGED <<pool, api, frame, waits, failed, packets, native>>

Drained == pass.stage = "drain" /\ pass.list = Nil

\* FramePacket::can_retire_leases.
can_retire_leases(p) ==
    /\ "error" \notin flags[p]
    /\ is_complete(Replay(p))
    /\ \/ "CANCELLED" \in flags[p]
       \/ "ADMITTED" \in flags[p] /\ ~was_rejected(Replay(p))

\* FramePacket::take_recording_storage gives the storage up.
take_recording_storage(p) ==
    /\ "error" \notin flags[p]
    /\ ~was_rejected(Replay(p))
    /\ is_complete(Replay(p))

\* PacketLease::into_slots of every lease of a set.
SlotsOf(ls) == FlattenSeq([i \in 1..Cardinality(ls) |-> SetToSeq(ls)[i].slots])

\* CompletionPool::recycle_all; OwnerIsUnique states what it asserts.
recycle_all(slots) == free \o slots

\* PacketRetirement::maintain after its drain: the packets whose replay ended
\* hand their leases over, what is already consumed retires, and every retired
\* slot goes back to the pool.
maintain ==
    /\ Drained
    /\ api # "cancelling"
    /\ LET ready == {p \in pending : "ADMITTED" \in flags[p] /\ can_retire_leases(p)}
           taken == UNION {held[p] : p \in ready}
           done == {l \in taken : reusable(l)}
       IN  /\ registry' = registry \cup (taken \ done)
           /\ held' = [p \in Frames |-> IF p \in ready THEN {} ELSE held[p]]
           /\ pending' = pending \ ready
           /\ free' = recycle_all(retired \o SlotsOf(done))
           /\ recovered' = recovered \cup {p \in pending : take_recording_storage(p)}
    /\ failed' = (failed \/ \E p \in pending : was_rejected(Replay(p)))
    /\ retired' = <<>>
    /\ pass' = NoPass
    /\ UNCHANGED <<cell, head, allocated, api, frame, waits, flags, native>>

\* maintain_pending, from a call made while a frame records or by another
\* thread of the program; has_ready is its guard.
maintain_pending ==
    /\ ~Locked
    /\ api \notin {"destroying", "cancelling", "closed", "forgotten"}
    /\ head # Nil
    /\ pass' = Enter("other")
    /\ UNCHANGED <<cell, head, pool, api, frame, waits, failed, packets, native>>

-----------------------------------------------------------------------------
(* The API thread *)

ApiRuns(place) == api = place /\ pass.by # "api"

\* reuse_recording_storage: the one pass per Present, then the next frame.
reuse_recording_storage ==
    /\ ApiRuns("idle")
    /\ ~Locked
    /\ frame < MaxFrames
    /\ api' = "recording"
    /\ frame' = frame + 1
    /\ pass' = IF head # Nil THEN Enter("api") ELSE NoPass
    /\ UNCHANGED <<cell, head, pool, waits, failed, packets, native>>

\* The frame records a lease; one for each frame is enough to tell them apart.
RecordLease ==
    /\ ApiRuns("recording")
    /\ held[frame] = {}
    /\ \E k \in Kinds : allocate(k)
    /\ UNCHANGED <<head, api, frame, waits, failed, flags, pending, registry, retired,
                   recovered, pass, nat, todo>>

\* submit: the recording failed, the device had failed, or native code did not
\* admit the packet; it is retained and maintained at once.
SubmitFails ==
    /\ ApiRuns("recording")
    /\ \E f \in {{}, {"error"}} : flags' = [flags EXCEPT ![frame] = f]
    /\ waits' = TRUE
    /\ failed' = TRUE
    /\ api' = "push"
    /\ UNCHANGED <<cell, head, pool, frame, held, pending, registry, retired, recovered,
                   pass, native>>

\* submit: the packet is admitted.
Submit ==
    /\ ApiRuns("recording")
    /\ ~failed
    /\ nat' = [nat EXCEPT ![frame] = "queued"]
    /\ waits' \in BOOLEAN
    /\ api' = "calling"
    /\ UNCHANGED <<cell, head, pool, frame, failed, packets, pass, owner, todo>>

\* The call returns: at once, or when the encoder has answered.
SubmitReturns ==
    /\ ApiRuns("calling")
    /\ waits => /\ nat[frame] \in {"finished", "rejected", "failed", "skipped"}
                /\ \A t \in Natives : \A i \in 1..Len(todo[t].cells) :
                      todo[t].cells[i].cell # Replay(frame)
    /\ flags' = [flags EXCEPT ![frame] = {"ADMITTED"}]
    /\ api' = "push"
    /\ UNCHANGED <<cell, head, pool, frame, waits, failed, held, pending, registry, retired,
                   recovered, pass, native>>

\* push_submitted, mutated: an asynchronous packet always waits for the queue.
push_submitted_mutated ==
    /\ ApiRuns("push")
    /\ ~Locked
    /\ pending' = pending \cup {frame}
    /\ pass' = IF waits THEN Enter("api") ELSE NoPass
    /\ api' = "idle"
    /\ waits' = FALSE
    /\ UNCHANGED <<cell, head, pool, frame, failed, held, flags, registry, retired,
                   recovered, native>>

\* push_submitted: a pass at once if the submission was synchronous, or if its
\* notification is no longer on the queue to announce it.
push_submitted ==
    /\ ApiRuns("push")
    /\ ~Locked
    /\ pending' = pending \cup {frame}
    /\ pass' = IF waits \/ is_complete(Replay(frame)) THEN Enter("api") ELSE NoPass
    /\ api' = "idle"
    /\ waits' = FALSE
    /\ UNCHANGED <<cell, head, pool, frame, failed, held, flags, registry, retired,
                   recovered, native>>

\* The last reference to the device goes: native destruction starts.
Destroy ==
    /\ ApiRuns("idle")
    /\ ~Locked
    /\ api' = "destroying"
    /\ UNCHANGED <<cell, head, pool, frame, waits, failed, packets, pass, native>>

\* Native destruction failed: forget_native_owners leaks every owner.
forget_native_owners ==
    /\ api = "destroying"
    /\ api' = "forgotten"
    /\ UNCHANGED <<cell, head, pool, frame, waits, failed, packets, pass, native>>

\* cancel_unadopted on every pending packet publishes what native code did not;
\* it runs alone, so the cells go onto the queue in one step.
Unpublished ==
    {c \in Cells : /\ cell[c].complete = 0
                   /\ \E p \in pending : \/ c = Replay(p)
                                         \/ \E l \in held[p] : c \in LeaseCells(l)}

cancel_after_quiescence ==
    /\ api = "destroying"
    /\ Quiet
    /\ LET list == SetToSeq(Unpublished)
           n == Len(list)
           at(c) == CHOOSE i \in 1..n : list[i] = c
       IN  /\ cell' = [c \in Cells |->
                 IF c \in Unpublished
                   THEN [cell[c] EXCEPT !.complete = 1,
                                        !.next = IF at(c) = n THEN head ELSE list[at(c) + 1]]
                   ELSE cell[c]]
           /\ head' = IF n = 0 THEN head ELSE list[1]
    /\ flags' = [p \in Frames |-> IF p \in pending THEN {"CANCELLED"} ELSE flags[p]]
    /\ api' = "cancelling"
    /\ pass' = Enter("api")
    /\ UNCHANGED <<pool, frame, waits, failed, held, pending, registry, retired, recovered,
                   native>>

\* A drain that used its whole budget is followed by another.
DrainAgain ==
    /\ api = "cancelling"
    /\ Drained
    /\ pass.count = Budget
    /\ pass' = Enter("api")
    /\ UNCHANGED <<cell, head, pool, api, frame, waits, failed, packets, native>>

\* The packets drop: each recycles its leases, or leaks them if it cannot.
ClearPending ==
    /\ api = "cancelling"
    /\ Drained
    /\ pass.count < Budget
    /\ LET done == UNION {{l \in held[p] : reusable(l)} : p \in {q \in pending : can_retire_leases(q)}}
       IN  free' = recycle_all(SlotsOf(done) \o retired)
    /\ held' = [p \in Frames |-> {}]
    /\ pending' = {}
    /\ retired' = <<>>
    /\ registry' = {}
    /\ pass' = NoPass
    /\ api' = "closed"
    /\ UNCHANGED <<cell, head, allocated, frame, waits, failed, flags, recovered, native>>

\* The process goes on without the device.
Ended ==
    /\ api \in {"closed", "forgotten"}
    /\ Quiet
    /\ UNCHANGED vars

-----------------------------------------------------------------------------
AllLeases == registry \cup UNION {held[p] : p \in Frames}

Publishes(t) == publish_state(t) \/ link(t)

Encodes ==
    \/ \E p \in Frames : \/ Decode(p) \/ SkipPacket(p) \/ IntoFrame(p) \/ DropFailed(p)
                         \/ \E l \in held[p] : Adopt(p, l)
    \/ \E p \in Frames, t \in Natives : DropFrame(p, t)

Faults == \E p \in Frames : RejectPacket(p) \/ ReplayFails(p)

Releases == \E l \in AllLeases, t \in Natives : DropOwner(l, t)

PassSteps ==
    \/ take_ready \/ drain \/ requeue \/ requeue_exchange \/ maintain
    \/ DrainAgain \/ ClearPending

Maintains == maintain_pending

ApiSteps ==
    \/ reuse_recording_storage \/ RecordLease \/ SubmitFails \/ Submit
    \/ Destroy \/ forget_native_owners

Returns == SubmitReturns \/ push_submitted \/ cancel_after_quiescence

Next ==
    \/ \E t \in Natives : Publishes(t)
    \/ Encodes
    \/ Faults
    \/ Releases
    \/ \E l \in AllLeases : Feedback(l)
    \/ PassSteps
    \/ Maintains
    \/ ApiSteps
    \/ Returns
    \/ Ended

Spec == Init /\ [][Next]_vars

-----------------------------------------------------------------------------
(* Properties *)

Linking == {Head(todo[t].cells).cell : t \in {u \in Natives : todo[u].linking}}

\* Every published cell that was not consumed is on the queue, on the list a
\* drain detached, or in the hands of the thread that links it: no exchange of
\* publish_state or requeue loses a notification or links one twice.  A device
\* that was destroyed leaves no slot behind: every one was retired or cancelled,
\* however its packet ended.
NothingLost ==
    /\ {c \in Cells : cell[c].queue /\ cell[c].complete \in {1, 2}} \ Linking
          = Chain(head) \cup Chain(pass.list)
    /\ pass.stage = "drain" => Chain(head) \cap Chain(pass.list) = {}
    /\ Linking \cap (Chain(head) \cup Chain(pass.list)) = {}
    /\ api = "closed" => Range(free) = 1..allocated

\* What native code owns, or has yet to publish for, is still held by a lease
\* of the PE side: neither the memory nor the cells are reused under it.  The
\* recording storage of a packet is given up only after native code dropped the
\* frame that borrows it.
BackingRetained ==
    /\ \A s \in Slots :
          \/ owner[s] = "adopted"
          \/ \E t \in Natives : \E i \in 1..Len(todo[t].cells) :
                 todo[t].cells[i].cell \in CellsOf(s)
        => \E l \in AllLeases : s \in Range(l.slots)
    /\ \A p \in recovered : nat[p] = "finished"

\* A slot is in the hands of one lease, or retired, or free, and free once
\* only: the assertions of LeaseRegistry::insert and recycle_all hold.
OwnerIsUnique ==
    /\ \A l, m \in AllLeases : l # m => Range(l.slots) \cap Range(m.slots) = {}
    /\ IsInjective(free \o retired)
    /\ \A l \in AllLeases : Range(l.slots) \cap Range(free \o retired) = {}
    /\ \A s \in Range(free \o retired) : \A c \in CellsOf(s) : is_complete(c)

\* An empty queue means a pass would find nothing: skipping it by has_ready
\* leaves no packet and no lease behind.
SkipIsSafe ==
    ~Locked /\ head = Nil =>
        /\ \A p \in pending : ~can_retire_leases(p)
        /\ \A l \in registry : ~reusable(l)

=============================================================================
