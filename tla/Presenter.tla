------------------------------ MODULE Presenter ------------------------------
(***************************************************************************)
(* The presenter thread of a device and the submits it meets               *)
(* (src/unix/unix/src/metal/presenter.rs).                                 *)
(*                                                                         *)
(* The submit thread commits a frame's render work, then queues a packet   *)
(* that presents the back buffer.  The presenter takes the packets in      *)
(* order: it may hold one to its pace, waits in nextDrawable, then commits *)
(* the present.  Before a submit commits work that overwrites the back     *)
(* buffer it waits for the pending present, or copies its image into a     *)
(* snapshot slot and retargets the packet.                                 *)
(*                                                                         *)
(* One Metal queue runs its buffers in commit order, so what a buffer      *)
(* reads is what the buffers committed before it left: images are computed *)
(* at the commits.  An image is named by the submission that drew it.      *)
(*                                                                         *)
(* Both condition variables are explicit: a sleeping thread takes no step  *)
(* until a notify moves it, so a missing notify is a thread asleep for     *)
(* ever.                                                                   *)
(***************************************************************************)
EXTENDS Naturals, Sequences

CONSTANTS
    MaxSeq,    \* bound on the submissions of a behaviour
    Slots,     \* SNAPSHOT_SLOTS
    Faults     \* what may fail: "snapshot" is a copy that cannot be made

VARIABLES
    pending,        \* Inner.pending: packets, oldest first; slot 0 is none
    slot_reader,    \* Slot.reader, 0 for a slot never used
    slot_image,     \* the image each slot's texture holds
    committed_present_seq,  \* newest packet committed or dropped
    presented_seq,  \* newest packet whose present committed
    flags,          \* PresenterFlags
    presenter,      \* where the presenter thread stands
    submit,         \* where the submit thread stands
    submit_seq,     \* the submission it works on
    present_bearing, \* whether that submission carries a packet
    wait_until,     \* the commit a waiting submit waits for
    hurry_ends,     \* whether HURRY ends that wait as well
    idle_wait,      \* where wait_for_present_idle's caller stands
    idle_target,    \* the present it waits to retire
    back_buffer,    \* the image the back buffer holds
    on_gpu          \* present buffers committed and not yet ended

innerVars == <<pending, slot_reader, slot_image, committed_present_seq, presented_seq>>
submitVars == <<submit, submit_seq, present_bearing, wait_until, hurry_ends>>
idleVars == <<idle_wait, idle_target>>
vars == <<innerVars, flags, presenter, submitVars, idleVars, back_buffer, on_gpu>>

Seqs == 1..MaxSeq
SlotIds == 1..Slots
Flags == {"HURRY", "STOP", "DRAIN"}

\* "asleep" and "hold_asleep" are inside a presenter_cv wait.
PresenterPlaces == {"look", "asleep", "peeked", "hold", "hold_asleep", "check",
                    "next_drawable", "encode", "exited"}

\* "wait_asleep" is inside a submit_cv wait.
SubmitPlaces == {"idle", "decide", "wait", "wait_asleep", "commit", "push"}
IdlePlaces == {"none", "wait", "wait_asleep", "retire"}

Larger(a, b) == IF a >= b THEN a ELSE b
Newest == pending[Len(pending)]

-----------------------------------------------------------------------------

Init ==
    /\ pending = <<>>
    /\ slot_reader = [i \in SlotIds |-> 0]
    /\ slot_image = [i \in SlotIds |-> 0]
    /\ committed_present_seq = 0
    /\ presented_seq = 0
    /\ flags = {}
    /\ presenter = "look"
    /\ submit = "idle"
    /\ submit_seq = 0
    /\ present_bearing = FALSE
    /\ wait_until = 0
    /\ hurry_ends = FALSE
    /\ idle_wait = "none"
    /\ idle_target = 0
    /\ back_buffer = 0
    /\ on_gpu = {}

\* presenter_cv.notify: the presenter leaves either of its waits.
WokenPresenter ==
    CASE presenter = "asleep" -> "look"
      [] presenter = "hold_asleep" -> "hold"
      [] OTHER -> presenter

Woken(place) == IF place = "wait_asleep" THEN "wait" ELSE place

\* submit_cv.notify_all: a waiting submit and an idle wait look again.
NotifySubmitCv ==
    /\ submit' = Woken(submit)
    /\ idle_wait' = Woken(idle_wait)

-----------------------------------------------------------------------------
(* The submit thread. *)

\* encode_frame reached its commits; a frame without a layer, or a mid-frame
\* flush, carries no packet.
StartSubmit(seq, presents) ==
    /\ submit = "idle"
    /\ submit' = "decide"
    /\ submit_seq' = seq
    /\ present_bearing' = presents
    /\ UNCHANGED <<innerVars, flags, presenter, wait_until, hurry_ends, idleVars,
                   back_buffer, on_gpu>>

\* What the callers promise: sequences ascend, and no frame is handed over
\* while presentation is drained, nor after it stopped.
BeginSubmit ==
    /\ idle_wait = "none"
    /\ "STOP" \notin flags
    /\ \E seq \in (submit_seq + 1)..MaxSeq, presents \in BOOLEAN : StartSubmit(seq, presents)

\* What a submit does about the packets still pending.
decide ==
    IF "STOP" \in flags \/ pending = <<>> THEN "proceed"
    ELSE IF present_bearing /\ "HURRY" \notin flags THEN "wait"
    ELSE IF Newest.slot = 0 THEN "snapshot"
    ELSE "proceed"

\* MUTANT: a slot counts as free one present too early.
busy_early(i) == slot_reader[i] > committed_present_seq + 1

\* Slot::busy.
busy(i) == slot_reader[i] > committed_present_seq

FreeSlots == {i \in SlotIds : ~busy(i)}

\* choose_slot's Busy answer: the reader that frees its slot first.
OldestReader == CHOOSE r \in {slot_reader[i] : i \in SlotIds} :
                    \A i \in SlotIds : r <= slot_reader[i]

\* Leave the lock and sleep until the packet `seq` is committed or dropped.
WaitFor(seq, by_hurry) ==
    /\ submit' = "wait_asleep"
    /\ wait_until' = seq
    /\ hurry_ends' = by_hurry
    /\ UNCHANGED <<innerVars, idle_wait>>

\* snapshot_into: copy the back buffer, retarget the newest packet.
snapshot_into(i) ==
    /\ slot_image' = [slot_image EXCEPT ![i] = back_buffer]
    /\ slot_reader' = [slot_reader EXCEPT ![i] = Newest.seq]
    /\ pending' = [pending EXCEPT ![Len(pending)].slot = i]
    /\ submit' = "commit"
    /\ UNCHANGED <<committed_present_seq, presented_seq, wait_until, hurry_ends, idle_wait>>

FirstFreeSlot == CHOOSE i \in FreeSlots : \A j \in FreeSlots : i <= j

\* One round of resolve_present_conflict's loop.  Allocating the slot or its
\* buffer can fail; the submit then waits for the present instead.
resolve_present_conflict ==
    /\ submit = "decide"
    /\ \/ /\ decide = "proceed"
          /\ submit' = "commit"
          /\ UNCHANGED <<innerVars, wait_until, hurry_ends, idle_wait>>
       \/ decide = "wait" /\ WaitFor(Newest.seq, TRUE)
       \/ decide = "snapshot" /\ FreeSlots = {} /\ WaitFor(OldestReader, FALSE)
       \/ decide = "snapshot" /\ FreeSlots # {} /\ snapshot_into(FirstFreeSlot)
       \/ /\ decide = "snapshot" /\ FreeSlots # {} /\ "snapshot" \in Faults
          /\ WaitFor(Newest.seq, FALSE)
    /\ UNCHANGED <<flags, presenter, submit_seq, present_bearing, idle_target,
                   back_buffer, on_gpu>>

\* wait_while's predicate, evaluated after a notify.
SubmitWakes ==
    /\ submit = "wait"
    /\ \/ /\ committed_present_seq < wait_until
          /\ "STOP" \notin flags
          /\ ~(hurry_ends /\ "HURRY" \in flags)
          /\ submit' = "wait_asleep"
       \/ /\ \/ committed_present_seq >= wait_until
             \/ "STOP" \in flags
             \/ hurry_ends /\ "HURRY" \in flags
          /\ submit' = "decide"
    /\ UNCHANGED <<innerVars, flags, presenter, submit_seq, present_bearing, wait_until,
                   hurry_ends, idleVars, back_buffer, on_gpu>>

\* The frame's buffers commit: from here the back buffer holds its image.
CommitRender ==
    /\ submit = "commit"
    /\ back_buffer' = submit_seq
    /\ submit' = IF present_bearing THEN "push" ELSE "idle"
    /\ wait_until' = 0
    /\ hurry_ends' = FALSE
    /\ UNCHANGED <<innerVars, flags, presenter, submit_seq, present_bearing, idleVars, on_gpu>>

\* Hand the packet to the presenter.  The branch for a stopped presenter is
\* left out: the submit thread is drained before the presenter is stopped.
push ==
    /\ submit = "push"
    /\ pending' = Append(pending, [seq |-> submit_seq, slot |-> 0])
    /\ presenter' = WokenPresenter
    /\ submit' = "idle"
    /\ UNCHANGED <<slot_reader, slot_image, committed_present_seq, presented_seq, flags,
                   submit_seq, present_bearing, wait_until, hurry_ends, idleVars,
                   back_buffer, on_gpu>>

-----------------------------------------------------------------------------
(* The presenter thread: present_frame, from one unlock to the next. *)

\* The wait at the head of present_frame, and the peek at the front packet.
LookForPacket ==
    /\ presenter = "look"
    /\ "STOP" \notin flags
    /\ presenter' = IF pending = <<>> THEN "asleep" ELSE "peeked"
    /\ UNCHANGED <<innerVars, flags, submitVars, idleVars, back_buffer, on_gpu>>

\* A stopped presenter drops every packet and ends.
StopPresenting ==
    /\ presenter = "look"
    /\ "STOP" \in flags
    /\ pending' = <<>>
    /\ committed_present_seq' =
           IF pending = <<>> THEN committed_present_seq
                             ELSE Larger(committed_present_seq, Newest.seq)
    /\ NotifySubmitCv
    /\ presenter' = "exited"
    /\ UNCHANGED <<slot_reader, slot_image, presented_seq, flags, submit_seq,
                   present_bearing, wait_until, hurry_ends, idle_target, back_buffer, on_gpu>>

\* The test gate parks here until it opens or the presenter stops; then the
\* window's state says whether the presenter holds this present to its pace.
LeaveGate ==
    /\ presenter = "peeked"
    /\ \/ presenter' \in {"hold", "check"}
       \/ "STOP" \in flags /\ presenter' = "look"
    /\ UNCHANGED <<innerVars, flags, submitVars, idleVars, back_buffer, on_gpu>>

\* One round of hold_until's loop; the time may be over at any round.
hold_until ==
    /\ presenter = "hold"
    /\ \/ "STOP" \in flags /\ presenter' = "look"
       \/ "STOP" \notin flags /\ presenter' = "check"
       \/ flags \intersect {"STOP", "DRAIN"} = {} /\ presenter' = "hold_asleep"
    /\ UNCHANGED <<innerVars, flags, submitVars, idleVars, back_buffer, on_gpu>>

\* hold_until's wait_timeout runs out: the next round finds the time over.
HoldTimesOut ==
    /\ presenter = "hold_asleep"
    /\ presenter' = IF "STOP" \in flags THEN "look" ELSE "check"
    /\ UNCHANGED <<innerVars, flags, submitVars, idleVars, back_buffer, on_gpu>>

\* drop_packet on the front packet, then back to the head of present_frame.
DropFront ==
    /\ committed_present_seq' = Larger(committed_present_seq, Head(pending).seq)
    /\ pending' = Tail(pending)
    /\ NotifySubmitCv
    /\ presenter' = "look"
    /\ UNCHANGED <<slot_reader, slot_image, presented_seq, flags, submit_seq,
                   present_bearing, wait_until, hurry_ends, idle_target, back_buffer, on_gpu>>

\* An occluded window or a layer that is gone drops the packet; else the
\* thread enters nextDrawable.
CheckWindow ==
    /\ presenter = "check"
    /\ \/ DropFront
       \/ /\ presenter' = "next_drawable"
          /\ UNCHANGED <<innerVars, flags, submitVars, idleVars, back_buffer, on_gpu>>

\* nextDrawable returns a drawable, or nil after the layer's timeout.
nextDrawable ==
    /\ presenter = "next_drawable"
    /\ \/ DropFront
       \/ /\ presenter' = "encode"
          /\ UNCHANGED <<innerVars, flags, submitVars, idleVars, back_buffer, on_gpu>>

\* The present of the front packet commits and the packet is popped.
CommitPresent ==
    /\ presenter = "encode"
    /\ on_gpu' = on_gpu \union {Head(pending).seq}
    /\ pending' = Tail(pending)
    /\ committed_present_seq' = Larger(committed_present_seq, Head(pending).seq)
    /\ presented_seq' = Head(pending).seq
    /\ NotifySubmitCv
    /\ presenter' = "look"
    /\ UNCHANGED <<slot_reader, slot_image, flags, submit_seq, present_bearing, wait_until,
                   hurry_ends, idle_target, back_buffer>>

\* pop_and_drop: the texture or the command buffer could not be had.
pop_and_drop == presenter = "encode" /\ DropFront

-----------------------------------------------------------------------------
(* The encoder and API threads' calls into presentation. *)

\* A barrier raises HURRY before it waits and lowers it after.
set_wait_policy(hurry) ==
    /\ flags' = IF hurry THEN flags \union {"HURRY"} ELSE flags \ {"HURRY"}
    /\ NotifySubmitCv
    /\ UNCHANGED <<innerVars, presenter, submit_seq, present_bearing, wait_until, hurry_ends,
                   idle_target, back_buffer, on_gpu>>

\* wait_for_present_idle up to its wait.
StartIdleWait ==
    /\ idle_wait = "none"
    /\ flags' = flags \union {"DRAIN"}
    /\ presenter' = WokenPresenter
    /\ idle_wait' = "wait"
    /\ UNCHANGED <<innerVars, submitVars, idle_target, back_buffer, on_gpu>>

\* Its caller has drained the submit thread.
BeginIdleWait == submit = "idle" /\ "STOP" \notin flags /\ StartIdleWait

\* MUTANT: a packet dropped behind the last present stands in for it.
IdleWaitWakes_consumed ==
    /\ idle_wait = "wait"
    /\ \/ /\ pending # <<>>
          /\ "STOP" \notin flags
          /\ idle_wait' = "wait_asleep"
          /\ UNCHANGED <<flags, idle_target>>
       \/ /\ pending = <<>> \/ "STOP" \in flags
          /\ flags' = flags \ {"DRAIN"}
          /\ idle_target' = IF presented_seq = committed_present_seq THEN presented_seq ELSE 0
          /\ idle_wait' = "retire"
    /\ UNCHANGED <<innerVars, presenter, submitVars, back_buffer, on_gpu>>

\* The wait's predicate, then the read of presented_seq under the same lock.
IdleWaitWakes ==
    /\ idle_wait = "wait"
    /\ \/ /\ pending # <<>>
          /\ "STOP" \notin flags
          /\ idle_wait' = "wait_asleep"
          /\ UNCHANGED <<flags, idle_target>>
       \/ /\ pending = <<>> \/ "STOP" \in flags
          /\ flags' = flags \ {"DRAIN"}
          /\ idle_target' = presented_seq
          /\ idle_wait' = "retire"
    /\ UNCHANGED <<innerVars, presenter, submitVars, back_buffer, on_gpu>>

\* wait_for_gpu_retire under the present counter returns (module Retirement).
EndIdleWait ==
    /\ idle_wait = "retire"
    /\ \A s \in on_gpu : s > idle_target
    /\ idle_wait' = "none"
    /\ idle_target' = 0
    /\ UNCHANGED <<innerVars, flags, presenter, submitVars, back_buffer, on_gpu>>

\* stop_and_join, up to the join.
stop_and_join ==
    /\ "STOP" \notin flags
    /\ flags' = flags \union {"STOP"}
    /\ presenter' = WokenPresenter
    /\ NotifySubmitCv
    /\ UNCHANGED <<innerVars, submit_seq, present_bearing, wait_until, hurry_ends,
                   idle_target, back_buffer, on_gpu>>

\* Its caller has drained the submit thread and presentation.
BeginStop == submit = "idle" /\ idle_wait = "none" /\ stop_and_join

\* A present buffer ends on the GPU.
GpuEnds ==
    /\ \E s \in on_gpu : on_gpu' = on_gpu \ {s}
    /\ UNCHANGED <<innerVars, flags, presenter, submitVars, idleVars, back_buffer>>

-----------------------------------------------------------------------------

Submit == resolve_present_conflict \/ SubmitWakes \/ CommitRender \/ push

present_frame ==
    \/ LookForPacket \/ StopPresenting
    \/ LeaveGate \/ hold_until
    \/ CheckWindow \/ nextDrawable
    \/ CommitPresent \/ pop_and_drop

IdleWait == IdleWaitWakes \/ EndIdleWait

\* The joined presenter ends a behaviour.
Joined == presenter = "exited" /\ UNCHANGED vars

Next ==
    \/ BeginSubmit
    \/ Submit
    \/ present_frame
    \/ HoldTimesOut
    \/ \E hurry \in BOOLEAN : set_wait_policy(hurry)
    \/ BeginIdleWait
    \/ IdleWait
    \/ BeginStop
    \/ GpuEnds
    \/ Joined

Spec == Init /\ [][Next]_vars

-----------------------------------------------------------------------------
(* Properties. *)

\* Every variable keeps its type.
TypeOK ==
    /\ pending \in Seq([seq : Seqs, slot : 0..Slots])
    /\ slot_reader \in [SlotIds -> 0..MaxSeq]
    /\ slot_image \in [SlotIds -> 0..MaxSeq]
    /\ {committed_present_seq, presented_seq, submit_seq, wait_until, idle_target,
        back_buffer} \subseteq 0..MaxSeq
    /\ flags \subseteq Flags
    /\ presenter \in PresenterPlaces
    /\ submit \in SubmitPlaces
    /\ {present_bearing, hurry_ends} \subseteq BOOLEAN
    /\ idle_wait \in IdlePlaces
    /\ on_gpu \subseteq Seqs

\* The image a packet would show if its present committed now.
Image(packet) == IF packet.slot = 0 THEN back_buffer ELSE slot_image[packet.slot]

\* Every pending packet shows the frame it was queued for, whatever later
\* submissions committed and whatever slots they reused.  Packets thus read
\* different slots, and the queue is no longer than the slots and the back
\* buffer can feed, however often barriers hurry submits past the presenter.
\* decide: the packet that reads the back buffer is always the last pushed,
\* and a packet taken for the front of the queue stays there.
PendingShowsItsFrame ==
    /\ \A i \in DOMAIN pending : Image(pending[i]) = pending[i].seq
    /\ \A i \in DOMAIN pending : pending[i].slot = 0 => i = Len(pending)
    /\ presenter \in {"peeked", "hold", "hold_asleep", "check", "next_drawable", "encode"}
           => pending # <<>>

\* wait_for_present_idle returns with nothing queued and nothing of it left
\* on the GPU, though packets may have been dropped behind the last present.
IdleMeansIdle ==
    [][idle_wait = "retire" /\ idle_wait' = "none" => pending = <<>> /\ on_gpu = {}]_vars

=============================================================================
