-------------------------- MODULE PresenterProofs --------------------------
(***************************************************************************)
(* Proofs about Presenter, for every number of submissions and of slots.   *)
(*                                                                         *)
(* The images rest on the order of the queue (OrderInv): a pending packet  *)
(* is newer than every packet committed or dropped, so the slot it reads   *)
(* is busy and no snapshot overwrites it.  The idle wait rests on its      *)
(* caller's promise, that nothing is submitted while it waits.             *)
(***************************************************************************)
EXTENDS Presenter, WellFoundedInduction, TLAPS

-----------------------------------------------------------------------------
(* The least of a set of numbers *)

\* Every non-empty set of sequence numbers has a least element.
LEMMA NatHasMin ==
    ASSUME NEW S \in SUBSET Nat, S # {}
    PROVE  \E x \in S : \A y \in S : x <= y
<1> DEFINE Less == OpToRel(<, Nat)
<1>1. \E x \in S : \A y \in S : ~(<<y, x>> \in Less)
  BY WFMin, NatLessThanWellFounded
<1>2. \A x, y \in Nat : y < x => <<y, x>> \in Less
  BY Zenon DEF OpToRel
<1> HIDE DEF Less
<1>3. PICK x \in S : \A y \in S : ~(<<y, x>> \in Less)
  BY <1>1
<1>4. ASSUME NEW y \in S
      PROVE  x <= y
  <2>1. ~(y < x)  BY <1>2, <1>3
  <2>2. QED  BY <2>1
<1>5. QED  BY <1>4

-----------------------------------------------------------------------------

\* What the proofs ask of the constants.
Sized == MaxSeq \in Nat /\ Slots \in Nat \ {0}

Packets == [seq : Seqs, slot : 0..Slots]

\* The queue ascends, behind what was committed and before what is submitted.
OrderInv ==
    /\ \A i, j \in 1..Len(pending) : i < j => pending[i].seq < pending[j].seq
    /\ \A i \in 1..Len(pending) :
           /\ committed_present_seq < pending[i].seq
           /\ pending[i].seq <= submit_seq
           /\ submit # "idle" => pending[i].seq < submit_seq
    /\ committed_present_seq <= submit_seq
    /\ submit # "idle" => committed_present_seq < submit_seq

\* Where the presenter works on the front packet.
Holding == {"peeked", "hold", "hold_asleep", "check", "next_drawable", "encode"}

\* A packet reads the back buffer, as the last one only, or a slot that names
\* it as its reader; a submit that will overwrite the back buffer leaves no
\* packet reading it.
ImageInv ==
    /\ \A i \in 1..Len(pending) :
           IF pending[i].slot = 0
           THEN i = Len(pending) /\ back_buffer = pending[i].seq
           ELSE /\ slot_reader[pending[i].slot] = pending[i].seq
                /\ slot_image[pending[i].slot] = pending[i].seq
    /\ submit \in {"commit", "push"} => \A i \in 1..Len(pending) : pending[i].slot # 0
    /\ submit = "push" => back_buffer = submit_seq
    /\ presenter \in Holding => pending # <<>>

\* The callers' promises as the presenter sees them, and what an idle wait
\* that read presented_seq knows.
IdleInv ==
    /\ submit # "idle" => "STOP" \notin flags /\ idle_wait = "none"
    /\ idle_wait # "none" => "STOP" \notin flags
    /\ idle_wait = "retire" => pending = <<>> /\ idle_target = presented_seq
    /\ presented_seq <= committed_present_seq
    /\ \A s \in on_gpu : s <= presented_seq

PresenterInv == TypeOK /\ OrderInv /\ ImageInv /\ IdleInv

-----------------------------------------------------------------------------
(* Facts about the queue and the slots *)

\* The rest of a queue.
LEMMA TailFacts ==
    ASSUME NEW S, NEW q \in Seq(S), q # <<>>
    PROVE  /\ Tail(q) \in Seq(S) /\ Len(Tail(q)) = Len(q) - 1 /\ Len(q) \in Nat \ {0}
           /\ \A i \in 1..Len(Tail(q)) : i + 1 \in 1..Len(q) /\ Tail(q)[i] = q[i + 1]
           /\ 1 \in 1..Len(q) /\ Head(q) = q[1] /\ q[1] \in S
           /\ Len(q) \in 1..Len(q)
OBVIOUS

\* A queue with one packet retargeted.
LEMMA RetargetFacts ==
    ASSUME NEW q \in Seq(Packets), NEW n \in 1..Len(q), NEW i \in 0..Slots,
           NEW r, r = [q EXCEPT ![n].slot = i]
    PROVE  /\ r \in Seq(Packets) /\ Len(r) = Len(q)
           /\ r[n] = [seq |-> q[n].seq, slot |-> i]
           /\ \A k \in 1..Len(q) : k # n => r[k] = q[k]
<1> DEFINE packet == [q[n] EXCEPT !.slot = i]
<1>1. q[n] \in Packets
  OBVIOUS
<1>2. packet \in Packets /\ packet = [seq |-> q[n].seq, slot |-> i]
  BY <1>1 DEF Packets
<1>5. r = [q EXCEPT ![n] = packet]
  OBVIOUS
<1> HIDE DEF packet
<1>3. r \in Seq(Packets) /\ Len(r) = Len(q) /\ r[n] = packet
      /\ \A k \in 1..Len(q) : k # n => r[k] = q[k]
  BY <1>2, <1>5
<1>4. QED  BY <1>2, <1>3

\* The oldest reader is one of the slots' readers.
LEMMA OldestReaderFacts ==
    ASSUME Sized, TypeOK
    PROVE  OldestReader \in 0..MaxSeq
<1> DEFINE readers == {slot_reader[i] : i \in SlotIds}
<1>1. slot_reader \in [SlotIds -> 0..MaxSeq] /\ 1 \in SlotIds /\ MaxSeq \in Nat
  BY DEF Sized, TypeOK, SlotIds
<1>2. readers \in SUBSET Nat /\ readers # {} /\ readers \subseteq 0..MaxSeq
  BY <1>1
<1>3. \E r \in readers : \A y \in readers : r <= y
  <2> HIDE DEF readers
  <2>1. QED  BY <1>2, NatHasMin
<1>4. OldestReader \in readers
  BY <1>3 DEF OldestReader
<1>5. QED  BY <1>2, <1>4

\* A slot chosen is one that is not busy.
LEMMA FirstFreeSlotFacts ==
    ASSUME Sized, FreeSlots # {}
    PROVE  FirstFreeSlot \in SlotIds /\ ~busy(FirstFreeSlot)
<1>1. FreeSlots \in SUBSET Nat
  BY DEF Sized, FreeSlots, SlotIds
<1>2. \E i \in FreeSlots : \A j \in FreeSlots : i <= j
  BY <1>1, NatHasMin
<1>3. FirstFreeSlot \in FreeSlots
  BY <1>2 DEF FirstFreeSlot
<1>4. QED  BY <1>3 DEF FreeSlots

-----------------------------------------------------------------------------
(* The types *)

LEMMA PresenterTypes ==
    ASSUME Sized, TypeOK, OrderInv, ImageInv, [Next]_vars
    PROVE  TypeOK'
<1> USE DEF Sized, TypeOK, Seqs
<1>1. WokenPresenter \in PresenterPlaces
  BY DEF WokenPresenter, PresenterPlaces
<1>2. Woken(submit) \in SubmitPlaces /\ Woken(idle_wait) \in IdlePlaces
  BY DEF Woken, SubmitPlaces, IdlePlaces
<1>0. /\ pending \in Seq(Packets)
      /\ committed_present_seq \in 0..MaxSeq /\ presented_seq \in 0..MaxSeq
      /\ submit_seq \in 0..MaxSeq /\ wait_until \in 0..MaxSeq
      /\ idle_target \in 0..MaxSeq /\ back_buffer \in 0..MaxSeq
      /\ present_bearing \in BOOLEAN /\ hurry_ends \in BOOLEAN
  BY DEF Packets
<1>3. pending # <<>> => /\ Tail(pending) \in Seq([seq : 1..MaxSeq, slot : 0..Slots])
                        /\ Head(pending).seq \in 1..MaxSeq
                        /\ Newest.seq \in 1..MaxSeq
                        /\ Len(pending) \in 1..Len(pending)
  <2>1. SUFFICES ASSUME pending # <<>>
                 PROVE  /\ Tail(pending) \in Seq(Packets)
                        /\ Head(pending) \in Packets /\ Newest \in Packets
                        /\ Len(pending) \in 1..Len(pending)
    BY DEF Packets
  <2>2. QED  BY <1>0, <2>1, TailFacts DEF Newest
<1>4. CASE BeginSubmit
  <2>1. PICK s \in (submit_seq + 1)..MaxSeq, b \in BOOLEAN : StartSubmit(s, b)
    BY <1>4 DEF BeginSubmit
  <2>2. s \in 0..MaxSeq
    OBVIOUS
  <2>3. QED  BY <2>1, <2>2 DEF StartSubmit, SubmitPlaces, innerVars, idleVars
<1>5. CASE resolve_present_conflict
  <2>1. ASSUME NEW s \in 0..MaxSeq, NEW h \in BOOLEAN, WaitFor(s, h)
        PROVE  TypeOK'
    BY <1>5, <2>1 DEF resolve_present_conflict, WaitFor, SubmitPlaces, innerVars
  <2>2. CASE decide = "proceed" /\ submit' = "commit" /\ UNCHANGED <<innerVars, wait_until, hurry_ends, idle_wait>>
    BY <1>5, <2>2 DEF resolve_present_conflict, SubmitPlaces, innerVars
  <2>3. decide \in {"wait", "snapshot"} => pending # <<>>
    BY DEF decide
  <2>4. CASE decide = "snapshot" /\ FreeSlots # {} /\ snapshot_into(FirstFreeSlot)
    <3>1. FirstFreeSlot \in 1..Slots
      BY <2>4, FirstFreeSlotFacts DEF SlotIds
    <3>2. slot_image' \in [SlotIds -> 0..MaxSeq] /\ slot_reader' \in [SlotIds -> 0..MaxSeq]
      <4>1. /\ slot_image' = [slot_image EXCEPT ![FirstFreeSlot] = back_buffer]
            /\ slot_reader' = [slot_reader EXCEPT ![FirstFreeSlot] = Newest.seq]
            /\ Newest.seq \in 0..MaxSeq
        BY <1>3, <2>3, <2>4 DEF snapshot_into
      <4> HIDE DEF FirstFreeSlot, Newest
      <4>2. QED  BY <1>0, <3>1, <4>1 DEF SlotIds
    <3>3. pending' \in Seq([seq : 1..MaxSeq, slot : 0..Slots])
      <4>1. pending' \in Seq(Packets)
        <5>1. pending' = [pending EXCEPT ![Len(pending)].slot = FirstFreeSlot]
          BY <2>4 DEF snapshot_into
        <5>2. FirstFreeSlot \in 0..Slots /\ Len(pending) \in 1..Len(pending)
          BY <1>3, <2>3, <2>4, <3>1
        <5> HIDE DEF TypeOK, FirstFreeSlot
        <5>3. QED  BY <1>0, <5>1, <5>2, RetargetFacts
      <4>2. QED  BY <4>1 DEF Packets
    <3>4. QED  BY <1>5, <2>4, <3>2, <3>3 DEF resolve_present_conflict, snapshot_into, SubmitPlaces
  <2>5. pending # <<>> => Newest.seq \in 0..MaxSeq
    BY <1>3
  <2>6. OldestReader \in 0..MaxSeq
    BY OldestReaderFacts
  <2> HIDE DEF TypeOK
  <2>7. QED  BY <1>5, <2>1, <2>2, <2>3, <2>4, <2>5, <2>6 DEF resolve_present_conflict
<1>6. CASE SubmitWakes
  BY <1>6 DEF SubmitWakes, SubmitPlaces, innerVars, idleVars
<1>7. CASE CommitRender
  <2>1. back_buffer' \in 0..MaxSeq /\ wait_until' \in 0..MaxSeq
    BY <1>0, <1>7 DEF CommitRender
  <2>2. QED  BY <1>7, <2>1 DEF CommitRender, SubmitPlaces, innerVars, idleVars
<1>8. CASE push
  <2>1. [seq |-> submit_seq, slot |-> 0] \in [seq : 1..MaxSeq, slot : 0..Slots]
    BY <1>8 DEF push, OrderInv
  <2>2. Append(pending, [seq |-> submit_seq, slot |-> 0]) \in Seq([seq : 1..MaxSeq, slot : 0..Slots])
    BY <2>1
  <2>3. QED  BY <1>1, <1>8, <2>2 DEF push, SubmitPlaces, idleVars
<1>9. CASE LookForPacket \/ LeaveGate \/ hold_until \/ HoldTimesOut
  BY <1>9 DEF LookForPacket, LeaveGate, hold_until, HoldTimesOut, PresenterPlaces, innerVars,
              submitVars, idleVars
<1>10. CASE StopPresenting
  <2>1. committed_present_seq' \in 0..MaxSeq
    BY <1>3, <1>10 DEF StopPresenting, Larger
  <2>2. pending' \in Seq([seq : 1..MaxSeq, slot : 0..Slots])
    BY <1>10 DEF StopPresenting
  <2>3. QED  BY <1>2, <1>10, <2>1, <2>2 DEF StopPresenting, NotifySubmitCv, PresenterPlaces
<1>11. ASSUME DropFront, presenter \in {"check", "next_drawable", "encode"}
       PROVE  TypeOK'
  <2>1. pending # <<>>
    BY <1>11 DEF ImageInv, Holding
  <2>2. committed_present_seq' \in 0..MaxSeq
    BY <1>3, <1>11, <2>1 DEF DropFront, Larger
  <2>3. QED  BY <1>2, <1>3, <1>11, <2>1, <2>2 DEF DropFront, NotifySubmitCv, PresenterPlaces
<1>12. CASE CheckWindow \/ nextDrawable
  BY <1>11, <1>12 DEF CheckWindow, nextDrawable, PresenterPlaces, innerVars, submitVars, idleVars
<1>13. CASE pop_and_drop
  BY <1>11, <1>13 DEF pop_and_drop
<1>14. CASE CommitPresent
  <2>1. pending # <<>>
    BY <1>14 DEF CommitPresent, ImageInv, Holding
  <2>2. committed_present_seq' \in 0..MaxSeq /\ presented_seq' \in 0..MaxSeq /\ on_gpu' \subseteq 1..MaxSeq
    <3> HIDE DEF TypeOK
    <3>1. committed_present_seq' \in 0..MaxSeq /\ presented_seq' \in 0..MaxSeq
      BY <1>0, <1>3, <1>14, <2>1 DEF CommitPresent, Larger
    <3>2. on_gpu \subseteq 1..MaxSeq
      BY DEF TypeOK
    <3>3. QED  BY <1>3, <1>14, <2>1, <3>1, <3>2 DEF CommitPresent
  <2>3. QED  BY <1>2, <1>3, <1>14, <2>1, <2>2 DEF CommitPresent, NotifySubmitCv, PresenterPlaces
<1>15. CASE \E hurry \in BOOLEAN : set_wait_policy(hurry)
  BY <1>2, <1>15 DEF set_wait_policy, NotifySubmitCv, Flags, innerVars
<1>16. CASE BeginIdleWait
  BY <1>1, <1>16 DEF BeginIdleWait, StartIdleWait, Flags, IdlePlaces, innerVars, submitVars
<1>17. CASE IdleWait
  <2>1. idle_target' \in 0..MaxSeq /\ idle_wait' \in IdlePlaces /\ flags' \subseteq Flags
    BY <1>0, <1>17 DEF IdleWait, IdleWaitWakes, EndIdleWait, IdlePlaces
  <2>2. UNCHANGED <<innerVars, presenter, submitVars, back_buffer, on_gpu>>
    BY <1>17 DEF IdleWait, IdleWaitWakes, EndIdleWait
  <2>3. QED  BY <2>1, <2>2 DEF innerVars, submitVars
<1>18. CASE BeginStop
  BY <1>1, <1>2, <1>18 DEF BeginStop, stop_and_join, NotifySubmitCv, Flags, innerVars
<1>19. CASE GpuEnds
  BY <1>19 DEF GpuEnds, innerVars, submitVars, idleVars
<1>20. CASE Joined \/ UNCHANGED vars
  <2>1. UNCHANGED <<pending, slot_reader, slot_image, committed_present_seq, presented_seq, flags,
                    presenter, submit, submit_seq, present_bearing, wait_until, hurry_ends,
                    idle_wait, idle_target, back_buffer, on_gpu>>
    BY <1>20 DEF Joined, vars, innerVars, submitVars, idleVars
  <2>2. QED  BY <2>1
<1> HIDE DEF TypeOK
<1>21. QED
  BY <1>4, <1>5, <1>6, <1>7, <1>8, <1>9, <1>10, <1>12, <1>13, <1>14, <1>15, <1>16, <1>17, <1>18,
     <1>19, <1>20 DEF Next, Submit, present_frame

-----------------------------------------------------------------------------
(* The steps that change the queue *)

\* The numbers the steps compare.
LEMMA Numbers ==
    ASSUME Sized, TypeOK
    PROVE  /\ pending \in Seq(Packets) /\ Len(pending) \in Nat
           /\ \A i \in 1..Len(pending) :
                  /\ pending[i] \in Packets /\ pending[i].seq \in Nat
                  /\ pending[i].slot \in 0..Slots
           /\ committed_present_seq \in Nat /\ presented_seq \in Nat /\ submit_seq \in Nat
           /\ on_gpu \subseteq Nat
           /\ slot_reader \in [SlotIds -> 0..MaxSeq] /\ slot_image \in [SlotIds -> 0..MaxSeq]
<1>1. pending \in Seq(Packets)
  BY DEF TypeOK, Packets
<1>2. \A i \in 1..Len(pending) : pending[i] \in Packets
  BY <1>1
<1>3. \A p \in Packets : p.seq \in Nat /\ p.slot \in 0..Slots
  BY DEF Packets, Seqs, Sized
<1>4. QED  BY <1>1, <1>2, <1>3 DEF TypeOK, Sized, Seqs

\* drop_packet and a committed present take the front packet and name it the
\* newest consumed.
LEMMA FrontLeaves ==
    ASSUME Sized, TypeOK, OrderInv, ImageInv, pending # <<>>,
           pending' = Tail(pending),
           committed_present_seq' = Larger(committed_present_seq, Head(pending).seq)
    PROVE  /\ committed_present_seq' = pending[1].seq
           /\ committed_present_seq < pending[1].seq
           /\ Len(pending') = Len(pending) - 1
           /\ \A i \in 1..Len(pending') : i + 1 \in 1..Len(pending) /\ pending'[i] = pending[i + 1]
<1>1. /\ pending \in Seq(Packets) /\ committed_present_seq \in Nat
      /\ \A i \in 1..Len(pending) : pending[i].seq \in Nat
  BY Numbers
<1>2. /\ Len(Tail(pending)) = Len(pending) - 1
      /\ \A i \in 1..Len(Tail(pending)) : i + 1 \in 1..Len(pending) /\ Tail(pending)[i] = pending[i + 1]
      /\ 1 \in 1..Len(pending) /\ Head(pending) = pending[1]
  BY <1>1, TailFacts
<1>3. committed_present_seq < pending[1].seq
  BY <1>2 DEF OrderInv
<1>4. QED  BY <1>1, <1>2, <1>3 DEF Larger

\* A snapshot retargets the last packet to a slot no packet reads.
LEMMA SnapshotTaken ==
    ASSUME Sized, TypeOK, OrderInv, ImageInv, pending # <<>>, FreeSlots # {},
           snapshot_into(FirstFreeSlot)
    PROVE  \E i \in SlotIds :
             /\ Len(pending') = Len(pending) /\ Len(pending) \in 1..Len(pending)
             /\ pending'[Len(pending)] = [seq |-> pending[Len(pending)].seq, slot |-> i]
             /\ \A k \in 1..Len(pending) : k # Len(pending) => pending'[k] = pending[k]
             /\ \A k \in 1..Len(pending) : pending[k].slot # i
             /\ slot_image' = [slot_image EXCEPT ![i] = back_buffer]
             /\ slot_reader' = [slot_reader EXCEPT ![i] = pending[Len(pending)].seq]
<1>1. PICK i \in SlotIds : i = FirstFreeSlot /\ ~busy(i)
  BY FirstFreeSlotFacts
<1>2. /\ pending' = [pending EXCEPT ![Len(pending)].slot = i]
      /\ slot_image' = [slot_image EXCEPT ![i] = back_buffer]
      /\ slot_reader' = [slot_reader EXCEPT ![i] = pending[Len(pending)].seq]
  BY <1>1 DEF snapshot_into, Newest
<1>3. /\ pending \in Seq(Packets) /\ committed_present_seq \in Nat
      /\ \A k \in 1..Len(pending) : pending[k].seq \in Nat
      /\ slot_reader \in [SlotIds -> 0..MaxSeq]
  BY Numbers
<1>4. Len(pending) \in 1..Len(pending) /\ i \in 0..Slots /\ i # 0 /\ slot_reader[i] \in Nat
  <2>1. Len(pending) \in 1..Len(pending)
    BY <1>3, TailFacts
  <2>2. i \in 0..Slots /\ i # 0 /\ slot_reader[i] \in Nat
    BY <1>3 DEF Sized, SlotIds
  <2>3. QED  BY <2>1, <2>2
<1>5. ASSUME NEW k \in 1..Len(pending) PROVE pending[k].slot # i
  <2>1. committed_present_seq < pending[k].seq
    BY DEF OrderInv
  <2>2. slot_reader[i] <= committed_present_seq
    BY <1>1, <1>3, <1>4 DEF busy
  <2>3. pending[k].slot = i => slot_reader[i] = pending[k].seq
    BY <1>4 DEF ImageInv
  <2>4. QED  BY <1>3, <1>4, <2>1, <2>2, <2>3
<1>6. /\ Len(pending') = Len(pending)
      /\ pending'[Len(pending)] = [seq |-> pending[Len(pending)].seq, slot |-> i]
      /\ \A k \in 1..Len(pending) : k # Len(pending) => pending'[k] = pending[k]
  <2>1. pending \in Seq(Packets) /\ Len(pending) \in 1..Len(pending) /\ i \in 0..Slots
    BY <1>3, <1>4
  <2>2. pending' = [pending EXCEPT ![Len(pending)].slot = i]
    BY <1>2
  <2>3. /\ Len(pending') = Len(pending)
        /\ pending'[Len(pending)] = [pending[Len(pending)] EXCEPT !.slot = i]
    BY <2>1, <2>2
  <2>4. \A k \in 1..Len(pending) : k # Len(pending) => pending'[k] = pending[k]
    BY <2>1, <2>2
  <2>5. pending[Len(pending)] \in Packets
    BY <2>1
  <2>6. [pending[Len(pending)] EXCEPT !.slot = i] = [seq |-> pending[Len(pending)].seq, slot |-> i]
    BY <2>5 DEF Packets
  <2>7. QED  BY <2>3, <2>4, <2>6
<1>7. QED  BY <1>2, <1>4, <1>5, <1>6

\* A pushed packet is the last.
LEMMA PushFacts ==
    ASSUME Sized, TypeOK, push
    PROVE  /\ Len(pending') = Len(pending) + 1 /\ Len(pending) \in Nat
           /\ pending'[Len(pending) + 1] = [seq |-> submit_seq, slot |-> 0]
           /\ \A k \in 1..Len(pending) : pending'[k] = pending[k]
<1>1. pending \in Seq(Packets)
  BY Numbers
<1>2. pending' = Append(pending, [seq |-> submit_seq, slot |-> 0])
  BY DEF push
<1>3. QED  BY <1>1, <1>2

\* decide answers "proceed" before the stop only where no packet reads the
\* back buffer.
LEMMA ProceedFacts ==
    ASSUME Sized, TypeOK, ImageInv, "STOP" \notin flags, decide = "proceed"
    PROVE  \A i \in 1..Len(pending) : pending[i].slot # 0
<1>1. SUFFICES ASSUME NEW i \in 1..Len(pending), pending[i].slot = 0 PROVE FALSE
  OBVIOUS
<1>2. i = Len(pending)
  BY <1>1 DEF ImageInv
<1>3. pending # <<>>
  <2>1. Len(pending) \in Nat
    BY Numbers
  <2>2. QED  BY <2>1
<1>4. QED  BY <1>1, <1>2, <1>3 DEF decide, Newest

-----------------------------------------------------------------------------
(* The order of the queue *)

LEMMA OrderStep ==
    ASSUME Sized, PresenterInv, TypeOK', [Next]_vars
    PROVE  OrderInv'
<1> USE DEF PresenterInv
<1>1. /\ Len(pending) \in Nat
      /\ \A i \in 1..Len(pending) : pending[i].seq \in Nat
      /\ committed_present_seq \in Nat /\ submit_seq \in Nat
  BY Numbers
<1>2. ASSUME UNCHANGED <<pending, committed_present_seq, submit_seq>>,
             submit' # "idle" => submit # "idle"
      PROVE  OrderInv'
  BY <1>2 DEF OrderInv
<1>3. CASE BeginSubmit
  <2>1. PICK s \in (submit_seq + 1)..MaxSeq, b \in BOOLEAN : StartSubmit(s, b)
    BY <1>3 DEF BeginSubmit
  <2>2. submit_seq' \in Nat /\ submit_seq < submit_seq' /\ UNCHANGED <<pending, committed_present_seq>>
    BY <1>1, <2>1 DEF StartSubmit, innerVars, Sized
  <2>3. QED  BY <1>1, <2>2 DEF OrderInv
<1>4. CASE resolve_present_conflict
  <2>1. CASE decide = "snapshot" /\ FreeSlots # {} /\ snapshot_into(FirstFreeSlot)
    <3>1. pending # <<>>
      BY <2>1 DEF decide
    <3>2. /\ Len(pending') = Len(pending) /\ Len(pending) \in 1..Len(pending)
          /\ pending'[Len(pending)].seq = pending[Len(pending)].seq
          /\ \A k \in 1..Len(pending) : k # Len(pending) => pending'[k] = pending[k]
      <4>1. PICK i \in SlotIds :
                /\ Len(pending') = Len(pending) /\ Len(pending) \in 1..Len(pending)
                /\ pending'[Len(pending)] = [seq |-> pending[Len(pending)].seq, slot |-> i]
                /\ \A k \in 1..Len(pending) : k # Len(pending) => pending'[k] = pending[k]
        BY <2>1, <3>1, SnapshotTaken
      <4>2. QED  BY <4>1
    <3>3. Len(pending') = Len(pending) /\ \A k \in 1..Len(pending) : pending'[k].seq = pending[k].seq
      BY <3>2
    <3>4. UNCHANGED <<committed_present_seq, submit_seq>> /\ submit # "idle"
      BY <1>4, <2>1 DEF resolve_present_conflict, snapshot_into
    <3>5. QED  BY <1>1, <3>3, <3>4 DEF OrderInv
  <2>2. CASE ~(decide = "snapshot" /\ FreeSlots # {} /\ snapshot_into(FirstFreeSlot))
    <3>1. UNCHANGED <<pending, committed_present_seq, submit_seq>> /\ submit # "idle"
      BY <1>4, <2>2 DEF resolve_present_conflict, WaitFor, innerVars
    <3>2. QED  BY <1>2, <3>1
  <2>3. QED  BY <2>1, <2>2
<1>5. CASE SubmitWakes \/ CommitRender
  <2>1. UNCHANGED <<pending, committed_present_seq, submit_seq>> /\ submit # "idle"
    BY <1>5 DEF SubmitWakes, CommitRender, innerVars
  <2>2. QED  BY <1>2, <2>1
<1>6. CASE push
  <2>1. UNCHANGED <<committed_present_seq, submit_seq>> /\ submit' = "idle" /\ submit # "idle"
    BY <1>6 DEF push
  <2>2. /\ Len(pending') = Len(pending) + 1
        /\ pending'[Len(pending) + 1].seq = submit_seq
        /\ \A k \in 1..Len(pending) : pending'[k] = pending[k]
    BY <1>6, PushFacts
  <2>3. QED  BY <1>1, <2>1, <2>2 DEF OrderInv
<1>7. CASE LookForPacket \/ LeaveGate \/ hold_until \/ HoldTimesOut \/ IdleWait \/ GpuEnds \/ BeginIdleWait
  <2>1. UNCHANGED <<pending, committed_present_seq, submit_seq, submit>>
    BY <1>7 DEF LookForPacket, LeaveGate, hold_until, HoldTimesOut, IdleWait, IdleWaitWakes, EndIdleWait,
                GpuEnds, BeginIdleWait, StartIdleWait, innerVars, submitVars
  <2>2. QED  BY <1>2, <2>1
<1>8. CASE (\E hurry \in BOOLEAN : set_wait_policy(hurry)) \/ BeginStop
  <2>1. UNCHANGED <<pending, committed_present_seq, submit_seq>> /\ submit' = Woken(submit)
    BY <1>8 DEF set_wait_policy, BeginStop, stop_and_join, NotifySubmitCv, innerVars
  <2>2. QED  BY <1>2, <2>1 DEF Woken
<1>9. CASE StopPresenting
  <2>1. submit = "idle"
    BY <1>9 DEF StopPresenting, IdleInv
  <2>2. submit' = "idle" /\ UNCHANGED submit_seq /\ Len(pending') = 0
    BY <1>9, <2>1 DEF StopPresenting, NotifySubmitCv, Woken
  <2>3. committed_present_seq' <= submit_seq
    <3>1. CASE pending = <<>>
      BY <1>9, <3>1 DEF StopPresenting, OrderInv
    <3>2. CASE pending # <<>>
      <4>1. Len(pending) \in 1..Len(pending)
        BY <1>1, <3>2, Numbers, TailFacts
      <4>2. Newest.seq <= submit_seq /\ committed_present_seq <= submit_seq
        BY <4>1 DEF OrderInv, Newest
      <4>3. QED  BY <1>9, <3>2, <4>2 DEF StopPresenting, Larger
    <3>3. QED  BY <3>1, <3>2
  <2>4. QED  BY <2>2, <2>3 DEF OrderInv
<1>10. ASSUME presenter \in Holding, pending' = Tail(pending),
              committed_present_seq' = Larger(committed_present_seq, Head(pending).seq),
              NotifySubmitCv, UNCHANGED submit_seq
       PROVE  OrderInv'
  <2>1. pending # <<>>
    BY <1>10 DEF ImageInv
  <2>2. /\ committed_present_seq' = pending[1].seq
        /\ Len(pending') = Len(pending) - 1
        /\ \A i \in 1..Len(pending') : i + 1 \in 1..Len(pending) /\ pending'[i] = pending[i + 1]
    BY <1>10, <2>1, FrontLeaves
  <2>3. 1 \in 1..Len(pending)
    BY <2>1, Numbers, TailFacts
  <2>4. submit' # "idle" => submit # "idle"
    BY <1>10 DEF NotifySubmitCv, Woken
  <2>5. \A i \in 1..Len(pending') : 1 < i + 1 /\ i + 1 \in 1..Len(pending)
    BY <1>1, <2>2
  <2>6. \A i \in 1..Len(pending) :
            /\ 1 < i => pending[1].seq < pending[i].seq
            /\ pending[i].seq <= submit_seq
            /\ submit # "idle" => pending[i].seq < submit_seq
    BY <2>3 DEF OrderInv
  <2>7. \A i, j \in 1..Len(pending') : i < j => pending'[i].seq < pending'[j].seq
    <3>1. SUFFICES ASSUME NEW i \in 1..Len(pending'), NEW j \in 1..Len(pending'), i < j
                   PROVE  pending[i + 1].seq < pending[j + 1].seq
      BY <2>2
    <3>2. i + 1 \in 1..Len(pending) /\ j + 1 \in 1..Len(pending) /\ i + 1 < j + 1
      BY <2>2, <3>1
    <3>3. QED  BY <3>2 DEF OrderInv
  <2>8. QED  BY <1>10, <2>2, <2>3, <2>4, <2>5, <2>6, <2>7 DEF OrderInv
<1>11. CASE CheckWindow \/ nextDrawable \/ CommitPresent \/ pop_and_drop
  <2>1. CASE UNCHANGED <<innerVars, submitVars>>
    <3>1. UNCHANGED <<pending, committed_present_seq, submit_seq, submit>>
      BY <2>1 DEF innerVars, submitVars
    <3>2. QED  BY <1>2, <3>1
  <2>2. CASE ~UNCHANGED <<innerVars, submitVars>>
    <3>1. /\ presenter \in Holding /\ pending' = Tail(pending)
          /\ committed_present_seq' = Larger(committed_present_seq, Head(pending).seq)
          /\ NotifySubmitCv /\ UNCHANGED submit_seq
      BY <1>11, <2>2 DEF CheckWindow, nextDrawable, CommitPresent, pop_and_drop, DropFront, Holding
    <3>2. QED  BY <1>10, <3>1
  <2>3. QED  BY <2>1, <2>2
<1>12. CASE Joined \/ UNCHANGED vars
  <2>1. UNCHANGED <<pending, committed_present_seq, submit_seq, submit>>
    BY <1>12 DEF Joined, vars, innerVars, submitVars
  <2>2. QED  BY <1>2, <2>1
<1>13. QED
  BY <1>3, <1>4, <1>5, <1>6, <1>7, <1>8, <1>9, <1>11, <1>12 DEF Next, Submit, present_frame

-----------------------------------------------------------------------------
(* What the packets show *)

LEMMA ImageStep ==
    ASSUME Sized, PresenterInv, TypeOK', [Next]_vars
    PROVE  ImageInv'
<1> USE DEF PresenterInv
<1>1. /\ Len(pending) \in Nat
      /\ \A i \in 1..Len(pending) : pending[i].seq \in Nat /\ pending[i].slot \in 0..Slots
      /\ committed_present_seq \in Nat /\ submit_seq \in Nat
      /\ slot_reader \in [SlotIds -> 0..MaxSeq] /\ slot_image \in [SlotIds -> 0..MaxSeq]
  BY Numbers
<1>2. ASSUME UNCHANGED <<pending, slot_reader, slot_image, back_buffer>>,
             submit' \in {"commit", "push"} => submit' = submit /\ submit_seq' = submit_seq,
             presenter' \in Holding => presenter \in Holding \/ pending # <<>>
      PROVE  ImageInv'
  BY <1>2 DEF ImageInv
<1>3. CASE BeginSubmit
  <2>1. PICK s \in (submit_seq + 1)..MaxSeq, b \in BOOLEAN : StartSubmit(s, b)
    BY <1>3 DEF BeginSubmit
  <2>2. UNCHANGED <<pending, slot_reader, slot_image, back_buffer, presenter>> /\ submit' = "decide"
    BY <2>1 DEF StartSubmit, innerVars
  <2>3. QED  BY <1>2, <2>2
<1>4. CASE resolve_present_conflict
  <2>0. "STOP" \notin flags
    BY <1>4 DEF resolve_present_conflict, IdleInv
  <2>1. CASE decide = "snapshot" /\ FreeSlots # {} /\ snapshot_into(FirstFreeSlot)
    <3>1. pending # <<>>
      BY <2>1 DEF decide
    <3>2. PICK i \in SlotIds :
             /\ Len(pending') = Len(pending) /\ Len(pending) \in 1..Len(pending)
             /\ pending'[Len(pending)] = [seq |-> pending[Len(pending)].seq, slot |-> i]
             /\ \A k \in 1..Len(pending) : k # Len(pending) => pending'[k] = pending[k]
             /\ \A k \in 1..Len(pending) : pending[k].slot # i
             /\ slot_image' = [slot_image EXCEPT ![i] = back_buffer]
             /\ slot_reader' = [slot_reader EXCEPT ![i] = pending[Len(pending)].seq]
      BY <2>1, <3>1, SnapshotTaken
    <3>3. UNCHANGED <<back_buffer, submit_seq, presenter>> /\ submit' = "commit"
      BY <1>4, <2>1 DEF resolve_present_conflict, snapshot_into
    <3>4. i # 0 /\ back_buffer = pending[Len(pending)].seq
      <4>1. pending[Len(pending)].slot = 0
        BY <2>1 DEF decide, Newest
      <4>2. QED  BY <3>2, <4>1 DEF ImageInv, SlotIds, Sized
    <3>5. \A k \in 1..Len(pending) : pending[k].slot = 0 => k = Len(pending)
      BY DEF ImageInv
    <3>6. ASSUME NEW k \in 1..Len(pending)
          PROVE  /\ pending'[k].slot # 0
                 /\ slot_reader'[pending'[k].slot] = pending'[k].seq
                 /\ slot_image'[pending'[k].slot] = pending'[k].seq
      <4>1. CASE k = Len(pending)
        BY <1>1, <3>2, <3>4, <4>1
      <4>2. CASE k # Len(pending)
        <5>1. /\ pending'[k] = pending[k] /\ pending[k].slot # 0 /\ pending[k].slot # i
              /\ pending[k].slot \in SlotIds
              /\ slot_reader[pending[k].slot] = pending[k].seq
              /\ slot_image[pending[k].slot] = pending[k].seq
          BY <1>1, <3>2, <3>5, <4>2 DEF ImageInv, SlotIds, Sized
        <5>2. QED  BY <1>1, <3>2, <5>1
      <4>3. QED  BY <4>1, <4>2
    <3>7. Len(pending') # 0 /\ pending' # <<>>
      BY <1>1, <3>2
    <3>8. QED  BY <3>2, <3>3, <3>6, <3>7 DEF ImageInv
  <2>2. CASE decide = "proceed" /\ UNCHANGED innerVars
    <3>1. UNCHANGED <<pending, slot_reader, slot_image, back_buffer, presenter, submit_seq>>
      BY <1>4, <2>2 DEF resolve_present_conflict, innerVars
    <3>2. \A i \in 1..Len(pending) : pending[i].slot # 0
      BY <2>0, <2>2, ProceedFacts
    <3>3. submit' # "push"
      BY <1>4, <2>2 DEF resolve_present_conflict, WaitFor, snapshot_into
    <3>4. QED  BY <3>1, <3>2, <3>3 DEF ImageInv
  <2>3. CASE submit' = "wait_asleep" /\ UNCHANGED innerVars
    <3>1. UNCHANGED <<pending, slot_reader, slot_image, back_buffer, presenter>>
      BY <1>4, <2>3 DEF resolve_present_conflict, innerVars
    <3>2. QED  BY <1>2, <2>3, <3>1
  <2>4. QED  BY <1>4, <2>1, <2>2, <2>3 DEF resolve_present_conflict, WaitFor
<1>5. CASE SubmitWakes
  <2>1. UNCHANGED <<pending, slot_reader, slot_image, back_buffer, presenter>>
        /\ submit' \in {"wait_asleep", "decide"}
    BY <1>5 DEF SubmitWakes, innerVars
  <2>2. QED  BY <1>2, <2>1
<1>6. CASE CommitRender
  <2>1. /\ UNCHANGED <<pending, slot_reader, slot_image, presenter, submit_seq>>
        /\ back_buffer' = submit_seq /\ submit = "commit"
    BY <1>6 DEF CommitRender, innerVars
  <2>2. QED  BY <2>1 DEF ImageInv
<1>7. CASE push
  <2>1. /\ UNCHANGED <<slot_reader, slot_image, back_buffer, submit_seq>> /\ submit' = "idle"
        /\ submit = "push"
    BY <1>7 DEF push
  <2>2. /\ Len(pending') = Len(pending) + 1
        /\ pending'[Len(pending) + 1] = [seq |-> submit_seq, slot |-> 0]
        /\ \A k \in 1..Len(pending) : pending'[k] = pending[k]
    BY <1>7, PushFacts
  <2>3. back_buffer = submit_seq /\ \A k \in 1..Len(pending) : pending[k].slot # 0
    BY <2>1 DEF ImageInv
  <2>4. \A k \in 1..Len(pending) : /\ slot_reader[pending[k].slot] = pending[k].seq
                                   /\ slot_image[pending[k].slot] = pending[k].seq
    BY <2>3 DEF ImageInv
  <2>5. \A k \in 1..Len(pending') : k \in 1..Len(pending) \/ k = Len(pending')
    BY <1>1, <2>2
  <2>6. pending' # <<>>
    BY <1>1, <2>2
  <2>7. QED  BY <2>1, <2>2, <2>3, <2>4, <2>5, <2>6 DEF ImageInv
<1>8. CASE LookForPacket \/ LeaveGate \/ hold_until \/ HoldTimesOut \/ IdleWait \/ GpuEnds
  <2>1. UNCHANGED <<pending, slot_reader, slot_image, back_buffer, submit_seq, submit>>
    BY <1>8 DEF LookForPacket, LeaveGate, hold_until, HoldTimesOut, IdleWait, IdleWaitWakes, EndIdleWait,
                GpuEnds, innerVars, submitVars
  <2>2. presenter' \in Holding => presenter \in Holding \/ pending # <<>>
    BY <1>8 DEF LookForPacket, LeaveGate, hold_until, HoldTimesOut, IdleWait, IdleWaitWakes, EndIdleWait,
                GpuEnds, Holding
  <2>3. QED  BY <1>2, <2>1, <2>2
<1>9. CASE (\E hurry \in BOOLEAN : set_wait_policy(hurry)) \/ BeginStop \/ BeginIdleWait
  <2>1. /\ UNCHANGED <<pending, slot_reader, slot_image, back_buffer, submit_seq>>
        /\ submit' = submit \/ submit' = Woken(submit)
        /\ presenter' = presenter \/ presenter' = WokenPresenter
    BY <1>9 DEF set_wait_policy, BeginStop, stop_and_join, BeginIdleWait, StartIdleWait, NotifySubmitCv,
                innerVars, submitVars
  <2>2. presenter' \in Holding => presenter \in Holding
    BY <2>1 DEF WokenPresenter, Holding
  <2>3. submit' \in {"commit", "push"} => submit' = submit
    BY <2>1 DEF Woken
  <2>4. QED  BY <1>2, <2>1, <2>2, <2>3
<1>10. CASE StopPresenting
  <2>1. submit = "idle"
    BY <1>10 DEF StopPresenting, IdleInv
  <2>2. submit' = "idle" /\ presenter' = "exited" /\ Len(pending') = 0
    BY <1>10, <2>1 DEF StopPresenting, NotifySubmitCv, Woken
  <2>3. QED  BY <2>2 DEF ImageInv, Holding
<1>11. ASSUME presenter \in Holding, pending' = Tail(pending), presenter' = "look",
              committed_present_seq' = Larger(committed_present_seq, Head(pending).seq),
              NotifySubmitCv, UNCHANGED <<submit_seq, slot_reader, slot_image, back_buffer>>
       PROVE  ImageInv'
  <2>1. pending # <<>>
    BY <1>11 DEF ImageInv
  <2>2. /\ Len(pending') = Len(pending) - 1
        /\ \A i \in 1..Len(pending') : i + 1 \in 1..Len(pending) /\ pending'[i] = pending[i + 1]
    BY <1>11, <2>1, FrontLeaves
  <2>3. submit' \in {"commit", "push"} => submit' = submit
    BY <1>11 DEF NotifySubmitCv, Woken
  <2>4. \A i \in 1..Len(pending') : i + 1 = Len(pending) => i = Len(pending')
    BY <1>1, <2>2
  <2>5. QED  BY <1>11, <2>2, <2>3, <2>4 DEF ImageInv, Holding
<1>12. CASE CheckWindow \/ nextDrawable \/ CommitPresent \/ pop_and_drop
  <2>1. CASE UNCHANGED <<innerVars, submitVars, back_buffer>> /\ presenter \in Holding
    <3>1. UNCHANGED <<pending, slot_reader, slot_image, back_buffer, submit_seq, submit>>
      BY <2>1 DEF innerVars, submitVars
    <3>2. QED  BY <1>2, <2>1, <3>1
  <2>2. CASE ~(UNCHANGED <<innerVars, submitVars, back_buffer>> /\ presenter \in Holding)
    <3>1. /\ presenter \in Holding /\ pending' = Tail(pending) /\ presenter' = "look"
          /\ committed_present_seq' = Larger(committed_present_seq, Head(pending).seq)
          /\ NotifySubmitCv /\ UNCHANGED <<submit_seq, slot_reader, slot_image, back_buffer>>
      BY <1>12, <2>2 DEF CheckWindow, nextDrawable, CommitPresent, pop_and_drop, DropFront, Holding
    <3>2. QED  BY <1>11, <3>1
  <2>3. QED  BY <2>1, <2>2
<1>13. CASE Joined \/ UNCHANGED vars
  <2>1. UNCHANGED <<pending, slot_reader, slot_image, back_buffer, submit_seq, submit, presenter>>
    BY <1>13 DEF Joined, vars, innerVars, submitVars
  <2>2. QED  BY <1>2, <2>1
<1>14. QED
  BY <1>3, <1>4, <1>5, <1>6, <1>7, <1>8, <1>9, <1>10, <1>12, <1>13 DEF Next, Submit, present_frame

-----------------------------------------------------------------------------
(* The idle wait *)

LEMMA IdleStep ==
    ASSUME Sized, PresenterInv, TypeOK', [Next]_vars
    PROVE  IdleInv'
<1> USE DEF PresenterInv
<1>1. /\ committed_present_seq \in Nat /\ presented_seq \in Nat /\ on_gpu \subseteq Nat
      /\ \A i \in 1..Len(pending) : pending[i].seq \in Nat
  BY Numbers
<1>2. ASSUME UNCHANGED <<presented_seq, committed_present_seq>>, on_gpu' \subseteq on_gpu,
             submit' # "idle" => "STOP" \notin flags' /\ idle_wait' = "none",
             idle_wait' # "none" => "STOP" \notin flags',
             idle_wait' = "retire" => pending' = <<>> /\ idle_target' = presented_seq
      PROVE  IdleInv'
  BY <1>2 DEF IdleInv
<1>3. CASE BeginSubmit
  <2>1. PICK s \in (submit_seq + 1)..MaxSeq, b \in BOOLEAN : StartSubmit(s, b)
    BY <1>3 DEF BeginSubmit
  <2>2. UNCHANGED <<presented_seq, committed_present_seq, on_gpu, flags, idle_wait>>
    BY <2>1 DEF StartSubmit, innerVars, idleVars
  <2>3. "STOP" \notin flags /\ idle_wait = "none"
    BY <1>3 DEF BeginSubmit
  <2>4. QED  BY <1>2, <2>2, <2>3
<1>4. CASE Submit
  <2>1. UNCHANGED <<presented_seq, committed_present_seq, on_gpu, flags, idle_wait>>
    BY <1>4 DEF Submit, resolve_present_conflict, WaitFor, snapshot_into, SubmitWakes, CommitRender,
                push, innerVars, idleVars
  <2>2. submit # "idle"
    BY <1>4 DEF Submit, resolve_present_conflict, SubmitWakes, CommitRender, push
  <2>3. "STOP" \notin flags /\ idle_wait = "none"
    BY <2>2 DEF IdleInv
  <2>4. QED  BY <1>2, <2>1, <2>3
<1>5. CASE LookForPacket \/ LeaveGate \/ hold_until \/ HoldTimesOut
  <2>1. UNCHANGED <<pending, presented_seq, committed_present_seq, on_gpu, flags, submit, idle_wait,
                    idle_target>>
    BY <1>5 DEF LookForPacket, LeaveGate, hold_until, HoldTimesOut, innerVars, submitVars, idleVars
  <2>2. QED  BY <2>1 DEF IdleInv
<1>6. CASE StopPresenting
  <2>1. submit = "idle" /\ idle_wait = "none"
    BY <1>6 DEF StopPresenting, IdleInv
  <2>2. submit' = "idle" /\ idle_wait' = "none" /\ UNCHANGED <<presented_seq, on_gpu>>
    BY <1>6, <2>1 DEF StopPresenting, NotifySubmitCv, Woken
  <2>3. committed_present_seq <= committed_present_seq' /\ committed_present_seq' \in Nat
    <3>1. CASE pending = <<>>
      BY <1>1, <1>6, <3>1 DEF StopPresenting
    <3>2. CASE pending # <<>>
      <4>1. Len(pending) \in 1..Len(pending)
        BY <3>2, Numbers, TailFacts
      <4>2. Newest.seq \in Nat
        BY <1>1, <4>1 DEF Newest
      <4>3. committed_present_seq' = Larger(committed_present_seq, Newest.seq)
        BY <1>6, <3>2 DEF StopPresenting
      <4> HIDE DEF Newest
      <4>4. QED  BY <1>1, <4>2, <4>3 DEF Larger
    <3>3. QED  BY <3>1, <3>2
  <2>4. QED  BY <1>1, <2>2, <2>3 DEF IdleInv
<1>7. ASSUME presenter \in Holding, pending' = Tail(pending),
             committed_present_seq' = Larger(committed_present_seq, Head(pending).seq),
             NotifySubmitCv, UNCHANGED flags,
             \/ UNCHANGED <<presented_seq, on_gpu>>
             \/ presented_seq' = Head(pending).seq /\ on_gpu' = on_gpu \union {Head(pending).seq}
      PROVE  IdleInv'
  <2>1. pending # <<>>
    BY <1>7 DEF ImageInv
  <2>2. committed_present_seq' = pending[1].seq /\ committed_present_seq < pending[1].seq
    BY <1>7, <2>1, FrontLeaves
  <2>3. Head(pending) = pending[1] /\ pending[1].seq \in Nat
    BY <1>1, <2>1, Numbers, TailFacts
  <2>4. /\ submit' # "idle" => submit # "idle"
        /\ idle_wait' # "none" => idle_wait # "none"
        /\ idle_wait = "none" => idle_wait' = "none"
        /\ idle_wait' # "retire"
    BY <1>7, <2>1 DEF NotifySubmitCv, Woken, IdleInv
  <2>5. presented_seq' <= committed_present_seq' /\ \A s \in on_gpu' : s <= presented_seq'
    <3>1. presented_seq <= committed_present_seq /\ \A s \in on_gpu : s <= presented_seq
      BY DEF IdleInv
    <3>2. CASE UNCHANGED <<presented_seq, on_gpu>>
      BY <1>1, <2>2, <2>3, <3>1, <3>2
    <3>3. CASE presented_seq' = pending[1].seq /\ on_gpu' = on_gpu \union {pending[1].seq}
      BY <1>1, <2>2, <2>3, <3>1, <3>3
    <3>4. QED  BY <1>7, <2>3, <3>2, <3>3
  <2>6. QED  BY <1>7, <2>4, <2>5 DEF IdleInv
<1>8. CASE CheckWindow \/ nextDrawable \/ CommitPresent \/ pop_and_drop
  <2>1. CASE UNCHANGED <<innerVars, flags, submitVars, idleVars, back_buffer, on_gpu>>
    <3>1. UNCHANGED <<pending, presented_seq, committed_present_seq, on_gpu, flags, submit, idle_wait,
                      idle_target>>
      BY <2>1 DEF innerVars, submitVars, idleVars
    <3>2. QED  BY <3>1 DEF IdleInv
  <2>2. CASE ~UNCHANGED <<innerVars, flags, submitVars, idleVars, back_buffer, on_gpu>>
    <3>1. /\ presenter \in Holding /\ pending' = Tail(pending)
          /\ committed_present_seq' = Larger(committed_present_seq, Head(pending).seq)
          /\ NotifySubmitCv /\ UNCHANGED flags
          /\ \/ UNCHANGED <<presented_seq, on_gpu>>
             \/ presented_seq' = Head(pending).seq /\ on_gpu' = on_gpu \union {Head(pending).seq}
      BY <1>8, <2>2 DEF CheckWindow, nextDrawable, CommitPresent, pop_and_drop, DropFront, Holding
    <3>2. QED  BY <1>7, <3>1
  <2>3. QED  BY <2>1, <2>2
<1>9. CASE \E hurry \in BOOLEAN : set_wait_policy(hurry)
  <2>1. /\ UNCHANGED <<pending, presented_seq, committed_present_seq, on_gpu, idle_target>>
        /\ submit' = Woken(submit) /\ idle_wait' = Woken(idle_wait)
        /\ "STOP" \in flags' => "STOP" \in flags
    BY <1>9 DEF set_wait_policy, NotifySubmitCv, innerVars
  <2>2. QED  BY <2>1 DEF Woken, IdleInv
<1>10. CASE BeginIdleWait
  <2>1. /\ UNCHANGED <<presented_seq, committed_present_seq, on_gpu, submit>>
        /\ submit = "idle" /\ "STOP" \notin flags' /\ idle_wait' = "wait"
    BY <1>10 DEF BeginIdleWait, StartIdleWait, innerVars, submitVars
  <2>2. QED  BY <1>2, <2>1
<1>11. CASE IdleWaitWakes
  <2>1. idle_wait # "none" /\ submit = "idle" /\ "STOP" \notin flags
    BY <1>11 DEF IdleWaitWakes, IdleInv
  <2>2. UNCHANGED <<pending, presented_seq, committed_present_seq, on_gpu, submit>>
    BY <1>11 DEF IdleWaitWakes, innerVars, submitVars
  <2>3. "STOP" \notin flags'
    BY <1>11, <2>1 DEF IdleWaitWakes
  <2>4. idle_wait' = "retire" => pending = <<>> /\ idle_target' = presented_seq
    BY <1>11, <2>1 DEF IdleWaitWakes
  <2>5. QED  BY <1>2, <2>1, <2>2, <2>3, <2>4
<1>12. CASE EndIdleWait
  <2>1. /\ UNCHANGED <<presented_seq, committed_present_seq, on_gpu, submit, flags>>
        /\ idle_wait' = "none"
    BY <1>12 DEF EndIdleWait, innerVars, submitVars
  <2>2. QED  BY <2>1 DEF IdleInv
<1>13. CASE BeginStop
  <2>1. /\ UNCHANGED <<presented_seq, committed_present_seq, on_gpu>>
        /\ submit' = "idle" /\ idle_wait' = "none"
    BY <1>13 DEF BeginStop, stop_and_join, NotifySubmitCv, Woken, innerVars
  <2>2. QED  BY <1>2, <2>1
<1>14. CASE GpuEnds
  <2>1. UNCHANGED <<pending, presented_seq, committed_present_seq, flags, submit, idle_wait, idle_target>>
        /\ on_gpu' \subseteq on_gpu
    BY <1>14 DEF GpuEnds, innerVars, submitVars, idleVars
  <2>2. QED  BY <2>1 DEF IdleInv
<1>15. CASE Joined \/ UNCHANGED vars
  <2>1. UNCHANGED <<pending, presented_seq, committed_present_seq, on_gpu, flags, submit, idle_wait,
                    idle_target>>
    BY <1>15 DEF Joined, vars, innerVars, submitVars, idleVars
  <2>2. QED  BY <2>1 DEF IdleInv
<1>16. QED
  BY <1>3, <1>4, <1>5, <1>6, <1>8, <1>9, <1>10, <1>11, <1>12, <1>13, <1>14, <1>15
     DEF Next, present_frame, IdleWait

-----------------------------------------------------------------------------
(* The theorems *)

LEMMA PresenterInit ==
    ASSUME Sized, Init
    PROVE  PresenterInv
<1>1. TypeOK
  <2>1. 0 \in 0..MaxSeq
    BY DEF Sized
  <2>2. slot_reader \in [SlotIds -> 0..MaxSeq] /\ slot_image \in [SlotIds -> 0..MaxSeq]
    BY <2>1 DEF Init
  <2>3. pending \in Seq([seq : Seqs, slot : 0..Slots])
    BY DEF Init
  <2>4. {committed_present_seq, presented_seq, submit_seq, wait_until, idle_target, back_buffer}
            \subseteq 0..MaxSeq
    BY <2>1 DEF Init
  <2>5. QED  BY <2>2, <2>3, <2>4 DEF Init, TypeOK, PresenterPlaces, SubmitPlaces, IdlePlaces
<1>2. OrderInv /\ ImageInv /\ IdleInv
  BY DEF Init, OrderInv, ImageInv, IdleInv, Holding
<1>3. QED  BY <1>1, <1>2 DEF PresenterInv

LEMMA PresenterNext ==
    ASSUME Sized, PresenterInv, [Next]_vars
    PROVE  PresenterInv'
<1>1. TypeOK'
  BY PresenterTypes DEF PresenterInv
<1>2. QED  BY <1>1, OrderStep, ImageStep, IdleStep DEF PresenterInv

LEMMA PresenterShows ==
    ASSUME Sized, PresenterInv
    PROVE  PendingShowsItsFrame
<1>1. DOMAIN pending = 1..Len(pending)
  BY Numbers DEF PresenterInv
<1>2. QED  BY <1>1 DEF PresenterInv, ImageInv, PendingShowsItsFrame, Image, Holding

\* An idle wait ends with nothing queued and nothing on the GPU.
LEMMA IdleWaitEnds ==
    ASSUME Sized, PresenterInv, [Next]_vars, idle_wait = "retire", idle_wait' = "none"
    PROVE  pending = <<>> /\ on_gpu = {}
<1> USE DEF PresenterInv
<1>1. pending = <<>> /\ idle_target = presented_seq /\ \A s \in on_gpu : s <= presented_seq
  BY DEF IdleInv
<1>2. on_gpu \subseteq Nat /\ presented_seq \in Nat
  BY Numbers
<1>3. EndIdleWait
  <2>1. submit = "idle" /\ presenter \notin Holding /\ "STOP" \notin flags
    BY <1>1 DEF IdleInv, ImageInv
  <2>2. ~BeginSubmit /\ ~BeginIdleWait /\ ~BeginStop /\ ~IdleWaitWakes /\ ~StopPresenting
    BY <2>1 DEF BeginSubmit, BeginIdleWait, StartIdleWait, BeginStop, IdleWaitWakes, StopPresenting
  <2>3. ~Submit
    BY <2>1 DEF Submit, resolve_present_conflict, SubmitWakes, CommitRender, push
  <2>4. ~LeaveGate /\ ~hold_until /\ ~CheckWindow /\ ~nextDrawable /\ ~CommitPresent /\ ~pop_and_drop
    BY <2>1 DEF LeaveGate, hold_until, CheckWindow, nextDrawable, CommitPresent, pop_and_drop, Holding
  <2>5. ~LookForPacket /\ ~HoldTimesOut /\ ~GpuEnds /\ ~Joined /\ ~UNCHANGED vars
    BY DEF LookForPacket, HoldTimesOut, GpuEnds, Joined, vars, idleVars
  <2>6. ~\E hurry \in BOOLEAN : set_wait_policy(hurry)
    BY DEF set_wait_policy, NotifySubmitCv, Woken
  <2>7. QED  BY <2>2, <2>3, <2>4, <2>5, <2>6 DEF Next, present_frame, IdleWait
<1>4. \A s \in on_gpu : s > idle_target
  BY <1>3 DEF EndIdleWait
<1>5. QED  BY <1>1, <1>2, <1>4

\* The inductive invariant: the order of the queue and what each packet reads.
THEOREM PresenterInvariant == Sized => (Spec => []PresenterInv)
<1>1. CASE Sized
  <2>1. Init => PresenterInv
    BY <1>1, PresenterInit
  <2>2. PresenterInv /\ [Next]_vars => PresenterInv'
    BY <1>1, PresenterNext
  <2>3. QED  BY <2>1, <2>2, PTL DEF Spec
<1>2. QED  BY <1>1

\* A pending packet shows the frame it was queued for, for any number of
\* slots, submissions and failed copies.
THEOREM PacketsShowTheirFrames == Sized => (Spec => []PendingShowsItsFrame)
<1>1. CASE Sized
  <2>1. PresenterInv => PendingShowsItsFrame
    BY <1>1, PresenterShows
  <2>2. Spec => []PresenterInv
    BY <1>1, PresenterInvariant
  <2>3. QED  BY <2>1, <2>2, PTL
<1>2. QED  BY <1>1

\* wait_for_present_idle returns to an idle presenter.
THEOREM IdleWaitReturnsIdle == Sized => (Spec => IdleMeansIdle)
<1>1. CASE Sized
  <2>1. ASSUME PresenterInv, [Next]_vars
        PROVE  [idle_wait = "retire" /\ idle_wait' = "none" => pending = <<>> /\ on_gpu = {}]_vars
    BY <1>1, <2>1, IdleWaitEnds
  <2>2. Spec => []PresenterInv
    BY <1>1, PresenterInvariant
  <2>3. QED  BY <2>1, <2>2, PTL DEF Spec, IdleMeansIdle
<1>2. QED  BY <1>1

=============================================================================
