------------------------ MODULE FramePipelineProofs ------------------------
(***************************************************************************)
(* Theorems about FramePipeline, for every bound, channel and payload cap: *)
(* the composed threads implement module Presenter, and its barriers hold. *)
(* The step of the inductive invariant is in PipelinePlans,                *)
(* PipelineBarriers and PipelineOrder, the presenter's in PresenterProofs. *)
(***************************************************************************)
EXTENDS PipelineBarriers, PipelineOrder

PP == INSTANCE PresenterProofs

\* The inductive invariant of the composed threads, and the presenter's own.
Inv == PipelineInv /\ PP!PresenterInv

-----------------------------------------------------------------------------
(* The presenter's results *)

\* PresenterProofs speaks of the same presenter.
LEMMA SamePresenter ==
    /\ PP!Sized
    /\ P!Init => PP!Init
    /\ [P!Next]_(P!vars) => [PP!Next]_(PP!vars)
    /\ PP!PresenterInv => P!TypeOK /\ P!PendingShowsItsFrame
<1>1. PP!Sized
  BY PipelineAssumption DEF PP!Sized
<1>2. P!Init => PP!Init
  BY DEF P!Init, PP!Init, P!SlotIds, PP!SlotIds
<1>3. [P!Next]_(P!vars) => [PP!Next]_(PP!vars)
  BY DEF P!Next, PP!Next, P!BeginSubmit, PP!BeginSubmit, P!StartSubmit, PP!StartSubmit,
         P!Submit, PP!Submit, P!resolve_present_conflict, PP!resolve_present_conflict,
         P!decide, PP!decide, P!WaitFor, PP!WaitFor, P!snapshot_into, PP!snapshot_into,
         P!FreeSlots, PP!FreeSlots, P!busy, PP!busy, P!FirstFreeSlot, PP!FirstFreeSlot,
         P!OldestReader, PP!OldestReader, P!SlotIds, PP!SlotIds, P!Newest, PP!Newest,
         P!SubmitWakes, PP!SubmitWakes, P!CommitRender, PP!CommitRender, P!push, PP!push,
         P!WokenPresenter, PP!WokenPresenter, P!Woken, PP!Woken, P!NotifySubmitCv,
         PP!NotifySubmitCv, P!present_frame, PP!present_frame, P!LookForPacket,
         PP!LookForPacket, P!StopPresenting, PP!StopPresenting, P!Larger, PP!Larger,
         P!LeaveGate, PP!LeaveGate, P!hold_until, PP!hold_until, P!CheckWindow, PP!CheckWindow,
         P!DropFront, PP!DropFront, P!nextDrawable, PP!nextDrawable, P!CommitPresent,
         PP!CommitPresent, P!pop_and_drop, PP!pop_and_drop, P!HoldTimesOut, PP!HoldTimesOut,
         P!set_wait_policy, PP!set_wait_policy, P!BeginIdleWait, PP!BeginIdleWait,
         P!StartIdleWait, PP!StartIdleWait, P!IdleWait, PP!IdleWait, P!IdleWaitWakes,
         PP!IdleWaitWakes, P!EndIdleWait, PP!EndIdleWait, P!BeginStop, PP!BeginStop,
         P!stop_and_join, PP!stop_and_join, P!GpuEnds, PP!GpuEnds, P!Joined, PP!Joined, P!vars,
         PP!vars, P!innerVars, PP!innerVars, P!submitVars, PP!submitVars, P!idleVars,
         PP!idleVars
<1>4. PP!PresenterInv => P!TypeOK
  BY DEF PP!PresenterInv, PP!TypeOK, P!TypeOK, PP!Seqs, P!Seqs, PP!SlotIds, P!SlotIds, PP!Flags,
         P!Flags, PP!PresenterPlaces, P!PresenterPlaces, PP!SubmitPlaces, P!SubmitPlaces,
         PP!IdlePlaces, P!IdlePlaces
<1>5. PP!PresenterInv => P!PendingShowsItsFrame
  <2>1. PP!PresenterInv => PP!PendingShowsItsFrame
    BY <1>1, PP!PresenterShows
  <2>2. QED  BY <2>1 DEF P!PendingShowsItsFrame, PP!PendingShowsItsFrame, P!Image, PP!Image
<1>6. QED  BY <1>1, <1>2, <1>3, <1>4, <1>5

\* So it is after a step.
LEMMA ShowsNext == PP!PresenterInv' => P!TypeOK' /\ P!PendingShowsItsFrame'
<1>1. PP!PresenterInv => P!TypeOK /\ P!PendingShowsItsFrame
  BY SamePresenter
<1>2. QED  BY <1>1, PTL

\* The presenter's invariant holds on.
LEMMA PresenterKept ==
    ASSUME PipelineInv, PP!PresenterInv, [Next]_vars
    PROVE  PP!PresenterInv' /\ PresenterHolds
<1>1. [PP!Next]_(PP!vars) /\ PP!Sized
  BY Simulates, SamePresenter
<1>2. PP!PresenterInv'
  BY <1>1, PP!PresenterNext
<1>3. P!TypeOK' /\ P!PendingShowsItsFrame'
  BY <1>2, ShowsNext
<1>4. idle_wait = "retire" /\ idle_wait' = "none" => pending = <<>> /\ on_gpu = {}
  <2>1. [idle_wait = "retire" /\ idle_wait' = "none" => pending = <<>> /\ on_gpu = {}]_(PP!vars)
    BY <1>1, PP!IdleWaitEnds
  <2>2. UNCHANGED PP!vars => idle_wait' = idle_wait
    BY DEF PP!vars, PP!idleVars
  <2>3. QED  BY <2>1, <2>2
<1>5. QED  BY <1>2, <1>3, <1>4 DEF PresenterHolds

-----------------------------------------------------------------------------
(* The theorems *)

LEMMA PipelineInit ==
    ASSUME Init
    PROVE  Inv
<1>1. /\ P!Init /\ api = "idle" /\ api_msg = NoMsg /\ next_seq = 1 /\ requests = 0 /\ marked = FALSE
      /\ channel = <<>> /\ msg = NoMsg /\ todo = <<>> /\ work = <<>> /\ executing = "nobody"
      /\ returned = 0 /\ in_flight = 0 /\ pool = 0 /\ payloads_total = 0 /\ capturing = FALSE
      /\ failure = FALSE /\ failed_replay = FALSE
  BY DEF Init
<1>2. PP!PresenterInv /\ P!TypeOK /\ P!PendingShowsItsFrame
  BY <1>1, SamePresenter, PP!PresenterInit
<1>3. /\ submit_seq = 0 /\ submit = "idle" /\ flags = {} /\ idle_wait = "none"
  BY <1>1 DEF P!Init
<1>4. Len(channel) = 0 /\ Len(work) = 0 /\ Len(todo) = 0 /\ 1..0 = {}
  BY <1>1
<1>5. Left = {} /\ \A x : ~At(x)
  BY <1>1, <1>4 DEF Left, StepsOf, At
<1>6. NoMsg.kind = "none" /\ NoMsg.seq = 0 /\ NoMsg.marks = {} /\ NoMsg \in Messages
  BY MessageFacts
<1>7. TypeOK
  <2>1. {returned, in_flight, pool, payloads_total} \subseteq 0..PayloadCap
    BY <1>1, PipelineAssumption
  <2>2. next_seq \in 1..(MaxSeq + 1) /\ requests \in 0..MaxRequests /\ Len(channel) <= ChannelCap
    BY <1>1, <1>4, PipelineAssumption
  <2>3. channel \in Seq(Messages) /\ todo \in Seq(Steps)
        /\ work \in Seq([seq : 1..MaxSeq, presents : BOOLEAN])
    BY <1>1
  <2>4. QED  BY <1>1, <1>2, <1>6, <2>1, <2>2, <2>3 DEF TypeOK
<1>8. PlanInv
  <2>1. InOrder(todo, msg)
    BY <1>4 DEF InOrder
  <2>2. QED  BY <1>1, <1>5, <1>6, <2>1 DEF PlanInv
<1>9. PayloadInv
  <2>1. Executing = 0 /\ Held = 0
    BY <1>1, <1>5 DEF Executing, Held
  <2>2. in_flight = Len(work) + returned + Executing /\ Len(work) <= 1
    BY <1>1, <1>4, <2>1
  <2>3. payloads_total = pool + in_flight + Held /\ payloads_total <= PayloadCap
    BY <1>1, <2>1, PipelineAssumption
  <2>4. QED  BY <1>1, <1>3, <1>5, <2>2, <2>3 DEF PayloadInv
<1>10. RestInv
  BY <1>1, <1>3, <1>5, <1>6 DEF RestInv
<1>11. ProtocolInv
  BY <1>1, <1>4, <1>6 DEF ProtocolInv
<1>12. SeqInv
  BY <1>1, <1>3, <1>4, <1>5, <1>6 DEF SeqInv, Behind
<1>13. HurryInv
  BY <1>3 DEF HurryInv
<1>14. CaptureInv
  <2>1. Marked(NoMsg)
    BY <1>6, Unmarked
  <2>2. QED  BY <1>1, <1>4, <2>1 DEF CaptureInv, Stamped
<1>15. QED
  BY <1>2, <1>7, <1>8, <1>9, <1>10, <1>11, <1>12, <1>13, <1>14 DEF PipelineInv, Inv

LEMMA PipelineNext ==
    ASSUME MarksArrive, Inv, [Next]_vars
    PROVE  Inv'
<1>1. PipelineInv /\ PP!PresenterInv
  BY DEF Inv
<1>2. PP!PresenterInv' /\ PresenterHolds /\ P!PendingShowsItsFrame'
  BY <1>1, PresenterKept DEF PresenterHolds
<1>3. TypeOK' /\ PlanInv' /\ PayloadInv'
  BY <1>1, <1>2, TypeStep
<1>4. RestInv' /\ ProtocolInv' /\ SeqInv' /\ HurryInv'
  BY <1>1, <1>2, RestStep, ProtocolStep, SeqStep, HurryStep
<1>5. CaptureInv'
  <2>1. MarksPart' /\ OpenPart'
    BY <1>1, MarksStep, OpenStep
  <2>2. QED  BY <2>1 DEF MarksPart, OpenPart, CaptureInv
<1>6. QED  BY <1>2, <1>3, <1>4, <1>5 DEF PipelineInv, Inv

\* The inductive invariant of the pipeline: what is left of a message, where
\* the payloads are, where presentation rests, one blocking message at a time,
\* ascending sequences, who hurries the presenter, and captures that are open
\* where they stop.
THEOREM PipelineInvariant == MarksArrive => (Spec => []Inv)
<1>1. CASE MarksArrive
  <2>1. Init => Inv
    BY PipelineInit
  <2>2. Inv /\ [Next]_vars => Inv'
    BY <1>1, PipelineNext
  <2>3. QED  BY <2>1, <2>2, PTL DEF Spec
<1>2. QED  BY <1>1

\* The API, encoder and submit threads meet the presenter the way module
\* Presenter assumes, at every bound and capacity.
THEOREM PipelineImplementsPresenter == MarksArrive => (Spec => ImplementsPresenter)
<1>1. CASE MarksArrive
  <2>1. Init => P!Init
    BY DEF Init
  <2>2. Inv /\ [Next]_vars => [P!Next]_(P!vars)
    BY Simulates DEF Inv
  <2>3. Spec => []Inv
    BY <1>1, PipelineInvariant
  <2>4. QED  BY <2>1, <2>2, <2>3, PTL DEF Spec, ImplementsPresenter, P!Spec
<1>2. QED  BY <1>1

\* Behind drain_submit_thread the encoder is alone, the payloads add up, and no
\* barrier leaves the presenter hurried.
THEOREM BarriersHold == MarksArrive => (Spec => []BarrierHolds)
<1>1. CASE MarksArrive
  <2>1. ASSUME Inv PROVE BarrierHolds
    <3> USE <2>1 DEF Inv, PipelineInv
    <3>1. ASSUME NEW step \in {"present_idle", "present_idle_wait", "capture_on", "inline",
                               "gpu_wait", "exit"}, At(step)
          PROVE  in_flight = 0 /\ work = <<>> /\ executing # "submit_thread"
      BY <3>1, AloneAt DEF Alone
    <3>2. ASSUME At("submit"), Sync
          PROVE  in_flight = 0 /\ work = <<>> /\ executing # "submit_thread"
      <4>1. CASE capturing
        BY <4>1, InFlight DEF PayloadInv
      <4>2. CASE msg.kind # "queue"
        BY <3>2, <4>2, AloneAt DEF Alone
      <4>3. QED  BY <3>2, <4>1, <4>2 DEF Sync
    <3>3. /\ payloads_total <= PayloadCap
          /\ in_flight = Len(work) + returned + (IF executing = "submit_thread" THEN 1 ELSE 0)
          /\ payloads_total = pool + in_flight + (IF At("submit") \/ At("inline") THEN 1 ELSE 0)
      BY DEF PayloadInv, Executing, Held
    <3>4. api = "idle" /\ ~failure /\ ~At("draining") => "HURRY" \notin flags
      BY DEF HurryInv
    <3>5. QED  BY <3>1, <3>2, <3>3, <3>4 DEF BarrierHolds
  <2>2. Spec => []Inv
    BY <1>1, PipelineInvariant
  <2>3. QED  BY <2>1, <2>2, PTL
<1>2. QED  BY <1>1

\* Captures start and stop over an idle presenter, and so does its stop.
THEOREM PresentationRests == MarksArrive => (Spec => []PresentationIsIdle)
<1>1. CASE MarksArrive
  <2>1. ASSUME Inv PROVE PresentationIsIdle
    <3> USE <2>1 DEF Inv, PipelineInv
    <3>1. At("capture_on") \/ At("capture_off") => PresentIdle
      BY DEF RestInv
    <3>2. ASSUME api \in {"joined", "stopping", "gone"} PROVE PresentIdle
      <4>1. msg.kind = "shutdown" /\ Left = {}
        BY <3>2 DEF ProtocolInv, Left, StepsOf
      <4>2. QED  BY <4>1 DEF RestInv
    <3>3. QED  BY <3>1, <3>2 DEF PresentationIsIdle, PresentIdle
  <2>2. Spec => []Inv
    BY <1>1, PipelineInvariant
  <2>3. QED  BY <2>1, <2>2, PTL
<1>2. QED  BY <1>1

\* In the composed system every pending packet shows the frame it was queued
\* for.
THEOREM PipelineShowsItsFrames == MarksArrive => (Spec => []PendingShowsItsFrame)
<1>1. CASE MarksArrive
  <2>1. ASSUME Inv PROVE PendingShowsItsFrame
    BY <2>1 DEF Inv, PipelineInv, PendingShowsItsFrame
  <2>2. Spec => []Inv
    BY <1>1, PipelineInvariant
  <2>3. QED  BY <2>1, <2>2, PTL
<1>2. QED  BY <1>1

\* In the composed system wait_for_present_idle returns to an idle presenter.
THEOREM PipelineWaitsReturnIdle == MarksArrive => (Spec => IdleMeansIdle)
<1>1. CASE MarksArrive
  <2>1. ASSUME Inv, [Next]_vars
        PROVE  [idle_wait = "retire" /\ idle_wait' = "none" => pending = <<>> /\ on_gpu = {}]_(P!vars)
    BY <2>1, PresenterKept DEF Inv, PresenterHolds
  <2>2. Spec => []Inv
    BY <1>1, PipelineInvariant
  <2>3. QED  BY <2>1, <2>2, PTL DEF Spec, IdleMeansIdle, P!IdleMeansIdle
<1>2. QED  BY <1>1

=============================================================================
