---------------------------- MODULE PipelineOrder ---------------------------
(***************************************************************************)
(* The step of SeqInv, HurryInv and CaptureInv: the order of sequences and *)
(* marks through the channels of FramePipeline.                            *)
(*                                                                         *)
(* That a stop mark finds its capture open rests on the order of the marks *)
(* through the channel.                                                    *)
(***************************************************************************)
EXTENDS PipelinePlans

-----------------------------------------------------------------------------
(* The sequences ascend *)

\* What is left only shrinks, but for what a step blocks on and what a failed
\* replay leaves.
LEMMA LeftMoves ==
    ASSUME PipelineInv, [Next]_vars, ~receive,
           NEW y \in Left', y \notin {"draining", "present_idle_wait", "inline", "present_idle", "fail_reply"}
    PROVE  y \in Left
<1> USE DEF PipelineInv
<1>1. CASE UNCHANGED todo
  BY <1>1 DEF Left
<1>2. ASSUME NEW x \in Steps, At(x), Step PROVE y \in Left
  <2>1. todo # <<>>
    BY <1>2 DEF At
  <2>2. QED  BY <1>2, <2>1, StepLeft
<1>3. CASE UNCHANGED msg /\ At("drain") /\ Block("draining")
  BY <1>3, BlockPlan
<1>4. CASE UNCHANGED msg /\ At("present_idle") /\ Block("present_idle_wait")
  BY <1>4, BlockPlan
<1>5. CASE UNCHANGED msg /\ At("submit") /\ Block("inline")
  BY <1>5, BlockPlan
<1>6. CASE UNCHANGED msg /\ At("replay") /\ todo' = CaptureStop(msg) \o <<"fail_reply">>
  <2>1. Marked(msg)
    BY DEF CaptureInv
  <2>2. QED  BY <1>6, <2>1, FailedReplay DEF Given
<1>7. CASE reply
  <2>1. (At("reply") \/ At("drop_reply") \/ At("fail_reply")) /\ Step
    BY <1>7 DEF reply
  <2>2. QED  BY <2>1, LastStep DEF Replies
<1>8. QED
  <2>1. ASSUME \E x \in Steps : At(x) /\ Step PROVE y \in Left
    BY <1>2, <2>1
  <2>2. QED  BY <1>1, <1>3, <1>4, <1>5, <1>6, <1>7, <2>1, Moves

\* A frame is submitted once.
LEMMA SubmitsOnce ==
    ASSUME TypeOK, PlanInv, At("submit"), UNCHANGED msg, Step \/ Block("inline")
    PROVE  "submit" \notin Left'
<1>1. Stage("submit", msg) = 6
  BY Stages
<1>2. CASE Step
  <2>1. todo # <<>> /\ Head(todo) = "submit"
    BY DEF At
  <2>2. QED  BY <1>1, <1>2, <2>1, StepLeft, SMTT(30)
<1>3. CASE Block("inline")
  BY <1>1, <1>3, BlockPlan, SMTT(30)
<1>4. QED  BY <1>2, <1>3

\* Where a submission is taken up.
LEMMA Submits ==
    ASSUME PipelineInv, [Next]_vars
    PROVE  \/ UNCHANGED <<submit_seq, work>>
           \/ /\ work # <<>> /\ work' = <<>> /\ submit_seq' \in {submit_seq, work[1].seq}
              /\ UNCHANGED <<msg, todo>>
           \/ /\ At("submit") /\ work = <<>> /\ work' = <<>> /\ submit_seq' \in {submit_seq, msg.seq}
              /\ UNCHANGED msg /\ (Step \/ Block("inline"))
           \/ /\ At("submit") /\ work = <<>> /\ work' = <<Item>> /\ UNCHANGED submit_seq
              /\ UNCHANGED msg /\ Step
<1> USE DEF PipelineInv
<1>1. UNCHANGED presentVars => UNCHANGED submit_seq
  BY DEF presentVars
<1>2. ASSUME NEW hurry, P!set_wait_policy(hurry) PROVE UNCHANGED submit_seq
  BY <1>2 DEF P!set_wait_policy, P!NotifySubmitCv
<1>3. CASE Application
  BY <1>1, <1>2, <1>3 DEF Application, present, request, hurry_presentation, shutdown, payloadVars
<1>4. CASE Api
  BY <1>1, <1>4 DEF Api, CheckStatus, send, destroy_command_queue, Destroyed, P!stop_and_join,
                    P!NotifySubmitCv, payloadVars
<1>5. CASE Encoder /\ ~submit_sync /\ ~dispatch_submit
  <2>1. UNCHANGED work
    BY <1>5 DEF Encoder, receive, drain_submit_thread, Drained, drain_presentation, capture, replay,
                acquire_clean_payload, set_present_wait_policy, wait_for_gpu_retire, reply, exit, payloadVars
  <2>2. UNCHANGED presentVars \/ P!set_wait_policy(TRUE) \/ P!set_wait_policy(FALSE) \/ P!StartIdleWait
    BY <1>5 DEF Encoder, receive, drain_submit_thread, Drained, drain_presentation, capture, replay,
                acquire_clean_payload, set_present_wait_policy, wait_for_gpu_retire, reply, exit
  <2>3. P!StartIdleWait => UNCHANGED submit_seq
    BY DEF P!StartIdleWait, P!submitVars
  <2>4. QED  BY <1>1, <1>2, <2>1, <2>2, <2>3
<1>6. CASE submit_sync
  <2>1. CASE UNCHANGED presentVars
    BY <1>1, <1>6, <2>1 DEF submit_sync
  <2>2. CASE At("submit") /\ Sync /\ P!StartSubmit(Item.seq, Item.presents) /\ Block("inline")
    <3>1. submit_seq' = msg.seq
      BY <2>2 DEF P!StartSubmit, Item
    <3>2. in_flight = 0
      <4>1. CASE capturing
        BY <4>1 DEF PayloadInv
      <4>2. CASE msg.kind # "queue"
        BY <2>2, <4>2, AloneAt DEF Alone
      <4>3. QED  BY <2>2, <4>1, <4>2 DEF Sync
    <3>3. work = <<>>
      BY <3>2, InFlight
    <3>4. QED  BY <1>6, <2>2, <3>1, <3>3 DEF submit_sync
  <2>3. QED  BY <1>6, <2>1, <2>2 DEF submit_sync, execute_submit
<1>7. CASE dispatch_submit
  BY <1>1, <1>7 DEF dispatch_submit
<1>8. CASE Submitting
  <2>1. CASE submit_thread_main
    <3>1. UNCHANGED <<msg, todo>>
      BY <2>1 DEF submit_thread_main, encoderVars
    <3>2. CASE UNCHANGED <<presentVars, work>>
      BY <1>1, <3>2
    <3>3. CASE work # <<>> /\ work' = <<>> /\ execute_submit(Head(work))
      <4>1. Head(work) = work[1]
        BY <3>3, Typed, SMTT(30)
      <4>2. submit_seq' \in {submit_seq, work[1].seq}
        BY <1>1, <3>3, <4>1 DEF execute_submit, P!StartSubmit
      <4>3. QED  BY <3>1, <3>3, <4>2
    <3>4. QED  BY <2>1, <3>2, <3>3 DEF submit_thread_main
  <2>2. CASE P!Submit /\ UNCHANGED pipelineVars
    BY <2>2 DEF P!Submit, P!resolve_present_conflict, P!SubmitWakes, P!CommitRender, P!push, P!WaitFor,
                P!snapshot_into, pipelineVars, payloadVars
  <2>3. QED  BY <1>8, <2>1, <2>2 DEF Submitting
<1>9. CASE Presenting
  BY <1>9 DEF Presenting, P!present_frame, P!LookForPacket, P!StopPresenting, P!LeaveGate, P!hold_until,
              P!CheckWindow, P!nextDrawable, P!CommitPresent, P!pop_and_drop, P!DropFront,
              P!NotifySubmitCv, P!HoldTimesOut, P!submitVars, pipelineVars, payloadVars
<1>10. CASE Waiting
  BY <1>10 DEF Waiting, P!IdleWait, P!IdleWaitWakes, P!EndIdleWait, P!GpuEnds, P!submitVars,
               pipelineVars, payloadVars
<1>11. CASE UNCHANGED vars
  BY <1>1, <1>11 DEF vars, payloadVars
<1>12. QED
  BY <1>3, <1>4, <1>5, <1>6, <1>7, <1>8, <1>9, <1>10, <1>11 DEF Next, Ended

LEMMA WorkTyped ==
    ASSUME TypeOK
    PROVE  \A i \in 1..Len(work) : work[i].seq \in Nat
<1>1. \A i \in 1..Len(work) : work[i].seq \in 1..MaxSeq
  BY Typed
<1>2. \A n \in 1..MaxSeq : n \in Nat
  BY PipelineAssumption
<1>3. QED  BY <1>1, <1>2

\* What is behind a later frame stays behind it.
LEMMA SubmitOrder ==
    ASSUME PipelineInv, [Next]_vars
    PROVE  /\ \A seq \in Nat : msg.seq < seq /\ Behind(seq) => Behind(seq)'
           /\ \A i \in 1..Len(work') : submit_seq' < work'[i].seq
           /\ ~receive /\ "submit" \in Left' => msg' = msg /\ Behind(msg.seq)'
<1> USE DEF PipelineInv
<1>1. /\ msg.seq \in Nat /\ submit_seq \in Nat
      /\ \A i \in 1..Len(work) : work[i].seq \in Nat /\ submit_seq < work[i].seq
      /\ "submit" \in Left => Behind(msg.seq)
  <2>1. \A i \in 1..Len(work) : work[i].seq \in Nat
    BY WorkTyped
  <2>2. QED  BY <2>1, Typed DEF SeqInv
<1>2. ~receive /\ "submit" \in Left' => "submit" \in Left /\ msg' = msg
  <2>1. reply => "submit" \notin Left'
    <3>1. reply => (At("reply") \/ At("drop_reply") \/ At("fail_reply")) /\ Step
      BY DEF reply
    <3>2. QED  BY <3>1, LastStep DEF Replies
  <2>2. ~receive /\ ~reply => msg' = msg
    BY Moves
  <2>3. QED  BY <2>1, <2>2, LeftMoves
<1>3. CASE UNCHANGED <<submit_seq, work>>
  BY <1>1, <1>2, <1>3 DEF Behind
<1>4. CASE /\ work # <<>> /\ work' = <<>> /\ submit_seq' \in {submit_seq, work[1].seq}
           /\ UNCHANGED <<msg, todo>>
  <2>1. 1 \in 1..Len(work)
    BY <1>4, Typed, SMTT(30)
  <2>2. Len(work') = 0 /\ 1..Len(work') = {}
    BY <1>4
  <2>3. \A seq \in Nat : Behind(seq) => submit_seq' < seq
    BY <1>1, <1>4, <2>1 DEF Behind
  <2>4. \A seq \in Nat : Behind(seq) => Behind(seq)'
    BY <2>2, <2>3 DEF Behind
  <2>5. QED  BY <1>1, <1>2, <2>2, <2>4
<1>5. CASE /\ At("submit") /\ work = <<>> /\ work' = <<>> /\ submit_seq' \in {submit_seq, msg.seq}
           /\ UNCHANGED msg /\ (Step \/ Block("inline"))
  <2>1. "submit" \notin Left'
    BY <1>5, SubmitsOnce
  <2>2. Len(work') = 0 /\ 1..Len(work') = {}
    BY <1>5
  <2>3. \A seq \in Nat : msg.seq < seq /\ Behind(seq) => submit_seq' < seq
    BY <1>1, <1>5 DEF Behind
  <2>4. QED  BY <2>1, <2>2, <2>3 DEF Behind
<1>6. CASE /\ At("submit") /\ work = <<>> /\ work' = <<Item>> /\ UNCHANGED submit_seq
           /\ UNCHANGED msg /\ Step
  <2>1. "submit" \notin Left' /\ "submit" \in Left
    BY <1>6, SubmitsOnce, AtFirst
  <2>2. Len(work') = 1 /\ work'[1].seq = msg.seq
    BY <1>6 DEF Item
  <2>3. \A i \in 1..Len(work') : work'[i].seq = msg.seq
    BY <2>2, SMTT(30)
  <2>4. submit_seq < msg.seq
    BY <1>1, <2>1 DEF Behind
  <2>5. \A i \in 1..Len(work') : submit_seq' < work'[i].seq
    BY <1>6, <2>3, <2>4
  <2>6. \A seq \in Nat : msg.seq < seq /\ Behind(seq) => Behind(seq)'
    BY <1>6, <2>3 DEF Behind
  <2>7. QED  BY <2>1, <2>5, <2>6
<1>7. QED  BY <1>3, <1>4, <1>5, <1>6, Submits

LEMMA SeqStep ==
    ASSUME PipelineInv, [Next]_vars
    PROVE  SeqInv'
<1> USE DEF PipelineInv
<1> DEFINE After(seq) == submit_seq' < seq /\ \A i \in 1..Len(work') : work'[i].seq < seq
<1>1. /\ \A seq \in Nat : msg.seq < seq /\ Behind(seq) => After(seq)
      /\ \A i \in 1..Len(work') : submit_seq' < work'[i].seq
      /\ ~receive /\ "submit" \in Left' => msg' = msg /\ After(msg.seq)
  <2>1. ~receive /\ "submit" \in Left' => msg' = msg /\ After(msg.seq)
    BY SubmitOrder DEF Behind
  <2>2. \A seq \in Nat : msg.seq < seq /\ Behind(seq) => After(seq)
    BY SubmitOrder DEF Behind
  <2>3. QED  BY <2>1, <2>2, SubmitOrder
<1>2. /\ next_seq \in Nat /\ next_seq > 0 /\ msg.seq \in Nat /\ api_msg.seq \in Nat /\ Len(channel) \in Nat
      /\ \A i \in 1..Len(channel) : channel[i].seq \in Nat
  BY Typed, SMTT(30)
<1>3. /\ Behind(next_seq) /\ msg.seq < next_seq /\ api_msg.seq < next_seq
      /\ \A i \in 1..Len(channel) :
             /\ channel[i].seq < next_seq
             /\ channel[i].kind \in Frames => Behind(channel[i].seq) /\ msg.seq < channel[i].seq
      /\ \A i, j \in 1..Len(channel) :
             i < j /\ channel[j].kind \in Frames => channel[i].seq < channel[j].seq
      /\ api \in {"check", "sending"} /\ api_msg.kind \in Frames =>
             /\ Behind(api_msg.seq) /\ msg.seq < api_msg.seq
             /\ \A i \in 1..Len(channel) : channel[i].seq < api_msg.seq
  BY DEF SeqInv
<1>4. /\ After(next_seq)
      /\ \A i \in 1..Len(channel) : channel[i].kind \in Frames => After(channel[i].seq)
      /\ api \in {"check", "sending"} /\ api_msg.kind \in Frames => After(api_msg.seq)
  <2> HIDE DEF After
  <2>1. QED  BY <1>1, <1>2, <1>3
<1>5. ASSUME After(next_seq'), msg'.seq < next_seq', api_msg'.seq < next_seq',
             "submit" \in Left' => After(msg'.seq),
             \A i \in 1..Len(channel') : channel'[i].seq < next_seq',
             \A i \in 1..Len(channel') : channel'[i].kind \in Frames =>
                 After(channel'[i].seq) /\ msg'.seq < channel'[i].seq,
             \A i, j \in 1..Len(channel') :
                 i < j /\ channel'[j].kind \in Frames => channel'[i].seq < channel'[j].seq,
             api' \in {"check", "sending"} /\ api_msg'.kind \in Frames =>
                 /\ After(api_msg'.seq) /\ msg'.seq < api_msg'.seq
                 /\ \A i \in 1..Len(channel') : channel'[i].seq < api_msg'.seq
      PROVE  SeqInv'
  BY <1>1, <1>5 DEF SeqInv, Behind
<1> HIDE DEF After
<1>6. ASSUME UNCHANGED <<next_seq, channel>>, ~receive, msg'.seq \in Nat, msg'.seq <= msg.seq,
             api_msg'.seq < next_seq,
             api' \in {"check", "sending"} /\ api_msg'.kind \in Frames =>
                 api \in {"check", "sending"} /\ api_msg' = api_msg
      PROVE  SeqInv'
  <2>1. \A n \in Nat : msg.seq < n => msg'.seq < n
    BY <1>2, <1>6, SMTT(30)
  <2>2. "submit" \in Left' => After(msg'.seq)
    BY <1>1, <1>6
  <2>3. \A i \in 1..Len(channel') : channel'[i].kind \in Frames =>
                 After(channel'[i].seq) /\ msg'.seq < channel'[i].seq
    BY <1>2, <1>3, <1>4, <1>6, <2>1
  <2>4. api' \in {"check", "sending"} /\ api_msg'.kind \in Frames =>
                 /\ After(api_msg'.seq) /\ msg'.seq < api_msg'.seq
                 /\ \A i \in 1..Len(channel') : channel'[i].seq < api_msg'.seq
    BY <1>2, <1>3, <1>4, <1>6, <2>1
  <2>5. QED  BY <1>2, <1>3, <1>4, <1>5, <1>6, <2>1, <2>2, <2>3, <2>4
<1>7. ASSUME NEW kind \in Frames, NEW marks \in Marks(kind), Stamp(kind, marks),
             UNCHANGED <<msg, channel>>, ~receive
      PROVE  SeqInv'
  <2>1. api_msg'.seq = next_seq /\ next_seq' = next_seq + 1
    BY <1>7, StampFacts
  <2>2. \A n \in Nat : n < next_seq => n < next_seq'
    BY <1>2, <2>1, SMTT(30)
  <2>3. next_seq < next_seq'
    BY <1>2, <2>1, SMTT(30)
  <2>4. After(next_seq')
    <3>1. next_seq' \in Nat /\ msg.seq < next_seq'
      BY <1>2, <1>3, <2>1, SMTT(30)
    <3>2. Behind(next_seq')
      <4>1. /\ submit_seq \in Nat /\ submit_seq < next_seq
            /\ \A i \in 1..Len(work) : work[i].seq \in Nat /\ work[i].seq < next_seq
        <5>1. \A i \in 1..Len(work) : work[i].seq \in Nat
          BY WorkTyped
        <5>2. QED  BY <1>3, <5>1, Typed DEF Behind
      <4>2. QED  BY <2>2, <4>1 DEF Behind
    <3>3. QED  BY <1>1, <3>1, <3>2
  <2>5. "submit" \in Left' => After(msg'.seq)
    BY <1>1, <1>7
  <2>6. \A i \in 1..Len(channel') : channel'[i].seq < next_seq'
    BY <1>2, <1>3, <1>7, <2>2
  <2>7. msg'.seq < next_seq' /\ api_msg'.seq < next_seq'
    BY <1>2, <1>3, <1>7, <2>1, <2>2, <2>3
  <2>8. \A i \in 1..Len(channel') : channel'[i].kind \in Frames =>
                 After(channel'[i].seq) /\ msg'.seq < channel'[i].seq
    BY <1>3, <1>4, <1>7
  <2>9. /\ After(api_msg'.seq) /\ msg'.seq < api_msg'.seq
        /\ \A i \in 1..Len(channel') : channel'[i].seq < api_msg'.seq
    BY <1>3, <1>4, <1>7, <2>1
  <2>10. QED  BY <1>3, <1>5, <1>7, <2>4, <2>5, <2>6, <2>7, <2>8, <2>9
<1>8. CASE Application
  <2>1. ~receive /\ UNCHANGED <<msg, channel>>
    <3>1. UNCHANGED <<msg, channel>>
      BY <1>8 DEF Application, present, request, shutdown, encoderVars
    <3>2. QED  BY <3>1, MessageFacts, ReceivedPlan DEF receive
  <2>2. CASE present
    BY <1>7, <2>1, <2>2 DEF present, Frames
  <2>3. ASSUME NEW kind \in Requests, request(kind) PROVE SeqInv'
    <3>1. CASE kind \in Frames
      BY <1>7, <2>1, <2>3, <3>1, Requested
    <3>2. CASE kind \notin Frames
      <4>1. api_msg'.kind \notin Frames /\ api_msg'.seq = 0 /\ UNCHANGED next_seq
        BY <2>3, <3>2, Requested
      <4>2. QED  BY <1>2, <1>6, <2>1, <4>1, SMTT(30)
    <3>3. QED  BY <3>1, <3>2
  <2>4. CASE shutdown
    <3>1. api_msg'.kind \notin Frames /\ api_msg'.seq = 0 /\ UNCHANGED next_seq
      BY <2>4, MessageFacts DEF shutdown, Frames
    <3>2. QED  BY <1>2, <1>6, <2>1, <3>1, SMTT(30)
  <2>5. QED  BY <1>8, <2>2, <2>3, <2>4 DEF Application
<1>9. CASE CheckStatus \/ destroy_command_queue \/ Destroyed
  <2>1. UNCHANGED <<msg, channel, next_seq>> /\ (api_msg' = api_msg \/ api_msg'.seq = 0)
    BY <1>9, MessageFacts DEF CheckStatus, destroy_command_queue, Destroyed, encoderVars
  <2>2. api' \in {"check", "sending"} => api = "check" /\ api_msg' = api_msg
    BY <1>9 DEF CheckStatus, destroy_command_queue, Destroyed
  <2>3. ~receive
    BY <2>1, MessageFacts, ReceivedPlan DEF receive
  <2>4. QED  BY <1>2, <1>3, <1>6, <2>1, <2>2, <2>3, SMTT(30)
<1>10. CASE send
  <2>1. /\ Len(channel') = Len(channel) + 1 /\ channel'[Len(channel) + 1] = api_msg
        /\ \A i \in 1..Len(channel) : channel'[i] = channel[i]
        /\ \A i \in 1..Len(channel') : i \in 1..Len(channel) \/ i = Len(channel) + 1
    BY <1>10, Sent
  <2>2. api = "sending" /\ UNCHANGED <<msg, next_seq>> /\ api' \in {"idle", "awaiting"}
    BY <1>10 DEF send, encoderVars
  <2>3. api_msg'.seq = api_msg.seq \/ api_msg'.seq = 0
    BY <1>10, MessageFacts DEF send
  <2>4. ~receive
    BY <2>2, MessageFacts, ReceivedPlan DEF receive
  <2>5. "submit" \in Left' => After(msg'.seq)
    BY <1>1, <2>4
  <2>6. \A i \in 1..Len(channel') : channel'[i].seq < next_seq'
    BY <1>3, <2>1, <2>2
  <2>7. \A i \in 1..Len(channel') : channel'[i].kind \in Frames =>
                 After(channel'[i].seq) /\ msg'.seq < channel'[i].seq
    BY <1>3, <1>4, <2>1, <2>2
  <2>8. ASSUME NEW i \in 1..Len(channel'), NEW j \in 1..Len(channel'), i < j, channel'[j].kind \in Frames
        PROVE  channel'[i].seq < channel'[j].seq
    <3>1. i \in 1..Len(channel)
      BY <1>2, <2>1, <2>8, SMTT(30)
    <3>2. CASE j \in 1..Len(channel)
      BY <1>3, <2>1, <2>8, <3>1, <3>2
    <3>3. CASE j = Len(channel) + 1
      BY <1>3, <2>1, <2>2, <2>8, <3>1, <3>3
    <3>4. QED  BY <2>1, <3>2, <3>3
  <2>9. msg'.seq < next_seq' /\ api_msg'.seq < next_seq' /\ After(next_seq')
    BY <1>2, <1>3, <1>4, <2>2, <2>3
  <2>10. QED  BY <1>5, <2>2, <2>5, <2>6, <2>7, <2>8, <2>9
<1>11. CASE receive
  <2>1. /\ 1 \in 1..Len(channel) /\ msg' = channel[1]
        /\ Len(channel') = Len(channel) - 1
        /\ \A i \in 1..Len(channel') : i + 1 \in 1..Len(channel) /\ channel'[i] = channel[i + 1]
    BY <1>11, Received DEF receive
  <2>2. UNCHANGED <<api, api_msg, next_seq>>
    BY <1>11 DEF receive, apiVars
  <2>3. "submit" \in Left' => After(msg'.seq)
    <3>1. "submit" \in Left' => msg'.kind \in Frames
      BY <1>11, ReceivedPlan, SMTT(30) DEF Given
    <3>2. QED  BY <1>4, <2>1, <3>1
  <2>4. \A i \in 1..Len(channel') : channel'[i].seq < next_seq'
    BY <1>3, <2>1, <2>2
  <2>5. ASSUME NEW i \in 1..Len(channel'), channel'[i].kind \in Frames
        PROVE  After(channel'[i].seq) /\ msg'.seq < channel'[i].seq
    <3>1. i + 1 \in 1..Len(channel) /\ channel'[i] = channel[i + 1] /\ 1 < i + 1
      BY <2>1, <2>5
    <3>2. QED  BY <1>3, <1>4, <2>1, <2>5, <3>1
  <2>6. ASSUME NEW i \in 1..Len(channel'), NEW j \in 1..Len(channel'), i < j, channel'[j].kind \in Frames
        PROVE  channel'[i].seq < channel'[j].seq
    <3>1. /\ i + 1 \in 1..Len(channel) /\ channel'[i] = channel[i + 1]
          /\ j + 1 \in 1..Len(channel) /\ channel'[j] = channel[j + 1]
      BY <2>1
    <3>2. i + 1 < j + 1
      BY <2>6
    <3>3. QED  BY <1>3, <2>6, <3>1, <3>2
  <2>7. api' \in {"check", "sending"} /\ api_msg'.kind \in Frames =>
                 /\ After(api_msg'.seq) /\ msg'.seq < api_msg'.seq
                 /\ \A i \in 1..Len(channel') : channel'[i].seq < api_msg'.seq
    BY <1>3, <1>4, <2>1, <2>2
  <2>8. msg'.seq < next_seq' /\ api_msg'.seq < next_seq' /\ After(next_seq')
    BY <1>3, <1>4, <2>1, <2>2
  <2>9. QED  BY <1>5, <2>3, <2>4, <2>5, <2>6, <2>7, <2>8
<1>12. CASE reply
  <2>1. msg'.seq = 0 /\ UNCHANGED <<channel, next_seq>>
    BY <1>12, MessageFacts DEF reply
  <2>2. \/ UNCHANGED <<api, api_msg>>
        \/ api' = "idle" /\ api_msg'.seq = 0
    BY <1>12, MessageFacts DEF reply
  <2>3. ~receive
    <3>1. todo # <<>>
      BY <1>12 DEF reply, At
    <3>2. QED  BY <3>1, MessageFacts DEF receive, PlanInv
  <2>4. QED  BY <1>2, <1>3, <1>6, <2>1, <2>2, <2>3, SMTT(30)
<1>13. CASE exit
  <2>1. UNCHANGED <<msg, channel, next_seq, api_msg>> /\ api' = "joined"
    BY <1>13 DEF exit
  <2>2. ~receive
    BY <2>1, MessageFacts, ReceivedPlan DEF receive
  <2>3. QED  BY <1>2, <1>3, <1>6, <2>1, <2>2, SMTT(30)
<1>14. CASE UNCHANGED <<api, api_msg, next_seq, marked, msg, channel>>
  <2>1. ~receive
    BY <1>14, MessageFacts, ReceivedPlan DEF receive
  <2>2. QED  BY <1>2, <1>3, <1>6, <1>14, <2>1, SMTT(30)
<1>15. QED
  BY <1>8, <1>9, <1>10, <1>11, <1>12, <1>13, <1>14, SameMessages DEF Api

-----------------------------------------------------------------------------
(* Who hurries the presenter *)

\* Only a request and a drain raise HURRY.
LEMMA HurryRises ==
    ASSUME PipelineInv, [Next]_vars, "HURRY" \in flags', "HURRY" \notin flags
    PROVE  \/ \E kind \in Requests \intersect Hurried : request(kind)
           \/ At("drain") /\ Block("draining") /\ UNCHANGED msg
<1>1. UNCHANGED presentVars => UNCHANGED flags
  BY DEF presentVars
<1>2. ASSUME NEW seq, NEW presents, P!StartSubmit(seq, presents) PROVE UNCHANGED flags
  BY <1>2 DEF P!StartSubmit
<1>3. P!set_wait_policy(FALSE) => flags' = flags \ {"HURRY"}
  BY DEF P!set_wait_policy
<1>4. CASE Application
  BY <1>1, <1>4 DEF Application, present, request, shutdown
<1>5. CASE Api
  <2>1. UNCHANGED presentVars \/ P!stop_and_join
    BY <1>5 DEF Api, CheckStatus, send, destroy_command_queue, Destroyed
  <2>2. P!stop_and_join => flags' = flags \union {"STOP"}
    BY DEF P!stop_and_join
  <2>3. QED  BY <1>1, <2>1, <2>2
<1>6. CASE Encoder /\ ~drain_submit_thread
  <2>1. \/ UNCHANGED presentVars \/ P!set_wait_policy(FALSE) \/ P!StartIdleWait
        \/ \E seq, presents : P!StartSubmit(seq, presents)
    BY <1>6 DEF Encoder, receive, Drained, drain_presentation, capture, replay,
                acquire_clean_payload, dispatch_submit, submit_sync, execute_submit,
                set_present_wait_policy, wait_for_gpu_retire, reply, exit
  <2>2. P!StartIdleWait => flags' = flags \union {"DRAIN"}
    BY DEF P!StartIdleWait
  <2>3. (\E seq, presents : P!StartSubmit(seq, presents)) => flags' = flags
    BY <1>2
  <2>4. flags' \in {flags, flags \ {"HURRY"}, flags \union {"DRAIN"}}
    BY <1>1, <1>3, <2>1, <2>2, <2>3
  <2>5. QED  BY <2>4
<1>7. CASE drain_submit_thread
  BY <1>1, <1>7 DEF drain_submit_thread
<1>8. CASE Submitting
  <2>1. CASE submit_thread_main
    BY <1>1, <1>2, <2>1 DEF submit_thread_main, execute_submit
  <2>2. CASE P!Submit
    BY <2>2 DEF P!Submit, P!resolve_present_conflict, P!SubmitWakes, P!CommitRender, P!push, P!WaitFor,
                P!snapshot_into
  <2>3. QED  BY <1>8, <2>1, <2>2 DEF Submitting
<1>9. CASE Presenting
  BY <1>9 DEF Presenting, P!present_frame, P!LookForPacket, P!StopPresenting, P!LeaveGate, P!hold_until,
              P!CheckWindow, P!nextDrawable, P!CommitPresent, P!pop_and_drop, P!DropFront, P!HoldTimesOut
<1>10. CASE Waiting
  <2>1. flags' = flags \/ flags' = flags \ {"DRAIN"}
    BY <1>10 DEF Waiting, P!IdleWait, P!IdleWaitWakes, P!EndIdleWait, P!GpuEnds
  <2>2. QED  BY <2>1
<1>11. CASE UNCHANGED vars
  BY <1>1, <1>11 DEF vars
<1>12. QED
  BY <1>4, <1>5, <1>6, <1>7, <1>8, <1>9, <1>10, <1>11 DEF Next, Ended

\* A caller's hurry ends with its message.
LEMMA HurryKept ==
    ASSUME PipelineInv, [Next]_vars, ~receive, ~reply, ~set_present_wait_policy,
           {"policy_down", "fail_reply"} \intersect Left # {}
    PROVE  {"policy_down", "fail_reply"} \intersect Left' # {}
<1> USE DEF PipelineInv
<1>1. CASE UNCHANGED todo
  BY <1>1 DEF Left
<1>2. ASSUME NEW x \in Steps, At(x), Step, x \notin {"policy_down", "fail_reply"}
      PROVE  {"policy_down", "fail_reply"} \intersect Left' # {}
  <2>1. todo # <<>> /\ Head(todo) = x
    BY <1>2 DEF At
  <2>2. Left = {x} \union Left'
    BY <1>2, <2>1, StepLeft
  <2>3. QED  BY <1>2, <2>2
<1>3. CASE UNCHANGED msg /\ At("drain") /\ Block("draining")
  BY <1>3, BlockPlan
<1>4. CASE UNCHANGED msg /\ At("present_idle") /\ Block("present_idle_wait")
  BY <1>4, BlockPlan
<1>5. CASE UNCHANGED msg /\ At("submit") /\ Block("inline")
  BY <1>5, BlockPlan
<1>6. CASE UNCHANGED msg /\ At("replay") /\ todo' = CaptureStop(msg) \o <<"fail_reply">>
  <2>1. Marked(msg)
    BY DEF CaptureInv
  <2>2. QED  BY <1>6, <2>1, FailedReplay
<1>7. ASSUME NEW x \in Steps, At(x), Step, x \in {"policy_down", "fail_reply"} PROVE UNCHANGED todo
  <2>1. \A y : At(y) => y = x
    BY <1>7 DEF At
  <2>2. ~Encoder
    <3>1. ~receive /\ ~reply /\ ~set_present_wait_policy
      OBVIOUS
    <3>2. QED
      BY <1>7, <2>1, <3>1 DEF Encoder, drain_submit_thread, Drained, drain_presentation, capture, replay,
                acquire_clean_payload, dispatch_submit, submit_sync, wait_for_gpu_retire, exit
  <2>3. QED
    BY <2>2 DEF Next, Application, present, request, shutdown, Api, CheckStatus, send, destroy_command_queue,
              Destroyed, Submitting, submit_thread_main, Presenting, Waiting, Ended, pipelineVars, vars,
              encoderVars
<1>8. QED
  <2>1. ASSUME \E x \in Steps : At(x) /\ Step
        PROVE  {"policy_down", "fail_reply"} \intersect Left' # {}
    <3>1. PICK x \in Steps : At(x) /\ Step
      BY <2>1
    <3>2. QED  BY <1>1, <1>2, <1>7, <3>1
  <2>2. QED  BY <1>1, <1>3, <1>4, <1>5, <1>6, <2>1, Moves

\* A device that failed stays failed.
LEMMA FailureStays ==
    ASSUME PipelineInv, [Next]_vars, ~failure'
    PROVE  ~failure
<1>1. CASE reply
  BY <1>1 DEF reply
<1>2. CASE submit_sync \/ submit_thread_main
  BY <1>2 DEF submit_sync, submit_thread_main, execute_submit
<1>3. CASE Encoder /\ ~reply /\ ~submit_sync
  BY <1>3 DEF Encoder, receive, drain_submit_thread, Drained, drain_presentation, capture, replay,
              acquire_clean_payload, dispatch_submit, set_present_wait_policy, wait_for_gpu_retire, exit
<1>4. CASE Application \/ Api
  BY <1>4 DEF Application, present, request, shutdown, Api, CheckStatus, send,
              destroy_command_queue, Destroyed
<1>5. CASE UNCHANGED pipelineVars \/ UNCHANGED vars
  BY <1>5 DEF pipelineVars, vars
<1>6. QED
  BY <1>1, <1>2, <1>3, <1>4, <1>5 DEF Next, Encoder, Submitting, Presenting, Waiting, Ended

LEMMA HurryStep ==
    ASSUME PipelineInv, [Next]_vars
    PROVE  HurryInv'
<1> USE DEF PipelineInv
<1> DEFINE Ends == {"policy_down", "fail_reply"}
           Caller == /\ api \in {"check", "sending", "awaiting"} /\ api_msg.kind \in Hurried
                     /\ msg = api_msg => Ends \intersect Left # {}
<1>1. SUFFICES ASSUME "HURRY" \in flags', ~failure' PROVE At("draining")' \/ Caller'
  BY DEF HurryInv
<1>2. ~failure
  BY <1>1, FailureStays
<1>3. CASE "HURRY" \notin flags
  <2>1. ASSUME NEW kind \in Requests \intersect Hurried, request(kind) PROVE Caller'
    <3>1. api_msg'.kind = kind /\ api = "idle" /\ api' = "check" /\ UNCHANGED msg
      BY <2>1, Requested DEF request, encoderVars
    <3>2. msg.kind \in {"queue", "none"}
      BY <3>1 DEF ProtocolInv
    <3>3. QED  BY <3>1, <3>2 DEF Hurried
  <2>2. CASE At("drain") /\ Block("draining") /\ UNCHANGED msg
    BY <2>2, BlockPlan
  <2>3. QED  BY <1>1, <1>3, <2>1, <2>2, HurryRises
<1>4. CASE At("draining")
  <2>1. \A x : At(x) => x = "draining"
    BY <1>4 DEF At
  <2>2. ~receive
    BY <1>4, MessageFacts DEF receive, PlanInv, At
  <2>3. ~Drained
    BY <1>1 DEF Drained, P!set_wait_policy
  <2>4. ~Encoder
    BY <2>1, <2>2, <2>3 DEF Encoder, drain_submit_thread, drain_presentation, capture, replay,
                acquire_clean_payload, dispatch_submit, submit_sync, set_present_wait_policy,
                wait_for_gpu_retire, reply, exit
  <2>5. UNCHANGED todo
    BY <2>4 DEF Next, Application, present, request, shutdown, Api, CheckStatus, send, destroy_command_queue,
              Destroyed, Submitting, submit_thread_main, Presenting, Waiting, Ended, pipelineVars, vars,
              encoderVars
  <2>6. QED  BY <1>4, <2>5 DEF At
<1>5. CASE "HURRY" \in flags /\ ~At("draining")
  <2>1. Caller
    BY <1>2, <1>5 DEF HurryInv
  <2>2. ~Application /\ ~destroy_command_queue /\ ~Destroyed
    BY <2>1 DEF Application, present, request, shutdown, destroy_command_queue, Destroyed
  <2>3. CASE CheckStatus \/ send
    <3>1. UNCHANGED <<msg, todo>>
      BY <2>3 DEF CheckStatus, send, encoderVars
    <3>2. api' \in {"sending", "awaiting"} /\ api_msg' = api_msg
      BY <1>2, <2>1, <2>3 DEF CheckStatus, send, Hurried
    <3>3. Left' = Left
      BY <3>1 DEF Left
    <3>4. QED  BY <2>1, <3>1, <3>2, <3>3
  <2>4. CASE receive
    <3>1. UNCHANGED <<api, api_msg>>
      BY <2>4 DEF receive, apiVars
    <3>2. msg'.kind \in Hurried => Ends \intersect Left' # {}
      BY <2>4, ReceivedPlan DEF Given, Hurried, Frames
    <3>3. QED  BY <2>1, <3>1, <3>2
  <2>5. CASE reply
    <3>1. /\ msg' = NoMsg /\ NoMsg.kind = "none" /\ Step
          /\ At("reply") \/ At("drop_reply") \/ At("fail_reply")
      BY <2>5, MessageFacts DEF reply
    <3>2. At("reply")
      BY <1>1, <2>5, <3>1 DEF reply, At
    <3>3. Left = {"reply"}
      BY <3>1, <3>2, LastStep DEF Replies
    <3>4. api_msg # msg
      BY <2>1, <3>3
    <3>5. UNCHANGED <<api, api_msg>>
      BY <2>5, <3>4 DEF reply
    <3>6. QED  BY <2>1, <3>1, <3>5 DEF Hurried
  <2>6. CASE exit
    <3>1. "exit" \in Left
      BY <2>6, AtFirst DEF exit
    <3>2. msg.kind = "shutdown"
      BY <3>1 DEF PlanInv
    <3>3. msg = api_msg
      BY <2>1, <3>2 DEF ProtocolInv
    <3>4. QED  BY <2>1, <3>2, <3>3 DEF Hurried
  <2>7. CASE UNCHANGED <<api, api_msg, msg>> /\ ~receive /\ ~reply
    <3>1. ~set_present_wait_policy
      BY <1>1 DEF set_present_wait_policy, P!set_wait_policy
    <3>2. Ends \intersect Left # {} => Ends \intersect Left' # {}
      BY <2>7, <3>1, HurryKept
    <3>3. QED  BY <2>1, <2>7, <3>2
  <2>8. QED  BY <2>2, <2>3, <2>4, <2>5, <2>6, <2>7, SameMessages DEF Api
<1>6. QED  BY <1>3, <1>4, <1>5

-----------------------------------------------------------------------------
(* The capture's marks *)

LEMMA Unmarked ==
    ASSUME NEW m, m.marks = {}
    PROVE  Marked(m)
BY DEF Marked

MarksPart ==
    /\ Marked(msg) /\ Marked(api_msg)
    /\ \A p \in 1..Len(channel) : Marked(channel[p])
    /\ marked => Captures

LEMMA MarksStep ==
    ASSUME PipelineInv, [Next]_vars
    PROVE  MarksPart'
<1> USE DEF PipelineInv
<1>1. MarksPart
  BY DEF CaptureInv, MarksPart
<1>2. Marked(NoMsg)
  BY Unmarked, MessageFacts
<1>3. ASSUME Marked(msg'), Marked(api_msg'), UNCHANGED channel, marked' => Captures PROVE MarksPart'
  BY <1>1, <1>3 DEF MarksPart
<1>4. ASSUME NEW kind \in Frames, NEW marks \in Marks(kind), Stamp(kind, marks)
      PROVE  Marked(api_msg') /\ (marked' => Captures)
  <2>1. marked' = ((marked \/ "start" \in marks) /\ "stop" \notin marks) /\ (marks # {} => Captures)
    BY <1>4, StampFacts, MarkFacts
  <2>2. marked' => Captures
    BY <1>1, <2>1 DEF MarksPart
  <2>3. QED  BY <1>4, <2>2, StampFacts
<1>5. CASE present
  <2>1. PICK marks \in Marks("queue") : Stamp("queue", marks)
    BY <1>5 DEF present
  <2>2. UNCHANGED <<msg, channel>>
    BY <1>5 DEF present, encoderVars
  <2>3. Marked(api_msg') /\ (marked' => Captures)
    BY <1>4, <2>1 DEF Frames
  <2>4. QED  BY <1>1, <1>3, <2>2, <2>3 DEF MarksPart
<1>6. ASSUME NEW kind \in Requests, request(kind) PROVE MarksPart'
  <2>1. UNCHANGED <<msg, channel>>
    BY <1>6 DEF request, encoderVars
  <2>2. Marked(api_msg') /\ (marked' => Captures)
    <3>1. CASE kind \in Frames
      BY <1>4, <1>6, <3>1, Requested
    <3>2. CASE kind \notin Frames
      BY <1>1, <1>6, <3>2, Requested, Unmarked DEF MarksPart
    <3>3. QED  BY <3>1, <3>2
  <2>3. QED  BY <1>1, <1>3, <2>1, <2>2 DEF MarksPart
<1>7. CASE shutdown
  <2>1. UNCHANGED <<msg, channel, marked>> /\ api_msg'.marks = {}
    BY <1>7, MessageFacts DEF shutdown, encoderVars
  <2>2. Marked(api_msg')
    BY <2>1, Unmarked
  <2>3. QED  BY <1>1, <1>3, <2>1, <2>2 DEF MarksPart
<1>8. CASE CheckStatus \/ destroy_command_queue \/ Destroyed \/ exit
  <2>1. UNCHANGED <<msg, channel, marked>> /\ api_msg' \in {api_msg, NoMsg}
    BY <1>8 DEF CheckStatus, destroy_command_queue, Destroyed, exit, encoderVars
  <2>2. QED  BY <1>1, <1>2, <1>3, <2>1 DEF MarksPart
<1>9. CASE send
  <2>1. /\ Len(channel') = Len(channel) + 1 /\ channel'[Len(channel) + 1] = api_msg
        /\ \A i \in 1..Len(channel) : channel'[i] = channel[i]
        /\ \A i \in 1..Len(channel') : i \in 1..Len(channel) \/ i = Len(channel) + 1
    BY <1>9, Sent
  <2>2. UNCHANGED <<msg, marked>> /\ api_msg' \in {api_msg, NoMsg}
    BY <1>9 DEF send, encoderVars
  <2>3. \A p \in 1..Len(channel') : Marked(channel'[p])
    BY <1>1, <2>1 DEF MarksPart
  <2>4. QED  BY <1>1, <1>2, <2>2, <2>3 DEF MarksPart
<1>10. CASE receive
  <2>1. /\ 1 \in 1..Len(channel) /\ msg' = channel[1]
        /\ \A i \in 1..Len(channel') : i + 1 \in 1..Len(channel) /\ channel'[i] = channel[i + 1]
    BY <1>10, Received DEF receive
  <2>2. UNCHANGED <<api_msg, marked>>
    BY <1>10 DEF receive, apiVars
  <2>3. \A p \in 1..Len(channel') : Marked(channel'[p])
    BY <1>1, <2>1 DEF MarksPart
  <2>4. QED  BY <1>1, <2>1, <2>2, <2>3 DEF MarksPart
<1>11. CASE reply
  <2>1. msg' = NoMsg /\ UNCHANGED <<channel, marked>> /\ api_msg' \in {api_msg, NoMsg}
    BY <1>11 DEF reply
  <2>2. QED  BY <1>1, <1>2, <1>3, <2>1 DEF MarksPart
<1>12. CASE UNCHANGED <<api, api_msg, next_seq, marked, msg, channel>>
  BY <1>1, <1>3, <1>12 DEF MarksPart
<1>13. QED
  BY <1>5, <1>6, <1>7, <1>8, <1>9, <1>10, <1>11, <1>12, SameMessages DEF Application, Api

\* The capture a message leaves running goes on.
LEMMA RunsOnKept ==
    ASSUME PipelineInv, [Next]_vars, ~receive, ~failed_replay', RunsOn
    PROVE  RunsOn' /\ ~failed_replay
<1> USE DEF PipelineInv
<1>1. ~failed_replay /\ (replay => Step)
  <2>1. CASE replay
    BY <2>1, SMTT(30) DEF replay
  <2>2. CASE ~replay
    <3>1. UNCHANGED failed_replay
      BY <2>2 DEF Next, Application, present, request, shutdown, Api, CheckStatus, send,
                  destroy_command_queue, Destroyed, Encoder, receive, drain_submit_thread, Drained,
                  drain_presentation, capture, acquire_clean_payload, dispatch_submit, submit_sync,
                  set_present_wait_policy, wait_for_gpu_retire, reply, exit, Submitting, submit_thread_main,
                  Presenting, Waiting, Ended, pipelineVars, vars, encoderVars
    <3>2. QED  BY <2>2, <3>1
  <2>3. QED  BY <2>1, <2>2
<1>2. "capture_on" \in Left => "capture_off" \notin Left
  BY DEF PlanInv
<1>3. "capture_off" \notin Left => "capture_off" \notin Left'
  BY LeftMoves
<1>4. CASE capture
  <2>1. CASE At("capture_on") /\ capturing' = TRUE
    <3>1. "capture_on" \in Left
      BY <2>1, AtFirst
    <3>2. QED  BY <1>1, <1>2, <1>3, <2>1, <3>1 DEF RunsOn
  <2>2. CASE At("capture_off")
    <3>1. "capture_off" \in Left
      BY <2>2, AtFirst
    <3>2. QED  BY <1>2, <3>1 DEF RunsOn
  <2>3. QED  BY <1>4, <2>1, <2>2 DEF capture
<1>5. CASE ~capture
  <2>1. UNCHANGED capturing
    BY <1>5 DEF Next, Application, present, request, shutdown, Api, CheckStatus, send,
                destroy_command_queue, Destroyed, Encoder, receive, drain_submit_thread, Drained,
                drain_presentation, replay, acquire_clean_payload, dispatch_submit, submit_sync,
                set_present_wait_policy, wait_for_gpu_retire, reply, exit, Submitting, submit_thread_main,
                Presenting, Waiting, Ended, pipelineVars, vars, encoderVars
  <2>2. ASSUME "capture_on" \in Left PROVE "capture_on" \in Left'
    <3>1. CASE UNCHANGED todo
      BY <2>2, <3>1 DEF Left
    <3>2. ASSUME NEW x \in Steps, At(x), Step, x # "capture_on" PROVE "capture_on" \in Left'
      <4>1. todo # <<>> /\ Head(todo) = x
        BY <3>2 DEF At
      <4>2. Left = {x} \union Left'
        BY <3>2, <4>1, StepLeft
      <4>3. QED  BY <2>2, <3>2, <4>2
    <3>3. CASE UNCHANGED msg /\ At("drain") /\ Block("draining")
      BY <2>2, <3>3, BlockPlan
    <3>4. CASE UNCHANGED msg /\ At("present_idle") /\ Block("present_idle_wait")
      BY <2>2, <3>4, BlockPlan
    <3>5. CASE UNCHANGED msg /\ At("submit") /\ Block("inline")
      BY <2>2, <3>5, BlockPlan
    <3>6. ASSUME At("capture_on") PROVE UNCHANGED todo
      <4>1. \A y : At(y) => y = "capture_on"
        BY <3>6 DEF At
      <4>2. ~Encoder
        BY <1>5, <4>1 DEF Encoder, drain_submit_thread, Drained, drain_presentation, replay, reply,
                  acquire_clean_payload, dispatch_submit, submit_sync, set_present_wait_policy,
                  wait_for_gpu_retire, exit
      <4>3. QED
        BY <4>2 DEF Next, Application, present, request, shutdown, Api, CheckStatus, send,
                  destroy_command_queue, Destroyed, Submitting, submit_thread_main, Presenting, Waiting, Ended,
                  pipelineVars, vars, encoderVars
    <3>7. CASE reply
      <4>1. (At("reply") \/ At("drop_reply") \/ At("fail_reply")) /\ Step
        BY <3>7 DEF reply
      <4>2. QED  BY <2>2, <4>1, LastStep DEF Replies
    <3>8. ASSUME At("replay"), todo' = CaptureStop(msg) \o <<"fail_reply">> PROVE "capture_on" \in Left'
      <4>1. \A y : At(y) => y = "replay"
        BY <3>8 DEF At
      <4>2. CASE replay
        <5>1. Step
          BY <1>1, <4>2
        <5>2. QED  BY <3>2, <3>8, <5>1 DEF Steps
      <4>3. CASE ~replay
        <5>1. ~Encoder
          BY <4>1, <4>3 DEF Encoder, drain_submit_thread, Drained, drain_presentation, capture, reply,
                    acquire_clean_payload, dispatch_submit, submit_sync, set_present_wait_policy,
                    wait_for_gpu_retire, exit
        <5>2. UNCHANGED todo
          BY <5>1 DEF Next, Application, present, request, shutdown, Api, CheckStatus, send,
                    destroy_command_queue, Destroyed, Submitting, submit_thread_main, Presenting, Waiting,
                    Ended, pipelineVars, vars, encoderVars
        <5>3. QED  BY <3>1, <5>2
      <4>4. QED  BY <4>2, <4>3
    <3>9. ASSUME \E x \in Steps : At(x) /\ Step PROVE "capture_on" \in Left'
      <4>1. PICK x \in Steps : At(x) /\ Step
        BY <3>9
      <4>2. QED  BY <3>1, <3>2, <3>6, <4>1
    <3>10. QED  BY <3>1, <3>3, <3>4, <3>5, <3>7, <3>8, <3>9, Moves
  <2>3. QED  BY <1>1, <1>3, <2>1, <2>2 DEF RunsOn
<1>6. QED  BY <1>4, <1>5

LEMMA ReplayStays ==
    ASSUME [Next]_vars, ~failed_replay'
    PROVE  ~failed_replay
<1>1. CASE replay
  BY <1>1 DEF replay
<1>2. CASE ~replay
  <2>1. UNCHANGED failed_replay
    BY <1>2 DEF Next, Application, present, request, shutdown, Api, CheckStatus, send,
                destroy_command_queue, Destroyed, Encoder, receive, drain_submit_thread, Drained,
                drain_presentation, capture, acquire_clean_payload, dispatch_submit, submit_sync,
                set_present_wait_policy, wait_for_gpu_retire, reply, exit, Submitting, submit_thread_main,
                Presenting, Waiting, Ended, pipelineVars, vars, encoderVars
  <2>2. QED  BY <1>2, <2>1
<1>3. QED  BY <1>1, <1>2

\* Nothing sent or received.
LEMMA OpenKept ==
    ASSUME UNCHANGED channel, RunsOn => RunsOn', NEW p, OpenBefore(p)
    PROVE  OpenBefore(p)'
BY DEF OpenBefore

\* A message sent is behind every message that waits.
LEMMA OpenSent ==
    ASSUME TypeOK, send, RunsOn => RunsOn', NEW p \in 1..(Len(channel) + 1), OpenBefore(p)
    PROVE  /\ OpenBefore(p)'
           /\ p = Len(channel) + 1 /\ "stop" \notin api_msg.marks => OpenBefore(p + 1)'
<1>1. /\ Len(channel') = Len(channel) + 1 /\ Len(channel) \in Nat /\ channel'[Len(channel) + 1] = api_msg
      /\ \A i \in 1..Len(channel) : channel'[i] = channel[i]
  BY Sent
<1>2. \A r \in 1..(p - 1) : r \in 1..Len(channel) /\ channel'[r] = channel[r]
  BY <1>1, SMTT(30)
<1>3. p \in Nat /\ p + 1 - 1 = p
  BY <1>1, SMTT(30)
<1>4. CASE RunsOn /\ \A r \in 1..(p - 1) : "stop" \notin channel[r].marks
  <2>1. RunsOn' /\ \A r \in 1..(p - 1) : "stop" \notin channel'[r].marks
    BY <1>2, <1>4
  <2>2. ASSUME p = Len(channel) + 1, "stop" \notin api_msg.marks
        PROVE  \A r \in 1..(p + 1 - 1) : "stop" \notin channel'[r].marks
    <3>1. \A r \in 1..(p + 1 - 1) : r \in 1..(p - 1) \/ r = p
      BY <1>3
    <3>2. QED  BY <1>1, <2>1, <2>2, <3>1
  <2>3. QED  BY <2>1, <2>2, SMTT(30) DEF OpenBefore
<1>5. ASSUME NEW q \in 1..(p - 1), "start" \in channel[q].marks,
             \A r \in (q + 1)..(p - 1) : "stop" \notin channel[r].marks
      PROVE  /\ OpenBefore(p)'
             /\ p = Len(channel) + 1 /\ "stop" \notin api_msg.marks => OpenBefore(p + 1)'
  <2>1. \A r \in (q + 1)..(p - 1) : r \in 1..(p - 1)
    BY <1>3, <1>5, SMTT(30)
  <2>2. "start" \in channel'[q].marks /\ \A r \in (q + 1)..(p - 1) : "stop" \notin channel'[r].marks
    BY <1>2, <1>5, <2>1
  <2>3. ASSUME p = Len(channel) + 1, "stop" \notin api_msg.marks
        PROVE  q \in 1..(p + 1 - 1) /\ \A r \in (q + 1)..(p + 1 - 1) : "stop" \notin channel'[r].marks
    <3>1. \A r \in (q + 1)..(p + 1 - 1) : r \in (q + 1)..(p - 1) \/ r = p
      BY <1>3, <1>5
    <3>2. q \in 1..(p + 1 - 1)
      BY <1>3, <1>5, SMTT(30)
    <3>3. QED  BY <1>1, <2>2, <2>3, <3>1, <3>2
  <2>4. QED  BY <1>5, <2>2, <2>3, SMTT(30) DEF OpenBefore
<1>6. QED  BY <1>4, <1>5 DEF OpenBefore

\* The message received takes its mark with it.
LEMMA OpenReceived ==
    ASSUME MarksArrive, PipelineInv, receive, ~failed_replay,
           NEW p \in 1..Len(channel), OpenBefore(p + 1)
    PROVE  OpenBefore(p)'
<1> USE DEF PipelineInv
<1>1. /\ 1 \in 1..Len(channel) /\ msg' = channel[1] /\ Len(channel') = Len(channel) - 1
      /\ Len(channel) \in Nat
      /\ \A i \in 1..Len(channel') : i + 1 \in 1..Len(channel) /\ channel'[i] = channel[i + 1]
  BY Received, Typed DEF receive
<1>2. p \in Nat /\ p + 1 - 1 = p /\ \A r \in 1..(p - 1) : r \in 1..Len(channel') /\ r + 1 \in 1..p
  BY <1>1, SMTT(30)
<1>3. Left = {}
  <2>1. todo = <<>>
    BY MessageFacts DEF receive, PlanInv
  <2>2. QED  BY <2>1 DEF Left, StepsOf
<1>4. "start" \in channel[1].marks => RunsOn'
  <2>1. SUFFICES ASSUME "start" \in channel[1].marks PROVE "capture_on" \in Left'
    BY DEF RunsOn
  <2>2. Marked(msg') /\ msg'.marks # {}
    BY <1>1, <2>1, ReceivedPlan
  <2>3. "decode" \notin Faults /\ msg'.kind \in Frames
    BY <2>2 DEF Marked, MarksArrive
  <2>4. QED  BY <1>1, <2>1, <2>3, ReceivedPlan DEF Given, Frames
<1>5. RunsOn /\ "stop" \notin channel[1].marks => RunsOn'
  <2>1. SUFFICES ASSUME RunsOn, "stop" \notin channel[1].marks PROVE RunsOn'
    OBVIOUS
  <2>2. capturing /\ UNCHANGED capturing
    BY <1>3, <2>1 DEF RunsOn, receive
  <2>3. "capture_off" \notin Left'
    <3>1. PlanInv'
      BY ReceivePlan
    <3>2. QED  BY <1>1, <2>1, <3>1 DEF PlanInv
  <2>4. QED  BY <2>2, <2>3 DEF RunsOn
<1>6. CASE RunsOn /\ \A r \in 1..(p + 1 - 1) : "stop" \notin channel[r].marks
  <2>1. \A r \in 1..p : "stop" \notin channel[r].marks
    BY <1>2, <1>6
  <2>2. 1 \in 1..p
    BY <1>2
  <2>3. ASSUME NEW r \in 1..(p - 1) PROVE "stop" \notin channel'[r].marks
    <3>1. channel'[r] = channel[r + 1] /\ r + 1 \in 1..p
      BY <1>1, <1>2
    <3>2. QED  BY <2>1, <3>1
  <2>4. QED  BY <1>5, <1>6, <2>1, <2>2, <2>3 DEF OpenBefore
<1>7. ASSUME NEW q \in 1..(p + 1 - 1), "start" \in channel[q].marks,
             \A r \in (q + 1)..(p + 1 - 1) : "stop" \notin channel[r].marks
      PROVE  OpenBefore(p)'
  <2>1. q \in 1..p /\ \A r \in (q + 1)..p : "stop" \notin channel[r].marks
    BY <1>2, <1>7
  <2>2. CASE q = 1
    <3>1. \A r \in 1..(p - 1) : r + 1 \in (q + 1)..p
      BY <1>2, <2>2
    <3>2. ASSUME NEW r \in 1..(p - 1) PROVE "stop" \notin channel'[r].marks
      <4>1. channel'[r] = channel[r + 1] /\ r + 1 \in (q + 1)..p
        BY <1>1, <1>2, <3>1
      <4>2. QED  BY <2>1, <4>1
    <3>3. QED  BY <1>4, <1>7, <2>2, <3>2 DEF OpenBefore
  <2>3. CASE q # 1
    <3>1. q - 1 \in 1..(p - 1) /\ q - 1 + 1 = q
      BY <1>2, <2>1, <2>3, SMTT(30)
    <3>2. channel'[q - 1] = channel[q]
      BY <1>1, <1>2, <3>1
    <3>3. \A r \in (q - 1 + 1)..(p - 1) : r \in 1..(p - 1) /\ r + 1 \in (q + 1)..p
      BY <1>2, <2>1, <3>1, SMTT(30)
    <3>4. ASSUME NEW r \in (q - 1 + 1)..(p - 1) PROVE "stop" \notin channel'[r].marks
      <4>1. channel'[r] = channel[r + 1] /\ r + 1 \in (q + 1)..p
        BY <1>1, <1>2, <3>3
      <4>2. QED  BY <2>1, <4>1
    <3>5. QED  BY <1>7, <3>1, <3>2, <3>4 DEF OpenBefore
  <2>4. QED  BY <2>2, <2>3
<1>8. QED  BY <1>6, <1>7, SMTT(30) DEF OpenBefore

OpenPart ==
    ~failed_replay =>
        /\ \A p \in 1..Len(channel) : "stop" \in channel[p].marks => OpenBefore(p)
        /\ Stamped /\ "stop" \in api_msg.marks => OpenBefore(Len(channel) + 1)
        /\ marked /\ ~failure =>
              \/ Stamped /\ "start" \in api_msg.marks
              \/ ~(Stamped /\ "stop" \in api_msg.marks) /\ OpenBefore(Len(channel) + 1)

LEMMA OpenStep ==
    ASSUME MarksArrive, PipelineInv, [Next]_vars
    PROVE  OpenPart'
<1> USE DEF PipelineInv
<1>1. SUFFICES ASSUME ~failed_replay' PROVE OpenPart'
  BY DEF OpenPart
<1>2. ~failed_replay
  BY <1>1, ReplayStays
<1>3. /\ \A p \in 1..Len(channel) : "stop" \in channel[p].marks => OpenBefore(p)
      /\ Stamped /\ "stop" \in api_msg.marks => OpenBefore(Len(channel) + 1)
      /\ marked /\ ~failure =>
            \/ Stamped /\ "start" \in api_msg.marks
            \/ ~(Stamped /\ "stop" \in api_msg.marks) /\ OpenBefore(Len(channel) + 1)
  BY <1>2 DEF CaptureInv
<1>4. ~receive => (RunsOn => RunsOn')
  BY <1>1, RunsOnKept
<1>5. ~failure' => ~failure
  BY FailureStays
<1>6. ASSUME UNCHANGED channel PROVE ~receive
  BY <1>6, Received, Typed, SMTT(30) DEF receive
<1>7. ASSUME UNCHANGED channel PROVE \A p : OpenBefore(p) => OpenBefore(p)'
  BY <1>4, <1>6, <1>7, OpenKept
<1>8. ASSUME UNCHANGED channel,
             Stamped' /\ "stop" \in api_msg'.marks => OpenBefore(Len(channel) + 1),
             marked' /\ ~failure' =>
                \/ Stamped' /\ "start" \in api_msg'.marks
                \/ ~(Stamped' /\ "stop" \in api_msg'.marks) /\ OpenBefore(Len(channel) + 1)
      PROVE  OpenPart'
  <2>1. \A p : OpenBefore(p) => OpenBefore(p)'
    BY <1>7, <1>8
  <2>2. \A p \in 1..Len(channel) : "stop" \in channel'[p].marks => OpenBefore(p)'
    BY <1>3, <1>8, <2>1
  <2>3. OpenBefore(Len(channel) + 1) => OpenBefore(Len(channel) + 1)'
    BY <1>4, <1>6, <1>8 DEF OpenBefore
  <2>4. QED  BY <1>8, <2>2, <2>3 DEF OpenPart
<1>9. ASSUME NEW kind \in Frames, NEW marks \in Marks(kind), Stamp(kind, marks), ~failure,
             api = "idle", api' = "check", UNCHANGED channel
      PROVE  OpenPart'
  <2>1. /\ api_msg'.marks = marks /\ marked' = ((marked \/ "start" \in marks) /\ "stop" \notin marks)
        /\ "stop" \in marks => marked
    BY <1>9, StampFacts, MarkFacts
  <2>2. marked => OpenBefore(Len(channel) + 1)
    BY <1>3, <1>9 DEF Stamped
  <2>3. Stamped'
    BY <1>9 DEF Stamped
  <2>4. QED  BY <1>8, <1>9, <2>1, <2>2, <2>3
<1>10. CASE present
  <2>1. PICK marks \in Marks("queue") : Stamp("queue", marks)
    BY <1>10 DEF present
  <2>2. api = "idle" /\ api' = "check" /\ ~failure /\ UNCHANGED channel
    BY <1>10 DEF present
  <2>3. QED  BY <1>9, <2>1, <2>2 DEF Frames
<1>11. ASSUME NEW kind \in Requests, request(kind) PROVE OpenPart'
  <2>1. api = "idle" /\ api' = "check" /\ ~failure /\ UNCHANGED channel
    BY <1>11 DEF request
  <2>2. CASE kind \in Frames
    BY <1>9, <1>11, <2>1, <2>2, Requested
  <2>3. CASE kind \notin Frames
    <3>1. api_msg'.marks = {} /\ UNCHANGED marked
      BY <1>11, <2>3, Requested
    <3>2. marked => OpenBefore(Len(channel) + 1)
      BY <1>3, <2>1 DEF Stamped
    <3>3. QED  BY <1>8, <2>1, <3>1, <3>2
  <2>4. QED  BY <2>2, <2>3
<1>12. CASE shutdown
  <2>1. api = "idle" /\ UNCHANGED <<channel, failure, marked>> /\ api_msg'.marks = {}
    BY <1>12, MessageFacts DEF shutdown
  <2>2. marked /\ ~failure => OpenBefore(Len(channel) + 1)
    BY <1>3, <2>1 DEF Stamped
  <2>3. QED  BY <1>8, <2>1, <2>2
<1>13. CASE CheckStatus
  <2>1. api = "check" /\ UNCHANGED <<channel, failure, marked>>
    BY <1>13 DEF CheckStatus
  <2>2. CASE failure
    <3>1. api' = "idle"
      BY <1>13, <2>2 DEF CheckStatus
    <3>2. ~Stamped'
      BY <3>1 DEF Stamped
    <3>3. QED  BY <1>8, <2>1, <2>2, <3>2
  <2>3. CASE ~failure
    <3>1. api' = "sending" /\ api_msg' = api_msg
      BY <1>13, <2>3 DEF CheckStatus
    <3>2. Stamped /\ Stamped'
      BY <2>1, <3>1 DEF Stamped
    <3>3. QED  BY <1>3, <1>8, <2>1, <3>1, <3>2
  <2>4. QED  BY <2>2, <2>3
<1>14. CASE send
  <2>1. /\ Len(channel') = Len(channel) + 1 /\ Len(channel) \in Nat /\ channel'[Len(channel) + 1] = api_msg
        /\ \A i \in 1..Len(channel) : channel'[i] = channel[i]
        /\ \A i \in 1..Len(channel') : i \in 1..Len(channel) \/ i = Len(channel) + 1
    BY <1>14, Sent
  <2>2. Stamped /\ ~Stamped' /\ UNCHANGED <<marked, failure>> /\ ~receive
    <3>1. UNCHANGED msg
      BY <1>14 DEF send, encoderVars
    <3>2. ~receive
      BY <3>1, MessageFacts, ReceivedPlan DEF receive
    <3>3. QED  BY <1>14, <3>2 DEF send, Stamped
  <2>3. \A p \in 1..(Len(channel) + 1) : OpenBefore(p) => OpenBefore(p)'
    BY <1>4, <1>14, <2>2, OpenSent
  <2>4. ASSUME NEW p \in 1..Len(channel'), "stop" \in channel'[p].marks PROVE OpenBefore(p)'
    <3>1. p \in 1..(Len(channel) + 1)
      BY <2>1
    <3>2. OpenBefore(p)
      BY <1>3, <2>1, <2>2, <2>4
    <3>3. QED  BY <2>3, <3>1, <3>2
  <2>5. ASSUME marked', ~failure' PROVE OpenBefore(Len(channel) + 1)'
    <3>1. SUFFICES ASSUME NEW n, n = Len(channel) + 1 PROVE OpenBefore(n + 1)'
      BY <2>1 DEF OpenBefore
    <3>2. n \in 1..(Len(channel) + 1) /\ n \in Nat
      BY <2>1, <3>1, SMTT(30)
    <3>3. CASE "stop" \notin api_msg.marks /\ OpenBefore(n)
      BY <1>4, <1>14, <2>2, <3>1, <3>2, <3>3, OpenSent
    <3>4. CASE "start" \in api_msg.marks
      <4>1. n \in 1..(n + 1 - 1) /\ (n + 1)..(n + 1 - 1) = {}
        BY <3>2
      <4>2. "start" \in channel'[n].marks
        BY <2>1, <3>1, <3>4
      <4>3. QED  BY <4>1, <4>2, SMTT(30) DEF OpenBefore
    <3>5. QED  BY <1>3, <2>2, <2>5, <3>1, <3>3, <3>4
  <2>6. QED  BY <2>2, <2>4, <2>5 DEF OpenPart
<1>15. CASE receive
  <2>1. /\ 1 \in 1..Len(channel) /\ Len(channel') = Len(channel) - 1 /\ Len(channel) \in Nat
        /\ \A i \in 1..Len(channel') : i + 1 \in 1..Len(channel) /\ channel'[i] = channel[i + 1]
    BY <1>15, Received, Typed DEF receive
  <2>2. UNCHANGED <<api, api_msg, marked, failure>>
    BY <1>15 DEF receive, apiVars
  <2>3. Stamped' = Stamped
    BY <2>2 DEF Stamped
  <2>4. \A p \in 1..Len(channel) : OpenBefore(p + 1) => OpenBefore(p)'
    BY <1>2, <1>15, OpenReceived
  <2>5. ASSUME NEW p \in 1..Len(channel'), "stop" \in channel'[p].marks PROVE OpenBefore(p)'
    <3>1. p \in 1..Len(channel) /\ p + 1 \in 1..Len(channel) /\ channel'[p] = channel[p + 1]
      BY <2>1, SMTT(30)
    <3>2. QED  BY <1>3, <2>4, <2>5, <3>1
  <2>6. OpenBefore(Len(channel) + 1) => OpenBefore(Len(channel) + 1)'
    <3>1. SUFFICES ASSUME NEW n, n = Len(channel), OpenBefore(n + 1) PROVE OpenBefore(n)'
      <4>1. Len(channel') + 1 = Len(channel)
        BY <2>1, SMTT(30)
      <4>2. QED  BY <4>1 DEF OpenBefore
    <3>2. n \in 1..Len(channel)
      BY <2>1, <3>1, SMTT(30)
    <3>3. QED  BY <2>4, <3>1, <3>2
  <2>7. QED  BY <1>3, <2>2, <2>3, <2>5, <2>6 DEF OpenPart
<1>16. CASE reply \/ exit \/ destroy_command_queue \/ Destroyed
  <2>1. UNCHANGED <<channel, marked>>
    BY <1>16 DEF reply, exit, destroy_command_queue, Destroyed
  <2>2. \/ UNCHANGED <<api, api_msg>>
        \/ ~Stamped /\ ~Stamped'
    <3>1. CASE reply
      BY <3>1 DEF reply, Stamped
    <3>2. CASE exit
      <4>1. "exit" \in Left
        BY <3>2, AtFirst DEF exit
      <4>2. api \notin {"check", "sending"}
        BY <4>1 DEF PlanInv, ProtocolInv
      <4>3. QED  BY <3>2, <4>2 DEF exit, Stamped
    <3>3. CASE destroy_command_queue \/ Destroyed
      BY <3>3 DEF destroy_command_queue, Destroyed, Stamped
    <3>4. QED  BY <1>16, <3>1, <3>2, <3>3
  <2>3. UNCHANGED api => Stamped' = Stamped
    BY DEF Stamped
  <2>4. QED  BY <1>3, <1>5, <1>8, <2>1, <2>2, <2>3
<1>17. CASE UNCHANGED <<api, api_msg, next_seq, marked, msg, channel>>
  <2>1. Stamped' = Stamped
    BY <1>17 DEF Stamped
  <2>2. QED  BY <1>3, <1>5, <1>8, <1>17, <2>1
<1>18. QED
  BY <1>10, <1>11, <1>12, <1>13, <1>14, <1>15, <1>16, <1>17, SameMessages DEF Application, Api
=============================================================================
