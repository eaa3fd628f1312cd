---------------------------- MODULE FramePipeline ----------------------------
(***************************************************************************)
(* A device's frames from the API thread to the presenter                  *)
(* (src/unix/unix/src/encoder.rs, src/windows/d3d9/src/device.rs and       *)
(* encoder.rs), composed with module Presenter.                            *)
(*                                                                         *)
(* The API thread stamps a frame and sends it through a bounded channel to *)
(* the encoder thread.  The encoder replays it, takes a payload and hands  *)
(* both to the submit thread, or submits inline behind a barrier when the  *)
(* caller waits.  The submit thread commits it and returns the payload.    *)
(* Read-backs, query flushes, Reset, captures and teardown are requests    *)
(* the API thread blocks on; they drain the stages behind them.            *)
(*                                                                         *)
(* What the encoder does for a message is a list of steps, `todo`; a step  *)
(* that blocks stays at its head.                                          *)
(***************************************************************************)
EXTENDS Naturals, Sequences

CONSTANTS
    MaxSeq,      \* bound on the frames stamped
    Slots,       \* SNAPSHOT_SLOTS
    Faults,      \* what may fail: "snapshot", "decode", "replay", "submit"
    ChannelCap,  \* API_FRAME_CHANNEL_CAP
    PayloadCap,  \* SUBMIT_PAYLOAD_CAP
    Requests,    \* the blocking requests the application may make
    MaxRequests, \* bound on those
    Captures     \* whether frames may carry GPU-capture marks

ASSUME PipelineAssumption ==
    /\ {MaxSeq, MaxRequests} \subseteq Nat
    /\ {Slots, ChannelCap, PayloadCap} \subseteq Nat \ {0}
    /\ Requests \subseteq {"flush", "flush_gpu", "intake", "drain_now", "reset"}
    /\ Captures \in BOOLEAN

VARIABLES
    pending, slot_reader, slot_image, committed_present_seq, presented_seq, flags,
    presenter, submit, submit_seq, present_bearing, wait_until, hurry_ends,
    idle_wait, idle_target, back_buffer, on_gpu,    \* module Presenter
    api,            \* where the API thread stands
    api_msg,        \* the message it sends or waits on
    next_seq,       \* the sequence the next frame gets
    requests,       \* blocking requests made
    marked,         \* whether a capture run is open on the API side
    channel,        \* the encoder's message channel
    msg,            \* the message the encoder works on
    todo,           \* the steps it has left
    work,           \* the submit thread's work channel
    executing,      \* who runs execute_submit
    returned,       \* payloads on the return channel
    in_flight,      \* submit_in_flight
    pool,           \* payload_pool's size
    payloads_total, \* submit_payloads_total
    capturing,      \* GPU_CAPTURING
    failure,        \* the device's failure mailbox
    failed_replay   \* a replay failed; every later frame is refused

presentVars == <<pending, slot_reader, slot_image, committed_present_seq, presented_seq,
                 flags, presenter, submit, submit_seq, present_bearing, wait_until,
                 hurry_ends, idle_wait, idle_target, back_buffer, on_gpu>>
apiVars == <<api, api_msg, next_seq, requests, marked>>
encoderVars == <<msg, todo, capturing, failed_replay>>
payloadVars == <<work, executing, returned, in_flight, pool, payloads_total>>
vars == <<presentVars, apiVars, channel, encoderVars, payloadVars, failure>>

P == INSTANCE Presenter

Hurried == {"flush", "flush_gpu", "intake"}
Frames == {"queue", "flush", "flush_gpu"}
NoMsg == [kind |-> "none", seq |-> 0, marks |-> {}]
Messages == [kind : Frames \union {"intake", "drain_now", "reset", "shutdown", "none"},
             seq : 0..MaxSeq, marks : SUBSET {"start", "stop"}]
Steps == {"drain", "draining", "present_idle", "present_idle_wait", "capture_on",
          "capture_off", "replay", "acquire", "submit", "inline", "policy_down",
          "gpu_wait", "reply", "drop_reply", "fail_reply", "exit"}

Init ==
    /\ P!Init
    /\ api = "idle"
    /\ api_msg = NoMsg
    /\ next_seq = 1
    /\ requests = 0
    /\ marked = FALSE
    /\ channel = <<>>
    /\ msg = NoMsg
    /\ todo = <<>>
    /\ work = <<>>
    /\ executing = "nobody"
    /\ returned = 0
    /\ in_flight = 0
    /\ pool = 0
    /\ payloads_total = 0
    /\ capturing = FALSE
    /\ failure = FALSE
    /\ failed_replay = FALSE

-----------------------------------------------------------------------------
(* The API thread. *)

\* The capture marks of a frame: a run starts on any frame, anew when the
\* hotkey is pressed within one, and stops on a later presented one.  A flush's
\* stop mark moves on to the frame's continuation.
Marks(kind) ==
    {marks \in {{}, {"start"}, {"stop"}} :
        /\ marks # {} => Captures
        /\ "stop" \in marks => kind = "queue" /\ marked}

\* stamp_and_swap: the frame gets its sequence.
Stamp(kind, marks) ==
    /\ next_seq <= MaxSeq
    /\ api_msg' = [kind |-> kind, seq |-> next_seq, marks |-> marks]
    /\ next_seq' = next_seq + 1
    /\ marked' = ((marked \/ "start" \in marks) /\ "stop" \notin marks)

\* present_texture up to its send; a failed device sends nothing.
present ==
    /\ api = "idle"
    /\ ~failure
    /\ \E marks \in Marks("queue") : Stamp("queue", marks)
    /\ api' = "check"
    /\ UNCHANGED <<presentVars, requests, channel, encoderVars, payloadVars, failure>>

\* MUTANT: the request queues behind submits that wait on the display.
hurry_presentation_not == UNCHANGED presentVars

\* hurry_presentation: wake the submits in flight into a copy.
hurry_presentation == P!set_wait_policy(TRUE)

\* flush_current_frame_blocking, mid_frame_submit_for_retention, the query
\* and upload requests, drain_retention_now and Reset, up to their send.
request(kind) ==
    /\ api = "idle"
    /\ ~failure
    /\ requests < MaxRequests
    /\ requests' = requests + 1
    /\ IF kind \in Hurried THEN hurry_presentation ELSE UNCHANGED presentVars
    /\ IF kind \in Frames
       THEN \E marks \in Marks(kind) : Stamp(kind, marks)
       ELSE /\ api_msg' = [NoMsg EXCEPT !.kind = kind]
            /\ UNCHANGED <<next_seq, marked>>
    /\ api' = "check"
    /\ UNCHANGED <<channel, encoderVars, payloadVars, failure>>

\* The status read inside submit and control, after the hurry.
CheckStatus ==
    /\ api = "check"
    /\ IF failure THEN api' = "idle" /\ api_msg' = NoMsg
                  ELSE api' = "sending" /\ UNCHANGED api_msg
    /\ UNCHANGED <<presentVars, next_seq, requests, marked, channel, encoderVars,
                   payloadVars, failure>>

\* SyncSender::send; only an asynchronous frame is not waited for.
send ==
    /\ api = "sending"
    /\ Len(channel) < ChannelCap
    /\ channel' = Append(channel, api_msg)
    /\ api' = IF api_msg.kind = "queue" THEN "idle" ELSE "awaiting"
    /\ api_msg' = IF api_msg.kind = "queue" THEN NoMsg ELSE api_msg
    /\ UNCHANGED <<presentVars, next_seq, requests, marked, encoderVars, payloadVars, failure>>

\* EncoderThread::shutdown, which a failed device runs too.
shutdown ==
    /\ api = "idle"
    /\ api' = "sending"
    /\ api_msg' = [NoMsg EXCEPT !.kind = "shutdown"]
    /\ UNCHANGED <<presentVars, next_seq, requests, marked, channel, encoderVars,
                   payloadVars, failure>>

\* destroy_command_queue once the encoder and submit threads are joined.
destroy_command_queue ==
    /\ api = "joined"
    /\ P!stop_and_join
    /\ api' = "stopping"
    /\ UNCHANGED <<api_msg, next_seq, requests, marked, channel, encoderVars, payloadVars,
                   failure>>

\* stop_and_join's join returns.
Destroyed ==
    /\ api = "stopping"
    /\ presenter = "exited"
    /\ api' = "gone"
    /\ UNCHANGED <<presentVars, api_msg, next_seq, requests, marked, channel, encoderVars,
                   payloadVars, failure>>

-----------------------------------------------------------------------------
(* The encoder thread. *)

If(condition, steps) == IF condition THEN steps ELSE <<>>

\* run_frame_bracketed's closing half.
CaptureStop(m) == If("stop" \in m.marks, <<"present_idle", "capture_off">>)

\* MUTANT: a waiting frame submits beside the submit thread.
FrameSteps_undrained(m) ==
       If("start" \in m.marks, <<"drain", "present_idle", "capture_on">>)
    \o <<"replay", "acquire", "submit">>
    \o CaptureStop(m)
    \o If(m.kind # "queue", <<"policy_down">>)
    \o If(m.kind = "flush_gpu", <<"gpu_wait">>)
    \o <<"reply">>

\* The Encoded arm of encoder_thread_main, with run_frame_bracketed.
FrameSteps(m) ==
       If(m.kind # "queue", <<"drain">>)
    \o If("start" \in m.marks, <<"drain", "present_idle", "capture_on">>)
    \o <<"replay", "acquire", "submit">>
    \o CaptureStop(m)
    \o If(m.kind # "queue", <<"policy_down">>)
    \o If(m.kind = "flush_gpu", <<"gpu_wait">>)
    \o <<"reply">>

\* MUTANT: teardown leaves queued presents to the stop.
ControlSteps_unpresented(kind) ==
    CASE kind = "drain_now" -> <<"reply">>
      [] kind = "intake" -> <<"drain", "policy_down", "gpu_wait", "reply">>
      [] kind = "reset" -> <<"drain", "present_idle", "gpu_wait", "reply">>
      [] kind = "shutdown" -> <<"drain", "gpu_wait", "exit">>

\* The other arms; "intake" stands for IntakeVisibilityFor and
\* RetireUploadsThrough, which take the same steps.
ControlSteps(kind) ==
    CASE kind = "drain_now" -> <<"reply">>
      [] kind = "intake" -> <<"drain", "policy_down", "gpu_wait", "reply">>
      [] kind = "reset" -> <<"drain", "present_idle", "gpu_wait", "reply">>
      [] kind = "shutdown" -> <<"drain", "present_idle", "gpu_wait", "exit">>

\* What an arm does once a replay has failed.
RefusedSteps(kind) ==
    CASE kind \in Frames -> <<"fail_reply">>
      [] kind = "intake" -> <<"policy_down", "drop_reply">>
      [] OTHER -> <<"drop_reply">>

\* The head of encoder_thread_main's loop.
receive ==
    /\ msg = NoMsg
    /\ channel # <<>>
    /\ msg' = Head(channel)
    /\ channel' = Tail(channel)
    /\ \/ /\ failed_replay /\ Head(channel).kind # "shutdown"
          /\ todo' = RefusedSteps(Head(channel).kind)
       \/ /\ ~failed_replay /\ Head(channel).kind \in Frames
          /\ \/ todo' = FrameSteps(Head(channel))
             \/ "decode" \in Faults /\ todo' = <<"fail_reply">>
       \/ /\ Head(channel).kind = "shutdown" \/ ~failed_replay
          /\ Head(channel).kind \notin Frames
          /\ todo' = ControlSteps(Head(channel).kind)
    /\ UNCHANGED <<presentVars, apiVars, capturing, failed_replay, payloadVars, failure>>

At(step) == todo # <<>> /\ Head(todo) = step
Step == todo' = Tail(todo)
Block(step) == todo' = <<step>> \o Tail(todo)

\* drain_submit_thread: fold in what came back, and with submits still in
\* flight raise HURRY and wait for them.
drain_submit_thread ==
    /\ At("drain")
    /\ returned' = 0
    /\ pool' = pool + returned
    /\ in_flight' = in_flight - returned
    /\ \/ in_flight = returned /\ Step /\ UNCHANGED presentVars
       \/ in_flight > returned /\ Block("draining") /\ P!set_wait_policy(TRUE)
    /\ UNCHANGED <<apiVars, channel, msg, capturing, failed_replay, work, executing,
                   payloads_total, failure>>

\* Its loop ends with the last payload back, and HURRY goes down.
Drained ==
    /\ At("draining")
    /\ returned = in_flight
    /\ returned' = 0
    /\ pool' = pool + returned
    /\ in_flight' = 0
    /\ Step
    /\ P!set_wait_policy(FALSE)
    /\ UNCHANGED <<apiVars, channel, msg, capturing, failed_replay, work, executing,
                   payloads_total, failure>>

\* drain_presentation.
drain_presentation ==
    /\ \/ At("present_idle") /\ P!StartIdleWait /\ Block("present_idle_wait")
       \/ At("present_idle_wait") /\ idle_wait = "none" /\ Step /\ UNCHANGED presentVars
    /\ UNCHANGED <<apiVars, channel, msg, capturing, failed_replay, payloadVars, failure>>

\* start_capture and stop_capture.
capture ==
    /\ \/ At("capture_on") /\ capturing' = TRUE
       \/ At("capture_off") /\ capturing' = FALSE
    /\ Step
    /\ UNCHANGED <<presentVars, apiVars, channel, msg, failed_replay, payloadVars, failure>>

\* run_frame's operation loop; a failed replay still closes the capture.
replay ==
    /\ At("replay")
    /\ \/ Step /\ UNCHANGED failed_replay
       \/ /\ "replay" \in Faults
          /\ failed_replay' = TRUE
          /\ todo' = CaptureStop(msg) \o <<"fail_reply">>
    /\ UNCHANGED <<presentVars, apiVars, channel, msg, capturing, payloadVars, failure>>

\* acquire_clean_payload: the pool, a new payload below the cap, else block
\* until the submit thread returns one.
acquire_clean_payload ==
    /\ At("acquire")
    /\ returned' = 0
    /\ in_flight' = in_flight - returned
    /\ \/ pool + returned > 0 /\ pool' = pool + returned - 1 /\ UNCHANGED payloads_total
       \/ /\ pool + returned = 0
          /\ payloads_total < PayloadCap
          /\ payloads_total' = payloads_total + 1
          /\ UNCHANGED pool
    /\ Step
    /\ UNCHANGED <<presentVars, apiVars, channel, msg, capturing, failed_replay, work,
                   executing, failure>>

Sync == msg.kind # "queue" \/ capturing
Item == [seq |-> msg.seq, presents |-> msg.kind = "queue"]

\* dispatch_submit: the work channel holds one packet.
dispatch_submit ==
    /\ At("submit")
    /\ ~Sync
    /\ work = <<>>
    /\ work' = <<Item>>
    /\ in_flight' = in_flight + 1
    /\ Step
    /\ UNCHANGED <<presentVars, apiVars, channel, msg, capturing, failed_replay, executing,
                   returned, pool, payloads_total, failure>>

\* execute_submit enters the presenter's conflict, or fails before it.
execute_submit(item) ==
    \/ P!StartSubmit(item.seq, item.presents) /\ UNCHANGED failure
    \/ "submit" \in Faults /\ failure' = TRUE /\ UNCHANGED presentVars

\* submit_sync on the encoder thread.
submit_sync ==
    /\ \/ /\ At("submit")
          /\ Sync
          /\ executing = "nobody"
          /\ executing' = "encoder"
          /\ execute_submit(Item)
          /\ Block("inline")
          /\ UNCHANGED pool
       \/ /\ At("inline")
          /\ submit = "idle"
          /\ executing' = "nobody"
          /\ pool' = pool + 1
          /\ Step
          /\ UNCHANGED <<presentVars, failure>>
    /\ UNCHANGED <<apiVars, channel, msg, capturing, failed_replay, work, returned,
                   in_flight, payloads_total>>

\* The arm ends the hurry its caller began.
set_present_wait_policy ==
    /\ At("policy_down")
    /\ Step
    /\ P!set_wait_policy(FALSE)
    /\ UNCHANGED <<apiVars, channel, msg, capturing, failed_replay, payloadVars, failure>>

\* wait_for_gpu_idle and its like return (module Retirement).
wait_for_gpu_retire ==
    /\ At("gpu_wait")
    /\ Step
    /\ UNCHANGED <<presentVars, apiVars, channel, msg, capturing, failed_replay,
                   payloadVars, failure>>

\* The reply that ends a message; a dropped one fails the API's request.
reply ==
    /\ At("reply") \/ At("drop_reply") \/ At("fail_reply")
    /\ Step
    /\ msg' = NoMsg
    /\ failure' = (failure \/ Head(todo) # "reply")
    /\ IF api = "awaiting" /\ api_msg = msg THEN api' = "idle" /\ api_msg' = NoMsg
                                            ELSE UNCHANGED <<api, api_msg>>
    /\ UNCHANGED <<presentVars, next_seq, requests, marked, channel, capturing,
                   failed_replay, payloadVars>>

\* The Shutdown arm returns and the encoder and submit threads are joined.
exit ==
    /\ At("exit")
    /\ Step
    /\ api' = "joined"
    /\ UNCHANGED <<presentVars, api_msg, next_seq, requests, marked, channel, msg,
                   capturing, failed_replay, payloadVars, failure>>

-----------------------------------------------------------------------------
(* The submit thread. *)

\* MUTANT: a failed submission is taken up again.
submit_thread_main_retries ==
    /\ \/ /\ executing = "nobody" /\ work # <<>>
          /\ executing' = "submit_thread"
          /\ \/ /\ P!StartSubmit(Head(work).seq, Head(work).presents)
                /\ work' = <<>>
                /\ UNCHANGED failure
             \/ "submit" \in Faults /\ failure' = TRUE /\ UNCHANGED <<presentVars, work>>
          /\ UNCHANGED returned
       \/ /\ executing = "submit_thread" /\ submit = "idle"
          /\ executing' = "nobody"
          /\ returned' = IF work = <<>> THEN returned + 1 ELSE returned
          /\ UNCHANGED <<presentVars, work, failure>>
    /\ UNCHANGED <<apiVars, channel, encoderVars, in_flight, pool, payloads_total>>

\* submit_thread_main: take a packet, execute it, return its payload.
submit_thread_main ==
    /\ \/ /\ executing = "nobody" /\ work # <<>>
          /\ work' = <<>>
          /\ executing' = "submit_thread"
          /\ execute_submit(Head(work))
          /\ UNCHANGED returned
       \/ /\ executing = "submit_thread" /\ submit = "idle"
          /\ executing' = "nobody"
          /\ returned' = returned + 1
          /\ UNCHANGED <<presentVars, work, failure>>
    /\ UNCHANGED <<apiVars, channel, encoderVars, in_flight, pool, payloads_total>>

-----------------------------------------------------------------------------

pipelineVars == <<apiVars, channel, encoderVars, payloadVars, failure>>

Api == CheckStatus \/ send \/ destroy_command_queue \/ Destroyed
Application == present \/ (\E kind \in Requests : request(kind)) \/ shutdown

Encoder ==
    \/ receive \/ drain_submit_thread \/ Drained \/ drain_presentation \/ capture
    \/ replay \/ acquire_clean_payload \/ dispatch_submit \/ submit_sync
    \/ set_present_wait_policy \/ wait_for_gpu_retire \/ reply \/ exit

Submitting == submit_thread_main \/ (P!Submit /\ UNCHANGED pipelineVars)
Presenting == (P!present_frame \/ P!HoldTimesOut) /\ UNCHANGED pipelineVars
Waiting == (P!IdleWait \/ P!GpuEnds) /\ UNCHANGED pipelineVars

Ended == api = "gone" /\ UNCHANGED vars

Next == Application \/ Api \/ Encoder \/ Submitting \/ Presenting \/ Waiting \/ Ended

Spec == Init /\ [][Next]_vars

\* The threads run and the GPU ends what it was given.  The application need
\* call nothing.
NativeFairness ==
    /\ WF_vars(Api)
    /\ WF_vars(Encoder)
    /\ WF_vars(Submitting)
    /\ WF_vars(Waiting)

\* The display may never hand out another drawable.
FairSpec == Spec /\ NativeFairness

\* The display takes presents.
DisplayTakes == WF_vars(Presenting)

-----------------------------------------------------------------------------
(* Properties. *)

\* Every variable keeps its type.
TypeOK ==
    /\ P!TypeOK
    /\ api \in {"idle", "check", "sending", "awaiting", "joined", "stopping", "gone"}
    /\ {api_msg, msg} \subseteq Messages
    /\ next_seq \in 1..(MaxSeq + 1)
    /\ requests \in 0..MaxRequests
    /\ channel \in Seq(Messages) /\ Len(channel) <= ChannelCap
    /\ todo \in Seq(Steps)
    /\ work \in Seq([seq : 1..MaxSeq, presents : BOOLEAN])
    /\ executing \in {"nobody", "submit_thread", "encoder"}
    /\ {returned, in_flight, pool, payloads_total} \subseteq 0..PayloadCap
    /\ {marked, capturing, failure, failed_replay} \subseteq BOOLEAN

\* The composed threads meet the presenter the way module Presenter assumes:
\* sequences ascend whichever thread submits, nothing is submitted while
\* presentation drains, and the stop comes last.
ImplementsPresenter == P!Spec

\* Presenter: every pending packet shows the frame it was queued for, whatever
\* later submissions committed and whatever slots they reused, however often a
\* barrier hurries submits past the presenter.
PendingShowsItsFrame == P!PendingShowsItsFrame

\* Presenter: wait_for_present_idle returns with nothing queued and nothing of
\* it left on the GPU, though packets may have been dropped behind the last
\* present.
IdleMeansIdle == P!IdleMeansIdle

\* Behind drain_submit_thread the encoder is alone: while it submits inline,
\* waits for the GPU or for presentation, or exits, no submit is in flight, and
\* in_flight counts what left the pool, of which no more exist than
\* SUBMIT_PAYLOAD_CAP.  No barrier leaves the presenter hurried: once a request
\* is over, a present-bearing submit waits for the display again.
BarrierHolds ==
    /\ \/ \E step \in {"present_idle", "present_idle_wait", "capture_on", "inline",
                       "gpu_wait", "exit"} : At(step)
       \/ At("submit") /\ Sync
      => in_flight = 0 /\ work = <<>> /\ executing # "submit_thread"
    /\ payloads_total <= PayloadCap
    /\ in_flight = Len(work) + returned + (IF executing = "submit_thread" THEN 1 ELSE 0)
    /\ payloads_total = pool + in_flight
                        + (IF At("submit") \/ At("inline") THEN 1 ELSE 0)
    /\ api = "idle" /\ ~failure /\ ~At("draining") => "HURRY" \notin flags

\* A capture holds its own frames and their presents and nothing else, none
\* queued or running where it starts or stops, and the stop finds nothing
\* pending, as the comment on stop_and_join says.
PresentationIsIdle ==
    \/ At("capture_on") \/ At("capture_off")
    \/ api \in {"joined", "stopping", "gone"}
      => pending = <<>> /\ on_gpu = {} /\ submit = "idle"

\* Whatever the application calls returns: no thread waits on another in a
\* circle, through failures and refused frames, as long as the display takes
\* presents.
CallsReturn ==
    DisplayTakes =>
    /\ (api \in {"check", "sending", "awaiting"}) ~> (api \in {"idle", "joined"})
    /\ (api = "joined") ~> (api = "gone")

\* SNAPSHOT_SLOTS' comment: a read-back behind a full pipeline is answered
\* though the display hands out no drawable.
ReadBackSkipsDisplay ==
    (api = "check" /\ api_msg.kind \in Hurried) ~> (api = "idle")
=============================================================================
