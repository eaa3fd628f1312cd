-------------------------- MODULE PipelineBarriers --------------------------
(***************************************************************************)
(* The step of PayloadInv, TypeOK and RestInv: what the barriers of        *)
(* FramePipeline rest on.                                                  *)
(*                                                                         *)
(* A barrier rests on the drain that precedes it, or on a capture, which   *)
(* no asynchronous submit runs under; the idle presentation is carried     *)
(* from the wait to the capture or the stop.                               *)
(***************************************************************************)
EXTENDS PipelinePlans

-----------------------------------------------------------------------------
(* The payloads *)

\* The payload the encoder holds once a step is done.
LEMMA HeldStep ==
    ASSUME TypeOK, PlanInv, todo # <<>>, Step, UNCHANGED msg
    PROVE  Held' = IF At("acquire") THEN 1 ELSE 0
<1>1. /\ todo' \in Seq(Steps) /\ Left = {Head(todo)} \union Left'
      /\ \A x \in Left' : \/ Stage(Head(todo), msg) < Stage(x, msg)
                          \/ Stage(Head(todo), msg) = 1 /\ x = "drain"
  BY StepLeft
<1>2. PlanInv'
  BY StepPlan
<1>3. Stage("acquire", msg) = 5 /\ Stage("submit", msg) = 6
  BY Stages
<1>4. \A x \in Left' : /\ todo' # <<>> /\ Head(todo') \in Left'
                       /\ \/ Head(todo') = x
                          \/ Stage(Head(todo'), msg) < Stage(x, msg)
                          \/ Stage(Head(todo'), msg) = 1 /\ x = "drain"
  BY NextFirst
<1>5. \A x : At(x)' <=> todo' # <<>> /\ Head(todo') = x
  BY DEF At
<1>6. \A x : At(x)' => x \in Left'
  <2>1. todo' # <<>> => Head(todo') = todo'[1] /\ 1 \in 1..Len(todo')
    BY <1>1
  <2>2. QED  BY <1>5, <2>1 DEF Left, StepsOf
<1>7. ~At("inline")'
  <2>1. SUFFICES ASSUME At("inline")' PROVE FALSE
    OBVIOUS
  <2>2. "inline" \in Left'
    BY <1>6, <2>1
  <2>3. Head(todo) = "inline"
    BY <1>1, <2>2 DEF PlanInv, At
  <2>4. Stage("inline", msg) = 6
    BY Stages
  <2>5. QED  BY <1>1, <2>2, <2>3, <2>4
<1>8. CASE At("acquire")
  <2>1. Head(todo) = "acquire" /\ "acquire" \in Left
    BY <1>8, AtFirst
  <2>2. "acquire" \notin Left'
    BY <1>1, <1>3, <2>1
  <2>3. "submit" \in Left'
    BY <1>1, <2>1 DEF PlanInv
  <2>4. At("submit")'
    BY <1>2, <2>2, <2>3 DEF PlanInv
  <2>5. QED  BY <1>8, <2>4 DEF Held
<1>9. CASE ~At("acquire")
  <2>1. ~At("submit")'
    <3>1. SUFFICES ASSUME At("submit")' PROVE FALSE
      OBVIOUS
    <3>2. "submit" \in Left' /\ Head(todo') = "submit"
      BY <1>5, <1>6, <3>1
    <3>3. Head(todo) # "submit"
      BY <1>1, <1>3, <3>2
    <3>4. "acquire" \in Left'
      BY <1>1, <1>9, <3>2, <3>3 DEF PlanInv, At
    <3>5. QED  BY <1>3, <1>4, <3>2, <3>4
  <2>2. QED  BY <1>7, <1>9, <2>1 DEF Held
<1>10. QED  BY <1>8, <1>9

PayloadTypes ==
    /\ work \in Seq([seq : 1..MaxSeq, presents : BOOLEAN])
    /\ executing \in {"nobody", "submit_thread", "encoder"}
    /\ {returned, in_flight, pool, payloads_total} \subseteq 0..PayloadCap

Accounts ==
    /\ in_flight = Len(work) + returned + Executing
    /\ Len(work) <= 1
    /\ payloads_total = pool + in_flight + Held
    /\ payloads_total <= PayloadCap

\* The numbers that balance have their types.
LEMMA Balanced ==
    ASSUME work' \in Seq([seq : 1..MaxSeq, presents : BOOLEAN]),
           executing' \in {"nobody", "submit_thread", "encoder"},
           returned' \in Nat, in_flight' \in Nat, pool' \in Nat, payloads_total' \in Nat, Accounts'
    PROVE  PayloadTypes' /\ Accounts'
<1>1. Len(work') \in Nat /\ Executing' \in {0, 1} /\ Held' \in {0, 1}
  BY DEF Executing, Held
<1>2. /\ in_flight' = Len(work') + returned' + Executing'
      /\ payloads_total' = pool' + in_flight' + Held'
      /\ payloads_total' <= PayloadCap
  BY DEF Accounts
<1>3. returned' \in 0..PayloadCap /\ in_flight' \in 0..PayloadCap /\ pool' \in 0..PayloadCap
      /\ payloads_total' \in 0..PayloadCap
  <2>1. PayloadCap \in Nat /\ Executing' \in Nat /\ Held' \in Nat
    BY <1>1, PipelineAssumption
  <2>2. \A a, b, c, d, l, e, h, cap \in Nat :
            a = l + b + e /\ d = c + a + h /\ d <= cap
              => b \in 0..cap /\ a \in 0..cap /\ c \in 0..cap /\ d \in 0..cap
    OBVIOUS
  <2>3. QED  BY <1>1, <1>2, <2>1, <2>2
<1>4. QED  BY <1>3 DEF PayloadTypes

LEMMA AccountsStep ==
    ASSUME PipelineInv, [Next]_vars
    PROVE  PayloadTypes' /\ Accounts'
<1> USE DEF PipelineInv
<1>1. /\ work \in Seq([seq : 1..MaxSeq, presents : BOOLEAN]) /\ Len(work) \in Nat
      /\ executing \in {"nobody", "submit_thread", "encoder"}
      /\ returned \in Nat /\ in_flight \in Nat /\ pool \in Nat /\ payloads_total \in Nat
  BY Typed
<1>2. Executing \in {0, 1} /\ Held \in {0, 1}
  BY DEF Executing, Held
<1>3. /\ in_flight = Len(work) + returned + Executing /\ Len(work) <= 1
      /\ payloads_total = pool + in_flight + Held /\ payloads_total <= PayloadCap
  BY DEF PayloadInv
<1>4. ASSUME UNCHANGED payloadVars, Held' = Held PROVE PayloadTypes' /\ Accounts'
  <2>1. Executing' = Executing
    BY <1>4 DEF payloadVars, Executing
  <2>2. Accounts'
    BY <1>3, <1>4, <2>1 DEF Accounts, payloadVars
  <2>3. QED  BY <1>1, <1>4, <2>2, Balanced DEF payloadVars
<1>5. \A x : At(x) => (Held = IF x \in {"submit", "inline"} THEN 1 ELSE 0)
  BY DEF Held, At
<1>6. \A x : At(x)' => (Held' = IF x \in {"submit", "inline"} THEN 1 ELSE 0)
  BY DEF Held, At
<1>7. ASSUME NEW x, At(x), Step, UNCHANGED msg PROVE Held' = IF x = "acquire" THEN 1 ELSE 0
  <2>1. todo # <<>> /\ (At("acquire") <=> x = "acquire")
    BY <1>7 DEF At
  <2>2. QED  BY <1>7, <2>1, HeldStep
<1>8. CASE drain_submit_thread \/ Drained
  <2>1. /\ returned' = 0 /\ pool' = pool + returned /\ in_flight' = in_flight - returned
        /\ UNCHANGED <<msg, work, executing, payloads_total>>
    <3>1. CASE drain_submit_thread
      BY <3>1 DEF drain_submit_thread
    <3>2. CASE Drained
      <4>1. /\ returned' = 0 /\ pool' = pool + returned /\ in_flight' = 0 /\ returned = in_flight
            /\ UNCHANGED <<msg, work, executing, payloads_total>>
        BY <3>2 DEF Drained
      <4>2. in_flight - returned = 0
        BY <1>1, <4>1
      <4>3. QED  BY <4>1, <4>2
    <3>3. QED  BY <1>8, <3>1, <3>2
  <2>2. \E x \in {"drain", "draining"} : At(x) /\ (Step \/ (x = "drain" /\ Block("draining")))
    BY <1>8 DEF drain_submit_thread, Drained
  <2>3. Held = 0
    BY <1>5, <2>2
  <2>4. Held' = 0
    <3>1. CASE \E x \in {"drain", "draining"} : At(x) /\ Step
      BY <1>7, <2>1, <3>1
    <3>2. CASE At("drain") /\ Block("draining")
      BY <1>6, <2>1, <3>2, BlockPlan
    <3>3. QED  BY <2>2, <3>1, <3>2
  <2>5. Executing' = Executing
    BY <2>1 DEF Executing
  <2>6. in_flight' \in Nat /\ pool' \in Nat
    BY <1>1, <1>2, <1>3, <2>1
  <2>7. Accounts'
    BY <1>1, <1>2, <1>3, <2>1, <2>3, <2>4, <2>5 DEF Accounts
  <2>8. QED  BY <1>1, <2>1, <2>6, <2>7, Balanced
<1>9. CASE acquire_clean_payload
  <2>1. /\ returned' = 0 /\ in_flight' = in_flight - returned
        /\ UNCHANGED <<msg, work, executing>> /\ At("acquire") /\ Step
        /\ \/ pool + returned > 0 /\ pool' = pool + returned - 1 /\ payloads_total' = payloads_total
           \/ /\ pool + returned = 0 /\ payloads_total < PayloadCap
              /\ payloads_total' = payloads_total + 1 /\ pool' = pool
    BY <1>9 DEF acquire_clean_payload
  <2>2. Held = 0 /\ Held' = 1 /\ Executing' = Executing
    BY <1>5, <1>7, <2>1 DEF Executing
  <2>3. in_flight' \in Nat /\ pool' \in Nat /\ payloads_total' \in Nat
    BY <1>1, <1>2, <1>3, <2>1
  <2>4. Accounts'
    <3>1. in_flight' = Len(work) + Executing /\ payloads_total' <= PayloadCap
      BY <1>1, <1>2, <1>3, <2>1, PipelineAssumption
    <3>2. payloads_total' = pool' + in_flight' + 1
      BY <1>1, <1>2, <1>3, <2>1, <2>2, SMTT(30)
    <3>3. QED  BY <1>1, <1>2, <1>3, <2>1, <2>2, <3>1, <3>2 DEF Accounts
  <2>5. QED  BY <1>1, <2>1, <2>3, <2>4, Balanced
<1>10. CASE dispatch_submit
  <2>1. /\ At("submit") /\ work = <<>> /\ work' = <<Item>> /\ in_flight' = in_flight + 1
        /\ Step /\ UNCHANGED <<msg, executing, returned, pool, payloads_total>>
    BY <1>10 DEF dispatch_submit
  <2>2. Held = 1 /\ Held' = 0 /\ Executing' = Executing
    BY <1>5, <1>7, <2>1 DEF Executing
  <2>3. Item \in [seq : 1..MaxSeq, presents : BOOLEAN]
    <3>1. "submit" \in Left
      BY <2>1, AtFirst
    <3>2. msg.seq \in 0..MaxSeq /\ submit_seq < msg.seq /\ submit_seq \in Nat
      BY <3>1, Typed, MessageFacts DEF SeqInv, Behind
    <3>3. msg.seq \in 1..MaxSeq
      BY <3>2, PipelineAssumption
    <3>4. QED  BY <3>3 DEF Item
  <2>4. work' \in Seq([seq : 1..MaxSeq, presents : BOOLEAN]) /\ Len(work') = 1 /\ Len(work) = 0
    BY <2>1, <2>3
  <2>5. Accounts'
    BY <1>1, <1>2, <1>3, <2>1, <2>2, <2>4 DEF Accounts
  <2>6. QED  BY <1>1, <2>1, <2>4, <2>5, Balanced
<1>11. CASE submit_sync
  <2>1. CASE At("submit") /\ executing = "nobody" /\ executing' = "encoder" /\ Block("inline")
             /\ UNCHANGED pool
    <3>1. UNCHANGED <<msg, work, returned, in_flight, payloads_total>>
      BY <1>11 DEF submit_sync
    <3>2. Held = 1 /\ Held' = 1
      BY <1>5, <1>6, <2>1, <3>1, BlockPlan
    <3>3. Executing' = Executing
      BY <2>1 DEF Executing
    <3>4. Accounts'
      BY <1>3, <2>1, <3>1, <3>2, <3>3 DEF Accounts
    <3>5. QED  BY <1>1, <2>1, <3>1, <3>4, Balanced
  <2>2. CASE At("inline") /\ executing' = "nobody" /\ pool' = pool + 1 /\ Step
    <3>1. UNCHANGED <<msg, work, returned, in_flight, payloads_total>>
      BY <1>11 DEF submit_sync
    <3>2. Held = 1 /\ Held' = 0
      BY <1>5, <1>7, <2>2, <3>1
    <3>3. Executing' = 0 /\ Executing = 0
      BY <2>2, Typed DEF Executing, PayloadInv
    <3>4. Accounts' /\ pool' \in Nat
      BY <1>1, <1>3, <2>2, <3>1, <3>2, <3>3 DEF Accounts
    <3>5. QED  BY <1>1, <2>2, <3>1, <3>4, Balanced
  <2>3. QED  BY <1>11, <2>1, <2>2 DEF submit_sync
<1>12. CASE submit_thread_main
  <2>1. UNCHANGED <<msg, todo, in_flight, pool, payloads_total>>
    BY <1>12 DEF submit_thread_main, encoderVars
  <2>2. Held' = Held
    BY <2>1 DEF Held, At
  <2>3. CASE executing = "nobody" /\ work # <<>> /\ work' = <<>> /\ executing' = "submit_thread"
             /\ UNCHANGED returned
    <3>1. Executing = 0 /\ Executing' = 1
      BY <2>3 DEF Executing
    <3>2. Len(work) = 1 /\ Len(work') = 0 /\ work' \in Seq([seq : 1..MaxSeq, presents : BOOLEAN])
      <4>1. work' = <<>> /\ work # <<>> /\ Len(work) \in Nat /\ Len(work) <= 1
        BY <1>1, <1>3, <2>3
      <4>2. Len(work) # 0
        <5>1. work \in Seq([seq : 1..MaxSeq, presents : BOOLEAN])
          BY <1>1
        <5>2. QED  BY <4>1, <5>1
      <4>3. Len(work) = 1
        <5>1. \A n \in Nat : n <= 1 /\ n # 0 => n = 1
          OBVIOUS
        <5>2. Len(work) \in Nat /\ Len(work) <= 1
          BY <4>1
        <5>3. QED  BY <4>2, <5>1, <5>2
      <4>4. Len(work') = 0 /\ work' \in Seq([seq : 1..MaxSeq, presents : BOOLEAN])
        BY <4>1
      <4>5. QED  BY <4>3, <4>4
    <3>3. Accounts'
      BY <1>1, <1>3, <2>1, <2>2, <2>3, <3>1, <3>2 DEF Accounts
    <3>4. QED  BY <1>1, <2>1, <2>3, <3>2, <3>3, Balanced
  <2>4. CASE executing = "submit_thread" /\ executing' = "nobody" /\ returned' = returned + 1
             /\ UNCHANGED work
    <3>1. Executing = 1 /\ Executing' = 0
      BY <2>4 DEF Executing
    <3>2. Accounts' /\ returned' \in Nat
      BY <1>1, <1>3, <2>1, <2>2, <2>4, <3>1 DEF Accounts
    <3>3. QED  BY <1>1, <2>1, <2>4, <3>2, Balanced
  <2>5. QED  BY <1>12, <2>3, <2>4 DEF submit_thread_main
<1>13. CASE \/ Application \/ Api \/ (Submitting /\ ~submit_thread_main) \/ Presenting \/ Waiting
            \/ UNCHANGED vars
  <2>1. UNCHANGED payloadVars /\ UNCHANGED <<msg, todo>>
    BY <1>13 DEF Application, present, request, shutdown, Api, CheckStatus, send, destroy_command_queue,
                 Destroyed, Submitting, Presenting, Waiting, pipelineVars, vars, encoderVars
  <2>2. QED  BY <1>4, <2>1 DEF Held, At
<1>14. CASE receive
  <2>1. UNCHANGED payloadVars /\ msg = NoMsg
    BY <1>14 DEF receive
  <2>2. todo = <<>>
    BY <2>1, MessageFacts DEF PlanInv
  <2>3. Held = 0
    BY <2>2 DEF Held, At
  <2>4. todo' \in Seq(Steps) /\ InOrder(todo', msg') /\ PlanInv'
    BY <1>14, ReceivedPlan, ReceivePlan
  <2>5. \A x \in Left' : /\ todo' # <<>> /\ Head(todo') \in Left'
                         /\ \/ Head(todo') = x
                            \/ Stage(Head(todo'), msg') < Stage(x, msg')
                            \/ Stage(Head(todo'), msg') = 1 /\ x = "drain"
    BY <2>4, FirstLeft DEF Left
  <2>6. Left' = {} => todo' = <<>>
    BY <2>4, NothingLeft DEF Left
  <2>7. "inline" \notin Left' /\ ("submit" \in Left' => "acquire" \in Left')
    BY <1>14, ReceivedPlan DEF Given
  <2>8. Stage("submit", msg') = 6 /\ Stage("acquire", msg') = 5
    BY Stages
  <2>9. Held' = 0
    BY <2>5, <2>6, <2>7, <2>8, SMTT(30) DEF Held, At
  <2>10. QED  BY <1>4, <2>1, <2>3, <2>9
<1>15. CASE drain_presentation
  <2>1. /\ UNCHANGED payloadVars /\ UNCHANGED msg
        /\ (At("present_idle") /\ Block("present_idle_wait")) \/ (At("present_idle_wait") /\ Step)
    BY <1>15 DEF drain_presentation
  <2>2. Held = 0 /\ Held' = 0
    BY <1>5, <1>6, <1>7, <2>1, BlockPlan
  <2>3. QED  BY <1>4, <2>1, <2>2
<1>16. CASE replay
  <2>1. /\ UNCHANGED payloadVars /\ UNCHANGED msg /\ At("replay")
        /\ Step \/ todo' = CaptureStop(msg) \o <<"fail_reply">>
    BY <1>16 DEF replay
  <2>2. Held = 0
    BY <1>5, <2>1
  <2>3. ASSUME todo' = CaptureStop(msg) \o <<"fail_reply">> PROVE Held' = 0
    <3>1. todo' \in Seq(Steps) /\ PlanInv'
          /\ Left' = Given("stop" \in msg.marks, {"present_idle", "capture_off"}) \union {"fail_reply"}
      BY <2>1, <2>3, FailedReplay DEF CaptureInv
    <3>2. Head(todo') \in Left'
      BY <3>1, FirstLeft DEF Left, PlanInv
    <3>3. QED  BY <3>1, <3>2 DEF Held, At, Given
  <2>4. Held' = 0
    <3>1. ASSUME Step PROVE Held' = 0
      <4>1. At("replay") /\ UNCHANGED msg
        BY <2>1
      <4>2. QED  BY <1>7, <3>1, <4>1
    <3>2. QED  BY <2>1, <2>3, <3>1
  <2>5. QED  BY <1>4, <2>1, <2>2, <2>4
<1>17. CASE capture \/ set_present_wait_policy \/ wait_for_gpu_retire \/ exit
  <2>1. /\ UNCHANGED payloadVars /\ UNCHANGED msg /\ Step
        /\ At("capture_on") \/ At("capture_off") \/ At("policy_down") \/ At("gpu_wait") \/ At("exit")
    BY <1>17 DEF capture, set_present_wait_policy, wait_for_gpu_retire, exit
  <2>2. Held = 0 /\ Held' = 0
    BY <1>5, <1>7, <2>1
  <2>3. QED  BY <1>4, <2>1, <2>2
<1>18. CASE reply
  <2>1. PICK step \in Replies : At(step) /\ Step
    BY <1>18 DEF reply, Replies
  <2>2. todo' = <<>> /\ UNCHANGED payloadVars
    BY <1>18, <2>1, LastStep DEF reply
  <2>3. Held = 0 /\ Held' = 0
    BY <1>5, <2>1, <2>2 DEF Replies, Held, At
  <2>4. QED  BY <1>4, <2>2, <2>3
<1>19. QED
  BY <1>8, <1>9, <1>10, <1>11, <1>12, <1>13, <1>14, <1>15, <1>16, <1>17, <1>18 DEF Next, Ended, Encoder

\* A stop mark finds its capture running.
LEMMA StopFindsCapture ==
    ASSUME PipelineInv, receive, ~failed_replay, "stop" \in msg'.marks
    PROVE  capturing /\ in_flight = 0
<1> USE DEF PipelineInv
<1>1. msg' = channel[1] /\ 1 \in 1..Len(channel)
  BY ReceivedPlan
<1>2. OpenBefore(1)
  BY <1>1 DEF CaptureInv
<1>3. RunsOn
  <2>1. 1..(1 - 1) = {}
    OBVIOUS
  <2>2. QED  BY <1>2, <2>1 DEF OpenBefore
<1>4. Left = {}
  <2>1. todo = <<>>
    BY MessageFacts DEF receive, PlanInv
  <2>2. QED  BY <2>1 DEF Left, StepsOf
<1>5. QED  BY <1>3, <1>4 DEF RunsOn, PayloadInv

BarrierPart ==
    /\ Alone \intersect Left # {} => in_flight = 0 \/ {"drain", "draining"} \intersect Left # {}
    /\ capturing => in_flight = 0
    /\ "capture_off" \in Left => capturing

LEMMA BarrierStep ==
    ASSUME PipelineInv, [Next]_vars
    PROVE  BarrierPart'
<1> USE DEF PipelineInv
<1>0. BarrierPart
  BY DEF PayloadInv, BarrierPart
<1>1. ASSUME UNCHANGED <<msg, todo, in_flight, capturing>> PROVE BarrierPart'
  BY <1>0, <1>1 DEF BarrierPart, Left, Alone
<1>2. ASSUME NEW x, At(x), Step, UNCHANGED msg
      PROVE  /\ \A y : y \in Left <=> y = x \/ y \in Left'
             /\ \A y \in Left' : \/ Stage(x, msg) < Stage(y, msg)
                                 \/ Stage(x, msg) = 1 /\ y = "drain"
             /\ Alone' = Alone /\ x \in Left
  <2>1. todo # <<>> /\ Head(todo) = x
    BY <1>2 DEF At
  <2>2. QED  BY <1>2, <2>1, StepLeft DEF Alone
<1>3. ASSUME NEW x, At(x), Step, x \notin {"drain", "draining"}, UNCHANGED <<msg, in_flight, capturing>>
      PROVE  BarrierPart'
  <2>1. (\A y : y \in Left <=> y = x \/ y \in Left') /\ Alone' = Alone
    BY <1>2, <1>3
  <2>2. QED  BY <1>0, <1>3, <2>1 DEF BarrierPart
<1>4. ASSUME in_flight' = 0, UNCHANGED capturing, "capture_off" \in Left' => "capture_off" \in Left
      PROVE  BarrierPart'
  BY <1>0, <1>4 DEF BarrierPart
<1>5. CASE \/ Application \/ Api \/ Submitting \/ Presenting \/ Waiting \/ UNCHANGED vars
  <2>1. UNCHANGED <<msg, todo, in_flight, capturing>>
    BY <1>5 DEF Application, present, request, shutdown, Api, CheckStatus, send, destroy_command_queue,
                 Destroyed, Submitting, submit_thread_main, Presenting, Waiting, pipelineVars, vars,
                 encoderVars, payloadVars
  <2>2. QED  BY <1>1, <2>1
<1>6. CASE receive
  <2>1. UNCHANGED <<in_flight, capturing>>
    BY <1>6 DEF receive, payloadVars
  <2>2. "stop" \in msg'.marks /\ ~failed_replay => capturing /\ in_flight = 0
    BY <1>6, StopFindsCapture
  <2>3. "capture_off" \in Left' => "stop" \in msg'.marks /\ ~failed_replay
    BY <1>6, ReceivedPlan, SMTT(30) DEF Given
  <2>4. ASSUME Alone' \intersect Left' # {} PROVE in_flight = 0 \/ "drain" \in Left'
    <3>1. \/ msg'.kind = "queue" /\ ~failed_replay /\ "stop" \in msg'.marks
          \/ "drain" \in Left'
      BY <1>6, <2>4, ReceivedPlan DEF Given, Alone, Frames
    <3>2. QED  BY <2>2, <3>1
  <2>5. QED  BY <1>0, <2>1, <2>2, <2>3, <2>4 DEF BarrierPart
<1>7. CASE drain_submit_thread
  <2>1. At("drain") /\ UNCHANGED <<msg, capturing>> /\ in_flight' = in_flight - returned
    BY <1>7 DEF drain_submit_thread
  <2>2. CASE in_flight = returned /\ Step
    <3>1. in_flight' = 0
      BY <2>1, <2>2, Typed, SMTT(30)
    <3>2. QED  BY <1>2, <1>4, <2>1, <2>2, <3>1
  <2>3. CASE Block("draining")
    <3>1. /\ \A z : z \in Left' <=> z = "draining" \/ z \in StepsOf(Tail(todo))
          /\ \A z : z \in Left <=> z = "drain" \/ z \in StepsOf(Tail(todo))
      BY <2>1, <2>3, BlockPlan
    <3>2. capturing => in_flight' = 0
      <4>1. SUFFICES ASSUME capturing PROVE in_flight' = 0
        OBVIOUS
      <4>2. in_flight = 0
        BY <1>0, <4>1 DEF BarrierPart
      <4>3. returned = 0
        BY <4>2, InFlight
      <4>4. QED  BY <2>1, <4>2, <4>3
    <3>3. QED  BY <1>0, <2>1, <3>1, <3>2 DEF BarrierPart
  <2>4. QED  BY <1>7, <2>2, <2>3 DEF drain_submit_thread
<1>8. CASE Drained
  <2>1. At("draining") /\ Step /\ UNCHANGED <<msg, capturing>> /\ in_flight' = 0
    BY <1>8 DEF Drained
  <2>2. QED  BY <1>2, <1>4, <2>1
<1>9. CASE drain_presentation
  <2>1. UNCHANGED <<msg, capturing, in_flight>>
    BY <1>9 DEF drain_presentation, payloadVars
  <2>2. CASE At("present_idle") /\ Block("present_idle_wait")
    <3>1. in_flight = 0
      BY <2>2, AloneAt DEF Alone
    <3>2. "capture_off" \in Left' => "capture_off" \in Left
      BY <2>1, <2>2, BlockPlan
    <3>3. QED  BY <1>4, <2>1, <3>1, <3>2
  <2>3. CASE At("present_idle_wait") /\ Step
    BY <1>3, <2>1, <2>3
  <2>4. QED  BY <1>9, <2>2, <2>3 DEF drain_presentation
<1>10. CASE capture
  <2>1. Step /\ UNCHANGED <<msg, in_flight>>
    BY <1>10 DEF capture, payloadVars
  <2>2. CASE At("capture_on") /\ capturing' = TRUE
    <3>1. in_flight = 0
      BY <2>2, AloneAt DEF Alone
    <3>2. QED  BY <2>1, <2>2, <3>1 DEF BarrierPart
  <2>3. CASE At("capture_off") /\ capturing' = FALSE
    <3>1. in_flight = 0
      BY <2>3, AloneAt DEF Alone
    <3>2. "capture_off" \notin Left'
      BY <1>2, <2>1, <2>3, Stages, SMTT(30)
    <3>3. QED  BY <2>1, <2>3, <3>1, <3>2 DEF BarrierPart
  <2>4. QED  BY <1>10, <2>2, <2>3 DEF capture
<1>11. CASE replay
  <2>1. At("replay") /\ UNCHANGED <<msg, capturing, in_flight>>
    BY <1>11 DEF replay, payloadVars
  <2>2. CASE Step
    BY <1>3, <2>1, <2>2
  <2>3. CASE todo' = CaptureStop(msg) \o <<"fail_reply">>
    <3>1. /\ Left' = Given("stop" \in msg.marks, {"present_idle", "capture_off"}) \union {"fail_reply"}
          /\ "stop" \in msg.marks => "capture_off" \in Left
      BY <2>1, <2>3, FailedReplay DEF CaptureInv
    <3>2. "stop" \in msg.marks => capturing /\ in_flight = 0
      BY <1>0, <3>1 DEF BarrierPart
    <3>3. "stop" \notin msg.marks => Alone' \intersect Left' = {}
      BY <3>1 DEF Given, Alone
    <3>4. "capture_off" \in Left' => "stop" \in msg.marks
      BY <3>1 DEF Given
    <3>5. QED  BY <1>0, <2>1, <3>2, <3>3, <3>4 DEF BarrierPart
  <2>4. QED  BY <1>11, <2>2, <2>3 DEF replay
<1>12. CASE acquire_clean_payload
  <2>1. At("acquire") /\ Step /\ UNCHANGED <<msg, capturing>> /\ in_flight' = in_flight - returned
    BY <1>12 DEF acquire_clean_payload
  <2>2. (\A y : y \in Left <=> y = "acquire" \/ y \in Left') /\ Alone' = Alone
    BY <1>2, <2>1
  <2>3. in_flight = 0 => in_flight' = 0
    <3>1. in_flight = 0 => returned = 0
      BY InFlight
    <3>2. QED  BY <2>1, <3>1
  <2>4. QED  BY <1>0, <2>1, <2>2, <2>3 DEF BarrierPart
<1>13. CASE dispatch_submit
  <2>1. /\ At("submit") /\ Step /\ UNCHANGED <<msg, capturing>> /\ msg.kind = "queue" /\ ~capturing
    BY <1>13 DEF dispatch_submit, Sync
  <2>2. /\ \A y : y \in Left <=> y = "submit" \/ y \in Left'
        /\ \A y \in Left' : \/ Stage("submit", msg) < Stage(y, msg)
                            \/ Stage("submit", msg) = 1 /\ y = "drain"
    BY <1>2, <2>1
  <2>3. /\ Stage("submit", msg) = 6 /\ Stage("capture_on", msg) = 3 /\ Stage("inline", msg) = 6
        /\ Stage("present_idle", msg) = IF "stop" \in msg.marks THEN 7 ELSE 2
        /\ Stage("present_idle_wait", msg) = IF "stop" \in msg.marks THEN 7 ELSE 2
    BY Stages
  <2>4. "capture_off" \notin Left
    BY <1>0, <2>1 DEF BarrierPart
  <2>5. "stop" \notin msg.marks
    BY <2>2, <2>4 DEF PlanInv
  <2>6. "gpu_wait" \notin Left' /\ "exit" \notin Left'
    BY <2>1, <2>2 DEF PlanInv
  <2>7. "present_idle" \notin Left' /\ "present_idle_wait" \notin Left' /\ "capture_on" \notin Left'
        /\ "inline" \notin Left'
    BY <2>2, <2>3, <2>5
  <2>8. Alone' \intersect Left' = {}
    BY <2>1, <2>2, <2>4, <2>6, <2>7 DEF Alone
  <2>9. QED  BY <2>1, <2>2, <2>4, <2>8 DEF BarrierPart
<1>14. CASE submit_sync
  <2>1. UNCHANGED <<msg, capturing, in_flight>>
    BY <1>14 DEF submit_sync
  <2>2. CASE At("submit") /\ Sync /\ Block("inline")
    <3>1. in_flight = 0
      <4>1. CASE msg.kind # "queue"
        BY <2>2, <4>1, AloneAt DEF Alone
      <4>2. CASE capturing
        BY <1>0, <4>2 DEF BarrierPart
      <4>3. QED  BY <2>2, <4>1, <4>2 DEF Sync
    <3>2. "capture_off" \in Left' => "capture_off" \in Left
      BY <2>1, <2>2, BlockPlan
    <3>3. QED  BY <1>4, <2>1, <3>1, <3>2
  <2>3. CASE At("inline") /\ Step
    BY <1>3, <2>1, <2>3
  <2>4. QED  BY <1>14, <2>2, <2>3 DEF submit_sync
<1>15. CASE reply
  <2>1. PICK step \in Replies : At(step) /\ Step
    BY <1>15 DEF reply, Replies
  <2>2. Left' = {} /\ UNCHANGED <<capturing, in_flight>>
    BY <1>15, <2>1, LastStep DEF reply, payloadVars
  <2>3. QED  BY <1>0, <2>2 DEF BarrierPart
<1>16. CASE set_present_wait_policy \/ wait_for_gpu_retire \/ exit
  <2>1. UNCHANGED <<msg, in_flight, capturing>> /\ Step
        /\ (At("policy_down") \/ At("gpu_wait") \/ At("exit"))
    BY <1>16 DEF set_present_wait_policy, wait_for_gpu_retire, exit, payloadVars
  <2>2. QED  BY <1>3, <2>1
<1>17. QED
  BY <1>5, <1>6, <1>7, <1>8, <1>9, <1>10, <1>11, <1>12, <1>13, <1>14, <1>15, <1>16
  DEF Next, Ended, Encoder

\* Once a step is done no inline submission is.
LEMMA NotInline ==
    ASSUME TypeOK, PlanInv, todo # <<>>, Step, UNCHANGED msg
    PROVE  ~At("inline")' /\ ~At("present_idle_wait")'
<1>1. /\ todo' \in Seq(Steps) /\ Left = {Head(todo)} \union Left'
      /\ \A x \in Left' : \/ Stage(Head(todo), msg) < Stage(x, msg)
                          \/ Stage(Head(todo), msg) = 1 /\ x = "drain"
  BY StepLeft
<1>2. \A x : At(x)' => x \in Left'
  <2>1. todo' # <<>> => Head(todo') = todo'[1] /\ 1 \in 1..Len(todo')
    BY <1>1
  <2>2. QED  BY <2>1 DEF Left, StepsOf, At
<1>3. Stage("inline", msg) \in Nat /\ Stage("present_idle_wait", msg) \in Nat
  BY Stages, SMTT(30)
<1>4. ASSUME NEW x \in {"inline", "present_idle_wait"}, x \in Left' PROVE FALSE
  <2>1. Head(todo) = x
    BY <1>1, <1>4 DEF PlanInv, At
  <2>2. QED  BY <1>1, <1>3, <1>4, <2>1
<1>5. QED  BY <1>2, <1>4

SubmitPart ==
    /\ executing = "encoder" <=> At("inline")
    /\ executing = "nobody" => submit = "idle"

LEMMA SubmitStep ==
    ASSUME PipelineInv, [Next]_vars
    PROVE  SubmitPart'
<1> USE DEF PipelineInv
<1>0. SubmitPart
  BY DEF PayloadInv, SubmitPart
<1>1. ASSUME UNCHANGED executing, At("inline")' <=> At("inline"), submit = "idle" => submit' = "idle"
      PROVE  SubmitPart'
  BY <1>0, <1>1 DEF SubmitPart
<1>2. ASSUME UNCHANGED presentVars PROVE submit = "idle" => submit' = "idle"
  BY <1>2 DEF presentVars
<1>3. ASSUME NEW hurry, P!set_wait_policy(hurry) PROVE submit = "idle" => submit' = "idle"
  BY <1>3 DEF P!set_wait_policy, P!NotifySubmitCv, P!Woken
<1>4. ASSUME UNCHANGED todo PROVE At("inline")' <=> At("inline")
  BY <1>4 DEF At
<1>5. ASSUME NEW x, x # "inline", At(x), Step, UNCHANGED msg PROVE At("inline")' <=> At("inline")
  <2>1. todo # <<>> /\ Head(todo) = x
    BY <1>5 DEF At
  <2>2. ~At("inline")'
    BY <1>5, <2>1, NotInline
  <2>3. QED  BY <1>5, <2>1, <2>2 DEF At
<1>6. CASE Application \/ Api
  <2>1. UNCHANGED <<todo, executing>>
    BY <1>6 DEF Application, present, request, shutdown, Api, CheckStatus, send, destroy_command_queue,
                Destroyed, encoderVars, payloadVars
  <2>2. submit = "idle" => submit' = "idle"
    <3>1. CASE destroy_command_queue
      BY <3>1 DEF destroy_command_queue, P!stop_and_join, P!NotifySubmitCv, P!Woken
    <3>2. CASE ~destroy_command_queue
      <4>1. UNCHANGED presentVars \/ P!set_wait_policy(TRUE)
        BY <1>6, <3>2 DEF Application, present, request, hurry_presentation, shutdown, Api, CheckStatus,
                          send, Destroyed
      <4>2. QED  BY <1>2, <1>3, <4>1
    <3>3. QED  BY <3>1, <3>2
  <2>3. QED  BY <1>1, <1>4, <2>1, <2>2
<1>7. CASE (Submitting /\ ~submit_thread_main) \/ Presenting \/ Waiting
  <2>1. UNCHANGED <<todo, executing>>
    BY <1>7 DEF Submitting, Presenting, Waiting, pipelineVars, encoderVars, payloadVars
  <2>2. submit = "idle" => submit' = "idle"
    <3>1. CASE P!Submit
      BY <3>1 DEF P!Submit, P!resolve_present_conflict, P!SubmitWakes, P!CommitRender, P!push
    <3>2. CASE P!present_frame
      BY <3>2 DEF P!present_frame, P!LookForPacket, P!StopPresenting, P!LeaveGate, P!hold_until,
                  P!CheckWindow, P!nextDrawable, P!CommitPresent, P!pop_and_drop, P!DropFront,
                  P!NotifySubmitCv, P!Woken, P!submitVars
    <3>3. CASE P!HoldTimesOut \/ P!IdleWait \/ P!GpuEnds
      BY <3>3 DEF P!HoldTimesOut, P!IdleWait, P!IdleWaitWakes, P!EndIdleWait, P!GpuEnds, P!submitVars
    <3>4. QED  BY <1>7, <3>1, <3>2, <3>3 DEF Submitting, Presenting, Waiting
  <2>3. QED  BY <1>1, <1>4, <2>1, <2>2
<1>8. CASE submit_thread_main
  <2>1. UNCHANGED todo
    BY <1>8 DEF submit_thread_main, encoderVars
  <2>2. \/ executing = "nobody" /\ executing' = "submit_thread"
        \/ executing = "submit_thread" /\ executing' = "nobody" /\ submit = "idle" /\ UNCHANGED presentVars
    BY <1>8 DEF submit_thread_main
  <2>3. QED  BY <1>0, <1>2, <1>4, <2>1, <2>2 DEF SubmitPart
<1>9. CASE submit_sync
  <2>1. CASE At("submit") /\ executing' = "encoder" /\ Block("inline")
    <3>1. At("inline")'
      BY <1>9, <2>1, BlockPlan DEF submit_sync
    <3>2. QED  BY <2>1, <3>1 DEF SubmitPart
  <2>2. CASE At("inline") /\ submit = "idle" /\ executing' = "nobody" /\ Step /\ UNCHANGED presentVars
    <3>1. ~At("inline")'
      <4>1. todo # <<>> /\ UNCHANGED msg
        BY <1>9, <2>2 DEF submit_sync, At
      <4>2. QED  BY <2>2, <4>1, NotInline
    <3>2. QED  BY <1>2, <2>2, <3>1 DEF SubmitPart
  <2>3. QED  BY <1>9, <2>1, <2>2 DEF submit_sync
<1>10. CASE receive
  <2>1. UNCHANGED presentVars /\ UNCHANGED executing /\ todo = <<>>
    BY <1>10, MessageFacts DEF receive, payloadVars, PlanInv
  <2>2. "inline" \notin Left' /\ todo' \in Seq(Steps)
    BY <1>10, ReceivedPlan DEF Given
  <2>3. ~At("inline")'
    <3>1. todo' # <<>> => Head(todo') = todo'[1] /\ 1 \in 1..Len(todo')
      BY <2>2
    <3>2. QED  BY <2>2, <3>1 DEF At, Left, StepsOf
  <2>4. QED  BY <1>1, <1>2, <2>1, <2>3 DEF At
<1>11. CASE drain_submit_thread
  <2>1. At("drain") /\ UNCHANGED <<msg, executing>>
    BY <1>11 DEF drain_submit_thread
  <2>2. submit = "idle" => submit' = "idle"
    BY <1>2, <1>3, <1>11 DEF drain_submit_thread
  <2>3. At("inline")' <=> At("inline")
    <3>1. CASE Step
      BY <1>5, <2>1, <3>1
    <3>2. CASE Block("draining")
      <4>1. At("draining")'
        BY <2>1, <3>2, BlockPlan
      <4>2. QED  BY <2>1, <4>1 DEF At
    <3>3. QED  BY <1>11, <3>1, <3>2 DEF drain_submit_thread
  <2>4. QED  BY <1>1, <2>1, <2>2, <2>3
<1>12. CASE drain_presentation
  <2>1. UNCHANGED <<msg, executing>>
    BY <1>12 DEF drain_presentation, payloadVars
  <2>2. submit = "idle" => submit' = "idle"
    BY <1>2, <1>12 DEF drain_presentation, P!StartIdleWait, P!submitVars
  <2>3. At("inline")' <=> At("inline")
    <3>1. CASE At("present_idle_wait") /\ Step
      BY <1>5, <2>1, <3>1
    <3>2. CASE At("present_idle") /\ Block("present_idle_wait")
      <4>1. At("present_idle_wait")'
        BY <2>1, <3>2, BlockPlan
      <4>2. QED  BY <3>2, <4>1 DEF At
    <3>3. QED  BY <1>12, <3>1, <3>2 DEF drain_presentation
  <2>4. QED  BY <1>1, <2>1, <2>2, <2>3
<1>13. CASE replay
  <2>1. At("replay") /\ UNCHANGED <<msg, executing>> /\ UNCHANGED presentVars
    BY <1>13 DEF replay, payloadVars
  <2>2. At("inline")' <=> At("inline")
    <3>1. CASE Step
      BY <1>5, <2>1, <3>1
    <3>2. CASE todo' = CaptureStop(msg) \o <<"fail_reply">>
      <4>1. /\ todo' \in Seq(Steps)
            /\ Left' = Given("stop" \in msg.marks, {"present_idle", "capture_off"}) \union {"fail_reply"}
        BY <2>1, <3>2, FailedReplay DEF CaptureInv
      <4>2. todo' # <<>> => Head(todo') = todo'[1] /\ 1 \in 1..Len(todo')
        BY <4>1
      <4>3. At("inline")' => "inline" \in Left'
        BY <4>2 DEF At, Left, StepsOf
      <4>4. QED  BY <2>1, <4>1, <4>3 DEF At, Given
    <3>3. QED  BY <1>13, <3>1, <3>2 DEF replay
  <2>3. QED  BY <1>1, <1>2, <2>1, <2>2
<1>14. CASE Drained \/ set_present_wait_policy
  <2>1. (At("draining") \/ At("policy_down")) /\ Step /\ UNCHANGED <<msg, executing>>
        /\ P!set_wait_policy(FALSE)
    BY <1>14 DEF Drained, set_present_wait_policy, payloadVars
  <2>2. At("inline")' <=> At("inline")
    BY <1>5, <2>1
  <2>3. QED  BY <1>1, <1>3, <2>1, <2>2
<1>15. CASE capture \/ acquire_clean_payload \/ dispatch_submit \/ wait_for_gpu_retire \/ exit
  <2>1. /\ \E x \in {"capture_on", "capture_off", "acquire", "submit", "gpu_wait", "exit"} : At(x)
        /\ Step /\ UNCHANGED <<msg, executing>> /\ UNCHANGED presentVars
    BY <1>15 DEF capture, acquire_clean_payload, dispatch_submit, wait_for_gpu_retire, exit, payloadVars
  <2>2. At("inline")' <=> At("inline")
    BY <1>5, <2>1
  <2>3. QED  BY <1>1, <1>2, <2>1, <2>2
<1>16. CASE reply
  <2>1. PICK step \in Replies : At(step) /\ Step
    BY <1>16 DEF reply, Replies
  <2>2. todo' = <<>> /\ UNCHANGED executing /\ UNCHANGED presentVars
    BY <1>16, <2>1, LastStep DEF reply, payloadVars
  <2>3. ~At("inline") /\ ~At("inline")'
    BY <2>1, <2>2 DEF At, Replies
  <2>4. QED  BY <1>1, <1>2, <2>2, <2>3
<1>17. CASE UNCHANGED vars
  <2>1. UNCHANGED <<todo, executing>> /\ UNCHANGED presentVars
    BY <1>17 DEF vars, encoderVars, payloadVars
  <2>2. QED  BY <1>1, <1>2, <1>4, <2>1
<1>18. QED
  BY <1>6, <1>7, <1>8, <1>9, <1>10, <1>11, <1>12, <1>13, <1>14, <1>15, <1>16, <1>17
  DEF Next, Ended, Encoder

LEMMA TypeStep ==
    ASSUME PipelineInv, [Next]_vars, PresenterHolds
    PROVE  TypeOK' /\ PlanInv' /\ PayloadInv'
<1>1. ApiTypes' /\ ChannelTypes' /\ todo' \in Seq(Steps) /\ PlanInv' /\ PayloadTypes'
      /\ Accounts' /\ BarrierPart' /\ SubmitPart' /\ P!TypeOK'
  BY ApiTypesStep, ChannelTypesStep, PlanStep, AccountsStep, BarrierStep, SubmitStep DEF PresenterHolds
<1>2. PayloadInv'
  BY <1>1 DEF PayloadInv, Accounts, BarrierPart, SubmitPart
<1>3. TypeOK'
  BY <1>1 DEF TypeOK, ApiTypes, ChannelTypes, PayloadTypes
<1>4. QED  BY <1>1, <1>2, <1>3

-----------------------------------------------------------------------------
(* Where presentation rests *)

\* Idle presentation stays idle with nothing to submit.
LEMMA IdleStays ==
    ASSUME PipelineInv, [Next]_vars, PresentIdle, in_flight = 0, ~At("submit")
    PROVE  PresentIdle'
<1> USE DEF PipelineInv
<1>1. /\ pending = <<>> /\ on_gpu = {} /\ submit = "idle" /\ work = <<>>
  BY InFlight DEF PresentIdle
<1>2. presenter \notin {"peeked", "hold", "hold_asleep", "check", "next_drawable", "encode"}
  BY <1>1 DEF P!PendingShowsItsFrame
<1>3. ASSUME UNCHANGED <<pending, on_gpu>>, submit' \in {submit, P!Woken(submit)} PROVE PresentIdle'
  BY <1>1, <1>3 DEF PresentIdle, P!Woken
<1>4. ASSUME UNCHANGED presentVars PROVE PresentIdle'
  BY <1>3, <1>4 DEF presentVars
<1>5. ASSUME NEW hurry, P!set_wait_policy(hurry) PROVE PresentIdle'
  BY <1>3, <1>5 DEF P!set_wait_policy, P!NotifySubmitCv, P!innerVars
<1>6. CASE destroy_command_queue
  BY <1>3, <1>6 DEF destroy_command_queue, P!stop_and_join, P!NotifySubmitCv, P!innerVars
<1>7. CASE (Application \/ Api) /\ ~destroy_command_queue
  <2>1. UNCHANGED presentVars \/ P!set_wait_policy(TRUE)
    BY <1>7 DEF Application, present, request, hurry_presentation, shutdown, Api, CheckStatus,
                send, Destroyed
  <2>2. QED  BY <1>4, <1>5, <2>1
<1>8. CASE Encoder
  <2>1. UNCHANGED presentVars \/ P!set_wait_policy(TRUE) \/ P!set_wait_policy(FALSE) \/ P!StartIdleWait
    BY <1>8 DEF Encoder, receive, drain_submit_thread, Drained, drain_presentation, capture, replay,
                acquire_clean_payload, dispatch_submit, submit_sync, set_present_wait_policy,
                wait_for_gpu_retire, reply, exit
  <2>2. CASE P!StartIdleWait
    BY <1>3, <2>2 DEF P!StartIdleWait, P!innerVars, P!submitVars
  <2>3. QED  BY <1>4, <1>5, <2>1, <2>2
<1>9. CASE Submitting
  <2>1. ~P!Submit
    BY <1>1 DEF P!Submit, P!resolve_present_conflict, P!SubmitWakes, P!CommitRender, P!push
  <2>2. UNCHANGED presentVars
    BY <1>1, <1>9, <2>1 DEF Submitting, submit_thread_main
  <2>3. QED  BY <1>4, <2>2
<1>10. CASE Presenting
  <2>1. P!LookForPacket \/ P!StopPresenting
    BY <1>2, <1>10 DEF Presenting, P!present_frame, P!LeaveGate, P!hold_until, P!CheckWindow,
                       P!nextDrawable, P!CommitPresent, P!pop_and_drop, P!HoldTimesOut
  <2>2. CASE P!LookForPacket
    BY <1>3, <2>2 DEF P!LookForPacket, P!innerVars, P!submitVars
  <2>3. CASE P!StopPresenting
    BY <1>1, <1>3, <2>3 DEF P!StopPresenting, P!NotifySubmitCv
  <2>4. QED  BY <2>1, <2>2, <2>3
<1>11. CASE Waiting
  <2>1. ~P!GpuEnds
    BY <1>1 DEF P!GpuEnds
  <2>2. QED  BY <1>3, <1>11, <2>1 DEF Waiting, P!IdleWait, P!IdleWaitWakes, P!EndIdleWait, P!innerVars,
                                      P!submitVars
<1>12. CASE UNCHANGED vars
  BY <1>4, <1>12 DEF vars
<1>13. QED
  BY <1>6, <1>7, <1>8, <1>9, <1>10, <1>11, <1>12 DEF Next, Ended

\* The idle wait begins with its step, and ends with presentation idle.
LEMMA IdleWaitPlace ==
    ASSUME PipelineInv, [Next]_vars, PresenterHolds
    PROVE  /\ idle_wait = "none" /\ idle_wait' # "none" => At("present_idle") /\ drain_presentation
           /\ idle_wait # "none" /\ idle_wait' = "none" => PresentIdle' /\ UNCHANGED pipelineVars
<1> USE DEF PipelineInv
<1>1. ASSUME idle_wait' \in {idle_wait, P!Woken(idle_wait)}
      PROVE  (idle_wait = "none") <=> (idle_wait' = "none")
  BY <1>1 DEF P!Woken
<1>2. ASSUME UNCHANGED presentVars PROVE idle_wait' = idle_wait
  BY <1>2 DEF presentVars
<1>3. ASSUME NEW hurry, P!set_wait_policy(hurry) PROVE idle_wait' = P!Woken(idle_wait)
  BY <1>3 DEF P!set_wait_policy, P!NotifySubmitCv
<1>4. CASE destroy_command_queue
  BY <1>1, <1>4 DEF destroy_command_queue, P!stop_and_join, P!NotifySubmitCv
<1>5. CASE (Application \/ Api) /\ ~destroy_command_queue
  <2>1. UNCHANGED presentVars \/ P!set_wait_policy(TRUE)
    BY <1>5 DEF Application, present, request, hurry_presentation, shutdown, Api, CheckStatus,
                send, Destroyed
  <2>2. QED  BY <1>1, <1>2, <1>3, <2>1
<1>6. CASE Encoder
  <2>1. \/ UNCHANGED presentVars \/ P!set_wait_policy(TRUE) \/ P!set_wait_policy(FALSE)
        \/ At("present_idle") /\ P!StartIdleWait /\ drain_presentation
        \/ \E seq, presents : P!StartSubmit(seq, presents)
    BY <1>6 DEF Encoder, receive, drain_submit_thread, Drained, drain_presentation, capture, replay,
                acquire_clean_payload, dispatch_submit, submit_sync, execute_submit,
                set_present_wait_policy, wait_for_gpu_retire, reply, exit
  <2>2. CASE At("present_idle") /\ P!StartIdleWait /\ drain_presentation
    BY <2>2 DEF P!StartIdleWait
  <2>3. CASE \E seq, presents : P!StartSubmit(seq, presents)
    BY <2>3 DEF P!StartSubmit, P!idleVars
  <2>4. QED  BY <1>1, <1>2, <1>3, <2>1, <2>2, <2>3
<1>7. CASE Submitting
  <2>1. CASE submit_thread_main
    BY <1>2, <2>1 DEF submit_thread_main, execute_submit, P!StartSubmit, P!idleVars
  <2>2. CASE P!Submit
    BY <1>1, <2>2 DEF P!Submit, P!resolve_present_conflict, P!SubmitWakes, P!CommitRender, P!push,
                      P!WaitFor, P!snapshot_into, P!idleVars
  <2>3. QED  BY <1>7, <2>1, <2>2 DEF Submitting
<1>8. CASE Presenting
  <2>1. idle_wait' \in {idle_wait, P!Woken(idle_wait)}
    BY <1>8 DEF Presenting, P!present_frame, P!LookForPacket, P!StopPresenting, P!LeaveGate, P!hold_until,
                P!CheckWindow, P!nextDrawable, P!CommitPresent, P!pop_and_drop, P!DropFront,
                P!NotifySubmitCv, P!HoldTimesOut, P!idleVars
  <2>2. QED  BY <1>1, <2>1
<1>9. CASE Waiting
  <2>1. CASE P!GpuEnds
    BY <2>1 DEF P!GpuEnds, P!idleVars
  <2>2. CASE P!IdleWaitWakes
    BY <2>2 DEF P!IdleWaitWakes
  <2>3. CASE P!EndIdleWait
    <3>1. idle_wait = "retire" /\ idle_wait' = "none" /\ UNCHANGED <<pending, on_gpu, submit>>
      BY <2>3 DEF P!EndIdleWait, P!innerVars, P!submitVars
    <3>3. pending = <<>> /\ on_gpu = {}
      BY <3>1 DEF PresenterHolds
    <3>4. At("present_idle_wait")
      BY <3>1 DEF RestInv
    <3>5. submit = "idle"
      BY <3>4, AloneAt DEF Alone
    <3>6. QED  BY <1>9, <3>1, <3>3, <3>5 DEF PresentIdle, Waiting
  <2>4. QED  BY <1>9, <2>1, <2>2, <2>3 DEF Waiting, P!IdleWait
<1>10. CASE UNCHANGED vars
  BY <1>2, <1>10 DEF vars
<1>11. QED
  BY <1>4, <1>5, <1>6, <1>7, <1>8, <1>9, <1>10 DEF Next, Ended

\* Nothing is done while presentation drains.
LEMMA WaitHolds ==
    ASSUME PipelineInv, [Next]_vars, At("present_idle_wait"), idle_wait # "none"
    PROVE  UNCHANGED <<msg, todo, in_flight>>
<1>1. \A x : At(x) => x = "present_idle_wait"
  BY DEF At
<1>2. ~receive
  BY MessageFacts DEF PipelineInv, PlanInv, receive, At
<1>3. ~reply
  BY <1>1 DEF reply
<1>4. QED  BY <1>1, <1>2, <1>3, Moves

\* A capture starts or stops behind the wait for presentation.
LEMMA CaptureNext ==
    ASSUME TypeOK, PlanInv, todo # <<>>, Step, UNCHANGED msg, NEW x \in {"capture_on", "capture_off"},
           At(x)', Head(todo) # "present_idle"
    PROVE  Head(todo) = "present_idle_wait"
<1>1. /\ todo' \in Seq(Steps) /\ Left = {Head(todo)} \union Left'
      /\ \A y \in Left' : \/ Stage(Head(todo), msg) < Stage(y, msg)
                          \/ Stage(Head(todo), msg) = 1 /\ y = "drain"
  BY StepLeft
<1>2. PlanInv'
  BY StepPlan
<1>3. todo' # <<>> /\ Head(todo') = x
  BY DEF At
<1>4. x \in Left'
  <2>1. Head(todo') = todo'[1] /\ 1 \in 1..Len(todo')
    BY <1>1, <1>3
  <2>2. QED  BY <1>3, <2>1 DEF Left, StepsOf
<1>5. Head(todo) # x
  BY <1>1, <1>4, Stages, SMTT(30)
<1>6. "present_idle" \in Left \/ Head(todo) = "present_idle_wait"
  BY <1>1, <1>4, <1>5 DEF PlanInv, At
<1>7. SUFFICES ASSUME "present_idle" \in Left' PROVE FALSE
  BY <1>1, <1>6
<1>8. Stage(x, msg) < Stage("present_idle", msg)
  BY <1>3, <1>7, NextFirst, Stages
<1>9. x = "capture_on" <=> "stop" \notin msg.marks
  BY <1>2, <1>4 DEF PlanInv
<1>10. QED  BY <1>8, <1>9, Stages, SMTT(30)

\* A list that holds a capture's start or stop and the wait before it does not
\* begin with the former.
LEMMA CaptureBegins ==
    ASSUME todo' \in Seq(Steps), PlanInv', NEW x \in {"capture_on", "capture_off"}, At(x)'
    PROVE  "present_idle" \notin Left'
<1>1. todo' # <<>> /\ Head(todo') = x /\ InOrder(todo', msg')
  BY DEF At, PlanInv
<1>2. x \in Left'
  <2>1. Head(todo') = todo'[1] /\ 1 \in 1..Len(todo')
    BY <1>1
  <2>2. QED  BY <1>1, <2>1 DEF Left, StepsOf
<1>3. x = "capture_on" <=> "stop" \notin msg'.marks
  BY <1>2 DEF PlanInv
<1>4. SUFFICES ASSUME "present_idle" \in Left' PROVE FALSE
  OBVIOUS
<1>5. \/ x = "present_idle"
      \/ Stage(x, msg') < Stage("present_idle", msg')
      \/ Stage(x, msg') = 1 /\ "present_idle" = "drain"
  BY <1>1, <1>4, FirstLeft DEF Left
<1>6. QED  BY <1>3, <1>5, Stages, SMTT(30)

LEMMA RestStep ==
    ASSUME PipelineInv, [Next]_vars, PresenterHolds
    PROVE  RestInv'
<1> USE DEF PipelineInv
<1>0. /\ idle_wait # "none" => At("present_idle_wait")
      /\ At("present_idle_wait") /\ idle_wait = "none" => PresentIdle
      /\ At("capture_on") \/ At("capture_off") => PresentIdle
      /\ msg.kind = "shutdown" /\ Drains \intersect Left = {} => PresentIdle /\ in_flight = 0
      /\ "STOP" \in flags => api \in {"stopping", "gone"}
  BY DEF RestInv
<1>1. \A x, y : At(x) /\ At(y) => x = y
  BY DEF At
<1>2. ASSUME UNCHANGED todo PROVE \A x : At(x)' <=> At(x)
  BY <1>2 DEF At
<1>3. TypeOK' /\ PlanInv' /\ todo' \in Seq(Steps)
  BY TypeStep, PlanStep
<1>4. \A x : At(x)' => x \in Left'
  <2>1. todo' # <<>> => Head(todo') = todo'[1] /\ 1 \in 1..Len(todo')
    BY <1>3
  <2>2. QED  BY <2>1 DEF Left, StepsOf, At
<1>5. ASSUME At("present_idle_wait") \/ At("capture_on") \/ At("capture_off"), PresentIdle
      PROVE  PresentIdle'
  <2>1. in_flight = 0
    BY <1>5, AloneAt DEF Alone
  <2>2. ~At("submit")
    BY <1>1, <1>5
  <2>3. QED  BY <1>5, <2>1, <2>2, IdleStays
<1>6. idle_wait' # "none" => At("present_idle_wait")'
  <2>1. SUFFICES ASSUME idle_wait' # "none" PROVE At("present_idle_wait")'
    OBVIOUS
  <2>2. CASE idle_wait = "none"
    <3>1. At("present_idle") /\ drain_presentation
      BY <2>1, <2>2, IdleWaitPlace
    <3>2. Block("present_idle_wait") /\ UNCHANGED msg
      BY <1>1, <3>1 DEF drain_presentation
    <3>3. QED  BY <3>1, <3>2, BlockPlan
  <2>3. CASE idle_wait # "none"
    BY <1>0, <1>2, <2>3, WaitHolds
  <2>4. QED  BY <2>2, <2>3
<1>7. ASSUME At("present_idle_wait")', ~At("present_idle_wait") PROVE P!StartIdleWait
  <2>1. \A x : At(x)' => x = "present_idle_wait"
    BY <1>7 DEF At
  <2>2. ~(UNCHANGED todo)
    BY <1>2, <1>7
  <2>3. ~receive
    <3>1. receive => "present_idle_wait" \notin Left'
      BY ReceivedPlan, SMTT(30) DEF Given
    <3>2. QED  BY <1>4, <1>7, <3>1
  <2>4. ~(UNCHANGED msg /\ \E x \in Steps : At(x) /\ Step)
    BY <1>7, NotInline DEF At
  <2>5. ~(UNCHANGED msg /\ At("drain") /\ Block("draining"))
    BY <2>1, BlockPlan
  <2>6. ~(UNCHANGED msg /\ At("submit") /\ Block("inline"))
    BY <2>1, BlockPlan
  <2>7. ~(UNCHANGED msg /\ At("replay") /\ todo' = CaptureStop(msg) \o <<"fail_reply">>)
    <3>1. SUFFICES ASSUME UNCHANGED msg, At("replay"), todo' = CaptureStop(msg) \o <<"fail_reply">>
                   PROVE  "present_idle_wait" \notin Left'
      BY <1>4, <1>7
    <3>2. QED  BY <3>1, FailedReplay, SMTT(30) DEF Given, CaptureInv
  <2>8. ~reply
    <3>1. SUFFICES ASSUME reply PROVE FALSE
      OBVIOUS
    <3>2. PICK step \in Replies : At(step) /\ Step
      BY <3>1 DEF reply, Replies
    <3>3. QED  BY <1>4, <1>7, <3>2, LastStep
  <2>9. QED  BY <2>2, <2>3, <2>4, <2>5, <2>6, <2>7, <2>8, Moves
<1>8. At("present_idle_wait")' /\ idle_wait' = "none" => PresentIdle'
  <2>1. SUFFICES ASSUME At("present_idle_wait")', idle_wait' = "none" PROVE PresentIdle'
    OBVIOUS
  <2>2. CASE idle_wait # "none"
    BY <2>1, <2>2, IdleWaitPlace
  <2>3. CASE idle_wait = "none" /\ At("present_idle_wait")
    BY <1>0, <1>5, <2>3
  <2>4. CASE ~At("present_idle_wait")
    BY <1>7, <2>1, <2>4 DEF P!StartIdleWait
  <2>5. QED  BY <2>2, <2>3, <2>4
<1>9. ASSUME NEW c \in {"capture_on", "capture_off"}, At(c)' PROVE PresentIdle'
  <2>1. CASE At(c)
    BY <1>0, <1>5, <2>1
  <2>2. CASE ~At(c)
    <3>1. ~(UNCHANGED todo)
      BY <1>2, <1>9, <2>2
    <3>2. "present_idle" \notin Left'
      BY <1>3, <1>9, CaptureBegins
    <3>3. ~receive
      <4>1. receive => ("capture_on" \in Left' \/ "capture_off" \in Left' => "present_idle" \in Left')
        BY ReceivedPlan, SMTT(30) DEF Given
      <4>2. QED  BY <1>4, <1>9, <3>2, <4>1
    <3>4. ASSUME NEW x \in Steps, At(x), Step, x # "present_idle", UNCHANGED msg,
                 x = "present_idle_wait" => idle_wait = "none" /\ UNCHANGED presentVars
          PROVE  PresentIdle'
      <4>1. todo # <<>> /\ Head(todo) = x
        BY <3>4 DEF At
      <4>2. x = "present_idle_wait"
        BY <1>9, <3>4, <4>1, CaptureNext
      <4>3. QED  BY <1>0, <1>5, <3>4, <4>2
    <3>5. \A x : At(x)' => x = c
      BY <1>9 DEF At
    <3>6. ~(UNCHANGED msg /\ At("drain") /\ Block("draining"))
      BY <3>5, BlockPlan
    <3>7. ~(UNCHANGED msg /\ At("submit") /\ Block("inline"))
      BY <3>5, BlockPlan
    <3>8. ~(UNCHANGED msg /\ At("present_idle") /\ Block("present_idle_wait"))
      BY <3>5, BlockPlan
    <3>9. ~(UNCHANGED msg /\ At("replay") /\ todo' = CaptureStop(msg) \o <<"fail_reply">>)
      <4>1. SUFFICES ASSUME UNCHANGED msg, At("replay"), todo' = CaptureStop(msg) \o <<"fail_reply">>
                     PROVE  c \in Left' => "present_idle" \in Left'
        BY <1>4, <1>9, <3>2
      <4>2. QED  BY <4>1, FailedReplay DEF Given, CaptureInv
    <3>10. ~reply
      <4>1. SUFFICES ASSUME reply PROVE FALSE
        OBVIOUS
      <4>2. PICK step \in Replies : At(step) /\ Step
        BY <4>1 DEF reply, Replies
      <4>3. QED  BY <1>4, <1>9, <4>2, LastStep
    <3>11. QED  BY <3>1, <3>3, <3>4, <3>6, <3>7, <3>8, <3>9, <3>10, Moves
  <2>3. QED  BY <2>1, <2>2
<1>10. ASSUME msg'.kind = "shutdown", Drains \intersect Left' = {}
       PROVE  PresentIdle' /\ in_flight' = 0
  <2>1. ASSUME msg.kind = "shutdown", Drains \intersect Left = {} PROVE PresentIdle'
    <3>1. PresentIdle /\ in_flight = 0
      BY <1>0, <2>1
    <3>2. "submit" \notin Left
      BY <2>1 DEF PlanInv, Frames
    <3>3. ~At("submit")
      BY <3>2, AtFirst
    <3>4. QED  BY <3>1, <3>3, IdleStays
  <2>2. CASE UNCHANGED <<msg, todo, in_flight>>
    <3>1. Left' = Left
      BY <2>2 DEF Left
    <3>2. QED  BY <1>0, <1>10, <2>1, <2>2, <3>1
  <2>3. ~receive
    <3>1. receive /\ msg'.kind = "shutdown" => "drain" \in Left'
      BY ReceivedPlan DEF Given, Frames
    <3>2. QED  BY <1>10, <3>1 DEF Drains
  <2>4. ASSUME NEW x \in Steps, At(x), Step, x # "present_idle", UNCHANGED msg,
               x = "present_idle_wait" => idle_wait = "none" /\ UNCHANGED presentVars,
               x \notin {"drain", "draining", "acquire", "submit"} => UNCHANGED in_flight
        PROVE  PresentIdle' /\ in_flight' = 0
    <3>1. \A y : y \in Left <=> y = x \/ y \in Left'
      <4>1. todo # <<>> /\ Head(todo) = x
        BY <2>4 DEF At
      <4>2. QED  BY <2>4, <4>1, StepLeft
    <3>2. x # "acquire" /\ x # "submit"
      BY <1>10, <2>4, <3>1 DEF PlanInv, Frames
    <3>3. x # "drain" /\ x # "draining"
      BY <1>10, <2>4, <3>1 DEF PlanInv, Drains
    <3>4. CASE x = "present_idle_wait"
      <4>1. in_flight = 0
        BY <2>4, <3>4, AloneAt DEF Alone
      <4>2. QED  BY <1>0, <1>5, <2>4, <3>2, <3>3, <3>4, <4>1
    <3>5. CASE x # "present_idle_wait"
      <4>1. Drains \intersect Left = {}
        BY <1>10, <2>4, <3>1, <3>3, <3>5 DEF Drains
      <4>2. QED  BY <1>0, <1>10, <2>1, <2>4, <3>2, <3>3, <4>1
    <3>6. QED  BY <3>4, <3>5
  <2>5. ~(UNCHANGED msg /\ At("drain") /\ Block("draining"))
    <3>1. "draining" \notin Left'
      BY <1>10 DEF Drains
    <3>2. QED  BY <3>1, BlockPlan
  <2>6. ~(UNCHANGED msg /\ At("present_idle") /\ Block("present_idle_wait"))
    <3>1. "present_idle_wait" \notin Left'
      BY <1>10 DEF Drains
    <3>2. QED  BY <3>1, BlockPlan
  <2>7. ASSUME UNCHANGED msg PROVE ~At("submit") /\ ~At("replay")
    <3>1. "submit" \notin Left
      BY <1>10, <2>7 DEF PlanInv, Frames
    <3>2. QED  BY <3>1, AtFirst DEF PlanInv
  <2>8. ~reply
    BY <1>10, MessageFacts DEF reply
  <2>9. QED  BY <2>2, <2>3, <2>4, <2>5, <2>6, <2>7, <2>8, Moves
<1>11. "STOP" \in flags' => api' \in {"stopping", "gone"}
  <2>1. SUFFICES ASSUME "STOP" \in flags' PROVE api' \in {"stopping", "gone"}
    OBVIOUS
  <2>2. CASE "STOP" \in flags
    <3>1. api \in {"stopping", "gone"} /\ todo = <<>>
      BY <1>0, <2>2 DEF ProtocolInv
    <3>2. ~Application /\ ~reply /\ ~exit
      BY <3>1 DEF Application, present, request, shutdown, reply, exit, At
    <3>3. CASE Api
      BY <3>1, <3>3 DEF Api, CheckStatus, send, destroy_command_queue, Destroyed
    <3>4. CASE Encoder \/ Submitting \/ Presenting \/ Waiting \/ UNCHANGED vars
      <4>1. UNCHANGED api
        BY <3>2, <3>4 DEF Encoder, receive, drain_submit_thread, Drained, drain_presentation, capture, replay,
                acquire_clean_payload, dispatch_submit, submit_sync, set_present_wait_policy,
                wait_for_gpu_retire, Submitting, submit_thread_main, Presenting, Waiting, pipelineVars,
                vars, apiVars
      <4>2. QED  BY <3>1, <4>1
    <3>5. QED  BY <3>2, <3>3, <3>4 DEF Next, Ended
  <2>3. CASE "STOP" \notin flags
    <3>1. CASE destroy_command_queue
      BY <3>1 DEF destroy_command_queue
    <3>2. CASE ~destroy_command_queue
      <4>1. \/ UNCHANGED presentVars \/ P!set_wait_policy(TRUE) \/ P!set_wait_policy(FALSE)
            \/ P!StartIdleWait \/ (\E seq, presents : P!StartSubmit(seq, presents))
            \/ P!Submit \/ P!present_frame \/ P!HoldTimesOut \/ P!IdleWait \/ P!GpuEnds
        <5>1. CASE Application \/ Api
          BY <3>2, <5>1 DEF Application, present, request, hurry_presentation, shutdown, Api,
                            CheckStatus, send, Destroyed
        <5>2. CASE Encoder
          BY <5>2 DEF Encoder, receive, drain_submit_thread, Drained, drain_presentation, capture, replay,
                      acquire_clean_payload, dispatch_submit, submit_sync, execute_submit,
                      set_present_wait_policy, wait_for_gpu_retire, reply, exit
        <5>3. CASE Submitting
          BY <5>3 DEF Submitting, submit_thread_main, execute_submit
        <5>4. CASE Presenting \/ Waiting
          BY <5>4 DEF Presenting, Waiting
        <5>5. CASE UNCHANGED vars
          BY <5>5 DEF vars
        <5>6. QED  BY <5>1, <5>2, <5>3, <5>4, <5>5 DEF Next, Ended
      <4>2. UNCHANGED presentVars => flags' = flags
        BY DEF presentVars
      <4>3. ASSUME \/ P!set_wait_policy(TRUE) \/ P!set_wait_policy(FALSE) \/ P!StartIdleWait
                   \/ (\E seq, presents : P!StartSubmit(seq, presents)) \/ P!Submit \/ P!HoldTimesOut
                   \/ P!IdleWait \/ P!GpuEnds
            PROVE  "STOP" \notin flags'
        <5>1. CASE P!set_wait_policy(TRUE) \/ P!set_wait_policy(FALSE) \/ P!StartIdleWait
          <6>1. \/ flags' = flags \union {"HURRY"} \/ flags' = flags \ {"HURRY"}
                \/ flags' = flags \union {"DRAIN"}
            BY <5>1 DEF P!set_wait_policy, P!StartIdleWait
          <6>2. QED  BY <2>3, <6>1
        <5>2. CASE P!IdleWait
          <6>1. flags' = flags \/ flags' = flags \ {"DRAIN"}
            BY <5>2 DEF P!IdleWait, P!IdleWaitWakes, P!EndIdleWait
          <6>2. QED  BY <2>3, <6>1
        <5>3. CASE \/ (\E seq, presents : P!StartSubmit(seq, presents)) \/ P!Submit \/ P!HoldTimesOut
                   \/ P!GpuEnds
          <6>1. flags' = flags
            BY <5>3 DEF P!StartSubmit, P!Submit, P!resolve_present_conflict, P!SubmitWakes,
                        P!CommitRender, P!push, P!HoldTimesOut, P!GpuEnds
          <6>2. QED  BY <2>3, <6>1
        <5>4. QED  BY <4>3, <5>1, <5>2, <5>3
      <4>4. ASSUME P!present_frame PROVE flags' = flags
        BY <4>4 DEF P!present_frame, P!LookForPacket, P!StopPresenting, P!LeaveGate, P!hold_until,
                    P!CheckWindow, P!nextDrawable, P!CommitPresent, P!pop_and_drop, P!DropFront
      <4>5. QED  BY <2>1, <2>3, <4>1, <4>2, <4>3, <4>4
    <3>3. QED  BY <3>1, <3>2
  <2>4. QED  BY <2>2, <2>3
<1>12. QED  BY <1>6, <1>8, <1>9, <1>10, <1>11 DEF RestInv
=============================================================================
