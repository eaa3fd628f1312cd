---------------------------- MODULE PipelinePlans ---------------------------
(***************************************************************************)
(* The inductive invariant of FramePipeline, and the step of PlanInv and   *)
(* ProtocolInv, for every bound, channel and payload cap.                  *)
(*                                                                         *)
(* What the encoder has left of a message is ordered by stage (PlanInv),   *)
(* so the set of steps left says what is behind it.  PipelineBarriers and  *)
(* PipelineOrder prove the step of the other conjuncts.                    *)
(***************************************************************************)
EXTENDS FramePipeline, TLAPS

\* A frame that fails to decode takes its capture's start mark with it, and a
\* later frame stops a capture that never began; see the README.
MarksArrive == Captures => "decode" \notin Faults

-----------------------------------------------------------------------------
(* The inductive invariant *)

StepsOf(steps) == {steps[i] : i \in 1..Len(steps)}

\* The steps the encoder has left.
Left == StepsOf(todo)

\* A message's steps come in this order; presentation is drained before a
\* capture starts and before one stops.
Stage(step, m) ==
    CASE step \in {"drain", "draining"} -> 1
      [] step \in {"present_idle", "present_idle_wait"} -> IF "stop" \in m.marks THEN 7 ELSE 2
      [] step = "capture_on" -> 3
      [] step = "replay" -> 4
      [] step = "acquire" -> 5
      [] step \in {"submit", "inline"} -> 6
      [] step = "capture_off" -> 8
      [] step = "policy_down" -> 9
      [] step = "gpu_wait" -> 10
      [] OTHER -> 11

\* A drain may be followed by another.
InOrder(steps, m) ==
    \A i, j \in 1..Len(steps) :
        i < j => \/ Stage(steps[i], m) < Stage(steps[j], m)
                 \/ Stage(steps[i], m) = 1 /\ steps[j] = "drain"

Marked(m) ==
    /\ m.marks \in {{}, {"start"}, {"stop"}}
    /\ m.marks # {} => Captures /\ m.kind \in Frames
    /\ "stop" \in m.marks => m.kind = "queue"

Replies == {"reply", "drop_reply", "fail_reply", "exit"}

\* What is left of a message, by the steps that must precede one another.
PlanInv ==
    /\ InOrder(todo, msg)
    /\ msg.kind = "none" => msg = NoMsg /\ todo = <<>>
    /\ \A step \in {"draining", "present_idle_wait", "inline"} : step \in Left => At(step)
    /\ "replay" \in Left => "acquire" \in Left
    /\ "acquire" \in Left => "submit" \in Left
    /\ "submit" \in Left => "acquire" \in Left \/ At("submit")
    /\ \A step \in {"capture_on", "capture_off"} :
           step \in Left => At(step) \/ "present_idle" \in Left \/ "present_idle_wait" \in Left
    /\ {"submit", "inline"} \intersect Left # {} => msg.kind \in Frames
    /\ "stop" \in msg.marks /\ {"submit", "present_idle", "present_idle_wait"} \intersect Left # {}
           => "capture_off" \in Left
    /\ "capture_off" \in Left => "stop" \in msg.marks
    /\ "capture_on" \in Left => "stop" \notin msg.marks
    /\ "gpu_wait" \in Left => msg.kind # "queue"
    /\ "exit" \in Left => msg.kind = "shutdown"
    /\ msg.kind = "shutdown" /\ {"drain", "draining"} \intersect Left # {} => "present_idle" \in Left

\* The steps that need the submit thread drained.
Alone == {"present_idle", "present_idle_wait", "capture_on", "capture_off", "inline", "gpu_wait",
          "exit"} \union (IF msg.kind # "queue" THEN {"submit"} ELSE {})

Executing == IF executing = "submit_thread" THEN 1 ELSE 0
Held == IF At("submit") \/ At("inline") THEN 1 ELSE 0

\* Where the payloads are, and who may submit.
PayloadInv ==
    /\ in_flight = Len(work) + returned + Executing
    /\ Len(work) <= 1
    /\ payloads_total = pool + in_flight + Held
    /\ payloads_total <= PayloadCap
    /\ Alone \intersect Left # {} => in_flight = 0 \/ {"drain", "draining"} \intersect Left # {}
    /\ capturing => in_flight = 0
    /\ "capture_off" \in Left => capturing
    /\ executing = "encoder" <=> At("inline")
    /\ executing = "nobody" => submit = "idle"

PresentIdle == pending = <<>> /\ on_gpu = {} /\ submit = "idle"
Drains == {"drain", "draining", "present_idle", "present_idle_wait"}

\* Where presentation rests.
RestInv ==
    /\ idle_wait # "none" => At("present_idle_wait")
    /\ At("present_idle_wait") /\ idle_wait = "none" => PresentIdle
    /\ At("capture_on") \/ At("capture_off") => PresentIdle
    /\ msg.kind = "shutdown" /\ Drains \intersect Left = {} => PresentIdle /\ in_flight = 0
    /\ "STOP" \in flags => api \in {"stopping", "gone"}

\* One blocking message at a time, the last in the channel.
ProtocolInv ==
    /\ api \in {"idle", "check", "sending"} =>
           /\ msg.kind \in {"queue", "none"}
           /\ \A i \in 1..Len(channel) : channel[i].kind = "queue"
    /\ api \in {"check", "sending"} => api_msg.kind # "none"
    /\ api = "awaiting" =>
           /\ api_msg.kind \notin {"queue", "none"}
           /\ \/ msg = api_msg /\ channel = <<>>
              \/ /\ msg.kind \in {"queue", "none"} /\ channel # <<>>
                 /\ channel[Len(channel)] = api_msg
                 /\ \A i \in 1..Len(channel) : i < Len(channel) => channel[i].kind = "queue"
    /\ api \in {"joined", "stopping", "gone"} =>
           channel = <<>> /\ msg.kind = "shutdown" /\ todo = <<>>

Behind(seq) == submit_seq < seq /\ \A i \in 1..Len(work) : work[i].seq < seq

\* The sequences ascend from the submit back to the API thread.
SeqInv ==
    /\ Behind(next_seq) /\ msg.seq < next_seq /\ api_msg.seq < next_seq
    /\ \A i \in 1..Len(work) : submit_seq < work[i].seq
    /\ "submit" \in Left => Behind(msg.seq)
    /\ \A i \in 1..Len(channel) :
           /\ channel[i].seq < next_seq
           /\ channel[i].kind \in Frames => Behind(channel[i].seq) /\ msg.seq < channel[i].seq
    /\ \A i, j \in 1..Len(channel) :
           i < j /\ channel[j].kind \in Frames => channel[i].seq < channel[j].seq
    /\ api \in {"check", "sending"} /\ api_msg.kind \in Frames =>
           /\ Behind(api_msg.seq) /\ msg.seq < api_msg.seq
           /\ \A i \in 1..Len(channel) : channel[i].seq < api_msg.seq

\* Who keeps the presenter hurried.
HurryInv ==
    "HURRY" \in flags /\ ~failure =>
        \/ At("draining")
        \/ /\ api \in {"check", "sending", "awaiting"} /\ api_msg.kind \in Hurried
           /\ msg = api_msg => {"policy_down", "fail_reply"} \intersect Left # {}

\* Whether a capture runs once the message is done, and where the message at
\* place p of the channel finds it running.
RunsOn == "capture_on" \in Left \/ (capturing /\ "capture_off" \notin Left)

OpenBefore(p) ==
    \/ RunsOn /\ \A r \in 1..(p - 1) : "stop" \notin channel[r].marks
    \/ \E q \in 1..(p - 1) : /\ "start" \in channel[q].marks
                             /\ \A r \in (q + 1)..(p - 1) : "stop" \notin channel[r].marks

Stamped == api \in {"check", "sending"}

\* A stop mark finds its capture running.
CaptureInv ==
    /\ Marked(msg) /\ Marked(api_msg)
    /\ \A p \in 1..Len(channel) : Marked(channel[p])
    /\ marked => Captures
    /\ ~failed_replay =>
        /\ \A p \in 1..Len(channel) : "stop" \in channel[p].marks => OpenBefore(p)
        /\ Stamped /\ "stop" \in api_msg.marks => OpenBefore(Len(channel) + 1)
        /\ marked /\ ~failure =>
              \/ Stamped /\ "start" \in api_msg.marks
              \/ ~(Stamped /\ "stop" \in api_msg.marks) /\ OpenBefore(Len(channel) + 1)

PipelineInv ==
    /\ TypeOK /\ P!PendingShowsItsFrame
    /\ PlanInv /\ PayloadInv /\ RestInv /\ ProtocolInv /\ SeqInv /\ HurryInv /\ CaptureInv
\* What a step of the presenter keeps and shows; module FramePipelineProofs
\* derives it from PresenterProofs.
PresenterHolds ==
    /\ P!TypeOK' /\ P!PendingShowsItsFrame'
    /\ idle_wait = "retire" /\ idle_wait' = "none" => pending = <<>> /\ on_gpu = {}

-----------------------------------------------------------------------------
(* Lists of steps *)

\* Every step has its stage.
LEMMA Stages ==
    ASSUME NEW m
    PROVE  /\ \A step : Stage(step, m) \in 1..11
           /\ Stage("drain", m) = 1 /\ Stage("draining", m) = 1
           /\ Stage("present_idle", m) = IF "stop" \in m.marks THEN 7 ELSE 2
           /\ Stage("present_idle_wait", m) = IF "stop" \in m.marks THEN 7 ELSE 2
           /\ Stage("capture_on", m) = 3 /\ Stage("replay", m) = 4 /\ Stage("acquire", m) = 5
           /\ Stage("submit", m) = 6 /\ Stage("inline", m) = 6 /\ Stage("capture_off", m) = 8
           /\ Stage("policy_down", m) = 9 /\ Stage("gpu_wait", m) = 10
           /\ \A step \in Replies : Stage(step, m) = 11
           /\ \A step \in Steps \ Replies : Stage(step, m) < 11
BY DEF Stage, Replies, Steps

\* The first step, and the steps behind it.
LEMMA FirstStep ==
    ASSUME NEW t \in Seq(Steps), t # <<>>, NEW m, InOrder(t, m)
    PROVE  /\ Tail(t) \in Seq(Steps) /\ InOrder(Tail(t), m)
           /\ Head(t) \in Steps /\ StepsOf(t) = {Head(t)} \union StepsOf(Tail(t))
           /\ \A step \in StepsOf(Tail(t)) :
                  \/ Stage(Head(t), m) < Stage(step, m)
                  \/ Stage(Head(t), m) = 1 /\ step = "drain"
<1>1. /\ Tail(t) \in Seq(Steps) /\ Len(Tail(t)) = Len(t) - 1 /\ Len(t) \in Nat \ {0}
      /\ \A i \in 1..Len(Tail(t)) : i + 1 \in 1..Len(t) /\ Tail(t)[i] = t[i + 1]
      /\ 1 \in 1..Len(t) /\ Head(t) = t[1] /\ t[1] \in Steps
  OBVIOUS
<1>2. InOrder(Tail(t), m)
  <2>1. SUFFICES ASSUME NEW i \in 1..Len(Tail(t)), NEW j \in 1..Len(Tail(t)), i < j
                 PROVE  \/ Stage(t[i + 1], m) < Stage(t[j + 1], m)
                        \/ Stage(t[i + 1], m) = 1 /\ t[j + 1] = "drain"
    BY <1>1 DEF InOrder
  <2>2. i + 1 \in 1..Len(t) /\ j + 1 \in 1..Len(t) /\ i + 1 < j + 1
    BY <1>1, <2>1
  <2>3. QED  BY <2>2 DEF InOrder
<1>3. StepsOf(t) = {Head(t)} \union StepsOf(Tail(t))
  <2>1. \A i \in 1..Len(t) : i = 1 \/ (i - 1 \in 1..Len(Tail(t)) /\ Tail(t)[i - 1] = t[i])
    BY <1>1
  <2>2. QED  BY <1>1, <2>1, SMTT(30) DEF StepsOf
<1>4. ASSUME NEW step \in StepsOf(Tail(t))
      PROVE  \/ Stage(Head(t), m) < Stage(step, m)
             \/ Stage(Head(t), m) = 1 /\ step = "drain"
  <2>1. PICK i \in 1..Len(Tail(t)) : step = Tail(t)[i]
    BY DEF StepsOf
  <2>2. i + 1 \in 1..Len(t) /\ step = t[i + 1] /\ 1 < i + 1
    BY <1>1, <2>1
  <2>3. QED  BY <1>1, <2>2 DEF InOrder
<1>5. QED  BY <1>1, <1>2, <1>3, <1>4

\* A step that blocks takes the place of the first.
LEMMA BlockedStep ==
    ASSUME NEW t \in Seq(Steps), t # <<>>, NEW m, InOrder(t, m),
           NEW step \in Steps, Stage(step, m) = Stage(Head(t), m),
           NEW u, u = <<step>> \o Tail(t)
    PROVE  /\ u \in Seq(Steps) /\ u # <<>> /\ Head(u) = step /\ InOrder(u, m)
           /\ StepsOf(u) = {step} \union StepsOf(Tail(t))
<1>1. /\ Tail(t) \in Seq(Steps) /\ InOrder(Tail(t), m)
      /\ \A s \in StepsOf(Tail(t)) :
                  \/ Stage(Head(t), m) < Stage(s, m)
                  \/ Stage(Head(t), m) = 1 /\ s = "drain"
  BY FirstStep
<1>2. /\ u \in Seq(Steps) /\ Len(u) = Len(Tail(t)) + 1 /\ u[1] = step /\ Len(Tail(t)) \in Nat
      /\ \A i \in 1..Len(Tail(t)) : i + 1 \in 1..Len(u) /\ u[i + 1] = Tail(t)[i]
  BY <1>1
<1>3. \A i \in 1..Len(u) : i = 1 \/ (i - 1 \in 1..Len(Tail(t)) /\ u[i] = Tail(t)[i - 1])
  BY <1>2
<1>4. u # <<>> /\ Head(u) = step
  BY <1>2
<1>5. StepsOf(u) = {step} \union StepsOf(Tail(t))
  <2>1. 1 \in 1..Len(u)
    BY <1>2
  <2>2. QED  BY <1>2, <1>3, <2>1 DEF StepsOf
<1>6. InOrder(u, m)
  <2>1. SUFFICES ASSUME NEW i \in 1..Len(u), NEW j \in 1..Len(u), i < j
                 PROVE  \/ Stage(u[i], m) < Stage(u[j], m)
                        \/ Stage(u[i], m) = 1 /\ u[j] = "drain"
    BY DEF InOrder
  <2>2. j - 1 \in 1..Len(Tail(t)) /\ u[j] = Tail(t)[j - 1]
    BY <1>2, <1>3, <2>1
  <2>3. CASE i = 1
    <3>1. Tail(t)[j - 1] \in StepsOf(Tail(t))
      BY <2>2 DEF StepsOf
    <3>2. QED  BY <1>1, <1>2, <2>2, <2>3, <3>1
  <2>4. CASE i # 1
    <3>1. i - 1 \in 1..Len(Tail(t)) /\ u[i] = Tail(t)[i - 1] /\ i - 1 < j - 1
      BY <1>2, <1>3, <2>1, <2>4
    <3>2. QED  BY <1>1, <2>2, <3>1 DEF InOrder
  <2>5. QED  BY <2>3, <2>4
<1>7. QED  BY <1>2, <1>4, <1>5, <1>6

\* Two lists in a row.
LEMMA JoinedSteps ==
    ASSUME NEW m, NEW s \in Seq(Steps), NEW t \in Seq(Steps), InOrder(s, m), InOrder(t, m),
           \A x \in StepsOf(s), y \in StepsOf(t) :
               Stage(x, m) < Stage(y, m) \/ (Stage(x, m) = 1 /\ y = "drain")
    PROVE  /\ s \o t \in Seq(Steps) /\ InOrder(s \o t, m)
           /\ StepsOf(s \o t) = StepsOf(s) \union StepsOf(t)
<1>0. SUFFICES ASSUME NEW u, u = s \o t
               PROVE  /\ u \in Seq(Steps) /\ InOrder(u, m)
                      /\ StepsOf(u) = StepsOf(s) \union StepsOf(t)
  OBVIOUS
<1>1. /\ u \in Seq(Steps) /\ Len(u) = Len(s) + Len(t) /\ Len(s) \in Nat /\ Len(t) \in Nat
      /\ \A i \in 1..Len(s) : i \in 1..Len(u) /\ u[i] = s[i]
      /\ \A i \in 1..Len(t) : i + Len(s) \in 1..Len(u) /\ u[i + Len(s)] = t[i]
  BY <1>0
<1>2. \A i \in 1..Len(u) : \/ i \in 1..Len(s) /\ u[i] = s[i]
                           \/ i - Len(s) \in 1..Len(t) /\ u[i] = t[i - Len(s)]
  BY <1>0
<1>3. StepsOf(u) = StepsOf(s) \union StepsOf(t)
  <2>1. ASSUME NEW x \in StepsOf(u) PROVE x \in StepsOf(s) \union StepsOf(t)
    <3>1. PICK i \in 1..Len(u) : x = u[i]
      BY DEF StepsOf
    <3>2. QED  BY <1>2, <3>1 DEF StepsOf
  <2>2. ASSUME NEW x \in StepsOf(s) PROVE x \in StepsOf(u)
    <3>1. PICK i \in 1..Len(s) : x = s[i]
      BY DEF StepsOf
    <3>2. QED  BY <1>1, <3>1 DEF StepsOf
  <2>3. ASSUME NEW x \in StepsOf(t) PROVE x \in StepsOf(u)
    <3>1. PICK i \in 1..Len(t) : x = t[i]
      BY DEF StepsOf
    <3>2. QED  BY <1>1, <3>1 DEF StepsOf
  <2>4. QED  BY <2>1, <2>2, <2>3
<1>4. InOrder(u, m)
  <2>1. SUFFICES ASSUME NEW i \in 1..Len(u), NEW j \in 1..Len(u), i < j
                 PROVE  \/ Stage(u[i], m) < Stage(u[j], m)
                        \/ Stage(u[i], m) = 1 /\ u[j] = "drain"
    BY DEF InOrder
  <2>2. CASE j \in 1..Len(s) /\ u[j] = s[j]
    <3>1. i \in 1..Len(s) /\ u[i] = s[i]
      BY <1>1, <2>1, <2>2
    <3>2. QED  BY <2>1, <2>2, <3>1 DEF InOrder
  <2>3. CASE j - Len(s) \in 1..Len(t) /\ u[j] = t[j - Len(s)]
    <3>1. CASE i \in 1..Len(s) /\ u[i] = s[i]
      BY <2>3, <3>1 DEF StepsOf
    <3>2. CASE i - Len(s) \in 1..Len(t) /\ u[i] = t[i - Len(s)]
      <4>1. i - Len(s) < j - Len(s)
        BY <1>1, <2>1
      <4>2. QED  BY <2>3, <3>2, <4>1 DEF InOrder
    <3>3. QED  BY <1>2, <3>1, <3>2
  <2>4. QED  BY <1>2, <2>2, <2>3
<1>5. QED  BY <1>1, <1>3, <1>4

\* The short lists.
LEMMA NoSteps ==
    ASSUME NEW m
    PROVE  <<>> \in Seq(Steps) /\ InOrder(<<>>, m) /\ StepsOf(<<>>) = {}
BY DEF InOrder, StepsOf

LEMMA OneStep ==
    ASSUME NEW m, NEW a \in Steps
    PROVE  <<a>> \in Seq(Steps) /\ InOrder(<<a>>, m) /\ StepsOf(<<a>>) = {a}
BY DEF InOrder, StepsOf

LEMMA TwoSteps ==
    ASSUME NEW m, NEW a \in Steps, NEW b \in Steps, Stage(a, m) < Stage(b, m)
    PROVE  <<a, b>> \in Seq(Steps) /\ InOrder(<<a, b>>, m) /\ StepsOf(<<a, b>>) = {a, b}
BY Stages DEF InOrder, StepsOf

LEMMA ThreeSteps ==
    ASSUME NEW m, NEW a \in Steps, NEW b \in Steps, NEW c \in Steps,
           Stage(a, m) < Stage(b, m), Stage(b, m) < Stage(c, m)
    PROVE  /\ <<a, b, c>> \in Seq(Steps) /\ InOrder(<<a, b, c>>, m)
           /\ StepsOf(<<a, b, c>>) = {a, b, c}
BY Stages DEF InOrder, StepsOf

LEMMA FourSteps ==
    ASSUME NEW m, NEW a \in Steps, NEW b \in Steps, NEW c \in Steps, NEW d \in Steps,
           Stage(a, m) < Stage(b, m), Stage(b, m) < Stage(c, m), Stage(c, m) < Stage(d, m)
    PROVE  /\ <<a, b, c, d>> \in Seq(Steps) /\ InOrder(<<a, b, c, d>>, m)
           /\ StepsOf(<<a, b, c, d>>) = {a, b, c, d}
BY Stages DEF InOrder, StepsOf

Given(condition, steps) == IF condition THEN steps ELSE {}

\* The steps of a frame.
LEMMA FramePlan ==
    ASSUME NEW m, m.kind \in Frames, Marked(m), NEW u, u = FrameSteps(m)
    PROVE  /\ u \in Seq(Steps) /\ InOrder(u, m)
           /\ StepsOf(u) = Given(m.kind # "queue", {"drain"})
                           \union Given("start" \in m.marks, {"drain", "present_idle", "capture_on"})
                           \union {"replay", "acquire", "submit"}
                           \union Given("stop" \in m.marks, {"present_idle", "capture_off"})
                           \union Given(m.kind # "queue", {"policy_down"})
                           \union Given(m.kind = "flush_gpu", {"gpu_wait"})
                           \union {"reply"}
<1> DEFINE s1 == If(m.kind # "queue", <<"drain">>)
           s2 == If("start" \in m.marks, <<"drain", "present_idle", "capture_on">>)
           s3 == <<"replay", "acquire", "submit">>
           s4 == CaptureStop(m)
           s5 == If(m.kind # "queue", <<"policy_down">>)
           s6 == If(m.kind = "flush_gpu", <<"gpu_wait">>)
           s7 == <<"reply">>
           Fits(s, steps) == s \in Seq(Steps) /\ InOrder(s, m) /\ StepsOf(s) = steps
           r1 == Given(m.kind # "queue", {"drain"})
           r2 == Given("start" \in m.marks, {"drain", "present_idle", "capture_on"})
           r4 == Given("stop" \in m.marks, {"present_idle", "capture_off"})
           r5 == Given(m.kind # "queue", {"policy_down"})
           r6 == Given(m.kind = "flush_gpu", {"gpu_wait"})
           Before(a, b) == \A x \in a, y \in b :
                               Stage(x, m) < Stage(y, m) \/ (Stage(x, m) = 1 /\ y = "drain")
<1>1. ~("start" \in m.marks /\ "stop" \in m.marks)
  BY DEF Marked
<1>0. /\ "drain" \in Steps /\ "present_idle" \in Steps /\ "capture_on" \in Steps /\ "replay" \in Steps
      /\ "acquire" \in Steps /\ "submit" \in Steps /\ "capture_off" \in Steps
      /\ "policy_down" \in Steps /\ "gpu_wait" \in Steps /\ "reply" \in Steps
  BY DEF Steps
<1>19. /\ Stage("drain", m) = 1 /\ Stage("capture_on", m) = 3 /\ Stage("replay", m) = 4
       /\ Stage("acquire", m) = 5 /\ Stage("submit", m) = 6 /\ Stage("capture_off", m) = 8
       /\ Stage("policy_down", m) = 9 /\ Stage("gpu_wait", m) = 10 /\ Stage("reply", m) = 11
       /\ Stage("present_idle", m) = IF "stop" \in m.marks THEN 7 ELSE 2
  BY Stages DEF Replies
<1>2. Fits(s1, r1)
  BY <1>0, OneStep, NoSteps DEF If, Given
<1>3. Fits(s2, r2)
  <2>1. CASE "start" \in m.marks
    <3>1. Fits(<<"drain", "present_idle", "capture_on">>, {"drain", "present_idle", "capture_on"})
      BY <1>0, <1>1, <1>19, <2>1, ThreeSteps
    <3>2. QED  BY <2>1, <3>1 DEF If, Given
  <2>2. CASE "start" \notin m.marks
    BY <2>2, NoSteps DEF If, Given
  <2>3. QED  BY <2>1, <2>2
<1>4. Fits(s3, {"replay", "acquire", "submit"})
  BY <1>0, <1>19, ThreeSteps
<1>5. Fits(s4, r4)
  <2>1. CASE "stop" \in m.marks
    <3>1. Fits(<<"present_idle", "capture_off">>, {"present_idle", "capture_off"})
      BY <1>0, <1>19, <2>1, TwoSteps
    <3>2. QED  BY <2>1, <3>1 DEF If, Given, CaptureStop
  <2>2. CASE "stop" \notin m.marks
    BY <2>2, NoSteps DEF If, Given, CaptureStop
  <2>3. QED  BY <2>1, <2>2
<1>6. Fits(s5, r5)
  BY <1>0, OneStep, NoSteps DEF If, Given
<1>7. Fits(s6, r6)
  BY <1>0, OneStep, NoSteps DEF If, Given
<1>8. Fits(s7, {"reply"})
  BY <1>0, OneStep
<1>20. /\ \A x \in r1 : Stage(x, m) = 1
       /\ \A x \in r2 : Stage(x, m) \in 1..3 /\ (x = "drain" \/ Stage(x, m) > 1)
  BY <1>1, <1>19 DEF Given
<1>21. /\ \A x \in {"replay", "acquire", "submit"} : Stage(x, m) \in 4..6
       /\ \A x \in r4 : Stage(x, m) \in 7..8
  BY <1>19 DEF Given
<1>22. /\ \A x \in r5 : Stage(x, m) = 9
       /\ \A x \in r6 : Stage(x, m) = 10
       /\ \A x \in {"reply"} : Stage(x, m) = 11
  BY <1>19 DEF Given
<1>11. ASSUME NEW s, NEW t, NEW a, NEW b, Fits(s, a), Fits(t, b), Before(a, b)
       PROVE  Fits(s \o t, a \union b)
  <2>1. /\ s \in Seq(Steps) /\ InOrder(s, m) /\ StepsOf(s) = a
        /\ t \in Seq(Steps) /\ InOrder(t, m) /\ StepsOf(t) = b
    BY <1>11
  <2>2. \A x \in StepsOf(s), y \in StepsOf(t) :
            Stage(x, m) < Stage(y, m) \/ (Stage(x, m) = 1 /\ y = "drain")
    BY <1>11, <2>1
  <2>3. QED  BY <2>1, <2>2, JoinedSteps
<1> HIDE DEF r1, r2, r4, r5, r6
<1>9. /\ Before(r1, r2)
      /\ Before(r1 \union r2, {"replay", "acquire", "submit"})
      /\ Before(r1 \union r2 \union {"replay", "acquire", "submit"}, r4)
  BY <1>20, <1>21
<1>10. /\ Before(r1 \union r2 \union {"replay", "acquire", "submit"} \union r4, r5)
       /\ Before(r1 \union r2 \union {"replay", "acquire", "submit"} \union r4 \union r5, r6)
       /\ Before(r1 \union r2 \union {"replay", "acquire", "submit"} \union r4 \union r5 \union r6, {"reply"})
  BY <1>20, <1>21, <1>22
<1>12. u = s1 \o s2 \o s3 \o s4 \o s5 \o s6 \o s7
  BY DEF FrameSteps
<1> HIDE DEF s1, s2, s3, s4, s5, s6, s7, r1, r2, r4, r5, r6, Fits, Before
<1>13. Fits(s1 \o s2 \o s3, r1 \union r2 \union {"replay", "acquire", "submit"})
  BY <1>2, <1>3, <1>4, <1>9, <1>11
<1>14. Fits(s1 \o s2 \o s3 \o s4, r1 \union r2 \union {"replay", "acquire", "submit"} \union r4)
  BY <1>5, <1>9, <1>11, <1>13
<1>15. Fits(s1 \o s2 \o s3 \o s4 \o s5, r1 \union r2 \union {"replay", "acquire", "submit"} \union r4 \union r5)
  BY <1>6, <1>10, <1>11, <1>14
<1>16. Fits(s1 \o s2 \o s3 \o s4 \o s5 \o s6,
            r1 \union r2 \union {"replay", "acquire", "submit"} \union r4 \union r5 \union r6)
  BY <1>7, <1>10, <1>11, <1>15
<1>17. Fits(u, r1 \union r2 \union {"replay", "acquire", "submit"} \union r4 \union r5 \union r6 \union {"reply"})
  BY <1>8, <1>10, <1>11, <1>12, <1>16
<1>18. QED  BY <1>17 DEF r1, r2, r4, r5, r6, Fits

\* The other lists.
LEMMA OtherPlans ==
    ASSUME NEW m, Marked(m)
    PROVE  /\ m.kind \in {"intake", "drain_now", "reset", "shutdown"} =>
                ControlSteps(m.kind) \in Seq(Steps) /\ InOrder(ControlSteps(m.kind), m)
           /\ m.kind = "intake" => StepsOf(ControlSteps(m.kind)) = {"drain", "policy_down", "gpu_wait", "reply"}
           /\ m.kind = "drain_now" => StepsOf(ControlSteps(m.kind)) = {"reply"}
           /\ m.kind = "reset" => StepsOf(ControlSteps(m.kind)) = {"drain", "present_idle", "gpu_wait", "reply"}
           /\ m.kind = "shutdown" => StepsOf(ControlSteps(m.kind)) = {"drain", "present_idle", "gpu_wait", "exit"}
           /\ RefusedSteps(m.kind) \in Seq(Steps) /\ InOrder(RefusedSteps(m.kind), m)
           /\ m.kind \in Frames => StepsOf(RefusedSteps(m.kind)) = {"fail_reply"}
           /\ m.kind = "intake" => StepsOf(RefusedSteps(m.kind)) = {"policy_down", "drop_reply"}
           /\ m.kind \notin Frames \union {"intake"} => StepsOf(RefusedSteps(m.kind)) = {"drop_reply"}
           /\ <<"fail_reply">> \in Seq(Steps) /\ InOrder(<<"fail_reply">>, m)
           /\ StepsOf(<<"fail_reply">>) = {"fail_reply"}
           /\ LET u == CaptureStop(m) \o <<"fail_reply">>
              IN  /\ u \in Seq(Steps) /\ InOrder(u, m)
                  /\ StepsOf(u) = Given("stop" \in m.marks, {"present_idle", "capture_off"}) \union {"fail_reply"}
<1>1. /\ "drain" \in Steps /\ "present_idle" \in Steps /\ "capture_off" \in Steps
      /\ "policy_down" \in Steps /\ "gpu_wait" \in Steps /\ "reply" \in Steps
      /\ "drop_reply" \in Steps /\ "fail_reply" \in Steps /\ "exit" \in Steps
  BY DEF Steps
<1>2. /\ Stage("drain", m) = 1 /\ Stage("capture_off", m) = 8
      /\ Stage("policy_down", m) = 9 /\ Stage("gpu_wait", m) = 10 /\ Stage("reply", m) = 11
      /\ Stage("present_idle", m) = IF "stop" \in m.marks THEN 7 ELSE 2
      /\ Stage("drop_reply", m) = 11 /\ Stage("fail_reply", m) = 11 /\ Stage("exit", m) = 11
  BY Stages DEF Replies
<1> DEFINE Fits(s, steps) == s \in Seq(Steps) /\ InOrder(s, m) /\ StepsOf(s) = steps
<1>3. Fits(<<"drain", "policy_down", "gpu_wait", "reply">>, {"drain", "policy_down", "gpu_wait", "reply"})
  BY <1>1, <1>2, FourSteps
<1>4. Fits(<<"drain", "present_idle", "gpu_wait", "reply">>, {"drain", "present_idle", "gpu_wait", "reply"})
  BY <1>1, <1>2, FourSteps
<1>5. Fits(<<"drain", "present_idle", "gpu_wait", "exit">>, {"drain", "present_idle", "gpu_wait", "exit"})
  BY <1>1, <1>2, FourSteps
<1>6. /\ Fits(<<"reply">>, {"reply"}) /\ Fits(<<"fail_reply">>, {"fail_reply"})
      /\ Fits(<<"drop_reply">>, {"drop_reply"})
  BY <1>1, OneStep
<1>7. Fits(<<"policy_down", "drop_reply">>, {"policy_down", "drop_reply"})
  BY <1>1, <1>2, TwoSteps
<1>9. LET u == CaptureStop(m) \o <<"fail_reply">>
      IN  Fits(u, Given("stop" \in m.marks, {"present_idle", "capture_off"}) \union {"fail_reply"})
  <2> DEFINE s == CaptureStop(m)
             t == <<"fail_reply">>
             a == Given("stop" \in m.marks, {"present_idle", "capture_off"})
             b == {"fail_reply"}
  <2>1. Fits(s, a)
    <3>1. CASE "stop" \in m.marks
      <4>1. Fits(<<"present_idle", "capture_off">>, {"present_idle", "capture_off"})
        BY <1>1, <1>2, <3>1, TwoSteps
      <4>2. QED  BY <3>1, <4>1 DEF If, Given, CaptureStop
    <3>2. CASE "stop" \notin m.marks
      BY <3>2, NoSteps DEF If, Given, CaptureStop
    <3>3. QED  BY <3>1, <3>2
  <2>2. Fits(t, b)
    BY <1>6
  <2>3. \A x \in a, y \in b : Stage(x, m) < Stage(y, m) \/ (Stage(x, m) = 1 /\ y = "drain")
    BY <1>2 DEF Given
  <2> HIDE DEF s, t, a, b
  <2>4. \A x \in StepsOf(s), y \in StepsOf(t) :
            Stage(x, m) < Stage(y, m) \/ (Stage(x, m) = 1 /\ y = "drain")
    BY <2>1, <2>2, <2>3
  <2>5. Fits(s \o t, a \union b)
    BY <2>1, <2>2, <2>4, JoinedSteps
  <2>6. QED  BY <2>5 DEF s, t, a, b
<1>10. /\ m.kind = "intake" => ControlSteps(m.kind) = <<"drain", "policy_down", "gpu_wait", "reply">>
       /\ m.kind = "drain_now" => ControlSteps(m.kind) = <<"reply">>
       /\ m.kind = "reset" => ControlSteps(m.kind) = <<"drain", "present_idle", "gpu_wait", "reply">>
       /\ m.kind = "shutdown" => ControlSteps(m.kind) = <<"drain", "present_idle", "gpu_wait", "exit">>
  BY DEF ControlSteps
<1>11. /\ m.kind \in Frames => RefusedSteps(m.kind) = <<"fail_reply">>
       /\ m.kind = "intake" => RefusedSteps(m.kind) = <<"policy_down", "drop_reply">>
       /\ m.kind \notin Frames \union {"intake"} => RefusedSteps(m.kind) = <<"drop_reply">>
  BY DEF RefusedSteps, Frames
<1>12. QED
  BY <1>3, <1>4, <1>5, <1>6, <1>7, <1>9, <1>10, <1>11

\* The first of the steps left.
LEMMA FirstLeft ==
    ASSUME NEW t \in Seq(Steps), NEW m, InOrder(t, m), NEW x \in StepsOf(t)
    PROVE  /\ t # <<>> /\ Head(t) \in StepsOf(t)
           /\ \/ Head(t) = x
              \/ Stage(Head(t), m) < Stage(x, m)
              \/ Stage(Head(t), m) = 1 /\ x = "drain"
<1>1. t # <<>>
  BY DEF StepsOf
<1>2. QED  BY <1>1, FirstStep

-----------------------------------------------------------------------------
(* The types *)

\* TypeOK, conjunct by conjunct.
LEMMA Typed ==
    ASSUME TypeOK
    PROVE  /\ api \in {"idle", "check", "sending", "awaiting", "joined", "stopping", "gone"}
           /\ api_msg \in Messages /\ msg \in Messages
           /\ next_seq \in 1..(MaxSeq + 1) /\ next_seq \in Nat /\ requests \in 0..MaxRequests
           /\ channel \in Seq(Messages) /\ Len(channel) <= ChannelCap /\ Len(channel) \in Nat
           /\ \A i \in 1..Len(channel) : channel[i] \in Messages /\ channel[i].seq \in Nat
           /\ api_msg.seq \in Nat /\ msg.seq \in Nat
           /\ todo \in Seq(Steps)
           /\ work \in Seq([seq : 1..MaxSeq, presents : BOOLEAN]) /\ Len(work) \in Nat
           /\ \A i \in 1..Len(work) : work[i].seq \in 1..MaxSeq /\ work[i].presents \in BOOLEAN
           /\ executing \in {"nobody", "submit_thread", "encoder"}
           /\ returned \in Nat /\ in_flight \in Nat /\ pool \in Nat /\ payloads_total \in Nat
           /\ marked \in BOOLEAN /\ capturing \in BOOLEAN /\ failure \in BOOLEAN
           /\ failed_replay \in BOOLEAN
           /\ submit_seq \in Nat
<1>1. \A m \in Messages : m.seq \in Nat
  BY PipelineAssumption DEF Messages
<1>2. \A i \in 1..Len(channel) : channel[i] \in Messages
  BY DEF TypeOK
<1>3. \A i \in 1..Len(work) : work[i] \in [seq : 1..MaxSeq, presents : BOOLEAN]
  <2> DEFINE Items == [seq : 1..MaxSeq, presents : BOOLEAN]
  <2>1. work \in Seq(Items)
    BY DEF TypeOK
  <2> HIDE DEF Items
  <2>2. \A i \in 1..Len(work) : work[i] \in Items
    BY <2>1
  <2>3. QED  BY <2>2 DEF Items
<1>4. submit_seq \in Nat
  <2>1. submit_seq \in 0..MaxSeq
    BY DEF TypeOK, P!TypeOK
  <2>2. QED  BY <2>1, PipelineAssumption
<1>5. /\ {api_msg, msg} \subseteq Messages /\ next_seq \in 1..(MaxSeq + 1)
      /\ channel \in Seq(Messages) /\ work \in Seq([seq : 1..MaxSeq, presents : BOOLEAN])
      /\ {returned, in_flight, pool, payloads_total} \subseteq 0..PayloadCap
      /\ {marked, capturing, failure, failed_replay} \subseteq BOOLEAN
  BY DEF TypeOK
<1>6. returned \in Nat /\ in_flight \in Nat /\ pool \in Nat /\ payloads_total \in Nat
  BY <1>5, PipelineAssumption
<1>7. Len(channel) \in Nat /\ Len(work) \in Nat /\ next_seq \in Nat
  BY <1>5, PipelineAssumption
<1>8. \A i \in 1..Len(work) : work[i].seq \in 1..MaxSeq /\ work[i].presents \in BOOLEAN
  BY <1>3
<1>9. QED  BY <1>1, <1>2, <1>4, <1>5, <1>6, <1>7, <1>8 DEF TypeOK

-----------------------------------------------------------------------------
(* What the encoder has left *)

\* A step is done.
LEMMA StepLeft ==
    ASSUME TypeOK, PlanInv, todo # <<>>, Step
    PROVE  /\ todo' \in Seq(Steps) /\ InOrder(todo', msg)
           /\ Head(todo) \in Steps /\ Left = {Head(todo)} \union Left'
           /\ \A x \in Left' : \/ Stage(Head(todo), msg) < Stage(x, msg)
                               \/ Stage(Head(todo), msg) = 1 /\ x = "drain"
<1>1. todo \in Seq(Steps) /\ InOrder(todo, msg)
  BY Typed DEF PlanInv
<1>2. todo' = Tail(todo)
  BY DEF Step
<1>3. QED  BY <1>1, <1>2, FirstStep DEF Left

\* The first of what is left afterwards.
LEMMA NextFirst ==
    ASSUME TypeOK, PlanInv, todo # <<>>, Step, NEW x \in Left'
    PROVE  /\ todo' # <<>> /\ Head(todo') \in Left'
           /\ \/ Head(todo') = x
              \/ Stage(Head(todo'), msg) < Stage(x, msg)
              \/ Stage(Head(todo'), msg) = 1 /\ x = "drain"
<1>1. todo' \in Seq(Steps) /\ InOrder(todo', msg)
  BY StepLeft
<1>2. x \in StepsOf(todo')
  BY DEF Left
<1>3. QED  BY <1>1, <1>2, FirstLeft DEF Left

\* The step at hand comes before all others.
LEMMA AtFirst ==
    ASSUME TypeOK, PlanInv, NEW step, At(step)
    PROVE  /\ step \in Left /\ step \in Steps /\ todo # <<>> /\ Head(todo) = step
           /\ \A x \in Left : \/ x = step
                              \/ Stage(step, msg) < Stage(x, msg)
                              \/ Stage(step, msg) = 1 /\ x = "drain"
<1>1. todo \in Seq(Steps) /\ InOrder(todo, msg) /\ todo # <<>> /\ Head(todo) = step
  BY Typed DEF PlanInv, At
<1>2. QED  BY <1>1, FirstStep DEF Left

\* What is done keeps the order of what is left.
LEMMA StepPlan ==
    ASSUME TypeOK, PlanInv, todo # <<>>, Step, UNCHANGED msg
    PROVE  PlanInv'
<1> DEFINE h == Head(todo)
           n == Head(todo')
<1>1. /\ todo' \in Seq(Steps) /\ InOrder(todo', msg) /\ h \in Steps
      /\ \A x : x \in Left <=> x = h \/ x \in Left'
      /\ \A x \in Left' : Stage(h, msg) < Stage(x, msg) \/ (Stage(h, msg) = 1 /\ x = "drain")
  BY StepLeft
<1>2. \A x : At(x) <=> x = h
  BY DEF At
<1>3. \A x \in Left' : /\ todo' # <<>> /\ n \in Left'
                       /\ n = x \/ Stage(n, msg) < Stage(x, msg) \/ (Stage(n, msg) = 1 /\ x = "drain")
  BY NextFirst
<1>4. \A x : At(x)' <=> todo' # <<>> /\ n = x
  BY DEF At
<1>5. Left' \subseteq Steps
  BY <1>1 DEF Left, StepsOf
<1>6. /\ \A x : Stage(x, msg) \in 1..11
      /\ Stage("drain", msg) = 1 /\ Stage("draining", msg) = 1
      /\ Stage("present_idle", msg) = IF "stop" \in msg.marks THEN 7 ELSE 2
      /\ Stage("present_idle_wait", msg) = IF "stop" \in msg.marks THEN 7 ELSE 2
      /\ Stage("capture_on", msg) = 3 /\ Stage("replay", msg) = 4 /\ Stage("acquire", msg) = 5
      /\ Stage("submit", msg) = 6 /\ Stage("inline", msg) = 6 /\ Stage("capture_off", msg) = 8
      /\ Stage("policy_down", msg) = 9 /\ Stage("gpu_wait", msg) = 10
      /\ \A x \in Replies : Stage(x, msg) = 11
  BY Stages
<1>7. \A x \in Left' : x # "drain" => x # h /\ Stage(h, msg) < Stage(x, msg)
  BY <1>1, <1>6
<1> HIDE DEF h, n
<1>8. \A x \in {"draining", "present_idle_wait", "inline"} : x \notin Left'
  BY <1>1, <1>2, <1>7 DEF PlanInv
<1>9. ("replay" \in Left' => "acquire" \in Left') /\ ("acquire" \in Left' => "submit" \in Left')
  BY <1>1, <1>6, <1>7 DEF PlanInv
<1>10. "submit" \in Left' => "acquire" \in Left' \/ At("submit")'
  <2>1. SUFFICES ASSUME "submit" \in Left', "acquire" \notin Left'
                 PROVE  todo' # <<>> /\ n = "submit"
    BY <1>4
  <2>2. h = "acquire"
    BY <1>1, <1>2, <1>7, <2>1 DEF PlanInv
  <2>3. n \in Left' /\ todo' # <<>> /\ (n = "submit" \/ Stage(n, msg) < 6)
    BY <1>3, <1>6, <2>1
  <2>4. 5 < Stage(n, msg)
    BY <1>1, <1>6, <2>2, <2>3
  <2>5. QED  BY <1>6, <2>3, <2>4
<1>11. ASSUME NEW x \in {"capture_on", "capture_off"}, x \in Left'
       PROVE  At(x)' \/ "present_idle" \in Left' \/ "present_idle_wait" \in Left'
  <2>1. SUFFICES ASSUME "present_idle" \notin Left', "present_idle_wait" \notin Left'
                 PROVE  todo' # <<>> /\ n = x
    BY <1>4
  <2>2. h \in {"present_idle", "present_idle_wait"}
    BY <1>1, <1>2, <1>7, <1>11, <2>1 DEF PlanInv
  <2>3. Stage(x, msg) = Stage(h, msg) + 1
    BY <1>1, <1>6, <1>11, <2>2 DEF PlanInv
  <2>4. n \in Left' /\ todo' # <<>> /\ (n = x \/ Stage(n, msg) < Stage(x, msg))
    BY <1>3, <1>11
  <2>5. Stage(h, msg) < Stage(n, msg) \/ n = "drain"
    BY <1>1, <2>4
  <2>6. n # "drain"
    <3>1. n = "drain" => Stage(h, msg) = 1
      BY <1>1, <1>6, <2>4
    <3>2. QED  BY <1>6, <2>2, <3>1
  <2>7. QED  BY <1>6, <2>3, <2>4, <2>5, <2>6
<1>12. "stop" \in msg.marks /\ {"submit", "present_idle", "present_idle_wait"} \intersect Left' # {}
           => "capture_off" \in Left'
  BY <1>1, <1>6, <1>7 DEF PlanInv
<1>13. msg.kind # "none"
  BY DEF PlanInv
<1>14. {"drain", "draining"} \intersect Left' # {} => h # "present_idle"
  BY <1>1, <1>6, <1>7
<1>15. msg.kind = "shutdown" /\ {"drain", "draining"} \intersect Left' # {} => "present_idle" \in Left'
  BY <1>1, <1>14 DEF PlanInv
<1>16. QED
  BY <1>1, <1>8, <1>9, <1>10, <1>11, <1>12, <1>13, <1>15 DEF PlanInv

\* A step that blocks stays at the head of what is left.
LEMMA BlockPlan ==
    ASSUME TypeOK, PlanInv, NEW x, NEW y, At(x), Block(y), UNCHANGED msg,
           \/ x = "drain" /\ y = "draining"
           \/ x = "present_idle" /\ y = "present_idle_wait"
           \/ x = "submit" /\ y = "inline"
    PROVE  /\ PlanInv' /\ todo' \in Seq(Steps) /\ At(y)'
           /\ \A z : z \in Left' <=> z = y \/ z \in StepsOf(Tail(todo))
           /\ \A z : z \in Left <=> z = x \/ z \in StepsOf(Tail(todo))
           /\ \A z \in StepsOf(Tail(todo)) :
                  Stage(x, msg) < Stage(z, msg) \/ (Stage(x, msg) = 1 /\ z = "drain")
<1> DEFINE Rest == StepsOf(Tail(todo))
<1>0. /\ \A z : Stage(z, msg) \in Nat
      /\ Stage("drain", msg) = 1 /\ Stage("draining", msg) = 1
      /\ Stage("present_idle", msg) = IF "stop" \in msg.marks THEN 7 ELSE 2
      /\ Stage("present_idle_wait", msg) = IF "stop" \in msg.marks THEN 7 ELSE 2
      /\ Stage("capture_on", msg) = 3 /\ Stage("replay", msg) = 4 /\ Stage("acquire", msg) = 5
      /\ Stage("submit", msg) = 6 /\ Stage("inline", msg) = 6 /\ Stage("capture_off", msg) = 8
  BY Stages
<1>1. todo \in Seq(Steps) /\ InOrder(todo, msg) /\ todo # <<>> /\ Head(todo) = x
  BY Typed DEF PlanInv, At
<1>2. y \in Steps /\ Stage(y, msg) = Stage(x, msg)
  BY <1>0 DEF Steps
<1>3. todo' = <<y>> \o Tail(todo)
  BY DEF Block
<1>4. /\ todo' \in Seq(Steps) /\ todo' # <<>> /\ Head(todo') = y /\ InOrder(todo', msg)
      /\ Left' = {y} \union Rest
  BY <1>1, <1>2, <1>3, BlockedStep DEF Left
<1>5. /\ Left = {x} \union Rest
      /\ \A z \in Rest : Stage(x, msg) < Stage(z, msg) \/ (Stage(x, msg) = 1 /\ z = "drain")
  BY <1>1, FirstStep DEF Left
<1>6. (\A z : At(z) <=> z = x) /\ (\A z : At(z)' <=> z = y)
  BY <1>1, <1>4 DEF At
<1> HIDE DEF Rest
<1>7. \A z \in {"draining", "present_idle_wait", "inline"} : z \notin Rest
  BY <1>5, <1>6 DEF PlanInv
<1>8. PlanInv'
  <2>1. /\ "replay" \in Left' => "acquire" \in Left'
        /\ "acquire" \in Left' => "submit" \in Left'
        /\ "submit" \in Left' => "acquire" \in Left' \/ At("submit")'
    BY <1>0, <1>4, <1>5, <1>6 DEF PlanInv
  <2>2. \A z \in {"capture_on", "capture_off"} :
           z \in Left' => At(z)' \/ "present_idle" \in Left' \/ "present_idle_wait" \in Left'
    BY <1>4, <1>5, <1>6 DEF PlanInv
  <2>3. /\ {"submit", "inline"} \intersect Left' # {} => msg.kind \in Frames
        /\ "stop" \in msg.marks /\ {"submit", "present_idle", "present_idle_wait"} \intersect Left' # {}
               => "capture_off" \in Left'
    BY <1>4, <1>5, <1>7 DEF PlanInv
  <2>4. /\ "capture_off" \in Left' => "stop" \in msg.marks
        /\ "capture_on" \in Left' => "stop" \notin msg.marks
        /\ "gpu_wait" \in Left' => msg.kind # "queue"
        /\ "exit" \in Left' => msg.kind = "shutdown"
    BY <1>4, <1>5 DEF PlanInv
  <2>5. msg.kind # "none"
    BY <1>1 DEF PlanInv
  <2>6. \A z \in {"draining", "present_idle_wait", "inline"} : z \in Left' => At(z)'
    BY <1>4, <1>6, <1>7
  <2>7. msg.kind = "shutdown" /\ {"drain", "draining"} \intersect Left' # {} => "present_idle" \in Left'
    <3>1. {"drain", "draining"} \intersect Left' # {} => x # "present_idle"
      BY <1>0, <1>4, <1>5, <1>7
    <3>2. msg.kind = "shutdown" => x # "submit"
      BY <1>5 DEF PlanInv, Frames
    <3>3. QED  BY <1>4, <1>5, <1>7, <3>1, <3>2 DEF PlanInv
  <2>8. QED  BY <1>4, <2>1, <2>2, <2>3, <2>4, <2>5, <2>6, <2>7 DEF PlanInv
<1>9. QED  BY <1>4, <1>5, <1>6, <1>8 DEF Rest

-----------------------------------------------------------------------------
(* The presenter's steps *)

\* Where the encoder is alone, nothing is in flight.
LEMMA AloneAt ==
    ASSUME TypeOK, PlanInv, PayloadInv, NEW step \in Alone, At(step)
    PROVE  /\ in_flight = 0 /\ work = <<>> /\ returned = 0 /\ executing # "submit_thread"
           /\ step # "inline" => executing = "nobody" /\ submit = "idle"
<1>1. step \in Left /\ \A x \in Left : x = step \/ Stage(step, msg) < Stage(x, msg)
                                       \/ (Stage(step, msg) = 1 /\ x = "drain")
  BY AtFirst
<1>2. Stage(step, msg) \in 2..11 /\ Stage("drain", msg) = 1 /\ Stage("draining", msg) = 1
  BY Stages DEF Alone, Replies
<1>3. "drain" \notin Left /\ "draining" \notin Left
  <2>1. step # "drain" /\ step # "draining"
    BY DEF Alone
  <2>2. QED  BY <1>1, <1>2, <2>1
<1>4. in_flight = 0
  BY <1>1, <1>3 DEF PayloadInv
<1>5. Len(work) \in Nat /\ returned \in Nat /\ work \in Seq([seq : 1..MaxSeq, presents : BOOLEAN])
  BY Typed
<1>6. Len(work) = 0 /\ returned = 0 /\ Executing = 0
  BY <1>4, <1>5 DEF PayloadInv, Executing
<1>7. work = <<>> /\ executing # "submit_thread"
  BY <1>5, <1>6 DEF Executing
<1>8. step # "inline" => executing = "nobody" /\ submit = "idle"
  BY <1>7, Typed DEF PayloadInv, At
<1>9. QED  BY <1>4, <1>6, <1>7, <1>8

\* A payload with the submit thread, and who has it.
LEMMA InFlight ==
    ASSUME TypeOK, PlanInv, PayloadInv, in_flight = 0
    PROVE  work = <<>> /\ returned = 0 /\ executing # "submit_thread"
<1>5. Len(work) \in Nat /\ returned \in Nat /\ work \in Seq([seq : 1..MaxSeq, presents : BOOLEAN])
  BY Typed
<1>6. Len(work) = 0 /\ returned = 0 /\ Executing = 0
  BY <1>5 DEF PayloadInv, Executing
<1>7. QED  BY <1>5, <1>6 DEF Executing

\* Every step of the pipeline is one the presenter allows.
LEMMA Simulates ==
    ASSUME PipelineInv, [Next]_vars
    PROVE  [P!Next]_(P!vars)
<1> USE DEF PipelineInv
<1>1. ASSUME UNCHANGED presentVars PROVE UNCHANGED P!vars
  BY <1>1 DEF presentVars, P!vars, P!innerVars, P!submitVars, P!idleVars
<1>2. ASSUME NEW hurry \in BOOLEAN, P!set_wait_policy(hurry) PROVE P!Next
  BY <1>2 DEF P!Next
<1>3. todo # <<>> => "STOP" \notin flags
  BY DEF RestInv, ProtocolInv
<1>4. ASSUME NEW seq \in Nat, NEW presents \in BOOLEAN, P!StartSubmit(seq, presents),
             submit_seq < seq, seq <= MaxSeq, "STOP" \notin flags, ~At("present_idle_wait")
      PROVE  P!Next
  <2>1. idle_wait = "none"
    BY <1>4 DEF RestInv
  <2>2. seq \in (submit_seq + 1)..MaxSeq
    BY <1>4, Typed, PipelineAssumption
  <2>3. P!BeginSubmit
    BY <1>4, <2>1, <2>2 DEF P!BeginSubmit
  <2>4. QED  BY <2>3 DEF P!Next
<1>5. CASE Application
  <2>1. CASE present \/ shutdown
    BY <1>1, <2>1 DEF present, shutdown
  <2>2. CASE \E kind \in Requests : request(kind)
    BY <1>1, <1>2, <2>2 DEF request, hurry_presentation
  <2>3. QED  BY <1>5, <2>1, <2>2 DEF Application
<1>6. CASE Api
  <2>1. CASE CheckStatus \/ send \/ Destroyed
    BY <1>1, <2>1 DEF CheckStatus, send, Destroyed
  <2>2. CASE destroy_command_queue
    <3>1. api = "joined" /\ P!stop_and_join
      BY <2>2 DEF destroy_command_queue
    <3>2. msg.kind = "shutdown" /\ Left = {} /\ ~At("present_idle_wait")
      BY <3>1 DEF ProtocolInv, Left, StepsOf, At
    <3>3. submit = "idle" /\ idle_wait = "none"
      BY <3>2 DEF RestInv, PresentIdle
    <3>4. QED  BY <3>1, <3>3 DEF P!BeginStop, P!Next
  <2>3. QED  BY <1>6, <2>1, <2>2 DEF Api
<1>7. CASE Encoder
  <2>1. CASE \/ receive \/ capture \/ replay \/ acquire_clean_payload \/ dispatch_submit
             \/ wait_for_gpu_retire \/ reply \/ exit
    BY <1>1, <2>1 DEF receive, capture, replay, acquire_clean_payload, dispatch_submit,
                      wait_for_gpu_retire, reply, exit
  <2>2. CASE drain_submit_thread \/ Drained \/ set_present_wait_policy
    BY <1>1, <1>2, <2>2 DEF drain_submit_thread, Drained, set_present_wait_policy
  <2>3. CASE drain_presentation
    <3>1. CASE At("present_idle") /\ P!StartIdleWait
      <4>1. "present_idle" \in Alone
        BY DEF Alone
      <4>2. submit = "idle"
        BY <3>1, <4>1, AloneAt
      <4>3. "STOP" \notin flags
        BY <1>3, <3>1 DEF At
      <4>4. QED  BY <3>1, <4>2, <4>3 DEF P!BeginIdleWait, P!Next
    <3>2. CASE UNCHANGED presentVars
      BY <1>1, <3>2
    <3>3. QED  BY <2>3, <3>1, <3>2 DEF drain_presentation
  <2>4. CASE submit_sync
    <3>1. CASE UNCHANGED presentVars
      BY <1>1, <3>1
    <3>2. CASE At("submit") /\ P!StartSubmit(Item.seq, Item.presents)
      <4>1. "submit" \in Left
        BY <3>2, AtFirst
      <4>2. submit_seq < msg.seq /\ msg.seq \in Nat /\ msg.seq <= MaxSeq
        <5>1. msg.seq \in 0..MaxSeq
          BY Typed DEF Messages
        <5>2. QED  BY <4>1, <5>1 DEF SeqInv, Behind
      <4>3. P!StartSubmit(msg.seq, msg.kind = "queue")
        BY <3>2 DEF Item
      <4>4. "STOP" \notin flags /\ ~At("present_idle_wait")
        BY <1>3, <3>2 DEF At
      <4>5. QED  BY <1>4, <4>2, <4>3, <4>4
    <3>3. QED  BY <2>4, <3>1, <3>2 DEF submit_sync, execute_submit
  <2>5. QED  BY <1>7, <2>1, <2>2, <2>3, <2>4 DEF Encoder
<1>8. CASE submit_thread_main
  <2>1. CASE UNCHANGED presentVars
    BY <1>1, <2>1
  <2>2. CASE work # <<>> /\ P!StartSubmit(Head(work).seq, Head(work).presents)
    <3>1. 1 \in 1..Len(work) /\ Head(work) = work[1]
      BY <2>2, Typed
    <3>2. work[1].seq \in 1..MaxSeq /\ work[1].presents \in BOOLEAN /\ submit_seq < work[1].seq
      BY <3>1, Typed DEF SeqInv
    <3>3. in_flight # 0
      BY <2>2, InFlight
    <3>4. ~At("present_idle_wait")
      BY <3>3, AloneAt DEF Alone
    <3>5. "STOP" \notin flags
      <4>1. SUFFICES ASSUME "STOP" \in flags PROVE FALSE
        OBVIOUS
      <4>2. msg.kind = "shutdown" /\ Left = {}
        BY <4>1 DEF RestInv, ProtocolInv, Left, StepsOf
      <4>3. QED  BY <3>3, <4>2 DEF RestInv
    <3>6. work[1].seq \in Nat /\ work[1].seq <= MaxSeq
      BY <3>2, PipelineAssumption
    <3>7. QED  BY <1>4, <2>2, <3>1, <3>2, <3>4, <3>5, <3>6
  <2>3. QED  BY <1>8, <2>1, <2>2 DEF submit_thread_main, execute_submit
<1>9. CASE P!Submit \/ P!present_frame \/ P!HoldTimesOut \/ P!IdleWait \/ P!GpuEnds
  BY <1>9 DEF P!Next
<1>10. CASE UNCHANGED vars
  <2>1. UNCHANGED presentVars
    BY <1>10 DEF vars
  <2>2. QED  BY <1>1, <2>1
<1>11. QED
  BY <1>5, <1>6, <1>7, <1>8, <1>9, <1>10 DEF Next, Submitting, Presenting, Waiting, Ended

-----------------------------------------------------------------------------
(* The types hold on *)

\* What the messages are made of.
LEMMA MessageFacts ==
    /\ NoMsg \in Messages
    /\ \A kind \in {"intake", "drain_now", "reset", "shutdown"} :
           [NoMsg EXCEPT !.kind = kind] \in Messages /\ [NoMsg EXCEPT !.kind = kind].kind = kind
           /\ [NoMsg EXCEPT !.kind = kind].seq = 0 /\ [NoMsg EXCEPT !.kind = kind].marks = {}
    /\ NoMsg.kind = "none" /\ NoMsg.seq = 0 /\ NoMsg.marks = {}
    /\ \A m \in Messages : m.marks \subseteq {"start", "stop"} /\ m.seq \in 0..MaxSeq
    /\ \A m \in Messages : m.kind \in Frames \union {"intake", "drain_now", "reset", "shutdown", "none"}
BY PipelineAssumption DEF NoMsg, Messages

LEMMA MarkFacts ==
    ASSUME NEW kind \in Frames, NEW marks \in Marks(kind)
    PROVE  /\ marks \in {{}, {"start"}, {"stop"}} /\ (marks # {} => Captures)
           /\ "stop" \in marks => kind = "queue" /\ marked
BY DEF Marks

LEMMA StampFacts ==
    ASSUME TypeOK, NEW kind \in Frames, NEW marks \in Marks(kind), Stamp(kind, marks)
    PROVE  /\ api_msg' \in Messages /\ api_msg'.kind = kind /\ api_msg'.seq = next_seq
           /\ api_msg'.marks = marks /\ next_seq \in 1..MaxSeq
           /\ next_seq' = next_seq + 1 /\ next_seq' \in 1..(MaxSeq + 1)
           /\ marked' = ((marked \/ "start" \in marks) /\ "stop" \notin marks)
           /\ Marked(api_msg')
<1>1. marks \in {{}, {"start"}, {"stop"}} /\ (marks # {} => Captures) /\ ("stop" \in marks => kind = "queue")
  BY MarkFacts
<1>2. next_seq \in 1..(MaxSeq + 1) /\ next_seq <= MaxSeq /\ next_seq' = next_seq + 1
  BY Typed DEF Stamp
<1>3. api_msg' = [kind |-> kind, seq |-> next_seq, marks |-> marks]
  BY DEF Stamp
<1>4. next_seq \in 1..MaxSeq /\ next_seq' \in 1..(MaxSeq + 1) /\ next_seq \in 0..MaxSeq
  BY <1>2, PipelineAssumption
<1>5. api_msg' \in Messages
  BY <1>1, <1>3, <1>4 DEF Messages
<1>6. Marked(api_msg')
  BY <1>1, <1>3 DEF Marked
<1>7. QED  BY <1>2, <1>3, <1>4, <1>5, <1>6 DEF Stamp

ApiTypes ==
    /\ api \in {"idle", "check", "sending", "awaiting", "joined", "stopping", "gone"}
    /\ api_msg \in Messages
    /\ next_seq \in 1..(MaxSeq + 1)
    /\ requests \in 0..MaxRequests
    /\ marked \in BOOLEAN

LEMMA ApiTypesStep ==
    ASSUME PipelineInv, [Next]_vars
    PROVE  ApiTypes'
<1> USE DEF PipelineInv
<1>0. ApiTypes
  BY Typed DEF ApiTypes
<1>1. ASSUME UNCHANGED apiVars PROVE ApiTypes'
  BY <1>0, <1>1 DEF apiVars, ApiTypes
<1>2. ASSUME api' \in {"idle", "sending", "awaiting", "joined", "stopping", "gone", "check"},
             api_msg' \in {api_msg, NoMsg, [NoMsg EXCEPT !.kind = "shutdown"]},
             UNCHANGED <<next_seq, requests, marked>>
      PROVE  ApiTypes'
  BY <1>0, <1>2, MessageFacts DEF ApiTypes
<1>3. CASE present
  <2>1. PICK marks \in Marks("queue") : Stamp("queue", marks)
    BY <1>3 DEF present
  <2>2. "queue" \in Frames
    BY DEF Frames
  <2>3. api_msg' \in Messages /\ next_seq' \in 1..(MaxSeq + 1) /\ marked' \in BOOLEAN
    BY <2>1, <2>2, StampFacts
  <2>4. QED  BY <1>0, <1>3, <2>3 DEF present, ApiTypes
<1>4. CASE \E kind \in Requests : request(kind)
  <2>1. PICK kind \in Requests : request(kind)
    BY <1>4
  <2>2. requests' \in 0..MaxRequests /\ api' = "check"
    BY <1>0, <2>1, PipelineAssumption DEF request, ApiTypes
  <2>3. CASE kind \in Frames
    <3>1. PICK marks \in Marks(kind) : Stamp(kind, marks)
      BY <2>1, <2>3 DEF request
    <3>2. api_msg' \in Messages /\ next_seq' \in 1..(MaxSeq + 1) /\ marked' \in BOOLEAN
      BY <2>3, <3>1, StampFacts
    <3>3. QED  BY <2>2, <3>2 DEF ApiTypes
  <2>4. CASE kind \notin Frames
    <3>1. api_msg' = [NoMsg EXCEPT !.kind = kind] /\ UNCHANGED <<next_seq, marked>>
      BY <2>1, <2>4 DEF request
    <3>2. kind \in {"intake", "drain_now", "reset"}
      BY <2>4, PipelineAssumption DEF Frames
    <3>3. api_msg' \in Messages
      BY <3>1, <3>2, MessageFacts
    <3>4. QED  BY <1>0, <2>2, <3>1, <3>3 DEF ApiTypes
  <2>5. QED  BY <2>3, <2>4
<1>5. CASE shutdown \/ Api \/ reply \/ exit
  <2>1. /\ api' \in {"idle", "sending", "awaiting", "joined", "stopping", "gone", "check", api}
        /\ api_msg' \in {api_msg, NoMsg, [NoMsg EXCEPT !.kind = "shutdown"]}
        /\ UNCHANGED <<next_seq, requests, marked>>
    BY <1>5 DEF shutdown, Api, CheckStatus, send, destroy_command_queue, Destroyed, reply, exit
  <2>2. api \in {"idle", "sending", "awaiting", "joined", "stopping", "gone", "check"}
    BY Typed
  <2>3. QED  BY <1>2, <2>1, <2>2
<1>6. CASE Encoder /\ ~reply /\ ~exit
  <2>1. UNCHANGED apiVars
    BY <1>6 DEF Encoder, receive, drain_submit_thread, Drained, drain_presentation, capture, replay,
                acquire_clean_payload, dispatch_submit, submit_sync, set_present_wait_policy,
                wait_for_gpu_retire
  <2>2. QED  BY <1>1, <2>1
<1>7. CASE Submitting \/ Presenting \/ Waiting \/ UNCHANGED vars
  <2>1. UNCHANGED apiVars
    BY <1>7 DEF Submitting, Presenting, Waiting, submit_thread_main, pipelineVars, vars
  <2>2. QED  BY <1>1, <2>1
<1>8. QED
  BY <1>3, <1>4, <1>5, <1>6, <1>7 DEF Next, Application, Ended

ChannelTypes ==
    /\ channel \in Seq(Messages) /\ Len(channel) <= ChannelCap
    /\ msg \in Messages
    /\ capturing \in BOOLEAN /\ failure \in BOOLEAN /\ failed_replay \in BOOLEAN

\* The message taken from the channel.
LEMMA Received ==
    ASSUME TypeOK, channel # <<>>
    PROVE  /\ 1 \in 1..Len(channel) /\ Head(channel) = channel[1] /\ channel[1] \in Messages
           /\ Tail(channel) \in Seq(Messages) /\ Len(Tail(channel)) = Len(channel) - 1
           /\ \A i \in 1..Len(Tail(channel)) :
                  i + 1 \in 1..Len(channel) /\ Tail(channel)[i] = channel[i + 1]
<1>1. channel \in Seq(Messages)
  BY Typed
<1>2. QED  BY <1>1

\* The message sent.
LEMMA Sent ==
    ASSUME TypeOK, send
    PROVE  /\ channel' \in Seq(Messages) /\ Len(channel') = Len(channel) + 1
           /\ Len(channel) \in Nat /\ Len(channel) < ChannelCap
           /\ channel'[Len(channel) + 1] = api_msg
           /\ \A i \in 1..Len(channel) : channel'[i] = channel[i]
           /\ \A i \in 1..Len(channel') : i \in 1..Len(channel) \/ i = Len(channel) + 1
<1>1. channel \in Seq(Messages) /\ api_msg \in Messages
  BY Typed
<1>2. channel' = Append(channel, api_msg) /\ Len(channel) < ChannelCap
  BY DEF send
<1>3. QED  BY <1>1, <1>2

LEMMA ChannelTypesStep ==
    ASSUME PipelineInv, [Next]_vars
    PROVE  ChannelTypes'
<1> USE DEF PipelineInv
<1>0. ChannelTypes
  BY Typed DEF ChannelTypes
<1>1. ASSUME UNCHANGED channel, msg' \in {msg, NoMsg}, capturing' \in BOOLEAN, failure' \in BOOLEAN,
             failed_replay' \in BOOLEAN
      PROVE  ChannelTypes'
  BY <1>0, <1>1, MessageFacts DEF ChannelTypes
<1>2. CASE send
  <2>1. UNCHANGED <<msg, capturing, failed_replay, failure>>
    BY <1>2 DEF send, encoderVars
  <2>2. channel' \in Seq(Messages) /\ Len(channel') <= ChannelCap
    BY <1>2, Sent, PipelineAssumption
  <2>3. QED  BY <1>0, <2>1, <2>2 DEF ChannelTypes
<1>3. CASE receive
  <2>1. channel # <<>> /\ channel' = Tail(channel) /\ msg' = Head(channel)
        /\ UNCHANGED <<capturing, failed_replay, failure>>
    BY <1>3 DEF receive
  <2>2. channel' \in Seq(Messages) /\ Len(channel') <= ChannelCap /\ msg' \in Messages
    BY <1>0, <2>1, Received, PipelineAssumption DEF ChannelTypes
  <2>3. QED  BY <1>0, <2>1, <2>2 DEF ChannelTypes
<1>4. capturing \in BOOLEAN /\ failure \in BOOLEAN /\ failed_replay \in BOOLEAN
  BY <1>0 DEF ChannelTypes
<1>5. CASE Application \/ (Api /\ ~send)
  <2>1. UNCHANGED <<channel, msg, capturing, failed_replay, failure>>
    BY <1>5 DEF Application, present, request, shutdown, Api, CheckStatus, destroy_command_queue,
                Destroyed, encoderVars
  <2>2. QED  BY <1>1, <1>4, <2>1
<1>6. CASE drain_submit_thread \/ Drained \/ drain_presentation \/ acquire_clean_payload \/ dispatch_submit
           \/ set_present_wait_policy \/ wait_for_gpu_retire \/ exit
  <2>1. UNCHANGED <<channel, msg, capturing, failed_replay, failure>>
    BY <1>6 DEF drain_submit_thread, Drained, drain_presentation, acquire_clean_payload,
                dispatch_submit, set_present_wait_policy, wait_for_gpu_retire, exit
  <2>2. QED  BY <1>1, <1>4, <2>1
<1>7. CASE capture \/ replay \/ submit_sync \/ reply \/ submit_thread_main
  <2>1. UNCHANGED channel /\ msg' \in {msg, NoMsg}
    BY <1>7 DEF capture, replay, submit_sync, reply, submit_thread_main, encoderVars
  <2>2. capturing' \in BOOLEAN /\ failed_replay' \in BOOLEAN
    BY <1>4, <1>7 DEF capture, replay, submit_sync, reply, submit_thread_main, encoderVars
  <2>3. failure' \in BOOLEAN
    BY <1>4, <1>7 DEF capture, replay, submit_sync, execute_submit, reply, submit_thread_main
  <2>4. QED  BY <1>1, <2>1, <2>2, <2>3
<1>8. CASE (Submitting /\ ~submit_thread_main) \/ Presenting \/ Waiting \/ UNCHANGED vars
  <2>1. UNCHANGED <<channel, msg, capturing, failed_replay, failure>>
    BY <1>8 DEF Submitting, Presenting, Waiting, pipelineVars, vars, encoderVars
  <2>2. QED  BY <1>1, <1>4, <2>1
<1>9. QED
  BY <1>2, <1>3, <1>5, <1>6, <1>7, <1>8 DEF Next, Ended, Encoder

\* What a message begins with, whatever it is.
LEMMA ReceivedPlan ==
    ASSUME PipelineInv, receive
    PROVE  /\ todo' \in Seq(Steps) /\ InOrder(todo', msg') /\ msg' = channel[1] /\ Marked(msg')
           /\ 1 \in 1..Len(channel) /\ msg' \in Messages /\ msg'.kind # "none"
           /\ \/ /\ ~failed_replay /\ msg'.kind \in Frames
                 /\ Left' = Given(msg'.kind # "queue", {"drain"})
                            \union Given("start" \in msg'.marks, {"drain", "present_idle", "capture_on"})
                            \union {"replay", "acquire", "submit"}
                            \union Given("stop" \in msg'.marks, {"present_idle", "capture_off"})
                            \union Given(msg'.kind # "queue", {"policy_down"})
                            \union Given(msg'.kind = "flush_gpu", {"gpu_wait"})
                            \union {"reply"}
              \/ /\ msg'.kind \in Frames /\ Left' = {"fail_reply"}
                 /\ failed_replay \/ "decode" \in Faults
              \/ msg'.kind = "intake" /\ Left' = {"drain", "policy_down", "gpu_wait", "reply"}
              \/ msg'.kind = "intake" /\ Left' = {"policy_down", "drop_reply"} /\ failed_replay
              \/ msg'.kind = "drain_now" /\ Left' = {"reply"}
              \/ msg'.kind = "reset" /\ Left' = {"drain", "present_idle", "gpu_wait", "reply"}
              \/ msg'.kind \in {"drain_now", "reset"} /\ Left' = {"drop_reply"} /\ failed_replay
              \/ msg'.kind = "shutdown" /\ Left' = {"drain", "present_idle", "gpu_wait", "exit"}
<1> USE DEF PipelineInv
<1>1. /\ channel # <<>> /\ msg' = Head(channel) /\ 1 \in 1..Len(channel) /\ Head(channel) = channel[1]
      /\ channel[1] \in Messages
  BY Received DEF receive
<1>2. Marked(msg')
  BY <1>1 DEF CaptureInv
<1>3. msg'.kind \in Frames \union {"intake", "drain_now", "reset", "shutdown", "none"}
  BY <1>1, MessageFacts
<1>4. msg'.kind # "none"
  <2>1. CASE api \in {"idle", "check", "sending"}
    BY <1>1, <2>1 DEF ProtocolInv
  <2>2. CASE api = "awaiting"
    <3>0. Len(channel) \in Nat
      <4>1. channel \in Seq(Messages)
        BY Typed
      <4>2. QED  BY <4>1
    <3>1. 1 = Len(channel) \/ (1 < Len(channel))
      <4>1. \A n \in Nat : 1 \in 1..n => 1 = n \/ (1 < n)
        OBVIOUS
      <4>2. 1 \in 1..Len(channel)
        BY <1>1
      <4>3. QED  BY <3>0, <4>1, <4>2
    <3>2. QED  BY <1>1, <2>2, <3>1 DEF ProtocolInv
  <2>3. CASE api \in {"joined", "stopping", "gone"}
    BY <1>1, <2>3 DEF ProtocolInv
  <2>4. QED  BY <2>1, <2>2, <2>3, Typed
<1>5. CASE failed_replay /\ msg'.kind # "shutdown" /\ todo' = RefusedSteps(msg'.kind)
  <2>1. todo' \in Seq(Steps) /\ InOrder(todo', msg')
    BY <1>2, <1>5, OtherPlans
  <2>2. /\ msg'.kind \in Frames => Left' = {"fail_reply"}
        /\ msg'.kind = "intake" => Left' = {"policy_down", "drop_reply"}
        /\ msg'.kind \notin Frames \union {"intake"} => Left' = {"drop_reply"}
    BY <1>2, <1>5, OtherPlans DEF Left
  <2>3. QED  BY <1>1, <1>2, <1>3, <1>4, <1>5, <2>1, <2>2 DEF Frames
<1>6. CASE ~failed_replay /\ msg'.kind \in Frames /\ todo' = FrameSteps(msg')
  <2>1. /\ todo' \in Seq(Steps) /\ InOrder(todo', msg')
        /\ StepsOf(todo') = Given(msg'.kind # "queue", {"drain"})
                            \union Given("start" \in msg'.marks, {"drain", "present_idle", "capture_on"})
                            \union {"replay", "acquire", "submit"}
                            \union Given("stop" \in msg'.marks, {"present_idle", "capture_off"})
                            \union Given(msg'.kind # "queue", {"policy_down"})
                            \union Given(msg'.kind = "flush_gpu", {"gpu_wait"})
                            \union {"reply"}
    BY <1>2, <1>6, FramePlan
  <2>2. QED  BY <1>1, <1>2, <1>4, <1>6, <2>1 DEF Left
<1>7. CASE ~failed_replay /\ msg'.kind \in Frames /\ "decode" \in Faults /\ todo' = <<"fail_reply">>
  <2>1. todo' \in Seq(Steps) /\ InOrder(todo', msg') /\ Left' = {"fail_reply"}
    BY <1>2, <1>7, OtherPlans DEF Left
  <2>2. QED  BY <1>1, <1>2, <1>4, <1>7, <2>1
<1>8. CASE msg'.kind \notin Frames /\ todo' = ControlSteps(msg'.kind)
  <2>1. todo' \in Seq(Steps) /\ InOrder(todo', msg')
    BY <1>2, <1>3, <1>4, <1>8, OtherPlans
  <2>2. /\ msg'.kind = "intake" => Left' = {"drain", "policy_down", "gpu_wait", "reply"}
        /\ msg'.kind = "drain_now" => Left' = {"reply"}
        /\ msg'.kind = "reset" => Left' = {"drain", "present_idle", "gpu_wait", "reply"}
        /\ msg'.kind = "shutdown" => Left' = {"drain", "present_idle", "gpu_wait", "exit"}
    BY <1>2, <1>8, OtherPlans DEF Left
  <2>3. QED  BY <1>1, <1>2, <1>3, <1>4, <1>8, <2>1, <2>2
<1>9. QED  BY <1>1, <1>5, <1>6, <1>7, <1>8 DEF receive

-----------------------------------------------------------------------------
(* The plan holds on *)

LEMMA NothingLeft ==
    ASSUME NEW t \in Seq(Steps), StepsOf(t) = {}
    PROVE  t = <<>>
<1>1. Len(t) \in Nat /\ (Len(t) # 0 => 1 \in 1..Len(t))
  OBVIOUS
<1>2. Len(t) = 0
  BY <1>1 DEF StepsOf
<1>3. QED  BY <1>2

\* A reply is the last step.
LEMMA LastStep ==
    ASSUME TypeOK, PlanInv, NEW step \in Replies, At(step), Step
    PROVE  todo' = <<>> /\ Left' = {} /\ Left = {step}
<1>1. /\ todo # <<>> /\ Head(todo) = step
      /\ todo' \in Seq(Steps) /\ Left = {Head(todo)} \union Left'
      /\ \A x \in Left' : \/ Stage(Head(todo), msg) < Stage(x, msg)
                          \/ Stage(Head(todo), msg) = 1 /\ x = "drain"
  BY StepLeft DEF At
<1>2. Stage(step, msg) = 11 /\ \A x : Stage(x, msg) \in 1..11
  BY Stages
<1>3. Left' = {}
  BY <1>1, <1>2
<1>4. QED  BY <1>1, <1>3, NothingLeft DEF Left

LEMMA ReceivePlan ==
    ASSUME PipelineInv, receive
    PROVE  PlanInv'
<1>1. /\ InOrder(todo', msg') /\ Marked(msg') /\ msg'.kind # "none"
  BY ReceivedPlan
<1>2. \A step \in {"draining", "present_idle_wait", "inline"} : step \notin Left'
  BY ReceivedPlan DEF Given
<1>3. /\ "replay" \in Left' => "acquire" \in Left'
      /\ "acquire" \in Left' => "submit" \in Left'
      /\ "submit" \in Left' => "acquire" \in Left'
  BY ReceivedPlan DEF Given
<1>4. "capture_on" \in Left' \/ "capture_off" \in Left' => "present_idle" \in Left'
  BY ReceivedPlan DEF Given
<1>5. {"submit", "inline"} \intersect Left' # {} => msg'.kind \in Frames
  BY ReceivedPlan DEF Given
<1>6. "stop" \in msg'.marks => msg'.kind = "queue" /\ "start" \notin msg'.marks
  BY <1>1 DEF Marked
<1>7. "stop" \in msg'.marks /\ {"submit", "present_idle", "present_idle_wait"} \intersect Left' # {}
           => "capture_off" \in Left'
  BY <1>6, ReceivedPlan DEF Given
<1>8. /\ "capture_off" \in Left' => "stop" \in msg'.marks
      /\ "capture_on" \in Left' => "stop" \notin msg'.marks
  BY <1>6, ReceivedPlan DEF Given
<1>9. "gpu_wait" \in Left' => msg'.kind # "queue"
  BY ReceivedPlan, SMTT(30) DEF Given
<1>10. "exit" \in Left' => msg'.kind = "shutdown"
  BY ReceivedPlan, SMTT(30) DEF Given
<1>11. msg'.kind = "shutdown" /\ {"drain", "draining"} \intersect Left' # {} => "present_idle" \in Left'
  BY ReceivedPlan DEF Given, Frames
<1>12. QED
  BY <1>1, <1>2, <1>3, <1>4, <1>5, <1>7, <1>8, <1>9, <1>10, <1>11 DEF PlanInv

\* What a failed replay leaves.
LEMMA FailedReplay ==
    ASSUME TypeOK, PlanInv, Marked(msg), At("replay"), todo' = CaptureStop(msg) \o <<"fail_reply">>,
           UNCHANGED msg
    PROVE  /\ todo' \in Seq(Steps) /\ PlanInv'
           /\ Left' = Given("stop" \in msg.marks, {"present_idle", "capture_off"}) \union {"fail_reply"}
           /\ "stop" \in msg.marks => "capture_off" \in Left
<1>1. /\ todo' \in Seq(Steps) /\ InOrder(todo', msg)
      /\ Left' = Given("stop" \in msg.marks, {"present_idle", "capture_off"}) \union {"fail_reply"}
  BY OtherPlans DEF Left
<1>2. "replay" \in Left /\ todo # <<>>
  BY AtFirst
<1>3. msg.kind # "none" /\ ("stop" \in msg.marks => "capture_off" \in Left)
  BY <1>2 DEF PlanInv
<1>4. PlanInv'
  BY <1>1, <1>3 DEF PlanInv, Given
<1>5. QED  BY <1>1, <1>3, <1>4

LEMMA PlanStep ==
    ASSUME PipelineInv, [Next]_vars
    PROVE  todo' \in Seq(Steps) /\ PlanInv'
<1> USE DEF PipelineInv
<1>1. ASSUME UNCHANGED <<msg, todo>> PROVE todo' \in Seq(Steps) /\ PlanInv'
  <2>1. PlanInv'
    BY <1>1 DEF PlanInv, Left, At
  <2>2. QED  BY <1>1, <2>1, Typed
<1>2. ASSUME NEW x, At(x), Step, UNCHANGED msg PROVE todo' \in Seq(Steps) /\ PlanInv'
  <2>1. todo # <<>>
    BY <1>2 DEF At
  <2>2. QED  BY <1>2, <2>1, StepPlan, StepLeft
<1>3. CASE receive
  BY <1>3, ReceivePlan, ReceivedPlan
<1>4. CASE drain_submit_thread
  <2>1. At("drain") /\ UNCHANGED msg /\ (Step \/ Block("draining"))
    BY <1>4 DEF drain_submit_thread
  <2>2. QED  BY <1>2, <2>1, BlockPlan
<1>5. CASE drain_presentation
  <2>1. /\ UNCHANGED msg
        /\ (At("present_idle") /\ Block("present_idle_wait")) \/ (At("present_idle_wait") /\ Step)
    BY <1>5 DEF drain_presentation
  <2>2. QED  BY <1>2, <2>1, BlockPlan
<1>6. CASE submit_sync
  <2>1. /\ UNCHANGED msg
        /\ (At("submit") /\ Block("inline")) \/ (At("inline") /\ Step)
    BY <1>6 DEF submit_sync
  <2>2. QED  BY <1>2, <2>1, BlockPlan
<1>7. CASE replay
  <2>1. At("replay") /\ UNCHANGED msg /\ (Step \/ todo' = CaptureStop(msg) \o <<"fail_reply">>)
    BY <1>7 DEF replay
  <2>2. Marked(msg)
    BY DEF CaptureInv
  <2>3. QED  BY <1>2, <2>1, <2>2, FailedReplay
<1>8. CASE reply
  <2>1. PICK step \in Replies : At(step) /\ Step
    BY <1>8 DEF reply, Replies
  <2>2. todo' = <<>> /\ Left' = {} /\ msg' = NoMsg
    BY <1>8, <2>1, LastStep DEF reply
  <2>3. todo' \in Seq(Steps) /\ InOrder(todo', msg')
    BY <2>2, NoSteps
  <2>4. msg'.marks = {} /\ msg'.kind = "none"
    BY <2>2, MessageFacts
  <2>5. QED  BY <2>2, <2>3, <2>4 DEF PlanInv
<1>9. CASE Drained \/ capture \/ acquire_clean_payload \/ dispatch_submit \/ set_present_wait_policy
           \/ wait_for_gpu_retire \/ exit
  <2>1. UNCHANGED msg /\ \E x : At(x) /\ Step
    BY <1>9 DEF Drained, capture, acquire_clean_payload, dispatch_submit, set_present_wait_policy,
                wait_for_gpu_retire, exit
  <2>2. QED  BY <1>2, <2>1
<1>10. CASE Application \/ Api \/ Submitting \/ Presenting \/ Waiting \/ UNCHANGED vars
  <2>1. UNCHANGED <<msg, todo>>
    BY <1>10 DEF Application, present, request, shutdown, Api, CheckStatus, send, destroy_command_queue,
                 Destroyed, Submitting, submit_thread_main, Presenting, Waiting, pipelineVars, vars,
                 encoderVars
  <2>2. QED  BY <1>1, <2>1
<1>11. QED
  BY <1>3, <1>4, <1>5, <1>6, <1>7, <1>8, <1>9, <1>10 DEF Next, Ended, Encoder

\* What a step does to the list of steps.
LEMMA Moves ==
    ASSUME PipelineInv, [Next]_vars
    PROVE  \/ UNCHANGED <<msg, todo, in_flight, capturing, failed_replay>>
           \/ receive
           \/ /\ UNCHANGED msg
              /\ \E x \in Steps : /\ At(x) /\ Step /\ x # "present_idle"
                                  /\ x = "present_idle_wait" => idle_wait = "none" /\ UNCHANGED presentVars
                                  /\ x \notin {"drain", "draining", "acquire", "submit"} => UNCHANGED in_flight
                                  /\ x # "exit" => UNCHANGED api
           \/ UNCHANGED msg /\ At("drain") /\ Block("draining")
           \/ /\ UNCHANGED msg /\ At("present_idle") /\ Block("present_idle_wait")
              /\ P!StartIdleWait
           \/ UNCHANGED msg /\ At("submit") /\ Block("inline")
           \/ UNCHANGED msg /\ At("replay") /\ todo' = CaptureStop(msg) \o <<"fail_reply">>
           \/ reply
<1>1. CASE Application \/ Api \/ Submitting \/ Presenting \/ Waiting \/ UNCHANGED vars
  BY <1>1 DEF Application, present, request, shutdown, Api, CheckStatus, send, destroy_command_queue,
              Destroyed, Submitting, submit_thread_main, Presenting, Waiting, pipelineVars, vars,
              encoderVars, payloadVars
<1>2. CASE drain_submit_thread
  BY <1>2 DEF drain_submit_thread, Steps, apiVars
<1>3. CASE drain_presentation
  BY <1>3 DEF drain_presentation, Steps, payloadVars, apiVars
<1>4. CASE submit_sync
  BY <1>4 DEF submit_sync, Steps, apiVars
<1>5. CASE replay
  BY <1>5 DEF replay, Steps, payloadVars, apiVars
<1>6. CASE Drained \/ acquire_clean_payload \/ dispatch_submit
  BY <1>6 DEF Drained, acquire_clean_payload, dispatch_submit, Steps, apiVars
<1>7. CASE capture \/ set_present_wait_policy \/ wait_for_gpu_retire \/ exit
  BY <1>7 DEF capture, set_present_wait_policy, wait_for_gpu_retire, exit, Steps, payloadVars, apiVars
<1>8. QED
  BY <1>1, <1>2, <1>3, <1>4, <1>5, <1>6, <1>7 DEF Next, Ended, Encoder

-----------------------------------------------------------------------------
(* The API thread and the channel *)

LEMMA Requested ==
    ASSUME TypeOK, NEW kind \in Requests, request(kind)
    PROVE  /\ api_msg'.kind = kind /\ kind \in Frames \union {"intake", "drain_now", "reset"}
           /\ kind \notin {"queue", "none", "shutdown"}
           /\ kind \in Frames => \E marks \in Marks(kind) : Stamp(kind, marks)
           /\ kind \notin Frames => /\ UNCHANGED <<next_seq, marked>>
                                    /\ api_msg'.marks = {} /\ api_msg'.seq = 0
<1>1. kind \in {"flush", "flush_gpu", "intake", "drain_now", "reset"}
  BY PipelineAssumption
<1>2. CASE kind \in Frames
  <2>1. PICK marks \in Marks(kind) : Stamp(kind, marks)
    BY <1>2 DEF request
  <2>2. api_msg'.kind = kind
    BY <1>2, <2>1, StampFacts
  <2>3. QED  BY <1>1, <1>2, <2>1, <2>2 DEF Frames
<1>3. CASE kind \notin Frames
  <2>1. api_msg' = [NoMsg EXCEPT !.kind = kind] /\ UNCHANGED <<next_seq, marked>>
    BY <1>3 DEF request
  <2>2. kind \in {"intake", "drain_now", "reset"}
    BY <1>1, <1>3 DEF Frames
  <2>3. api_msg'.kind = kind /\ api_msg'.marks = {} /\ api_msg'.seq = 0
    BY <2>1, <2>2, MessageFacts
  <2>4. QED  BY <1>3, <2>1, <2>2, <2>3 DEF Frames
<1>4. QED  BY <1>2, <1>3

\* An encoder that has its message left works for a caller that waits, or for
\* none.
LEMMA Working ==
    ASSUME PipelineInv, todo # <<>>
    PROVE  api \in {"idle", "check", "sending", "awaiting"}
BY Typed DEF PipelineInv, ProtocolInv

\* Most steps leave the messages alone.
LEMMA SameMessages ==
    ASSUME PipelineInv, [Next]_vars
    PROVE  \/ Application \/ Api \/ receive \/ reply \/ exit
           \/ /\ UNCHANGED <<api, api_msg, next_seq, marked, msg, channel>>
              /\ todo # <<>> \/ UNCHANGED todo
<1>1. CASE Encoder /\ ~receive /\ ~reply /\ ~exit
  BY <1>1 DEF Encoder, drain_submit_thread, Drained, drain_presentation, capture, replay,
              acquire_clean_payload, dispatch_submit, submit_sync, set_present_wait_policy,
              wait_for_gpu_retire, apiVars, At
<1>2. CASE Submitting \/ Presenting \/ Waiting \/ UNCHANGED vars
  BY <1>2 DEF Submitting, submit_thread_main, Presenting, Waiting, pipelineVars, vars, apiVars, encoderVars
<1>3. QED  BY <1>1, <1>2 DEF Next, Ended, Encoder

LEMMA ProtocolStep ==
    ASSUME PipelineInv, [Next]_vars
    PROVE  ProtocolInv'
<1> USE DEF PipelineInv
<1>1. /\ api \in {"idle", "check", "sending"} =>
           /\ msg.kind \in {"queue", "none"}
           /\ \A i \in 1..Len(channel) : channel[i].kind = "queue"
      /\ api \in {"check", "sending"} => api_msg.kind # "none"
      /\ api = "awaiting" =>
           /\ api_msg.kind \notin {"queue", "none"}
           /\ \/ msg = api_msg /\ channel = <<>>
              \/ /\ msg.kind \in {"queue", "none"} /\ channel # <<>>
                 /\ channel[Len(channel)] = api_msg
                 /\ \A i \in 1..Len(channel) : i < Len(channel) => channel[i].kind = "queue"
      /\ api \in {"joined", "stopping", "gone"} =>
           channel = <<>> /\ msg.kind = "shutdown" /\ todo = <<>>
  BY DEF ProtocolInv
<1>2. ASSUME UNCHANGED <<api, api_msg, msg, channel>>, todo # <<>> \/ UNCHANGED todo
      PROVE  ProtocolInv'
  <2>1. todo # <<>> => api \in {"idle", "check", "sending", "awaiting"}
    BY Working
  <2>2. QED  BY <1>2, <2>1 DEF ProtocolInv
<1>3. ASSUME api' \in {"idle", "check", "sending"}, api = "idle" \/ api = "check", UNCHANGED <<msg, channel>>,
             api' \in {"check", "sending"} => api_msg'.kind # "none"
      PROVE  ProtocolInv'
  BY <1>1, <1>3 DEF ProtocolInv
<1>4. CASE present
  <2>1. PICK marks \in Marks("queue") : Stamp("queue", marks)
    BY <1>4 DEF present
  <2>2. api_msg'.kind = "queue"
    BY <2>1, StampFacts DEF Frames
  <2>3. QED  BY <1>3, <1>4, <2>2 DEF present, encoderVars
<1>5. CASE \E kind \in Requests : request(kind)
  <2>1. PICK kind \in Requests : request(kind)
    BY <1>5
  <2>2. api_msg'.kind # "none"
    BY <2>1, Requested
  <2>3. QED  BY <1>3, <2>1, <2>2 DEF request, encoderVars
<1>6. CASE shutdown
  <2>1. api_msg'.kind = "shutdown"
    BY <1>6, MessageFacts DEF shutdown
  <2>2. QED  BY <1>3, <1>6, <2>1 DEF shutdown, encoderVars
<1>7. CASE CheckStatus
  <2>1. api = "check" /\ api_msg.kind # "none" /\ UNCHANGED <<msg, channel>>
    BY <1>1, <1>7 DEF CheckStatus, encoderVars
  <2>2. api' = "idle" \/ (api' = "sending" /\ api_msg' = api_msg)
    BY <1>7 DEF CheckStatus
  <2>3. QED  BY <1>3, <2>1, <2>2
<1>8. CASE send
  <2>1. /\ Len(channel') = Len(channel) + 1 /\ Len(channel) \in Nat
        /\ channel'[Len(channel) + 1] = api_msg
        /\ \A i \in 1..Len(channel) : channel'[i] = channel[i]
        /\ \A i \in 1..Len(channel') : i \in 1..Len(channel) \/ i = Len(channel) + 1
    BY <1>8, Sent
  <2>2. api = "sending" /\ UNCHANGED msg /\ api_msg.kind # "none"
    BY <1>1, <1>8 DEF send, encoderVars
  <2>3. CASE api_msg.kind = "queue"
    <3>1. api' = "idle"
      BY <1>8, <2>3 DEF send
    <3>2. \A i \in 1..Len(channel') : channel'[i].kind = "queue"
      BY <1>1, <2>1, <2>2, <2>3
    <3>3. QED  BY <1>1, <2>2, <3>1, <3>2 DEF ProtocolInv
  <2>4. CASE api_msg.kind # "queue"
    <3>1. api' = "awaiting" /\ api_msg' = api_msg
      BY <1>8, <2>4 DEF send
    <3>2. channel' # <<>> /\ channel'[Len(channel')] = api_msg'
      <4>1. Len(channel') # 0
        BY <2>1, SMTT(30)
      <4>2. QED  BY <2>1, <3>1, <4>1
    <3>3. \A i \in 1..Len(channel') : i < Len(channel') => channel'[i].kind = "queue"
      <4>1. \A i \in 1..Len(channel') : i < Len(channel') => i \in 1..Len(channel)
        BY <2>1, SMTT(30)
      <4>2. QED  BY <1>1, <2>1, <2>2, <4>1
    <3>4. QED  BY <1>1, <2>2, <2>4, <3>1, <3>2, <3>3 DEF ProtocolInv
  <2>5. QED  BY <2>3, <2>4
<1>9. CASE destroy_command_queue \/ Destroyed
  <2>1. api \in {"joined", "stopping"} /\ api' \in {"stopping", "gone"} /\ UNCHANGED <<msg, todo, channel>>
    BY <1>9 DEF destroy_command_queue, Destroyed, encoderVars
  <2>2. QED  BY <1>1, <2>1 DEF ProtocolInv
<1>10. CASE receive
  <2>1. /\ 1 \in 1..Len(channel) /\ msg' = channel[1] /\ channel' = Tail(channel)
        /\ Len(channel') = Len(channel) - 1 /\ Len(channel) \in Nat
        /\ \A i \in 1..Len(channel') : i + 1 \in 1..Len(channel) /\ channel'[i] = channel[i + 1]
    BY <1>10, Received, Typed DEF receive
  <2>2. UNCHANGED <<api, api_msg>> /\ channel # <<>> /\ msg.kind = "none"
    BY <1>10, MessageFacts DEF receive, apiVars
  <2>3. CASE api \in {"idle", "check", "sending"}
    BY <1>1, <2>1, <2>2, <2>3 DEF ProtocolInv
  <2>4. CASE api = "awaiting"
    <3>1. /\ channel[Len(channel)] = api_msg /\ api_msg.kind \notin {"queue", "none"}
          /\ \A i \in 1..Len(channel) : i < Len(channel) => channel[i].kind = "queue"
      BY <1>1, <2>2, <2>4
    <3>2. CASE Len(channel) = 1
      <4>1. msg' = api_msg /\ Len(channel') = 0
        BY <2>1, <3>1, <3>2, SMTT(30)
      <4>2. channel' = <<>>
        <5>1. Tail(channel) \in Seq(Messages) /\ Len(Tail(channel)) = 0
          BY <2>1, <2>2, <4>1, Received
        <5>2. \A t \in Seq(Messages) : Len(t) = 0 => t = <<>>
          OBVIOUS
        <5>3. Tail(channel) = <<>>
          BY <5>1, <5>2
        <5>4. channel' = Tail(channel)
          BY <2>1
        <5>5. QED  BY <5>3, <5>4
      <4>3. QED  BY <2>2, <2>4, <3>1, <4>1, <4>2 DEF ProtocolInv
    <3>3. CASE Len(channel) # 1
      <4>1. 1 < Len(channel) /\ Len(channel') \in 1..Len(channel') /\ Len(channel') + 1 = Len(channel)
        <5>1. Len(channel) \in Nat /\ 1 \in 1..Len(channel) /\ Len(channel') = Len(channel) - 1
          BY <2>1
        <5>2. \A n \in Nat : n # 1 /\ 1 \in 1..n => 1 < n /\ n - 1 \in 1..(n - 1) /\ (n - 1) + 1 = n
          OBVIOUS
        <5>3. QED  BY <3>3, <5>1, <5>2, SMTT(30)
      <4>2. msg'.kind = "queue" /\ channel'[Len(channel')] = api_msg /\ channel' # <<>>
        <5>1. msg'.kind = "queue"
          BY <2>1, <3>1, <4>1
        <5>2. channel'[Len(channel')] = channel[Len(channel') + 1]
          BY <2>1, <4>1
        <5>3. channel'[Len(channel')] = api_msg
          BY <3>1, <4>1, <5>2
        <5>4. Len(channel') # 0
          BY <2>1, <4>1
        <5>5. channel' # <<>>
          BY <5>4
        <5>6. QED  BY <5>1, <5>3, <5>5
      <4>3. \A i \in 1..Len(channel') : i < Len(channel') => channel'[i].kind = "queue"
        BY <2>1, <3>1, <4>1, SMTT(30)
      <4>4. QED  BY <2>2, <2>4, <3>1, <4>2, <4>3 DEF ProtocolInv
    <3>4. QED  BY <3>2, <3>3
  <2>5. QED  BY <1>1, <2>2, <2>3, <2>4, Typed
<1>11. CASE reply
  <2>1. msg' = NoMsg /\ msg'.kind = "none" /\ UNCHANGED channel /\ todo # <<>>
    BY <1>11, MessageFacts DEF reply, At
  <2>2. CASE api = "awaiting" /\ api_msg = msg
    <3>1. api' = "idle" /\ channel = <<>>
      BY <1>1, <1>11, <2>2 DEF reply
    <3>2. QED  BY <2>1, <3>1, SMTT(30) DEF ProtocolInv
  <2>3. CASE ~(api = "awaiting" /\ api_msg = msg)
    <3>1. UNCHANGED <<api, api_msg>>
      BY <1>11, <2>3 DEF reply
    <3>2. QED  BY <1>1, <2>1, <2>3, <3>1, Working DEF ProtocolInv
  <2>4. QED  BY <2>2, <2>3
<1>12. CASE exit
  <2>1. At("exit") /\ Step /\ UNCHANGED <<msg, channel>> /\ api' = "joined" /\ todo # <<>>
    BY <1>12 DEF exit, At
  <2>2. todo' = <<>> /\ "exit" \in Left
    BY <2>1, LastStep DEF Replies
  <2>3. msg.kind = "shutdown"
    BY <2>2 DEF PlanInv
  <2>4. channel = <<>>
    BY <1>1, <2>1, <2>3, Working
  <2>5. QED  BY <2>1, <2>2, <2>3, <2>4 DEF ProtocolInv
<1>13. QED
  BY <1>2, <1>4, <1>5, <1>6, <1>7, <1>8, <1>9, <1>10, <1>11, <1>12, SameMessages DEF Application, Api
=============================================================================
