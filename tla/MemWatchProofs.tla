--------------------------- MODULE MemWatchProofs ---------------------------
(***************************************************************************)
(* Proofs about MemWatch and the lock it runs under, for every number of    *)
(* threads, presents, thresholds and foreign samples.                      *)
(***************************************************************************)
EXTENDS MemWatch, TLAPS

\* What the constants are: a device's threads, none of them the free owner.
WatchConstants ==
    /\ "none" \notin Threads
    /\ SampleEvery \in Nat \ {0}
    /\ Thresholds \in Nat

-----------------------------------------------------------------------------
(* The inductive invariant *)

Inside == {"count", "nested", "swap", "answer", "offer", "leave"}
PCs == {"out", "enter", "notify", "drop", "gone"} \cup Inside

LockTypes ==
    /\ app \in [Threads -> PCs]
    /\ owner \in Threads \cup {"none"} /\ depth \in Nat
    /\ waiting \subseteq Threads /\ awake \subseteq Threads /\ notifies \subseteq Threads

Figures == [index : Int, taken : BOOLEAN]
Samples == [index : Int, below : Int, seen : Int, report : Int]
Lines == [index : Int, figures : Figures]

HandoffTypes ==
    /\ presents \in Nat /\ latch \in Int /\ taken \in Int /\ request \in Int
    /\ samples \in Seq(Int) /\ Len(samples) <= 1
    /\ answers \in Seq(Figures)
    /\ reports \in Seq(Int)
    /\ cur \in Samples
    /\ watch \in {"recv", "advance", "due", "await", "ended"}
    /\ lines \subseteq Lines

Types == LockTypes /\ HandoffTypes

\* The lock: who is inside a call owns it, once or, nested, twice.
LockInv ==
    /\ \A t \in Threads : (owner = t) <=> (app[t] \in Inside)
    /\ (owner = "none") <=> (depth = 0)
    /\ \A t \in Threads : app[t] \in Inside \ {"nested"} => depth = 1
    /\ depth <= 2
    /\ \A t \in Threads : app[t] \in {"swap", "answer", "offer"} => presents > 0

\* Where an index of a sample lies below: every present up to this one.
Offers == {t \in Threads : app[t] \in {"swap", "answer", "offer"}}
Counted == IF Offers = {} THEN presents ELSE presents - 1
Old(i, c) == i * SampleEvery < c

\* Every index the hand-off knows of, but the queued sample's.
Earlier(i) ==
    /\ \A k \in 1..Len(answers) : answers[k].index < i
    /\ taken < i

QueuedInv ==
    samples # << >> => /\ 0 <= samples[1] /\ Old(samples[1], Counted)
                       /\ Earlier(samples[1]) /\ cur.index < samples[1] /\ request < samples[1]
CurInv ==
    /\ watch \in {"advance", "due", "await"} => 0 <= cur.index
    /\ cur.index = None \/ Old(cur.index, Counted)
AnswersInv == \A k \in 1..Len(answers) : 0 <= answers[k].index /\ Old(answers[k].index, Counted)
TakenInv ==
    /\ taken = None \/ (0 <= taken /\ Old(taken, Counted))
    /\ \A t \in Threads : app[t] = "answer" => taken # None
RequestInv ==
    /\ request = None \/ (0 <= request /\ Old(request, Counted))
    /\ request # None => watch = "ended" \/ (watch = "await" /\ request = cur.index)
    /\ watch \in {"advance", "due"} => Earlier(cur.index)
    /\ watch = "await" /\ request = cur.index => Earlier(cur.index)

LineInv == \A l \in lines : l.figures.taken => l.figures.index = l.index

LatchInv ==
    /\ watch \in {"recv", "advance", "ended"} => cur.report = 0
    /\ \A i \in 1..Len(reports) : reports[i] <= latch
    /\ \A i, j \in 1..Len(reports) : i < j => reports[i] < reports[j]
    /\ latch >= Unsampled

WatchInv == Types /\ LockInv /\ QueuedInv /\ CurInv /\ AnswersInv /\ TakenInv /\ RequestInv
            /\ LineInv /\ LatchInv /\ WakeIsOnItsWay

-----------------------------------------------------------------------------
(* The lock *)

LockPart == Types /\ LockInv /\ WakeIsOnItsWay

LEMMA NoSampleType == NoSample \in Samples
BY DEF NoSample, Samples, None

LEMMA EmptySamples == << >> \in Seq(Int) /\ Len(<< >>) = 0
OBVIOUS

LEMMA LockPartInit == ASSUME WatchConstants, Init PROVE LockPart
BY DEF WatchConstants, Init, LockInit, LockPart, Types, LockTypes, HandoffTypes, LockInv, WakeIsOnItsWay, PCs, Inside,
       NoSample, None, Unsampled, Samples

LEMMA LockPartStep ==
    ASSUME WatchConstants, LockPart, [Next]_vars
    PROVE  LockPart'
<1> USE DEF WatchConstants, LockPart, Types, lockVars, handoff, sampler
<1>1. CASE UNCHANGED vars
  BY <1>1 DEF vars, LockTypes, HandoffTypes, LockInv, WakeIsOnItsWay
<1>2. ASSUME NEW t \in Threads, Call(t) PROVE LockPart'
  <2>1. LockTypes' /\ LockInv'
    BY <1>2 DEF Call, At, LockTypes, LockInv, PCs, Inside
  <2>2. HandoffTypes'
    BY <1>2 DEF Call, At, HandoffTypes
  <2>3. WakeIsOnItsWay'
    BY <1>2 DEF Call, At, LockTypes, WakeIsOnItsWay
  <2> QED BY <2>1, <2>2, <2>3
<1>3. ASSUME NEW t \in Threads, Wake(t) PROVE LockPart'
  <2>1. LockTypes' /\ LockInv'
    BY <1>3 DEF Wake, SpuriousWake, LockTypes, LockInv, PCs, Inside
  <2>2. HandoffTypes'
    BY <1>3 DEF Wake, SpuriousWake, HandoffTypes
  <2>3. WakeIsOnItsWay'
    BY <1>3 DEF Wake, SpuriousWake, LockTypes, WakeIsOnItsWay
  <2> QED BY <2>1, <2>2, <2>3
<1>4. ASSUME NEW t \in Threads, Release(t) PROVE LockPart'
  <2>1. LockTypes' /\ LockInv'
    BY <1>4 DEF Release, At, LockTypes, LockInv, PCs, Inside
  <2>2. HandoffTypes'
    BY <1>4 DEF Release, At, HandoffTypes
  <2>3. WakeIsOnItsWay'
    BY <1>4 DEF Release, At, LockTypes, WakeIsOnItsWay
  <2> QED BY <2>1, <2>2, <2>3
<1>5. ASSUME NEW t \in Threads, DroppedInLoader(t) PROVE LockPart'
  <2>1. LockTypes' /\ LockInv'
    BY <1>5 DEF DroppedInLoader, At, LockTypes, LockInv, PCs, Inside
  <2>2. HandoffTypes'
    BY <1>5 DEF DroppedInLoader, At, HandoffTypes
  <2>3. WakeIsOnItsWay'
    BY <1>5 DEF DroppedInLoader, At, LockTypes, WakeIsOnItsWay
  <2> QED BY <2>1, <2>2, <2>3
<1>6. ASSUME NEW t \in Threads, Dropped(t) PROVE LockPart'
  <2>1. LockTypes' /\ LockInv'
    BY <1>6 DEF Dropped, At, LockTypes, LockInv, PCs, Inside
  <2>2. HandoffTypes'
    BY <1>6 DEF Dropped, At, HandoffTypes
  <2>3. WakeIsOnItsWay'
    BY <1>6 DEF Dropped, At, LockTypes, WakeIsOnItsWay
  <2> QED BY <2>1, <2>2, <2>3
<1>7. ASSUME NEW t \in Threads, Enter(t) PROVE LockPart'
  <2>1. LockTypes' /\ LockInv'
    BY <1>7 DEF Enter, enter, block, LockTypes, LockInv, PCs, Inside
  <2>2. HandoffTypes'
    BY <1>7 DEF Enter, enter, block, HandoffTypes
  <2>3. WakeIsOnItsWay'
    BY <1>7 DEF Enter, enter, block, LockTypes, WakeIsOnItsWay
  <2> QED BY <2>1, <2>2, <2>3
<1>8. ASSUME NEW t \in Threads, Nested(t) PROVE LockPart'
  <2>1. LockTypes' /\ LockInv'
    BY <1>8 DEF Nested, enter, leave, At, LockTypes, LockInv, PCs, Inside
  <2>2. HandoffTypes'
    BY <1>8 DEF Nested, enter, leave, At, HandoffTypes
  <2>3. WakeIsOnItsWay'
    BY <1>8 DEF Nested, enter, leave, At, LockTypes, WakeIsOnItsWay
  <2> QED BY <2>1, <2>2, <2>3
<1>9. ASSUME NEW t \in Threads, Count(t) PROVE LockPart'
  <2>1. LockTypes' /\ LockInv'
    BY <1>9 DEF Count, At, LockTypes, HandoffTypes, LockInv, PCs, Inside
  <2>2. HandoffTypes'
    BY <1>9 DEF Count, At, HandoffTypes
  <2>3. WakeIsOnItsWay'
    BY <1>9 DEF Count, At, LockTypes, WakeIsOnItsWay
  <2> QED BY <2>1, <2>2, <2>3
<1>10. ASSUME NEW t \in Threads, Swap(t) PROVE LockPart'
  <2>1. LockTypes' /\ LockInv'
    BY <1>10 DEF Swap, At, LockTypes, LockInv, PCs, Inside
  <2>2. HandoffTypes'
    BY <1>10 DEF Swap, At, HandoffTypes, None
  <2>3. WakeIsOnItsWay'
    BY <1>10 DEF Swap, At, LockTypes, WakeIsOnItsWay
  <2> QED BY <2>1, <2>2, <2>3
<1>11. ASSUME NEW t \in Threads, Answer(t) PROVE LockPart'
  <2>1. LockTypes' /\ LockInv'
    BY <1>11 DEF Answer, At, LockTypes, LockInv, PCs, Inside
  <2>2. HandoffTypes'
    <3>1. [index |-> taken, taken |-> TRUE] \in Figures
      BY DEF HandoffTypes, Figures
    <3>2. answers' \in Seq(Figures)
      BY <1>11, <3>1 DEF Answer, HandoffTypes
    <3> QED BY <1>11, <3>2 DEF Answer, HandoffTypes, None
  <2>3. WakeIsOnItsWay'
    BY <1>11 DEF Answer, At, LockTypes, WakeIsOnItsWay
  <2> QED BY <2>1, <2>2, <2>3
<1>12. ASSUME NEW t \in Threads, Offer(t) PROVE LockPart'
  <2>1. LockTypes' /\ LockInv'
    BY <1>12 DEF Offer, At, LockTypes, LockInv, PCs, Inside
  <2>2. HandoffTypes'
    BY <1>12 DEF Offer, At, HandoffTypes
  <2>3. WakeIsOnItsWay'
    BY <1>12 DEF Offer, At, LockTypes, WakeIsOnItsWay
  <2> QED BY <2>1, <2>2, <2>3
<1>13. ASSUME NEW t \in Threads, Leave(t) PROVE LockPart'
  <2>1. LockTypes' /\ LockInv'
    BY <1>13 DEF Leave, leave, At, LockTypes, LockInv, PCs, Inside
  <2>2. HandoffTypes'
    BY <1>13 DEF Leave, leave, At, HandoffTypes
  <2>3. WakeIsOnItsWay'
    BY <1>13 DEF Leave, leave, At, LockTypes, WakeIsOnItsWay
  <2> QED BY <2>1, <2>2, <2>3
<1>14. ASSUME NEW t \in Threads, Notify(t) PROVE LockPart'
  <2>1. LockTypes' /\ LockInv'
    BY <1>14 DEF Notify, notify, At, LockTypes, LockInv, PCs, Inside
  <2>2. HandoffTypes'
    BY <1>14 DEF Notify, notify, At, HandoffTypes
  <2>3. WakeIsOnItsWay'
    BY <1>14 DEF Notify, notify, At, LockTypes, WakeIsOnItsWay
  <2> QED BY <2>1, <2>2, <2>3
<1>15. CASE TakeSample
  <2>1. LockTypes' /\ LockInv' /\ WakeIsOnItsWay'
    BY <1>15 DEF TakeSample, LockTypes, LockInv, WakeIsOnItsWay
  <2>2. HandoffTypes'
    <3>1. CASE samples # << >>
      <4>1. Head(samples) \in Int
        BY <3>1 DEF HandoffTypes
      <4>2. cur' \in Samples
        BY <1>15, <3>1, <4>1 DEF TakeSample, HandoffTypes, Samples
      <4>3. samples' \in Seq(Int) /\ Len(samples') <= 1
        <5>1. samples' = << >>
          BY <1>15, <3>1 DEF TakeSample
        <5> QED BY <5>1, EmptySamples
      <4>4. watch' = "advance"
        BY <1>15, <3>1 DEF TakeSample
      <4> QED BY <1>15, <4>2, <4>3, <4>4 DEF TakeSample, HandoffTypes
    <3>2. CASE samples = << >>
      BY <1>15, <3>2 DEF TakeSample, HandoffTypes
    <3> QED BY <3>1, <3>2
  <2> QED BY <2>1, <2>2
<1>16. CASE advance
  <2>1. LockTypes' /\ LockInv' /\ WakeIsOnItsWay'
    BY <1>16 DEF advance, LockTypes, LockInv, WakeIsOnItsWay
  <2>2. HandoffTypes'
    <3> DEFINE step == threshold_step(cur.seen, cur.below)
    <3>1. step.next \in Int /\ step.report \in Int
      BY DEF threshold_step, HandoffTypes, Samples
    <3> HIDE DEF step
    <3>2. CASE step.steps /\ latch = cur.seen
      <4>1. cur' \in Samples
        <5>1. cur' = [cur EXCEPT !.report = step.report]
          BY <1>16, <3>2 DEF advance, step
        <5> QED BY <3>1, <5>1 DEF HandoffTypes, Samples
      <4>2. reports' \in Seq(Int) /\ latch' \in Int
        <5>1. /\ latch' = step.next
              /\ reports' = IF step.report = 0 THEN reports ELSE Append(reports, step.report)
          BY <1>16, <3>2 DEF advance, step
        <5> QED BY <3>1, <5>1 DEF HandoffTypes
      <4> QED BY <1>16, <4>1, <4>2 DEF advance, HandoffTypes
    <3>3. CASE ~(step.steps /\ latch = cur.seen)
      BY <1>16, <3>3 DEF advance, HandoffTypes, step
    <3> QED BY <3>2, <3>3
  <2> QED BY <2>1, <2>2
<1>17. CASE Ask
  <2>1. LockTypes' /\ LockInv' /\ WakeIsOnItsWay'
    BY <1>17 DEF Ask, LockTypes, LockInv, WakeIsOnItsWay
  <2>2. HandoffTypes'
    BY <1>17, NoSampleType DEF Ask, HandoffTypes, None, Samples
  <2> QED BY <2>1, <2>2
<1>18. CASE Answered
  <2>1. LockTypes' /\ LockInv' /\ WakeIsOnItsWay'
    BY <1>18 DEF Answered, LockTypes, LockInv, WakeIsOnItsWay
  <2>2. HandoffTypes'
    <3>1. Head(answers) \in Figures /\ answers' \in Seq(Figures)
      BY <1>18 DEF Answered, HandoffTypes
    <3>2. [index |-> cur.index, figures |-> Head(answers)] \in Lines
      BY <3>1 DEF HandoffTypes, Samples, Lines
    <3> QED BY <1>18, <3>1, <3>2, NoSampleType DEF Answered, LogLine, HandoffTypes
  <2> QED BY <2>1, <2>2
<1>19. CASE TimedOut
  <2>1. LockTypes' /\ LockInv' /\ WakeIsOnItsWay'
    BY <1>19 DEF TimedOut, LockTypes, LockInv, WakeIsOnItsWay
  <2>2. HandoffTypes'
    <3>1. NoFigures \in Figures
      BY DEF NoFigures, None, Figures
    <3>2. [index |-> cur.index, figures |-> NoFigures] \in Lines
      BY <3>1 DEF HandoffTypes, Samples, Lines
    <3> QED BY <1>19, <3>2, NoSampleType DEF TimedOut, LogLine, HandoffTypes, None
  <2> QED BY <2>1, <2>2
<1>20. CASE Ended
  <2>1. LockTypes' /\ LockInv' /\ WakeIsOnItsWay'
    BY <1>20 DEF Ended, LockTypes, LockInv, WakeIsOnItsWay
  <2>2. HandoffTypes'
    BY <1>20, NoSampleType DEF Ended, HandoffTypes
  <2> QED BY <2>1, <2>2
<1>21. CASE ForeignSample
  <2>1. LockTypes' /\ LockInv' /\ WakeIsOnItsWay'
    BY <1>21 DEF ForeignSample, LockTypes, LockInv, WakeIsOnItsWay
  <2>2. HandoffTypes'
    <3>1. PICK below \in 0..Thresholds :
              LET step == threshold_step(latch, below)
              IN  /\ latch' = IF step.steps THEN step.next ELSE latch
                  /\ reports' = IF step.report = 0 THEN reports ELSE Append(reports, step.report)
      BY <1>21 DEF ForeignSample
    <3> DEFINE step == threshold_step(latch, below)
    <3>2. step.next \in Int /\ step.report \in Int
      BY DEF threshold_step, HandoffTypes
    <3> HIDE DEF step
    <3>3. latch' \in Int /\ reports' \in Seq(Int)
      BY <3>1, <3>2 DEF HandoffTypes, step
    <3> QED BY <1>21, <3>3 DEF ForeignSample, HandoffTypes
  <2> QED BY <2>1, <2>2
<1> QED
  BY <1>1, <1>2, <1>3, <1>4, <1>5, <1>6, <1>7, <1>8, <1>9, <1>10, <1>11, <1>12, <1>13, <1>14, <1>15, <1>16, <1>17, <1>18, <1>19, <1>20, <1>21
     DEF Next, AppStep, WatchStep

-----------------------------------------------------------------------------
(* The sample indices *)

\* What was counted stays counted: only the owner of the lock counts or offers.
LEMMA CountedGrows ==
    ASSUME WatchConstants, LockPart, [Next]_vars
    PROVE  Counted \in Int /\ Counted' \in Int /\ Counted' >= Counted
<1> USE DEF LockPart, Types, LockTypes, lockVars, handoff, sampler
<1>1. presents \in Nat /\ presents' \in Nat
  BY LockPartStep DEF HandoffTypes
<1>2. Offers \subseteq Threads
  BY DEF Offers
<1>3. ASSUME Offers' = Offers, presents' = presents
      PROVE  Counted \in Int /\ Counted' \in Int /\ Counted' >= Counted
  BY <1>1, <1>3 DEF Counted
<1>4. CASE UNCHANGED vars
  BY <1>3, <1>4 DEF vars, Offers
<1>5. ASSUME NEW t \in Threads, Count(t)
      PROVE  Counted \in Int /\ Counted' \in Int /\ Counted' >= Counted
  <2>1. Offers = {}
    BY <1>5 DEF Count, Offers, LockInv, Inside
  <2>2. Offers' # {}
    BY <1>5 DEF Count, At, Offers
  <2>3. presents' = presents + 1
    BY <1>5 DEF Count
  <2> QED BY ONLY <1>1, <2>1, <2>2, <2>3 DEF Counted
<1>6. ASSUME NEW t \in Threads, \/ Call(t) \/ Wake(t) \/ Release(t) \/ DroppedInLoader(t) \/ Dropped(t)
                                \/ Enter(t) \/ Nested(t) \/ Leave(t) \/ Notify(t)
      PROVE  Counted \in Int /\ Counted' \in Int /\ Counted' >= Counted
  <2>1. Offers' = Offers /\ presents' = presents
    BY <1>6 DEF Call, Wake, Release, DroppedInLoader, Dropped, Enter, Nested, Leave, Notify, At, Offers
  <2> QED BY <1>3, <2>1
<1>7. ASSUME NEW t \in Threads, Swap(t) \/ Answer(t) \/ Offer(t)
      PROVE  Counted \in Int /\ Counted' \in Int /\ Counted' >= Counted
  <2>1. Offers # {} /\ presents' = presents
    BY <1>7 DEF Swap, Answer, Offer, Offers
  <2> QED BY ONLY <1>1, <2>1 DEF Counted
<1>8. CASE TakeSample \/ advance \/ Ask \/ Answered \/ TimedOut \/ Ended \/ ForeignSample
  <2>1. Offers' = Offers /\ presents' = presents
    BY <1>8 DEF TakeSample, advance, Ask, Answered, TimedOut, Ended, ForeignSample, Offers
  <2> QED BY <1>3, <2>1
<1> QED
  BY <1>4, <1>5, <1>6, <1>7, <1>8 DEF Next, AppStep, WatchStep

LEMMA OldStays ==
    ASSUME WatchConstants, LockPart, [Next]_vars, NEW i \in Int, Old(i, Counted)
    PROVE  Old(i, Counted')
<1>1. i * SampleEvery \in Int
  BY DEF WatchConstants
<1> QED BY <1>1, CountedGrows DEF Old

LEMMA Division ==
    ASSUME NEW n \in Nat, NEW m \in Nat \ {0}, n % m = 0
    PROVE  n \div m \in Nat /\ (n \div m) * m = n
OBVIOUS

LEMMA Products ==
    ASSUME NEW i \in Int, NEW k \in Int, NEW m \in Nat \ {0}, i * m < k * m
    PROVE  i < k
OBVIOUS

\* A present that offers has counted itself: its sample is past every other.
LEMMA OfferIsNewest ==
    ASSUME WatchConstants, LockPart, [Next]_vars, NEW t \in Threads, Offer(t),
           (presents - 1) % SampleEvery = 0,
           NEW k, k = (presents - 1) \div SampleEvery
    PROVE  /\ k \in Int /\ 0 <= k /\ Old(k, Counted')
           /\ \A i \in Int : Old(i, Counted) => i < k
<1> DEFINE n == presents - 1
<1> USE DEF LockPart, Types, LockTypes
<1>1. Offers # {} /\ Offers' = {}
  <2>1. Offers # {}
    BY DEF Offers, Offer
  <2>2. Offers' = {}
    BY DEF Offers, Offer, At, LockInv, Inside
  <2> QED BY <2>1, <2>2
<1>2. presents' = presents /\ presents \in Nat
  BY DEF Offer, HandoffTypes
<1>3. Counted = n /\ Counted' = n + 1
  BY ONLY <1>1, <1>2 DEF Counted
<1>4. n \in Nat
  BY <1>2 DEF Offer, LockInv
<1>5. k \in Nat /\ k * SampleEvery = n
  BY <1>4, Division DEF WatchConstants
<1>6. ASSUME NEW i \in Int, i * SampleEvery < n PROVE i < k
  BY <1>5, <1>6, Products DEF WatchConstants
<1>7. Old(k, Counted')
  BY <1>3, <1>4, <1>5 DEF Old
<1> QED
  BY <1>3, <1>5, <1>6, <1>7 DEF Old

HandoffPart == QueuedInv /\ CurInv /\ AnswersInv /\ TakenInv /\ RequestInv

LEMMA HandoffInit == ASSUME WatchConstants, Init PROVE HandoffPart
BY DEF Init, HandoffPart, QueuedInv, CurInv, AnswersInv, TakenInv, RequestInv, Earlier, NoSample, None

LEMMA HandoffStep ==
    ASSUME WatchConstants, LockPart, HandoffPart, [Next]_vars
    PROVE  HandoffPart'
<1> USE DEF HandoffPart, Earlier, handoff, sampler, None
<1>1. LockTypes /\ HandoffTypes /\ HandoffTypes'
  BY LockPartStep DEF LockPart, Types
<1>2. /\ app \in [Threads -> PCs]
      /\ taken \in Int /\ request \in Int /\ cur.index \in Int
      /\ samples # << >> => samples[1] \in Int
      /\ Len(answers) \in Nat /\ \A k \in 1..Len(answers) : answers[k].index \in Int
  <2>1. Len(answers) \in Nat /\ \A k \in 1..Len(answers) : answers[k] \in Figures
    BY <1>1 DEF HandoffTypes
  <2>2. \A k \in 1..Len(answers) : answers[k].index \in Int
    BY <2>1 DEF Figures
  <2>3. cur.index \in Int
    BY <1>1 DEF HandoffTypes, Samples
  <2>4. samples # << >> => samples[1] \in Int
    BY <1>1 DEF HandoffTypes
  <2> QED BY <1>1, <2>1, <2>2, <2>3, <2>4 DEF LockTypes, HandoffTypes
<1>3. \A i \in Int : Old(i, Counted) => Old(i, Counted')
  BY OldStays
<1>4. ASSUME UNCHANGED <<samples, request, answers, taken, cur>>,
             watch' = watch \/ (watch = "advance" /\ watch' = "due"),
             \A u \in Threads : app'[u] = "answer" => app[u] = "answer"
      PROVE  HandoffPart'
  BY <1>2, <1>3, <1>4 DEF QueuedInv, CurInv, AnswersInv, TakenInv, RequestInv
<1>5. CASE UNCHANGED vars
  BY <1>4, <1>5 DEF vars
<1>6. ASSUME NEW t \in Threads, \/ Call(t) \/ Wake(t) \/ Release(t) \/ DroppedInLoader(t) \/ Dropped(t)
                                \/ Enter(t) \/ Nested(t) \/ Leave(t) \/ Notify(t) \/ Count(t)
      PROVE HandoffPart'
  <2>1. /\ UNCHANGED <<samples, request, answers, taken, watch, cur>>
        /\ \A u \in Threads : app'[u] = "answer" => app[u] = "answer"
    BY <1>2, <1>6 DEF Call, Wake, Release, DroppedInLoader, Dropped, Enter, Nested, Leave, Notify,
                      Count, At
  <2> QED BY <1>4, <2>1
<1>7. ASSUME NEW t \in Threads, Swap(t) PROVE HandoffPart'
  <2>1. QueuedInv'
    <3>1. taken' = request /\ request' = None /\ UNCHANGED <<samples, answers, cur>>
      BY <1>7 DEF Swap
    <3>2. SUFFICES ASSUME samples # << >>
                   PROVE  /\ 0 <= samples[1] /\ Old(samples[1], Counted')
                          /\ \A k \in 1..Len(answers) : answers[k].index < samples[1]
                          /\ request < samples[1] /\ cur.index < samples[1] /\ None < samples[1]
      BY <3>1 DEF QueuedInv
    <3>3. /\ 0 <= samples[1] /\ Old(samples[1], Counted) /\ samples[1] \in Int
          /\ \A k \in 1..Len(answers) : answers[k].index < samples[1]
          /\ request < samples[1] /\ cur.index < samples[1]
      BY <1>2, <3>2 DEF QueuedInv
    <3>4. None < samples[1]
      BY <3>3
    <3> QED BY <1>3, <3>3, <3>4
  <2>2. CurInv'
    BY <1>2, <1>3, <1>7 DEF Swap, At, CurInv, QueuedInv
  <2>3. AnswersInv'
    BY <1>2, <1>3, <1>7 DEF Swap, At, AnswersInv, TakenInv
  <2>4. TakenInv'
    <3>1. \A u \in Threads : app[u] = "answer" => FALSE
      BY <1>2, <1>7 DEF Swap, LockPart, LockInv, Inside
    <3> QED BY <1>2, <1>3, <1>7, <3>1 DEF Swap, At, TakenInv, RequestInv
  <2>5. RequestInv'
    BY <1>2, <1>3, <1>7 DEF Swap, At, RequestInv, QueuedInv, CurInv
  <2> QED BY <2>1, <2>2, <2>3, <2>4, <2>5
<1>8. ASSUME NEW t \in Threads, Answer(t) PROVE HandoffPart'
  <2>1. QueuedInv'
    <3>1. taken' = None /\ UNCHANGED <<samples, request, cur>>
      BY <1>8 DEF Answer
    <3>2. \/ answers' = answers
          \/ /\ Len(answers') = Len(answers) + 1 /\ answers'[Len(answers) + 1].index = taken
             /\ \A k \in 1..Len(answers) : answers'[k] = answers[k]
      <4>1. answers \in Seq(Figures)
        BY <1>1 DEF HandoffTypes
      <4>2. answers' = answers \/ answers' = Append(answers, [index |-> taken, taken |-> TRUE])
        BY <1>8 DEF Answer
      <4> QED BY <4>1, <4>2
    <3>3. SUFFICES ASSUME samples # << >>
                   PROVE  /\ 0 <= samples[1] /\ Old(samples[1], Counted')
                          /\ \A k \in 1..Len(answers') : answers'[k].index < samples[1]
                          /\ request < samples[1] /\ cur.index < samples[1] /\ None < samples[1]
      BY <3>1 DEF QueuedInv
    <3>4. /\ 0 <= samples[1] /\ Old(samples[1], Counted) /\ samples[1] \in Int
          /\ \A k \in 1..Len(answers) : answers[k].index < samples[1]
          /\ request < samples[1] /\ cur.index < samples[1] /\ taken < samples[1]
      BY <1>2, <3>3 DEF QueuedInv
    <3>5. \A k \in 1..Len(answers') : answers'[k].index < samples[1]
      BY <1>2, <3>2, <3>4
    <3>6. None < samples[1]
      BY <3>4
    <3> QED BY <1>3, <3>4, <3>5, <3>6
  <2>2. CurInv'
    BY <1>2, <1>3, <1>8 DEF Answer, At, CurInv, QueuedInv
  <2>3. AnswersInv'
    BY <1>2, <1>3, <1>8 DEF Answer, At, AnswersInv, TakenInv
  <2>4. TakenInv'
    <3>1. \A u \in Threads : app[u] = "answer" => u = t
      BY <1>2, <1>8 DEF Answer, LockPart, LockInv, Inside
    <3> QED BY <1>2, <1>3, <1>8, <3>1 DEF Answer, At, TakenInv, RequestInv
  <2>5. RequestInv'
    BY <1>2, <1>3, <1>8 DEF Answer, At, RequestInv, QueuedInv, CurInv
  <2> QED BY <2>1, <2>2, <2>3, <2>4, <2>5
<1>9. ASSUME NEW t \in Threads, Offer(t) PROVE HandoffPart'
  <2>1. QueuedInv'
    <3>1. CASE samples' = samples
      BY <1>2, <1>3, <1>9, <3>1 DEF Offer, QueuedInv
    <3>2. CASE samples' # samples
      <4> DEFINE k == (presents - 1) \div SampleEvery
      <4>1. (presents - 1) % SampleEvery = 0 /\ samples' = <<k>>
        BY <1>9, <3>2 DEF Offer
      <4>2. /\ k \in Int /\ 0 <= k /\ Old(k, Counted')
            /\ \A i \in Int : Old(i, Counted) => i < k
        BY <1>9, <4>1, OfferIsNewest
      <4>3. samples'[1] = k
        BY <4>1
      <4>4. k' = k
        BY <1>9 DEF Offer
      <4> HIDE DEF k
      <4> QED BY <1>2, <1>9, <4>2, <4>3, <4>4 DEF Offer, QueuedInv, CurInv, AnswersInv, TakenInv, RequestInv
    <3> QED BY <3>1, <3>2
  <2>2. CurInv'
    BY <1>2, <1>3, <1>9 DEF Offer, At, CurInv, QueuedInv
  <2>3. AnswersInv'
    BY <1>2, <1>3, <1>9 DEF Offer, At, AnswersInv, TakenInv
  <2>4. TakenInv'
    BY <1>2, <1>3, <1>9 DEF Offer, At, TakenInv, RequestInv
  <2>5. RequestInv'
    BY <1>2, <1>3, <1>9 DEF Offer, At, RequestInv, QueuedInv, CurInv
  <2> QED BY <2>1, <2>2, <2>3, <2>4, <2>5
<1>10. CASE TakeSample
  <2>1. QueuedInv'
    BY <1>2, <1>3, <1>10 DEF TakeSample, QueuedInv, CurInv, NoSample
  <2>2. CurInv'
    BY <1>2, <1>3, <1>10 DEF TakeSample, CurInv, QueuedInv, NoSample
  <2>3. AnswersInv'
    BY <1>2, <1>3, <1>10 DEF TakeSample, AnswersInv, TakenInv, NoSample
  <2>4. TakenInv'
    BY <1>2, <1>3, <1>10 DEF TakeSample, TakenInv, RequestInv, NoSample
  <2>5. RequestInv'
    <3>1. watch = "recv" /\ UNCHANGED <<taken, request, answers>>
      BY <1>10 DEF TakeSample
    <3>2. request = None
      BY <3>1 DEF RequestInv
    <3>3. \/ samples # << >> /\ cur'.index = samples[1] /\ watch' = "advance"
          \/ watch' = "ended"
      BY <1>10 DEF TakeSample
    <3>4. watch' = "advance" => Earlier(cur'.index)
      BY <3>3 DEF QueuedInv
    <3> QED BY <3>1, <3>2, <3>3, <3>4 DEF RequestInv
  <2> QED BY <2>1, <2>2, <2>3, <2>4, <2>5
<1>11. CASE advance
  <2>10. cur'.index = cur.index
    BY <1>1, <1>11 DEF advance, HandoffTypes, Samples
  <2>1. QueuedInv'
    BY <1>2, <1>3, <1>11, <2>10 DEF advance, QueuedInv, CurInv
  <2>2. CurInv'
    BY <1>2, <1>3, <1>11, <2>10 DEF advance, CurInv, QueuedInv
  <2>3. AnswersInv'
    BY <1>2, <1>3, <1>11 DEF advance, AnswersInv, TakenInv, NoSample
  <2>4. TakenInv'
    BY <1>2, <1>3, <1>11 DEF advance, TakenInv, RequestInv, NoSample
  <2>5. RequestInv'
    BY <1>2, <1>3, <1>11, <2>10 DEF advance, RequestInv, QueuedInv, CurInv
  <2> QED BY <2>1, <2>2, <2>3, <2>4, <2>5
<1>12. CASE Ask
  <2>1. QueuedInv'
    <3>1. /\ request' \in {request, cur.index} /\ cur'.index \in {cur.index, None}
          /\ UNCHANGED <<samples, answers, taken>>
      BY <1>12 DEF Ask, NoSample
    <3>2. SUFFICES ASSUME samples # << >>
                   PROVE  /\ 0 <= samples[1] /\ Old(samples[1], Counted') /\ Earlier(samples[1])
                          /\ cur'.index < samples[1] /\ request' < samples[1]
      BY <3>1 DEF QueuedInv
    <3>3. /\ 0 <= samples[1] /\ Old(samples[1], Counted) /\ Earlier(samples[1])
          /\ cur.index < samples[1] /\ request < samples[1] /\ samples[1] \in Int
      BY <1>2, <3>2 DEF QueuedInv
    <3>4. None < samples[1]
      BY <3>3
    <3> QED BY <1>3, <3>1, <3>3, <3>4
  <2>2. CurInv'
    BY <1>2, <1>3, <1>12 DEF Ask, CurInv, QueuedInv, NoSample
  <2>3. AnswersInv'
    BY <1>2, <1>3, <1>12 DEF Ask, AnswersInv, TakenInv, NoSample
  <2>4. TakenInv'
    BY <1>2, <1>3, <1>12 DEF Ask, TakenInv, RequestInv, NoSample
  <2>5. RequestInv'
    BY <1>2, <1>3, <1>12 DEF Ask, RequestInv, QueuedInv, CurInv, NoSample
  <2> QED BY <2>1, <2>2, <2>3, <2>4, <2>5
<1>13. CASE Answered
  <2>7. /\ watch = "await" /\ UNCHANGED <<samples, request, taken>>
        /\ \/ watch' = "recv" /\ cur'.index = None
           \/ watch' = "await" /\ cur'.index = cur.index
    BY <1>13 DEF Answered, LogLine, NoSample
  <2>8. \A k \in 1..Len(answers') : \E j \in 1..Len(answers) : answers'[k] = answers[j]
    <3>1. answers \in Seq(Figures) /\ answers # << >> /\ answers' = Tail(answers)
      BY <1>1, <1>13 DEF Answered, HandoffTypes
    <3>2. ASSUME NEW k \in 1..Len(answers') PROVE k + 1 \in 1..Len(answers) /\ answers'[k] = answers[k + 1]
      BY <3>1
    <3> QED BY <3>2
  <2>9. \A i \in Int : Earlier(i) => Earlier(i)'
    BY <2>7, <2>8
  <2>1. QueuedInv'
    <3>1. SUFFICES ASSUME samples # << >>
                   PROVE  /\ 0 <= samples[1] /\ Old(samples[1], Counted') /\ Earlier(samples[1])'
                          /\ cur'.index < samples[1] /\ request < samples[1]
      BY <2>7 DEF QueuedInv
    <3>2. /\ 0 <= samples[1] /\ Old(samples[1], Counted) /\ Earlier(samples[1])
          /\ cur.index < samples[1] /\ request < samples[1] /\ samples[1] \in Int
      BY <1>2, <3>1 DEF QueuedInv
    <3>3. None < samples[1]
      BY <3>2
    <3>4. Earlier(samples[1])'
      BY <2>7, <2>9, <3>2
    <3> QED BY <1>3, <2>7, <3>2, <3>3, <3>4
  <2>2. CurInv'
    BY <1>2, <1>3, <1>13 DEF Answered, LogLine, CurInv, QueuedInv, NoSample
  <2>3. AnswersInv'
    <3>1. SUFFICES ASSUME NEW k \in 1..Len(answers')
                   PROVE  0 <= answers'[k].index /\ Old(answers'[k].index, Counted')
      BY DEF AnswersInv
    <3>2. PICK j \in 1..Len(answers) : answers'[k] = answers[j]
      BY <2>8
    <3>3. 0 <= answers[j].index /\ Old(answers[j].index, Counted) /\ answers[j].index \in Int
      BY <1>2 DEF AnswersInv
    <3> QED BY <1>3, <3>2, <3>3
  <2>4. TakenInv'
    BY <1>2, <1>3, <1>13 DEF Answered, LogLine, TakenInv, RequestInv, NoSample
  <2>5. RequestInv'
    <3>1. request = None \/ request = cur.index
      BY <2>7 DEF RequestInv
    <3>2. ASSUME watch' = "recv", request = cur.index PROVE FALSE
      <4>1. Head(answers).index = cur.index /\ answers # << >>
        BY <1>13, <2>7, <3>2 DEF Answered
      <4>2. answers[1].index = cur.index /\ 1 \in 1..Len(answers)
        BY <1>1, <4>1 DEF HandoffTypes
      <4>3. answers[1].index < cur.index
        BY <2>7, <3>2, <4>2 DEF RequestInv
      <4> QED BY <1>2, <4>2, <4>3
    <3>3. CASE watch' = "recv"
      BY <1>3, <2>7, <3>1, <3>2, <3>3 DEF RequestInv
    <3>4. CASE watch' = "await"
      <4>1. cur'.index = cur.index
        BY <2>7, <3>4
      <4>2. request = cur.index => Earlier(cur.index)'
        BY <1>2, <2>7, <2>9, <4>1 DEF RequestInv
      <4>3. request = None \/ (0 <= request /\ Old(request, Counted'))
        BY <1>2, <1>3 DEF RequestInv
      <4> QED BY <2>7, <3>1, <3>4, <4>1, <4>2, <4>3 DEF RequestInv
    <3> QED BY <2>7, <3>3, <3>4
  <2> QED BY <2>1, <2>2, <2>3, <2>4, <2>5
<1>14. CASE TimedOut
  <2>1. QueuedInv'
    BY <1>2, <1>3, <1>14 DEF TimedOut, LogLine, QueuedInv, CurInv, NoSample
  <2>2. CurInv'
    BY <1>2, <1>3, <1>14 DEF TimedOut, LogLine, CurInv, QueuedInv, NoSample
  <2>3. AnswersInv'
    BY <1>2, <1>3, <1>14 DEF TimedOut, LogLine, AnswersInv, TakenInv, NoSample
  <2>4. TakenInv'
    BY <1>2, <1>3, <1>14 DEF TimedOut, LogLine, TakenInv, RequestInv, NoSample
  <2>5. RequestInv'
    BY <1>2, <1>3, <1>14 DEF TimedOut, LogLine, RequestInv, QueuedInv, CurInv, NoSample
  <2> QED BY <2>1, <2>2, <2>3, <2>4, <2>5
<1>15. CASE Ended
  <2>1. QueuedInv'
    BY <1>2, <1>3, <1>15 DEF Ended, QueuedInv, CurInv, NoSample
  <2>2. CurInv'
    BY <1>2, <1>3, <1>15 DEF Ended, CurInv, QueuedInv, NoSample
  <2>3. AnswersInv'
    BY <1>2, <1>3, <1>15 DEF Ended, AnswersInv, TakenInv, NoSample
  <2>4. TakenInv'
    BY <1>2, <1>3, <1>15 DEF Ended, TakenInv, RequestInv, NoSample
  <2>5. RequestInv'
    BY <1>2, <1>3, <1>15 DEF Ended, RequestInv, QueuedInv, CurInv, NoSample
  <2> QED BY <2>1, <2>2, <2>3, <2>4, <2>5
<1>16. CASE ForeignSample
  <2>1. QueuedInv'
    BY <1>2, <1>3, <1>16 DEF ForeignSample, QueuedInv, CurInv, NoSample
  <2>2. CurInv'
    BY <1>2, <1>3, <1>16 DEF ForeignSample, CurInv, QueuedInv, NoSample
  <2>3. AnswersInv'
    BY <1>2, <1>3, <1>16 DEF ForeignSample, AnswersInv, TakenInv, NoSample
  <2>4. TakenInv'
    BY <1>2, <1>3, <1>16 DEF ForeignSample, TakenInv, RequestInv, NoSample
  <2>5. RequestInv'
    BY <1>2, <1>3, <1>16 DEF ForeignSample, RequestInv, QueuedInv, CurInv, NoSample
  <2> QED BY <2>1, <2>2, <2>3, <2>4, <2>5
<1> QED
  BY <1>5, <1>6, <1>7, <1>8, <1>9, <1>10, <1>11, <1>12, <1>13, <1>14, <1>15, <1>16
     DEF Next, AppStep, WatchStep

-----------------------------------------------------------------------------
(* The latch and the lines *)

LEMMA LineStep ==
    ASSUME LineInv, [Next]_vars
    PROVE  LineInv'
<1> USE DEF sampler
<1>1. CASE Answered
  <2>1. CASE lines' = lines
    BY <2>1 DEF LineInv
  <2>2. CASE lines' # lines
    <3>1. /\ Head(answers).index = cur.index
          /\ lines' = lines \cup {[index |-> cur.index, figures |-> Head(answers)]}
      BY <1>1, <2>2 DEF Answered, LogLine
    <3> QED BY <3>1 DEF LineInv
  <2> QED BY <2>1, <2>2
<1>2. CASE TimedOut
  BY <1>2 DEF TimedOut, LogLine, NoFigures, LineInv
<1>3. CASE UNCHANGED lines
  BY <1>3 DEF LineInv
<1>4. UNCHANGED lines \/ Answered \/ TimedOut
  BY DEF Next, AppStep, WatchStep, vars, Call, Wake, Release, DroppedInLoader, Dropped, Enter, Nested,
         Count, Swap, Answer, Offer, Leave, Notify, TakeSample, advance, Ask, Ended, ForeignSample
<1> QED BY <1>1, <1>2, <1>3, <1>4

\* threshold_step never goes back, and reports only the threshold it goes to.
LEMMA ThresholdStep ==
    ASSUME NEW n \in Int, n >= Unsampled, NEW b \in Int
    PROVE  LET step == threshold_step(n, b)
           IN  /\ step.next \in Int /\ step.next >= n /\ step.next >= 0
               /\ step.report \in Int
               /\ step.report # 0 => step.report > n /\ step.report = step.next
<1> DEFINE from == IF n = Unsampled THEN 0 ELSE n
           index == IF b > from THEN b ELSE from
           report == IF n # Unsampled /\ index > from THEN index ELSE 0
<1>1. from \in Int /\ from >= n /\ from >= 0
  BY DEF Unsampled
<1>2. index \in Int /\ index >= from
  BY <1>1
<1>3. report \in Int /\ (report # 0 => report > from /\ report = index)
  BY <1>2
<1>4. threshold_step(n, b).next = index /\ threshold_step(n, b).report = report
  BY DEF threshold_step
<1> HIDE DEF from, index, report
<1>5. index >= n /\ index >= 0 /\ (report # 0 => report > n)
  BY <1>1, <1>2, <1>3
<1> QED BY <1>2, <1>3, <1>4, <1>5

\* A step of the latch reports a threshold past every one reported before.
LEMMA LatchMoves ==
    ASSUME latch \in Int, latch >= Unsampled, reports \in Seq(Int),
           \A i \in 1..Len(reports) : reports[i] <= latch,
           \A i, j \in 1..Len(reports) : i < j => reports[i] < reports[j],
           NEW below \in Int,
           LET step == threshold_step(latch, below)
           IN  /\ latch' = step.next
               /\ reports' = IF step.report = 0 THEN reports ELSE Append(reports, step.report)
    PROVE  /\ \A i \in 1..Len(reports') : reports'[i] <= latch'
           /\ \A i, j \in 1..Len(reports') : i < j => reports'[i] < reports'[j]
           /\ latch' >= Unsampled
<1> DEFINE step == threshold_step(latch, below)
<1>1. /\ step.next \in Int /\ step.next >= latch /\ step.next >= 0
      /\ step.report \in Int
      /\ step.report # 0 => step.report > latch /\ step.report = step.next
  BY ThresholdStep
<1> HIDE DEF step
<1>2. latch' = step.next
  BY DEF step
<1>3. CASE step.report = 0
  <2>1. reports' = reports
    BY <1>3 DEF step
  <2> QED BY <1>1, <1>2, <2>1 DEF Unsampled
<1>4. CASE step.report # 0
  <2>1. reports' = Append(reports, step.report)
    BY <1>4 DEF step
  <2>2. /\ Len(reports') = Len(reports) + 1 /\ Len(reports) \in Nat
        /\ \A i \in 1..Len(reports) : reports'[i] = reports[i]
        /\ reports'[Len(reports) + 1] = step.report
    BY <1>1, <2>1
  <2>3. \A i \in 1..Len(reports') : i = Len(reports) + 1 \/ i \in 1..Len(reports)
    BY <2>2
  <2>4. \A i \in 1..Len(reports) : reports[i] \in Int
    OBVIOUS
  <2>5. \A i \in 1..Len(reports') : reports'[i] <= latch'
    BY <1>1, <1>2, <1>4, <2>2, <2>3, <2>4
  <2>6. \A i, j \in 1..Len(reports') : i < j => reports'[i] < reports'[j]
    BY <1>1, <1>2, <1>4, <2>2, <2>3, <2>4
  <2> QED BY <1>1, <1>2, <2>5, <2>6 DEF Unsampled
<1> QED BY <1>3, <1>4

LEMMA LatchStep ==
    ASSUME WatchConstants, LockPart, LatchInv, [Next]_vars
    PROVE  LatchInv'
<1> USE DEF sampler
<1>1. latch \in Int /\ reports \in Seq(Int) /\ cur \in Samples
  BY DEF LockPart, Types, HandoffTypes
<1>2. CASE UNCHANGED <<latch, reports, cur, watch>>
  BY <1>2 DEF LatchInv
<1>3. CASE TakeSample
  BY <1>3 DEF TakeSample, LatchInv
<1>4. CASE advance
  <2> DEFINE step == threshold_step(cur.seen, cur.below)
  <2>1. CASE step.steps /\ latch = cur.seen
    <3>1. cur.below \in Int
      BY <1>1 DEF Samples
    <3>2. LET st == threshold_step(latch, cur.below)
          IN  /\ latch' = st.next
              /\ reports' = IF st.report = 0 THEN reports ELSE Append(reports, st.report)
      BY <1>4, <2>1 DEF advance
    <3>3. /\ \A i \in 1..Len(reports') : reports'[i] <= latch'
          /\ \A i, j \in 1..Len(reports') : i < j => reports'[i] < reports'[j]
          /\ latch' >= Unsampled
      BY <1>1, <3>1, <3>2, LatchMoves DEF LatchInv
    <3> QED BY <1>4, <3>3 DEF advance, LatchInv
  <2>2. CASE ~(step.steps /\ latch = cur.seen)
    BY <1>4, <2>2 DEF advance, LatchInv
  <2> QED BY <2>1, <2>2
<1>5. CASE Ask
  BY <1>5 DEF Ask, LatchInv, NoSample
<1>6. CASE Answered
  BY <1>6 DEF Answered, LogLine, LatchInv, NoSample
<1>7. CASE TimedOut
  BY <1>7 DEF TimedOut, LogLine, LatchInv, NoSample
<1>8. CASE Ended
  BY <1>8 DEF Ended, LatchInv, NoSample
<1>9. CASE ForeignSample
  <2>1. PICK below \in 0..Thresholds :
            LET step == threshold_step(latch, below)
            IN  /\ latch' = IF step.steps THEN step.next ELSE latch
                /\ reports' = IF step.report = 0 THEN reports ELSE Append(reports, step.report)
    BY <1>9 DEF ForeignSample
  <2>2. below \in Int
    OBVIOUS
  <2>3. ~threshold_step(latch, below).steps => threshold_step(latch, below).next = latch
    BY <1>1, <2>2 DEF threshold_step, Unsampled
  <2>4. LET step == threshold_step(latch, below)
        IN  /\ latch' = step.next
            /\ reports' = IF step.report = 0 THEN reports ELSE Append(reports, step.report)
    BY <2>1, <2>3
  <2>5. /\ \A i \in 1..Len(reports') : reports'[i] <= latch'
        /\ \A i, j \in 1..Len(reports') : i < j => reports'[i] < reports'[j]
        /\ latch' >= Unsampled
    BY <1>1, <2>2, <2>4, LatchMoves DEF LatchInv
  <2> QED BY <1>9, <2>5 DEF ForeignSample, LatchInv
<1>10. \/ UNCHANGED <<latch, reports, cur, watch>>
       \/ TakeSample \/ advance \/ Ask \/ Answered \/ TimedOut \/ Ended \/ ForeignSample
  BY DEF Next, AppStep, WatchStep, vars, Call, Wake, Release, DroppedInLoader, Dropped, Enter, Nested,
         Count, Swap, Answer, Offer, Leave, Notify
<1> QED BY <1>2, <1>3, <1>4, <1>5, <1>6, <1>7, <1>8, <1>9, <1>10

-----------------------------------------------------------------------------
(* The theorems *)

\* The inductive invariant holds from Init on, whatever the constants.
LEMMA WatchInvariant == ASSUME WatchConstants PROVE Spec => []WatchInv
<1> USE DEF WatchInv, LockPart, HandoffPart
<1>1. Init => WatchInv
  <2>1. Init => LineInv /\ LatchInv
    <3>1. SUFFICES ASSUME Init PROVE LineInv /\ LatchInv
      OBVIOUS
    <3>2. LineInv
      BY <3>1 DEF Init, LineInv
    <3>3. cur = NoSample /\ reports = << >> /\ latch = Unsampled
      BY <3>1 DEF Init
    <3>4. NoSample.report = 0 /\ latch >= Unsampled
      BY <3>3 DEF NoSample, Unsampled
    <3>5. 1..Len(reports) = {}
      BY <3>3
    <3> QED BY <3>2, <3>3, <3>4, <3>5 DEF LatchInv
  <2> QED BY <2>1, LockPartInit, HandoffInit
<1>2. WatchInv /\ [Next]_vars => WatchInv'
  BY LockPartStep, HandoffStep, LineStep, LatchStep
<1> QED BY <1>1, <1>2, PTL DEF Spec

\* No wake-up of the device lock is lost (ApiLock::leave drops the mutex before
\* it notifies): with the lock free and a thread blocked, a notification or a
\* woken thread is on its way, for any number of threads.
THEOREM WakesAreNotLost == ASSUME WatchConstants PROVE Spec => []WakeIsOnItsWay
<1>1. WatchInv => WakeIsOnItsWay
  BY DEF WatchInv
<1> QED BY <1>1, WatchInvariant, PTL

\* The lock excludes: of two threads inside a call of the device one is not
\* there, and the lock is held just as often as its owner entered.
MutualExclusion ==
    \A t, u \in Threads : app[t] \in Inside /\ app[u] \in Inside => t = u /\ owner = t /\ depth > 0

THEOREM LockExcludes == ASSUME WatchConstants PROVE Spec => []MutualExclusion
<1>1. ASSUME WatchConstants, WatchInv PROVE MutualExclusion
  BY <1>1 DEF WatchConstants, WatchInv, Types, LockTypes, LockInv, MutualExclusion
<1> QED BY <1>1, WatchInvariant, PTL

\* A line's figures were taken for its own sample and the request slot is empty
\* when a sample asks (watch_handoff.rs), however presents, timeouts and late
\* answers fall.
THEOREM FiguresBelong == ASSUME WatchConstants PROVE Spec => []FiguresBelongToTheLine
<1>1. WatchInv => FiguresBelongToTheLine
  BY DEF WatchInv, LineInv, RequestInv, FiguresBelongToTheLine
<1> QED BY <1>1, WatchInvariant, PTL

\* A crossing this device reports is logged unless the device goes first, and
\* the process reports each threshold once, lower every time (address_space.rs).
THEOREM CrossingsAreLogged == ASSUME WatchConstants PROVE Spec => CrossingIsLogged
<1> DEFINE Logged == cur.report # 0 /\ cur'.index # cur.index
                         => (\E l \in lines' : l.index = cur.index) \/ ~link
           Lower == \A i, j \in 1..Len(reports') : i < j => reports'[i] < reports'[j]
<1>1. ASSUME WatchInv, [Next]_vars PROVE Logged
  <2> USE DEF sampler
  <2>1. CASE UNCHANGED cur
    BY <2>1
  <2>2. CASE TakeSample
    BY <1>1, <2>2 DEF TakeSample, WatchInv, LatchInv
  <2>3. CASE advance
    BY <1>1, <2>3 DEF advance, WatchInv, LatchInv
  <2>4. CASE Ask
    BY <2>4 DEF Ask
  <2>5. CASE Answered
    <3> DEFINE line == [index |-> cur.index, figures |-> Head(answers)]
    <3>1. line.index = cur.index
      OBVIOUS
    <3>2. UNCHANGED cur \/ line \in lines'
      BY <2>5 DEF Answered, LogLine
    <3> QED BY <3>1, <3>2
  <2>6. CASE TimedOut
    <3> DEFINE line == [index |-> cur.index, figures |-> NoFigures]
    <3>1. line.index = cur.index
      OBVIOUS
    <3>2. line \in lines'
      BY <2>6 DEF TimedOut, LogLine
    <3> QED BY <3>1, <3>2
  <2>7. CASE Ended
    BY <2>7 DEF Ended
  <2>8. UNCHANGED cur \/ TakeSample \/ advance \/ Ask \/ Answered \/ TimedOut \/ Ended
    BY <1>1 DEF Next, AppStep, WatchStep, vars, Call, Wake, Release, DroppedInLoader, Dropped, Enter,
                Nested, Count, Swap, Answer, Offer, Leave, Notify, ForeignSample
  <2> QED BY <2>1, <2>2, <2>3, <2>4, <2>5, <2>6, <2>7, <2>8
<1>2. ASSUME WatchInv, [Next]_vars PROVE Lower
  BY <1>2, LatchStep DEF WatchInv, LockPart, LatchInv
<1>3. WatchInv /\ [Next]_vars => [Logged /\ Lower]_vars
  BY <1>1, <1>2
<1> QED BY <1>3, WatchInvariant, PTL DEF Spec, CrossingIsLogged
=============================================================================
