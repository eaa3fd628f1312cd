-------------------------- MODULE RetirementProofs --------------------------
(***************************************************************************)
(* Proofs about Retirement, for every number of submissions.               *)
(*                                                                         *)
(* None of the properties is inductive as it stands.  IInv adds what the   *)
(* code's comments argue from: the entries of the in-flight map lie past   *)
(* the counter, everything committed and gone from the map is published,   *)
(* the holder of the map's lock has recorded the abort of the entry it is  *)
(* about to publish, and a wait knows which entries have ended.            *)
(***************************************************************************)
EXTENDS Retirement, WellFoundedInduction, TLAPS

-----------------------------------------------------------------------------
(* Least and greatest sequence numbers *)

\* Every non-empty set of sequence numbers has a least element.
LEMMA NatHasMin ==
    ASSUME NEW S \in SUBSET Nat, S # {}
    PROVE  \E x \in S : \A y \in S : x <= y
<1> DEFINE Less == OpToRel(<, Nat)
<1>1. \E x \in S : \A y \in S : ~(<<y, x>> \in Less)
  BY WFMin, NatLessThanWellFounded
<1>2. \A x, y \in Nat : y < x => <<y, x>> \in Less
  BY Zenon DEF OpToRel
<1> HIDE DEF Less
<1>3. PICK x \in S : \A y \in S : ~(<<y, x>> \in Less)
  BY <1>1
<1>4. ASSUME NEW y \in S
      PROVE  x <= y
  <2>1. ~(y < x)  BY <1>2, <1>3
  <2>2. QED  BY <2>1
<1>5. QED  BY <1>4

\* Min of a non-empty set of sequence numbers is its least element.
LEMMA MinFacts ==
    ASSUME NEW S \in SUBSET Nat, S # {}
    PROVE  Min(S) \in S /\ \A y \in S : Min(S) <= y
BY NatHasMin DEF Min

\* Max of a non-empty bounded set of sequence numbers is its greatest element.
LEMMA MaxFacts ==
    ASSUME NEW N \in Nat, NEW S \in SUBSET (0..N), S # {}
    PROVE  Max(S) \in S /\ \A y \in S : Max(S) >= y
<1> DEFINE Bounds == {n \in Nat : \A y \in S : y <= n}
<1>1. Bounds # {} /\ Bounds \in SUBSET Nat
  OBVIOUS
<1>2. PICK b \in Bounds : \A c \in Bounds : b <= c
  BY <1>1, NatHasMin
<1>3. b \in S
  <2>1. SUFFICES ASSUME b \notin S
                 PROVE  FALSE
    OBVIOUS
  <2>2. \A y \in S : y < b
    BY <1>2, <2>1
  <2>3. PICK y \in S : TRUE
    OBVIOUS
  <2>4. b # 0
    <3>1. y \in Nat /\ y < b  BY <2>2
    <3>2. QED  BY <3>1
  <2>5. b - 1 \in Bounds
    BY <2>2, <2>4
  <2>6. QED  BY <1>2, <2>5
<1>4. QED  BY <1>2, <1>3 DEF Max

-----------------------------------------------------------------------------

SubmitPlaces == BeforeCommit["draw"]
DrawPlaces == {"draw_collect", "draw_wait", "draw_retire"}
UploadPlaces == {"upload_collect", "upload_wait", "upload_retire"}
FailedPlaces == {"failed_publish", "failed_upload", "failed_draw"}
CommitPlace == [c \in Counters |->
                   IF c = "upload" THEN "upload_commit" ELSE "draw_commit"]

\* Which operation the thread's place belongs to.
PlaceInv ==
    /\ op = "submit" <=> pc \in SubmitPlaces \union {"idle", "freed"}
    /\ op = "failed" => pc \in DrawPlaces \union UploadPlaces \union FailedPlaces
    /\ pc \in FailedPlaces => op = "failed"
    /\ pc \in SubmitPlaces \union FailedPlaces => submit_seq >= 1

\* The in-flight map, the buffers and the counters agree.
MapInv ==
    \A c \in Counters :
        /\ counter[c] <= submit_seq
        /\ \A s \in pending[c] : counter[c] < s /\ s <= submit_seq
        /\ \A s \in pending[c] :
              status[c][s] = "none" => s = submit_seq /\ pc = CommitPlace[c]
        /\ pc = CommitPlace[c] => submit_seq \in pending[c]
        /\ \A s \in Seqs :
              /\ status[c][s] # "none" => s <= submit_seq
              /\ status[c][s] # "none" /\ s \notin pending[c] => counter[c] >= s
              /\ status[c][s] = "committed" => counter[c] < s
        /\ pc \in BeforeCommit[c] =>
              /\ counter[c] < submit_seq
              /\ status[c][submit_seq] = "none"

\* The lock's holder has recorded the abort of what it is about to publish.
LockInv ==
    /\ lock # "free" => retiring \in Counters
    /\ lock = "recorded" =>
          LET s == Oldest(retiring)
          IN  /\ pending[retiring] # {}
              /\ ended(retiring, s)
              /\ status[retiring][s] = "error" => failed_submit_seq >= s
    /\ (lock # "free" /\ lock_owner = "thread")
          <=> pc \in {"draw_retire", "upload_retire"}
    /\ pc = "draw_retire" => retiring = "draw"
    /\ pc = "upload_retire" => retiring = "upload"

\* What a wait, or the cleanup of a failed submission, knows where it stands.
WaitInv ==
    /\ pc = "draw_wait" => UpTo("draw", through) \subseteq waited
    /\ pc = "upload_wait" => UpTo("upload", through) \subseteq waited
    /\ pc = "draw_retire" => \A s \in UpTo("draw", through) : ended("draw", s)
    /\ pc = "upload_retire" =>
          \A s \in UpTo("upload", through) : ended("upload", s)

FailedInv ==
    op = "failed" =>
        /\ through = submit_seq
        /\ submit_seq >= 1
        /\ pc \notin DrawPlaces => pending["draw"] = {}
        /\ pc \in FailedPlaces => pending["upload"] = {}

\* Every submission before the thread's current place reached the draw queue
\* or was published as failed.
Complete ==
    \/ submit_seq = 0
    \/ status["draw"][submit_seq] # "none"
    \/ counter["draw"] >= submit_seq

CoverInv ==
    /\ pc = "idle" => Complete
    /\ op \in {"wait", "teardown"} =>
          /\ Complete
          /\ target >= 1
          /\ op = "teardown" => target >= submit_seq /\ upload_leg = "yes"
          /\ pc \in DrawPlaces =>
                /\ through \in 1..submit_seq
                /\ through >= Smaller(target, submit_seq)
                /\ status["draw"][through] # "none"
          /\ pc \in UploadPlaces \union {"through_publish"} =>
                /\ upload_leg = "yes"
                /\ through <= counter["draw"]
                /\ through >= Smaller(target, submit_seq)
          /\ pc = "through_publish" => UpTo("upload", through) = {}
    /\ pc = "freed" =>
          pending["draw"] = {} /\ pending["upload"] = {} /\ lock # "recorded"

IInv ==
    /\ TypeOK
    /\ PlaceInv
    /\ MapInv
    /\ LockInv
    /\ WaitInv
    /\ FailedInv
    /\ CoverInv
    /\ AbortSeenBeforeRetirement

USE MaxSeqAssumption
    DEF Seqs, Counters, Goto, Return, Done, Unlock, Larger, Smaller, advance_counter,
    vars, threadVars, mapVars, UpTo, ended, Complete, SubmitPlaces, DrawPlaces,
    UploadPlaces, FailedPlaces, CommitPlace, BeforeCommit

\* The entry retire_finished looks at is the oldest one of the counter.
LEMMA OldestFacts ==
    ASSUME TypeOK, NEW c \in Counters, pending[c] # {}
    PROVE  /\ Oldest(c) \in pending[c]
           /\ Oldest(c) \in Seqs
           /\ \A s \in pending[c] : Oldest(c) <= s
BY MinFacts DEF Oldest, TypeOK

\* The entry a wait looks up is registered, and at or past what can be covered.
LEMMA FirstPendingFacts ==
    ASSUME TypeOK, MapInv, pending["draw"] # {}
    PROVE  /\ first_pending("draw") \in pending["draw"]
           /\ \/ first_pending("draw") >= target
              \/ \A s \in pending["draw"] : s <= first_pending("draw")
<1>1. CASE \E s \in pending["draw"] : s >= target
  <2> DEFINE Past == {s \in pending["draw"] : s >= target}
  <2>1. Past # {} /\ Past \in SUBSET Nat
    BY <1>1 DEF TypeOK
  <2>2. Min(Past) \in Past
    BY <2>1, MinFacts
  <2>3. QED  BY <1>1, <2>2 DEF first_pending
<1>2. CASE ~ \E s \in pending["draw"] : s >= target
  <2>1. pending["draw"] \in SUBSET (0..MaxSeq)
    BY DEF TypeOK
  <2>2. /\ Max(pending["draw"]) \in pending["draw"]
        /\ \A s \in pending["draw"] : Max(pending["draw"]) >= s
    BY <2>1, MaxFacts
  <2>3. QED  BY <1>2, <2>1, <2>2 DEF first_pending
<1>3. QED  BY <1>1, <1>2

\* A waiting thread whose retire_finished stops leaves nothing it waited for.
LEMMA NothingLeft ==
    ASSUME IInv, RetireStops
    PROVE  /\ pc = "draw_retire" => UpTo("draw", through) = {}
           /\ pc = "upload_retire" => UpTo("upload", through) = {}
<1>1. ASSUME NEW c \in Counters, retiring = c, UpTo(c, through) # {},
             \A s \in UpTo(c, through) : ended(c, s)
      PROVE  FALSE
  <2>1. pending[c] # {}
    BY <1>1
  <2>2. Oldest(c) \in UpTo(c, through)
    BY <1>1, <2>1, OldestFacts DEF IInv, TypeOK
  <2>3. QED
    BY <1>1, <2>1, <2>2 DEF RetireStops
<1>2. QED
  BY <1>1 DEF IInv, LockInv, WaitInv

\* IInv is preserved by a submission begun or failed on the CPU.
LEMMA BeginSubmissionStep ==
    ASSUME IInv, BeginSubmission
    PROVE  IInv'
<1>1. TypeOK'
  BY DEF IInv, TypeOK, PCs, Ops, Statuses, BeginSubmission
<1>2. PlaceInv'
  BY DEF IInv, TypeOK, PlaceInv, PCs, Ops, Statuses, BeginSubmission
<1>3. MapInv'
  BY DEF IInv, TypeOK, MapInv, PCs, Ops, Statuses, BeginSubmission
<1>4. LockInv'
  BY DEF IInv, LockInv, Oldest, BeginSubmission
<1>5. WaitInv'
  BY DEF IInv, WaitInv, BeginSubmission
<1>6. FailedInv'
  BY DEF IInv, TypeOK, FailedInv, PCs, Ops, Statuses, BeginSubmission
<1>7. CoverInv'
  BY DEF IInv, CoverInv, BeginSubmission
<1>8. AbortSeenBeforeRetirement'
  BY DEF IInv, AbortSeenBeforeRetirement, BeginSubmission
<1>9. QED
  BY <1>1, <1>2, <1>3, <1>4, <1>5, <1>6, <1>7, <1>8 DEF IInv

\* IInv is preserved by registering the upload buffer.
LEMMA RegisterUploadStep ==
    ASSUME IInv, register_pending("upload", "upload_register", "upload_commit")
    PROVE  IInv'
<1>1. TypeOK'
  BY DEF IInv, TypeOK, PlaceInv, PCs, Ops, Statuses, register_pending
<1>2. PlaceInv'
  BY DEF IInv, PlaceInv, register_pending
<1>3. MapInv'
  BY DEF IInv, TypeOK, MapInv, PCs, Ops, Statuses, register_pending
<1>4. LockInv'
  BY DEF IInv, LockInv, Oldest, register_pending
<1>5. WaitInv'
  BY DEF IInv, WaitInv, register_pending
<1>6. FailedInv'
  BY DEF IInv, FailedInv, register_pending
<1>7. CoverInv'
  BY DEF IInv, CoverInv, register_pending
<1>8. AbortSeenBeforeRetirement'
  BY DEF IInv, AbortSeenBeforeRetirement, register_pending
<1>9. QED
  BY <1>1, <1>2, <1>3, <1>4, <1>5, <1>6, <1>7, <1>8 DEF IInv

\* IInv is preserved by committing the upload buffer.
LEMMA CommitUploadStep ==
    ASSUME IInv, Commit("upload", "upload_commit", "draw_register")
    PROVE  IInv'
<1>1. TypeOK'
  BY DEF IInv, TypeOK, PCs, Ops, Statuses, Commit
<1>2. PlaceInv'
  BY DEF IInv, PlaceInv, Commit
<1>3. MapInv'
  BY DEF IInv, TypeOK, MapInv, PCs, Ops, Statuses, Commit
<1>4. LockInv'
  BY DEF IInv, TypeOK, PlaceInv, MapInv, LockInv, PCs, Ops, Statuses,
         Oldest, Commit
<1>5. WaitInv'
  BY DEF IInv, WaitInv, Commit
<1>6. FailedInv'
  BY DEF IInv, FailedInv, Commit
<1>7. CoverInv'
  BY DEF IInv, CoverInv, Commit
<1>8. AbortSeenBeforeRetirement'
  BY DEF IInv, AbortSeenBeforeRetirement, Commit
<1>9. QED
  BY <1>1, <1>2, <1>3, <1>4, <1>5, <1>6, <1>7, <1>8 DEF IInv

\* IInv is preserved by publishing a submission without an upload buffer.
LEMMA IdleUploadStep ==
    ASSUME IInv, publish_idle_upload
    PROVE  IInv'
<1>1. TypeOK'
  BY DEF IInv, TypeOK, PCs, Ops, Statuses, publish_idle_upload
<1>2. PlaceInv'
  BY DEF IInv, PlaceInv, publish_idle_upload
<1>3. MapInv'
  BY DEF IInv, TypeOK, MapInv, PCs, Ops, Statuses, publish_idle_upload
<1>4. LockInv'
  BY DEF IInv, LockInv, Oldest, publish_idle_upload
<1>5. WaitInv'
  BY DEF IInv, WaitInv, publish_idle_upload
<1>6. FailedInv'
  BY DEF IInv, FailedInv, publish_idle_upload
<1>7. CoverInv'
  BY DEF IInv, TypeOK, CoverInv, PCs, Ops, Statuses, publish_idle_upload
<1>8. AbortSeenBeforeRetirement'
  BY DEF IInv, TypeOK, PlaceInv, MapInv, AbortSeenBeforeRetirement, PCs,
         Ops, Statuses, publish_idle_upload
<1>9. QED
  BY <1>1, <1>2, <1>3, <1>4, <1>5, <1>6, <1>7, <1>8 DEF IInv

\* IInv is preserved by registering the draw buffer.
LEMMA RegisterDrawStep ==
    ASSUME IInv, register_pending("draw", "draw_register", "draw_commit")
    PROVE  IInv'
<1>1. TypeOK'
  BY DEF IInv, TypeOK, PlaceInv, PCs, Ops, Statuses, register_pending
<1>2. PlaceInv'
  BY DEF IInv, PlaceInv, register_pending
<1>3. MapInv'
  BY DEF IInv, TypeOK, MapInv, PCs, Ops, Statuses, register_pending
<1>4. LockInv'
  BY DEF IInv, LockInv, Oldest, register_pending
<1>5. WaitInv'
  BY DEF IInv, WaitInv, register_pending
<1>6. FailedInv'
  BY DEF IInv, TypeOK, PlaceInv, FailedInv, PCs, Ops, Statuses,
         register_pending
<1>7. CoverInv'
  BY DEF IInv, CoverInv, register_pending
<1>8. AbortSeenBeforeRetirement'
  BY DEF IInv, AbortSeenBeforeRetirement, register_pending
<1>9. QED
  BY <1>1, <1>2, <1>3, <1>4, <1>5, <1>6, <1>7, <1>8 DEF IInv

\* IInv is preserved by committing the draw buffer.
LEMMA CommitDrawStep ==
    ASSUME IInv, Commit("draw", "draw_commit", "idle")
    PROVE  IInv'
<1>1. TypeOK'
  BY DEF IInv, TypeOK, PCs, Ops, Statuses, Commit
<1>2. PlaceInv'
  BY DEF IInv, PlaceInv, Commit
<1>3. MapInv'
  BY DEF IInv, TypeOK, MapInv, PCs, Ops, Statuses, Commit
<1>4. LockInv'
  BY DEF IInv, TypeOK, PlaceInv, MapInv, LockInv, PCs, Ops, Statuses,
         Oldest, Commit
<1>5. WaitInv'
  BY DEF IInv, WaitInv, Commit
<1>6. FailedInv'
  BY DEF IInv, FailedInv, Commit
<1>7. CoverInv'
  BY DEF IInv, TypeOK, CoverInv, PCs, Ops, Statuses, Commit
<1>8. AbortSeenBeforeRetirement'
  BY DEF IInv, AbortSeenBeforeRetirement, Commit
<1>9. QED
  BY <1>1, <1>2, <1>3, <1>4, <1>5, <1>6, <1>7, <1>8 DEF IInv

\* IInv is preserved by the call of a retirement wait.
LEMMA CallWaitStep ==
    ASSUME IInv, wait_for_gpu_retire
    PROVE  IInv'
<1>1. TypeOK'
  BY DEF IInv, TypeOK, PCs, Ops, Statuses, wait_for_gpu_retire
<1>2. PlaceInv'
  BY DEF IInv, PlaceInv, wait_for_gpu_retire
<1>3. MapInv'
  BY DEF IInv, MapInv, wait_for_gpu_retire
<1>4. LockInv'
  BY DEF IInv, LockInv, Oldest, wait_for_gpu_retire
<1>5. WaitInv'
  BY DEF IInv, WaitInv, wait_for_gpu_retire
<1>6. FailedInv'
  BY DEF IInv, FailedInv, wait_for_gpu_retire
<1>7. CoverInv'
  BY DEF IInv, CoverInv, wait_for_gpu_retire
<1>8. AbortSeenBeforeRetirement'
  BY DEF IInv, AbortSeenBeforeRetirement, wait_for_gpu_retire
<1>9. QED
  BY <1>1, <1>2, <1>3, <1>4, <1>5, <1>6, <1>7, <1>8 DEF IInv

\* IInv is preserved by the wait's first read of the draw counter.
LEMMA LoadStep ==
    ASSUME IInv, LoadCounter
    PROVE  IInv'
<1>1. TypeOK'
  <2>1. counter["draw"] \in 0..MaxSeq /\ target \in 0..(MaxSeq + 1)
    BY DEF IInv, TypeOK
  <2>2. through' \in 0..MaxSeq
    BY <2>1 DEF IInv, TypeOK, LoadCounter, AfterDraw
  <2>3. /\ pc' \in PCs /\ op' \in Ops /\ target' \in 0..(MaxSeq + 1)
        /\ upload_leg' \in {"yes", "no"}
    BY DEF IInv, TypeOK, PCs, Ops, LoadCounter, AfterDraw
  <2>4. waited' = {} \/ waited' = waited
    BY DEF LoadCounter, AfterDraw
  <2>5. QED
    BY <2>2, <2>3, <2>4 DEF IInv, TypeOK, LoadCounter
<1>2. PlaceInv'
  BY DEF IInv, PlaceInv, LoadCounter, AfterDraw
<1>3. MapInv'
  BY DEF IInv, MapInv, LoadCounter, AfterDraw
<1>4. LockInv'
  BY DEF IInv, LockInv, Oldest, LoadCounter, AfterDraw
<1>5. WaitInv'
  BY DEF IInv, WaitInv, LoadCounter, AfterDraw
<1>6. FailedInv'
  BY DEF IInv, TypeOK, PlaceInv, FailedInv, PCs, Ops, Statuses,
         LoadCounter, AfterDraw
<1>7. CoverInv'
  BY DEF IInv, TypeOK, PlaceInv, CoverInv, PCs, Ops, Statuses,
         LoadCounter, AfterDraw
<1>8. AbortSeenBeforeRetirement'
  BY DEF IInv, AbortSeenBeforeRetirement, LoadCounter, AfterDraw
<1>9. QED
  BY <1>1, <1>2, <1>3, <1>4, <1>5, <1>6, <1>7, <1>8 DEF IInv

\* IInv is preserved by the wait's look-up in the in-flight map.
LEMMA FindStep ==
    ASSUME IInv, FindThrough
    PROVE  IInv'
<1>1. TypeOK'
  <2>1. pending["draw"] # {} => first_pending("draw") \in 0..MaxSeq
    BY FirstPendingFacts DEF IInv, TypeOK
  <2>2. through' \in 0..MaxSeq
    BY <2>1 DEF IInv, TypeOK, FindThrough, AfterDraw
  <2>3. /\ pc' \in PCs /\ op' \in Ops /\ target' \in 0..(MaxSeq + 1)
        /\ upload_leg' \in {"yes", "no"}
    BY DEF IInv, TypeOK, PCs, Ops, FindThrough, AfterDraw
  <2>4. waited' = {} \/ waited' = waited
    BY DEF FindThrough, AfterDraw
  <2>5. QED
    BY <2>2, <2>3, <2>4 DEF IInv, TypeOK, FindThrough
<1>2. PlaceInv'
  BY DEF IInv, PlaceInv, FindThrough, AfterDraw, first_pending
<1>3. MapInv'
  BY DEF IInv, MapInv, FindThrough, AfterDraw, first_pending
<1>4. LockInv'
  BY DEF IInv, LockInv, Oldest, FindThrough, AfterDraw, first_pending
<1>5. WaitInv'
  BY DEF IInv, WaitInv, FindThrough, AfterDraw, first_pending
<1>6. FailedInv'
  BY DEF IInv, TypeOK, PlaceInv, FailedInv, PCs, Ops, Statuses,
         FindThrough, AfterDraw, first_pending
<1>7. CoverInv'
  <2>1. op \in {"wait", "teardown"} /\ pc = "find" /\ Complete
    BY DEF IInv, TypeOK, PlaceInv, CoverInv, Ops, FindThrough
  <2>2. CASE pending["draw"] = {}
    <3>1. counter["draw"] = submit_seq
      BY <2>1, <2>2 DEF IInv, TypeOK, MapInv
    <3>2. counter["draw"] = 0 => pending["upload"] = {}
      BY <3>1 DEF IInv, TypeOK, MapInv
    <3>3. QED
      BY <2>1, <2>2, <3>1, <3>2
      DEF IInv, TypeOK, CoverInv, FindThrough, AfterDraw
  <2>3. CASE pending["draw"] # {}
    <3> DEFINE s == first_pending("draw")
    <3>1. /\ s \in pending["draw"]
          /\ s >= target \/ \A t \in pending["draw"] : t <= s
      BY <2>3, FirstPendingFacts DEF IInv
    <3>2. submit_seq \in pending["draw"]
      BY <2>1, <2>3 DEF IInv, TypeOK, MapInv
    <3>3. s >= Smaller(target, submit_seq) /\ s \in 1..submit_seq
      BY <3>1, <3>2 DEF IInv, TypeOK, MapInv
    <3>4. status["draw"][s] # "none"
      BY <2>1, <3>1 DEF IInv, TypeOK, MapInv
    <3> HIDE DEF s
    <3>5. pc' = "draw_collect" /\ through' = s
      BY <2>3 DEF FindThrough, s
    <3>6. UNCHANGED <<submit_seq, op, target, upload_leg, status, counter>>
      BY <2>3 DEF FindThrough
    <3>7. QED
      BY <2>1, <3>3, <3>4, <3>5, <3>6 DEF IInv, TypeOK, CoverInv
  <2>4. QED  BY <2>2, <2>3
<1>8. AbortSeenBeforeRetirement'
  BY DEF IInv, AbortSeenBeforeRetirement, FindThrough, AfterDraw,
         first_pending
<1>9. QED
  BY <1>1, <1>2, <1>3, <1>4, <1>5, <1>6, <1>7, <1>8 DEF IInv

\* IInv is preserved by collecting the draw buffers to wait for.
LEMMA CollectDrawStep ==
    ASSUME IInv, Collect("draw", "draw_collect", "draw_wait")
    PROVE  IInv'
<1>1. TypeOK'
  BY DEF IInv, TypeOK, PCs, Ops, Statuses, Collect
<1>2. PlaceInv'
  BY DEF IInv, PlaceInv, Collect
<1>3. MapInv'
  BY DEF IInv, MapInv, Collect
<1>4. LockInv'
  BY DEF IInv, LockInv, Oldest, Collect
<1>5. WaitInv'
  BY DEF IInv, WaitInv, Collect
<1>6. FailedInv'
  BY DEF IInv, FailedInv, Collect
<1>7. CoverInv'
  BY DEF IInv, CoverInv, Collect
<1>8. AbortSeenBeforeRetirement'
  BY DEF IInv, AbortSeenBeforeRetirement, Collect
<1>9. QED
  BY <1>1, <1>2, <1>3, <1>4, <1>5, <1>6, <1>7, <1>8 DEF IInv

\* IInv is preserved by the end of the wait for the draw buffers.
LEMMA WaitDrawStep ==
    ASSUME IInv, WaitThenRetire("draw", "draw_wait", "draw_retire")
    PROVE  IInv'
<1>1. TypeOK'
  BY DEF IInv, TypeOK, PCs, Ops, Statuses, WaitThenRetire
<1>2. PlaceInv'
  BY DEF IInv, PlaceInv, WaitThenRetire
<1>3. MapInv'
  BY DEF IInv, MapInv, WaitThenRetire
<1>4. LockInv'
  BY DEF IInv, LockInv, Oldest, WaitThenRetire
<1>5. WaitInv'
  BY DEF IInv, WaitInv, WaitThenRetire
<1>6. FailedInv'
  BY DEF IInv, FailedInv, WaitThenRetire
<1>7. CoverInv'
  BY DEF IInv, CoverInv, WaitThenRetire
<1>8. AbortSeenBeforeRetirement'
  BY DEF IInv, AbortSeenBeforeRetirement, WaitThenRetire
<1>9. QED
  BY <1>1, <1>2, <1>3, <1>4, <1>5, <1>6, <1>7, <1>8 DEF IInv

\* IInv is preserved by collecting the upload buffers to wait for.
LEMMA CollectUploadStep ==
    ASSUME IInv, Collect("upload", "upload_collect", "upload_wait")
    PROVE  IInv'
<1>1. TypeOK'
  BY DEF IInv, TypeOK, PCs, Ops, Statuses, Collect
<1>2. PlaceInv'
  BY DEF IInv, PlaceInv, Collect
<1>3. MapInv'
  BY DEF IInv, MapInv, Collect
<1>4. LockInv'
  BY DEF IInv, LockInv, Oldest, Collect
<1>5. WaitInv'
  BY DEF IInv, WaitInv, Collect
<1>6. FailedInv'
  BY DEF IInv, FailedInv, Collect
<1>7. CoverInv'
  BY DEF IInv, CoverInv, Collect
<1>8. AbortSeenBeforeRetirement'
  BY DEF IInv, AbortSeenBeforeRetirement, Collect
<1>9. QED
  BY <1>1, <1>2, <1>3, <1>4, <1>5, <1>6, <1>7, <1>8 DEF IInv

\* IInv is preserved by the end of the wait for the upload buffers.
LEMMA WaitUploadStep ==
    ASSUME IInv, WaitThenRetire("upload", "upload_wait", "upload_retire")
    PROVE  IInv'
<1>1. TypeOK'
  BY DEF IInv, TypeOK, PCs, Ops, Statuses, WaitThenRetire
<1>2. PlaceInv'
  BY DEF IInv, PlaceInv, WaitThenRetire
<1>3. MapInv'
  BY DEF IInv, MapInv, WaitThenRetire
<1>4. LockInv'
  BY DEF IInv, LockInv, Oldest, WaitThenRetire
<1>5. WaitInv'
  BY DEF IInv, WaitInv, WaitThenRetire
<1>6. FailedInv'
  BY DEF IInv, FailedInv, WaitThenRetire
<1>7. CoverInv'
  BY DEF IInv, CoverInv, WaitThenRetire
<1>8. AbortSeenBeforeRetirement'
  BY DEF IInv, AbortSeenBeforeRetirement, WaitThenRetire
<1>9. QED
  BY <1>1, <1>2, <1>3, <1>4, <1>5, <1>6, <1>7, <1>8 DEF IInv

\* IInv is preserved by publishing the upload leg of a wait.
LEMMA PublishThroughStep ==
    ASSUME IInv, publish_upload_through
    PROVE  IInv'
<1>1. TypeOK'
  BY DEF IInv, TypeOK, PCs, Ops, Statuses, publish_upload_through
<1>2. PlaceInv'
  BY DEF IInv, PlaceInv, publish_upload_through
<1>3. MapInv'
  <2>1. op \in {"wait", "teardown"} /\ pc = "through_publish"
    BY DEF IInv, TypeOK, PlaceInv, Ops, publish_upload_through
  <2>2. through <= submit_seq /\ UpTo("upload", through) = {}
    BY <2>1 DEF IInv, TypeOK, MapInv, CoverInv
  <2>3. QED
    BY <2>1, <2>2 DEF IInv, TypeOK, MapInv, publish_upload_through
<1>4. LockInv'
  BY DEF IInv, LockInv, Oldest, publish_upload_through
<1>5. WaitInv'
  BY DEF IInv, WaitInv, publish_upload_through
<1>6. FailedInv'
  BY DEF IInv, FailedInv, publish_upload_through
<1>7. CoverInv'
  BY DEF IInv, TypeOK, PlaceInv, MapInv, CoverInv, PCs, Ops, Statuses,
         publish_upload_through
<1>8. AbortSeenBeforeRetirement'
  BY DEF IInv, TypeOK, PlaceInv, MapInv, AbortSeenBeforeRetirement, PCs,
         Ops, Statuses, publish_upload_through
<1>9. QED
  BY <1>1, <1>2, <1>3, <1>4, <1>5, <1>6, <1>7, <1>8 DEF IInv

\* IInv is preserved by the publications of a failed submission.
LEMMA FailedSubmitStep ==
    ASSUME IInv, retire_failed_submit
    PROVE  IInv'
<1>1. TypeOK'
  <2>1. /\ counter' \in [Counters -> 0..MaxSeq]
        /\ failed_submit_seq' \in 0..MaxSeq
    BY DEF IInv, TypeOK, retire_failed_submit
  <2>2. /\ pc' \in PCs /\ op' \in Ops /\ target' \in 0..(MaxSeq + 1)
        /\ upload_leg' \in {"yes", "no"}
        /\ through' \in 0..MaxSeq
    BY DEF IInv, TypeOK, PCs, Ops, retire_failed_submit
  <2>3. waited' = {} \/ waited' = waited
    BY DEF retire_failed_submit
  <2>4. QED
    BY <2>1, <2>2, <2>3 DEF IInv, TypeOK, retire_failed_submit
<1>2. PlaceInv'
  BY DEF IInv, PlaceInv, retire_failed_submit
<1>3. MapInv'
  <2>1. op = "failed" /\ pending["draw"] = {} /\ pending["upload"] = {}
    BY DEF IInv, PlaceInv, FailedInv, retire_failed_submit
  <2>2. pc' \notin SubmitPlaces /\ pending'["draw"] = {} /\ pending'["upload"] = {}
    BY <2>1 DEF retire_failed_submit
  <2>3. ASSUME NEW c \in Counters
        PROVE  counter'[c] \in {counter[c], submit_seq}
               /\ counter'[c] >= counter[c] /\ counter'[c] <= submit_seq
    BY DEF IInv, TypeOK, MapInv, retire_failed_submit
  <2>4. \A c \in Counters, s \in Seqs : status[c][s] # "committed"
    BY <2>1 DEF IInv, TypeOK, MapInv
  <2>5. UNCHANGED <<submit_seq, status>>
    BY DEF retire_failed_submit
  <2>6. QED
    BY <1>1, <2>1, <2>2, <2>3, <2>4, <2>5 DEF IInv, TypeOK, MapInv
<1>4. LockInv'
  BY DEF IInv, TypeOK, PlaceInv, MapInv, LockInv, WaitInv, FailedInv,
         CoverInv, PCs, Ops, Statuses, Oldest, retire_failed_submit
<1>5. WaitInv'
  BY DEF IInv, WaitInv, retire_failed_submit
<1>6. FailedInv'
  BY DEF IInv, FailedInv, retire_failed_submit
<1>7. CoverInv'
  BY DEF IInv, TypeOK, CoverInv, PCs, Ops, Statuses,
         retire_failed_submit
<1>8. AbortSeenBeforeRetirement'
  BY DEF IInv, TypeOK, PlaceInv, MapInv, LockInv, WaitInv, FailedInv,
         CoverInv, AbortSeenBeforeRetirement, PCs, Ops, Statuses, Oldest,
         retire_failed_submit
<1>9. QED
  BY <1>1, <1>2, <1>3, <1>4, <1>5, <1>6, <1>7, <1>8 DEF IInv

\* IInv is preserved by recording an abort.
LEMMA RecordStep ==
    ASSUME IInv, record_failed_submit
    PROVE  IInv'
<1>1. TypeOK'
  <2>1. pending[retiring] # {} /\ retiring \in Counters
    BY DEF IInv, LockInv, record_failed_submit
  <2>2. Oldest(retiring) \in 0..MaxSeq
    BY <2>1, OldestFacts DEF IInv
  <2>3. QED
    BY <2>2 DEF IInv, TypeOK, record_failed_submit
<1>2. PlaceInv'
  BY DEF IInv, PlaceInv, record_failed_submit
<1>3. MapInv'
  BY DEF IInv, MapInv, record_failed_submit
<1>4. LockInv'
  BY DEF IInv, TypeOK, LockInv, PCs, Ops, Statuses, Oldest,
         record_failed_submit
<1>5. WaitInv'
  BY DEF IInv, WaitInv, record_failed_submit
<1>6. FailedInv'
  BY DEF IInv, FailedInv, record_failed_submit
<1>7. CoverInv'
  BY DEF IInv, TypeOK, PlaceInv, MapInv, LockInv, WaitInv, FailedInv,
         CoverInv, PCs, Ops, Statuses, Oldest, record_failed_submit
<1>8. AbortSeenBeforeRetirement'
  BY DEF IInv, TypeOK, AbortSeenBeforeRetirement, PCs, Ops, Statuses,
         record_failed_submit
<1>9. QED
  BY <1>1, <1>2, <1>3, <1>4, <1>5, <1>6, <1>7, <1>8 DEF IInv

\* IInv is preserved by publishing and removing the oldest entry.
LEMMA RetireStep ==
    ASSUME IInv, RetireOldest
    PROVE  IInv'
<1>1. TypeOK'
  <2>1. pending[retiring] # {} /\ retiring \in Counters
    BY DEF IInv, LockInv, RetireOldest
  <2>2. Oldest(retiring) \in 0..MaxSeq
    BY <2>1, OldestFacts DEF IInv
  <2>3. QED
    BY <2>1, <2>2 DEF IInv, TypeOK, RetireOldest
<1>2. PlaceInv'
  BY DEF IInv, PlaceInv, RetireOldest
<1>3. MapInv'
  <2> DEFINE c == retiring
             s == Oldest(retiring)
  <2>1. c \in Counters /\ pending[c] # {} /\ ended(c, s)
    BY DEF IInv, LockInv, RetireOldest
  <2>2. s \in pending[c] /\ s \in Seqs /\ \A t \in pending[c] : s <= t
    BY <2>1, OldestFacts DEF IInv
  <2>3. counter[c] < s
    BY <2>1, <2>2 DEF IInv, MapInv
  <2> HIDE DEF s
  <2>4. /\ counter' = [counter EXCEPT ![c] = Larger(@, s)]
        /\ pending' = [pending EXCEPT ![c] = @ \ {s}]
        /\ UNCHANGED <<submit_seq, pc, status>>
    BY DEF RetireOldest, s
  <2>5. counter'[c] = s /\ pending'[c] = pending[c] \ {s}
    BY <2>1, <2>2, <2>3, <2>4 DEF IInv, TypeOK
  <2>6. \A t \in Seqs : status[c][t] = "committed" => t \in pending[c] /\ t # s
    BY <2>1, <2>2 DEF IInv, TypeOK, MapInv
  <2>7. ASSUME NEW d \in Counters, d # c
        PROVE  counter'[d] = counter[d] /\ pending'[d] = pending[d]
    BY <2>1, <2>4, <2>7 DEF IInv, TypeOK
  <2>8. QED
    BY <2>1, <2>2, <2>3, <2>4, <2>5, <2>6, <2>7 DEF IInv, TypeOK, MapInv
<1>4. LockInv'
  BY DEF IInv, LockInv, Oldest, RetireOldest
<1>5. WaitInv'
  BY DEF IInv, WaitInv, RetireOldest
<1>6. FailedInv'
  BY DEF IInv, FailedInv, RetireOldest
<1>7. CoverInv'
  <2>1. retiring \in Counters /\ pending[retiring] # {}
    BY DEF IInv, LockInv, RetireOldest
  <2>2. Oldest(retiring) \in Seqs
    BY <2>1, OldestFacts DEF IInv
  <2>3. counter'["draw"] >= counter["draw"]
    BY <2>1, <2>2 DEF IInv, TypeOK, RetireOldest
  <2>4. pending'["draw"] \subseteq pending["draw"]
        /\ pending'["upload"] \subseteq pending["upload"]
    BY <2>1 DEF IInv, TypeOK, RetireOldest
  <2>5. counter'["draw"] \in 0..MaxSeq /\ counter["draw"] \in 0..MaxSeq
    BY <1>1 DEF IInv, TypeOK
  <2>6. QED
    BY <2>3, <2>4, <2>5 DEF IInv, TypeOK, CoverInv, RetireOldest
<1>8. AbortSeenBeforeRetirement'
  <2> DEFINE s == Oldest(retiring)
  <2>1. /\ retiring \in Counters /\ pending[retiring] # {}
        /\ status[retiring][s] = "error" => failed_submit_seq >= s
    BY DEF IInv, LockInv, RetireOldest
  <2>2. s \in Seqs /\ \A t \in pending[retiring] : s <= t
    BY <2>1, OldestFacts DEF IInv
  <2> HIDE DEF s
  <2>3. /\ counter' = [counter EXCEPT ![retiring] = Larger(@, s)]
        /\ UNCHANGED <<status, failed_submit_seq>>
    BY DEF RetireOldest, s
  <2>4. QED
    BY <2>1, <2>2, <2>3, SMTT(30) DEF IInv, TypeOK, MapInv, AbortSeenBeforeRetirement
<1>9. QED
  BY <1>1, <1>2, <1>3, <1>4, <1>5, <1>6, <1>7, <1>8 DEF IInv

\* IInv is preserved by the end of a retire_finished loop.
LEMMA StopsStep ==
    ASSUME IInv, RetireStops
    PROVE  IInv'
<1>1. TypeOK'
  BY DEF IInv, TypeOK, PCs, Ops, Statuses, RetireStops, LeaveRetire,
         AfterRetire, AfterDraw
<1>2. PlaceInv'
  BY DEF IInv, TypeOK, PlaceInv, MapInv, LockInv, WaitInv, FailedInv,
         CoverInv, PCs, Ops, Statuses, Oldest, RetireStops, LeaveRetire,
         AfterRetire, AfterDraw
<1>3. MapInv'
  BY DEF IInv, TypeOK, PlaceInv, MapInv, LockInv, WaitInv, FailedInv,
         CoverInv, PCs, Ops, Statuses, Oldest, RetireStops, LeaveRetire,
         AfterRetire, AfterDraw
<1>4. LockInv'
  BY DEF IInv, LockInv, Oldest, RetireStops, LeaveRetire, AfterRetire,
         AfterDraw
<1>5. WaitInv'
  BY DEF IInv, WaitInv, RetireStops, LeaveRetire, AfterRetire, AfterDraw
<1>6. FailedInv'
  <2>1. SUFFICES ASSUME op' = "failed"
                 PROVE  FailedInv'
    BY DEF FailedInv
  <2>2. op = "failed" /\ UNCHANGED <<submit_seq, pending, through>>
    BY <2>1 DEF IInv, PlaceInv, RetireStops, LeaveRetire, AfterRetire, AfterDraw
  <2>3. pc = "draw_retire" => pending["draw"] = {}
    BY <2>2, NothingLeft DEF IInv, FailedInv, MapInv
  <2>4. pc = "upload_retire" => pending["upload"] = {}
    BY <2>2, NothingLeft DEF IInv, FailedInv, MapInv
  <2>5. QED
    BY <2>2, <2>3, <2>4
    DEF IInv, LockInv, FailedInv, RetireStops, LeaveRetire, AfterRetire
<1>7. CoverInv'
  <2>1. CASE lock_owner # "thread"
    BY <2>1 DEF IInv, CoverInv, RetireStops, LeaveRetire, Unlock
  <2>2. CASE lock_owner = "thread" /\ op = "failed"
    BY <2>2
    DEF IInv, LockInv, CoverInv, RetireStops, LeaveRetire, AfterRetire, Unlock
  <2>3. CASE lock_owner = "thread" /\ op # "failed"
    <3>1. pc \in {"draw_retire", "upload_retire"}
          /\ op \in {"wait", "teardown"}
      BY <2>3 DEF IInv, TypeOK, Ops, PlaceInv, LockInv, RetireStops
    <3>2. CASE pc = "draw_retire"
      <4>1. UpTo("draw", through) = {}
        BY <3>2, NothingLeft
      <4>2. counter["draw"] >= through
        BY <3>1, <3>2, <4>1 DEF IInv, TypeOK, MapInv, CoverInv
      <4>3. QED
        BY <2>3, <3>1, <3>2, <4>2
        DEF IInv, TypeOK, CoverInv, RetireStops, LeaveRetire, AfterRetire,
            AfterDraw
    <3>3. CASE pc = "upload_retire"
      <4>1. UpTo("upload", through) = {}
        BY <3>3, NothingLeft
      <4>2. QED
        BY <2>3, <3>1, <3>3, <4>1
        DEF IInv, CoverInv, RetireStops, LeaveRetire, AfterRetire
    <3>4. QED  BY <3>1, <3>2, <3>3
  <2>4. QED  BY <2>1, <2>2, <2>3
<1>8. AbortSeenBeforeRetirement'
  BY DEF IInv, AbortSeenBeforeRetirement, RetireStops, LeaveRetire,
         AfterRetire, AfterDraw
<1>9. QED
  BY <1>1, <1>2, <1>3, <1>4, <1>5, <1>6, <1>7, <1>8 DEF IInv

\* IInv is preserved by a buffer ending on the GPU.
LEMMA GpuEndsStep ==
    ASSUME IInv, NEW c \in Counters, NEW s \in Seqs, GpuEnds(c, s)
    PROVE  IInv'
<1>1. TypeOK'
  <2>1. status' \in [Counters -> [Seqs -> Statuses]]
    <3>1. PICK outcome \in {"completed", "error"} :
              status' = [status EXCEPT ![c][s] = outcome]
      BY DEF GpuEnds
    <3>2. outcome \in Statuses /\ status \in [Counters -> [Seqs -> Statuses]]
      BY DEF IInv, TypeOK, Statuses
    <3>3. QED  BY <3>1, <3>2
  <2>2. handlers' \in SUBSET (Counters \X Seqs)
    BY DEF IInv, TypeOK, GpuEnds
  <2>3. QED
    BY <2>1, <2>2 DEF IInv, TypeOK, GpuEnds
<1>2. PlaceInv'
  BY DEF IInv, PlaceInv, GpuEnds
<1>3. MapInv'
  BY DEF IInv, MapInv, GpuEnds
<1>4. LockInv'
  BY DEF IInv, LockInv, Oldest, GpuEnds
<1>5. WaitInv'
  BY DEF IInv, WaitInv, GpuEnds
<1>6. FailedInv'
  BY DEF IInv, FailedInv, GpuEnds
<1>7. CoverInv'
  BY DEF IInv, CoverInv, GpuEnds
<1>8. AbortSeenBeforeRetirement'
  BY DEF IInv, TypeOK, PlaceInv, MapInv, AbortSeenBeforeRetirement, PCs,
         Ops, Statuses, GpuEnds
<1>9. QED
  BY <1>1, <1>2, <1>3, <1>4, <1>5, <1>6, <1>7, <1>8 DEF IInv

\* IInv is preserved by a completion handler entering retire_finished.
LEMMA HandlerRunsStep ==
    ASSUME IInv, NEW c \in Counters, NEW s \in Seqs, HandlerRuns(c, s)
    PROVE  IInv'
<1>1. TypeOK'
  BY DEF IInv, TypeOK, PCs, Ops, Statuses, HandlerRuns
<1>2. PlaceInv'
  BY DEF IInv, PlaceInv, HandlerRuns
<1>3. MapInv'
  BY DEF IInv, MapInv, HandlerRuns
<1>4. LockInv'
  BY DEF IInv, LockInv, Oldest, HandlerRuns
<1>5. WaitInv'
  BY DEF IInv, WaitInv, HandlerRuns
<1>6. FailedInv'
  BY DEF IInv, FailedInv, HandlerRuns
<1>7. CoverInv'
  BY DEF IInv, CoverInv, HandlerRuns
<1>8. AbortSeenBeforeRetirement'
  BY DEF IInv, AbortSeenBeforeRetirement, HandlerRuns
<1>9. QED
  BY <1>1, <1>2, <1>3, <1>4, <1>5, <1>6, <1>7, <1>8 DEF IInv

\* IInv is preserved by a step that changes nothing.
LEMMA StutterStep ==
    ASSUME IInv, UNCHANGED vars
    PROVE  IInv'
<1>1. TypeOK'
  BY DEF IInv, TypeOK, PCs, Ops, Statuses
<1>2. PlaceInv'
  BY DEF IInv, PlaceInv
<1>3. MapInv'
  BY DEF IInv, MapInv
<1>4. LockInv'
  BY DEF IInv, LockInv, Oldest
<1>5. WaitInv'
  BY DEF IInv, WaitInv
<1>6. FailedInv'
  BY DEF IInv, FailedInv
<1>7. CoverInv'
  BY DEF IInv, CoverInv
<1>8. AbortSeenBeforeRetirement'
  BY DEF IInv, AbortSeenBeforeRetirement
<1>9. QED
  BY <1>1, <1>2, <1>3, <1>4, <1>5, <1>6, <1>7, <1>8 DEF IInv

\* The initial state satisfies the inductive invariant.
LEMMA InitIInv == Init => IInv
BY SMTT(30) DEF Init, IInv, TypeOK, PCs, Ops, Statuses, PlaceInv, MapInv, LockInv,
       WaitInv, FailedInv, CoverInv, AbortSeenBeforeRetirement

\* Every step of the threads, of Metal and of the handlers preserves it.
LEMMA NextIInv == IInv /\ [Next]_vars => IInv'
<1> SUFFICES ASSUME IInv, [Next]_vars
             PROVE  IInv'
  OBVIOUS
<1>1. CASE Submit
  BY <1>1, BeginSubmissionStep, RegisterUploadStep, CommitUploadStep,
     IdleUploadStep, RegisterDrawStep, CommitDrawStep DEF Submit
<1>2. CASE Wait
  BY <1>2, CallWaitStep, LoadStep, FindStep, CollectDrawStep, WaitDrawStep,
     CollectUploadStep, WaitUploadStep, PublishThroughStep, FailedSubmitStep
     DEF Wait
<1>3. CASE retire_finished
  BY <1>3, RecordStep, RetireStep, StopsStep DEF retire_finished
<1>4. CASE Metal
  BY <1>4, GpuEndsStep, HandlerRunsStep DEF Metal
<1>5. CASE UNCHANGED vars
  BY <1>5, StutterStep
<1>6. QED
  BY <1>1, <1>2, <1>3, <1>4, <1>5 DEF Next, Terminated

\* The inductive invariant holds in every reachable state.
THEOREM Invariance == Spec => []IInv
BY InitIInv, NextIInv, PTL DEF Spec

\* The state of the in-flight map, the counters and the threads keeps its type.
THEOREM TypeCorrect == Spec => []TypeOK
<1>1. IInv => TypeOK
  BY DEF IInv
<1>2. QED  BY <1>1, Invariance, PTL

\* A retirement counter never stands at or past a buffer that has not ended,
\* for any number of submissions and any order of completions.
THEOREM CountersAreExact == Spec => []CountersExact
<1>1. IInv => CountersExact
  <2> SUFFICES ASSUME IInv, NEW c \in Counters, NEW s \in Outstanding(c)
               PROVE  counter[c] < s
    BY DEF CountersExact
  <2>1. CASE s \in Seqs /\ status[c][s] = "committed"
    BY <2>1 DEF IInv, MapInv
  <2>2. CASE pc \in BeforeCommit[c] /\ s = submit_seq
    BY <2>2 DEF IInv, MapInv
  <2>3. QED  BY <2>1, <2>2 DEF Outstanding
<1>2. QED  BY <1>1, Invariance, PTL

\* No counter passes an aborted buffer before failed_submit_seq names it.
THEOREM AbortsAreSeen == Spec => []AbortSeenBeforeRetirement
<1>1. IInv => AbortSeenBeforeRetirement
  BY DEF IInv
<1>2. QED  BY <1>1, Invariance, PTL

\* What has left the in-flight map has been published.
THEOREM EmptyRangeIsPublished == Spec => []EmptyMeansPublished
<1>1. IInv => EmptyMeansPublished
  BY DEF IInv, MapInv, EmptyMeansPublished
<1>2. QED  BY <1>1, Invariance, PTL

\* A retirement wait that returns has published what it was asked for.
THEOREM WaitsCover == Spec => WaitReturnsCovered
<1> DEFINE Returns ==
        (op \in {"wait", "teardown"} /\ pc # "idle" /\ pc' \in {"idle", "freed"})
        => LET covered == Smaller(target, submit_seq)
           IN  /\ counter'["draw"] >= covered
               /\ upload_leg = "yes" => counter'["upload"] >= covered
<1>1. IInv /\ [Next]_vars => [Returns]_vars
  <2> SUFFICES ASSUME IInv, Next, op \in {"wait", "teardown"}, pc # "idle",
                      pc' \in {"idle", "freed"}, pc' # pc
               PROVE  LET covered == Smaller(target, submit_seq)
                      IN  /\ counter'["draw"] >= covered
                          /\ upload_leg = "yes" => counter'["upload"] >= covered
    BY DEF PlaceInv, IInv
  <2>1. CASE LoadCounter
    BY <2>1 DEF IInv, TypeOK, CoverInv, LoadCounter, AfterDraw
  <2>2. CASE FindThrough
    BY <2>2 DEF IInv, TypeOK, MapInv, CoverInv, FindThrough, AfterDraw
  <2>3. CASE publish_upload_through
    BY <2>3 DEF IInv, TypeOK, CoverInv, publish_upload_through
  <2>4. CASE RetireStops
    <3>1. pc = "draw_retire" /\ op # "failed"
      BY <2>4 DEF IInv, LockInv, RetireStops, LeaveRetire, AfterRetire
    <3>2. UpTo("draw", through) = {}
      BY <2>4, <3>1, NothingLeft
    <3>3. counter["draw"] >= through
      BY <3>1, <3>2 DEF IInv, TypeOK, MapInv, CoverInv
    <3>4. QED
      BY <2>4, <3>1, <3>3
      DEF IInv, TypeOK, LockInv, CoverInv, RetireStops, LeaveRetire, AfterRetire,
          AfterDraw
  <2>5. QED
    BY <2>1, <2>2, <2>3, <2>4
    DEF IInv, TypeOK, PlaceInv, Next, Submit, Wait, retire_finished, Metal,
        Terminated, BeginSubmission, register_pending, Commit,
        publish_idle_upload, wait_for_gpu_retire, Collect, WaitThenRetire,
        retire_failed_submit, record_failed_submit, RetireOldest, GpuEnds,
        HandlerRuns
<1>2. QED
  BY <1>1, Invariance, PTL DEF Spec, WaitReturnsCovered

\* Once teardown has waited, no handler writes the counters the PE side frees.
THEOREM LateHandlersWriteNothing == Spec => LateHandlerWritesNothing
<1>1. IInv /\ [Next]_vars
      => [pc = "freed" => UNCHANGED <<counter, failed_submit_seq>>]_vars
  <2> SUFFICES ASSUME IInv, Next, pc = "freed"
               PROVE  UNCHANGED <<counter, failed_submit_seq>>
    OBVIOUS
  <2>1. lock # "recorded" /\ pending["draw"] = {} /\ pending["upload"] = {}
    BY DEF IInv, CoverInv
  <2>2. ~record_failed_submit /\ ~RetireOldest
    BY <2>1 DEF IInv, LockInv, record_failed_submit, RetireOldest
  <2>3. QED
    BY <2>2
    DEF Next, Submit, Wait, retire_finished, Metal, Terminated,
        BeginSubmission, register_pending, Commit, publish_idle_upload,
        wait_for_gpu_retire, LoadCounter, FindThrough, Collect, WaitThenRetire,
        publish_upload_through, retire_failed_submit, RetireStops, GpuEnds,
        HandlerRuns
<1>2. QED
  BY <1>1, Invariance, PTL DEF Spec, LateHandlerWritesNothing
=============================================================================
