------------------------- MODULE FrameLatencyProofs -------------------------
(***************************************************************************)
(* Proofs about FrameLatency, for every number of submissions, every size  *)
(* of the ring and every latency it allows.                                *)
(*                                                                         *)
(* The latency bound rests on three things.  The draw counter covers only  *)
(* submissions that ended (DrawInv), the paced floor only presents that    *)
(* are owed no longer (SignalInv), and what is finished stays finished;    *)
(* and the ring keeps the newest presents in order, so that the presents   *)
(* past the target are the entries in front of it (RingInv).               *)
(***************************************************************************)
EXTENDS FrameLatency, FiniteSetTheorems, WellFoundedInduction, TLAPS

-----------------------------------------------------------------------------
(* Least and greatest sequence numbers *)

\* Every non-empty set of sequence numbers has a least element.
LEMMA NatHasMin ==
    ASSUME NEW S \in SUBSET Nat, S # {}
    PROVE  \E x \in S : \A y \in S : x <= y
<1> DEFINE Less == OpToRel(<, Nat)
<1>1. \E x \in S : \A y \in S : ~(<<y, x>> \in Less)
  BY WFMin, NatLessThanWellFounded
<1>2. \A x, y \in Nat : y < x => <<y, x>> \in Less
  BY Zenon DEF OpToRel
<1> HIDE DEF Less
<1>3. PICK x \in S : \A y \in S : ~(<<y, x>> \in Less)
  BY <1>1
<1>4. ASSUME NEW y \in S
      PROVE  x <= y
  <2>1. ~(y < x)  BY <1>2, <1>3
  <2>2. QED  BY <2>1
<1>5. QED  BY <1>4

\* Max of a non-empty bounded set of sequence numbers is its greatest element.
LEMMA MaxFacts ==
    ASSUME NEW N \in Nat, NEW S \in SUBSET (0..N), S # {}
    PROVE  Max(S) \in S /\ \A y \in S : Max(S) >= y
<1> DEFINE Bounds == {n \in Nat : \A y \in S : y <= n}
<1>1. Bounds # {} /\ Bounds \in SUBSET Nat
  OBVIOUS
<1>2. PICK b \in Bounds : \A c \in Bounds : b <= c
  BY <1>1, NatHasMin
<1>3. b \in S
  <2>1. SUFFICES ASSUME b \notin S
                 PROVE  FALSE
    OBVIOUS
  <2>2. \A y \in S : y < b
    BY <1>2, <2>1
  <2>3. PICK y \in S : TRUE
    OBVIOUS
  <2>4. b # 0
    <3>1. y \in Nat /\ y < b  BY <2>2
    <3>2. QED  BY <3>1
  <2>5. b - 1 \in Bounds
    BY <2>2, <2>4
  <2>6. QED  BY <1>2, <2>5
<1>4. QED  BY <1>2, <1>3 DEF Max

-----------------------------------------------------------------------------

-----------------------------------------------------------------------------
(* Ascending queues *)

Ascending(p) == \A i, j \in 1..Len(p) : i < j => p[i] < p[j]

\* The front of an ascending queue is its least entry.
LEMMA FrontIsLeast ==
    ASSUME NEW p \in Seq(Nat), Ascending(p), p # <<>>
    PROVE  Head(p) \in Range(p) /\ \A x \in Range(p) : Head(p) <= x
<1>1. 1 \in 1..Len(p) /\ Head(p) = p[1]
  OBVIOUS
<1>2. ASSUME NEW x \in Range(p)
      PROVE  Head(p) <= x
  <2>1. PICK i \in 1..Len(p) : x = p[i]
    BY DEF Range
  <2>2. p[i] \in Nat /\ p[1] \in Nat
    BY <1>1
  <2>3. QED  BY <1>1, <2>1, <2>2 DEF Ascending
<1>3. QED  BY <1>1, <1>2 DEF Range

\* A queue stays ascending when a number above all its entries joins it.
LEMMA JoinedAscends ==
    ASSUME NEW p \in Seq(Nat), Ascending(p), NEW s \in Nat, \A x \in Range(p) : x < s
    PROVE  /\ Ascending(Append(p, s))
           /\ Range(Append(p, s)) = Range(p) \cup {s}
<1> DEFINE q == Append(p, s)
<1>1. /\ Len(q) = Len(p) + 1
      /\ \A i \in 1..Len(p) : q[i] = p[i]
      /\ q[Len(p) + 1] = s
  OBVIOUS
<1>2. DOMAIN q = 1..(Len(p) + 1) /\ DOMAIN p = 1..Len(p)
  OBVIOUS
<1>3. \A i \in 1..Len(p) : p[i] < s
  BY DEF Range
<1> HIDE DEF q
<1>4. Ascending(q)
  BY <1>1, <1>3 DEF Ascending
<1>5. Range(q) = Range(p) \cup {s}
  BY <1>1, <1>2 DEF Range
<1>6. QED  BY <1>4, <1>5 DEF q

\* The entries of two queues joined.
LEMMA JoinedEntries ==
    ASSUME NEW S, NEW a \in Seq(S), NEW b \in Seq(S), NEW i \in 1..(Len(a) + Len(b))
    PROVE  (a \o b)[i] = IF i <= Len(a) THEN a[i] ELSE b[i - Len(a)]
OBVIOUS

\* remove takes out the entry at its position, and only that.
LEMMA WithoutFacts ==
    ASSUME NEW S \in SUBSET Nat, NEW p \in Seq(S), Ascending(p), NEW s \in Range(p)
    PROVE  /\ Without(p, s) \in Seq(S)
           /\ Ascending(Without(p, s))
           /\ Range(Without(p, s)) = Range(p) \ {s}
<1>1. PICK k \in 1..Len(p) : p[k] = s
  BY DEF Range
<1>2. \A i \in 1..Len(p) : p[i] \in S /\ p[i] \in Nat
  <2>1. \A i \in 1..Len(p) : p[i] \in S
    OBVIOUS
  <2>2. QED  BY <2>1
<1>3. \A j \in 1..(k - 1) : p[j] # s
  BY <1>1, <1>2 DEF Ascending
<1> DEFINE At(i) == p[i] = s /\ \A j \in 1..(i - 1) : p[j] # s
           c == CHOOSE i \in DOMAIN p : At(i)
           a == SubSeq(p, 1, c - 1)
           b == SubSeq(p, c + 1, Len(p))
           q == a \o b
<1>4. c \in DOMAIN p /\ At(c)
  <2>1. k \in DOMAIN p /\ At(k)
    BY <1>1, <1>3
  <2> HIDE DEF At
  <2>2. QED  BY <2>1
<1>5. Without(p, s) = q
  BY DEF Without, RemoveAt
<1>6. c \in 1..Len(p) /\ p[c] = s
  BY <1>4
<1> HIDE DEF c
<1>7. /\ a \in Seq(S) /\ Len(a) = c - 1
      /\ b \in Seq(S) /\ Len(b) = Len(p) - c
      /\ \A i \in 1..(c - 1) : a[i] = p[i]
      /\ \A i \in 1..(Len(p) - c) : b[i] = p[c + i]
  <2>1. Len(p) \in Nat /\ c \in Nat /\ c >= 1 /\ c <= Len(p)
    BY <1>6
  <2>2. a \in Seq(S) /\ Len(a) = c - 1 /\ \A i \in 1..(c - 1) : a[i] = p[i]
    BY <2>1
  <2>3. b \in Seq(S) /\ Len(b) = Len(p) - c /\ \A i \in 1..(Len(p) - c) : b[i] = p[c + i]
    BY <2>1
  <2>4. QED  BY <2>2, <2>3
<1> HIDE DEF a, b
<1>8. q \in Seq(S) /\ Len(q) = Len(p) - 1
  BY <1>6, <1>7
<1>9. \A i \in 1..(Len(p) - 1) : q[i] = IF i < c THEN p[i] ELSE p[i + 1]
  <2>1. \A i \in 1..(Len(a) + Len(b)) : q[i] = IF i <= Len(a) THEN a[i] ELSE b[i - Len(a)]
    BY <1>7, JoinedEntries
  <2> HIDE DEF q
  <2>2. ASSUME NEW i \in 1..(Len(p) - 1)
        PROVE  q[i] = IF i < c THEN p[i] ELSE p[i + 1]
    <3>1. i \in 1..(Len(a) + Len(b)) /\ (i <= Len(a) <=> i < c)
      BY <1>6, <1>7
    <3>2. CASE i < c
      BY <1>6, <1>7, <2>1, <3>1, <3>2
    <3>3. CASE ~(i < c)
      <4>1. i - Len(a) \in 1..(Len(p) - c) /\ c + (i - Len(a)) = i + 1
        BY <1>6, <1>7, <3>3
      <4>2. QED  BY <1>7, <2>1, <3>1, <3>3, <4>1
    <3>4. QED  BY <3>2, <3>3
  <2>3. QED  BY <2>2
<1>10. DOMAIN q = 1..(Len(p) - 1) /\ DOMAIN p = 1..Len(p)
  BY <1>8
<1> HIDE DEF q
<1>11. Ascending(q)
  BY <1>6, <1>8, <1>9 DEF Ascending
<1>12. Range(q) = Range(p) \ {s}
  <2>1. \A i \in 1..Len(p) : i # c => p[i] # s
    BY <1>2, <1>6 DEF Ascending
  <2>2. ASSUME NEW x \in Range(q)
        PROVE  x \in Range(p) \ {s}
    <3>1. PICK i \in 1..(Len(p) - 1) : x = q[i]
      BY <1>10 DEF Range
    <3>2. QED  BY <1>6, <1>9, <1>10, <2>1, <3>1 DEF Range
  <2>3. ASSUME NEW x \in Range(p) \ {s}
        PROVE  x \in Range(q)
    <3>1. PICK i \in 1..Len(p) : x = p[i] /\ i # c
      BY <1>6, <1>10 DEF Range
    <3>2. CASE i < c
      <4>1. i \in 1..(Len(p) - 1) /\ q[i] = x
        BY <1>6, <1>9, <3>1, <3>2
      <4>2. QED  BY <1>10, <4>1 DEF Range
    <3>3. CASE i > c
      <4>1. i - 1 \in 1..(Len(p) - 1) /\ q[i - 1] = x
        BY <1>6, <1>9, <3>1, <3>3
      <4>2. QED  BY <1>10, <4>1 DEF Range
    <3>4. QED  BY <1>6, <3>1, <3>2, <3>3
  <2>4. QED  BY <2>2, <2>3
<1>13. QED  BY <1>5, <1>8, <1>11, <1>12

\* retain keeps exactly the entries above s, in their order.
LEMMA AboveFacts ==
    ASSUME NEW S \in SUBSET Nat, NEW p \in Seq(S), Ascending(p), NEW s \in Nat
    PROVE  /\ Above(p, s) \in Seq(S)
           /\ Ascending(Above(p, s))
           /\ Range(Above(p, s)) = {x \in Range(p) : x > s}
<1> DEFINE N == {n \in 1..(Len(p) + 1) : n <= Len(p) => p[n] > s}
           Tails == {SubSeq(p, n, Len(p)) : n \in 1..(Len(p) + 1)}
           Tops == {x \in Range(p) : x > s}
<1>1. \A i \in 1..Len(p) : p[i] \in S /\ p[i] \in Nat
  <2>1. \A i \in 1..Len(p) : p[i] \in S
    OBVIOUS
  <2>2. QED  BY <2>1
<1>2. Len(p) + 1 \in N /\ N \in SUBSET Nat
  OBVIOUS
<1>3. PICK k \in N : \A n \in N : k <= n
  BY <1>2, NatHasMin
<1>4. ASSUME NEW n \in 1..(Len(p) + 1)
      PROVE  LET q == SubSeq(p, n, Len(p))
             IN  /\ q \in Seq(S) /\ Len(q) = Len(p) - n + 1 /\ DOMAIN q = 1..(Len(p) - n + 1)
                 /\ \A i \in 1..(Len(p) - n + 1) : q[i] = p[n + i - 1]
  OBVIOUS
<1> DEFINE u == SubSeq(p, k, Len(p))
<1>5. Range(u) = Tops
  <2>1. \A i \in 1..Len(p) : i < k => ~(p[i] > s)
    BY <1>3
  <2>2. \A i \in 1..Len(p) : i >= k => p[i] > s
    <3>1. k <= Len(p) => p[k] > s
      BY <1>3
    <3>2. QED  BY <1>1, <1>3, <3>1 DEF Ascending
  <2>3. /\ DOMAIN u = 1..(Len(p) - k + 1)
        /\ \A i \in 1..(Len(p) - k + 1) : u[i] = p[k + i - 1]
    BY <1>3, <1>4
  <2> HIDE DEF u, N
  <2>4. k \in 1..(Len(p) + 1) /\ DOMAIN p = 1..Len(p)
    BY <1>3 DEF N
  <2>5. ASSUME NEW x \in Range(u)
        PROVE  x \in Tops
    <3>1. PICK i \in 1..(Len(p) - k + 1) : x = p[k + i - 1]
      BY <2>3 DEF Range
    <3>2. k + i - 1 \in 1..Len(p) /\ k + i - 1 >= k
      BY <2>4
    <3>3. QED  BY <2>2, <2>4, <3>1, <3>2 DEF Range
  <2>6. ASSUME NEW x \in Tops
        PROVE  x \in Range(u)
    <3>1. PICK i \in 1..Len(p) : x = p[i]
      BY <2>4 DEF Range
    <3>2. i >= k
      BY <2>1, <2>4, <3>1
    <3>3. i - k + 1 \in 1..(Len(p) - k + 1) /\ k + (i - k + 1) - 1 = i
      BY <2>4, <3>2
    <3>4. u[i - k + 1] = x
      BY <2>3, <3>1, <3>3
    <3>5. QED  BY <2>3, <3>3, <3>4 DEF Range
  <2>7. QED  BY <2>5, <2>6
<1>6. u \in Tails
  BY <1>3
<1>7. Above(p, s) = CHOOSE q \in Tails : Range(q) = Tops
  BY DEF Above
<1>8. Above(p, s) \in Tails /\ Range(Above(p, s)) = Tops
  <2> HIDE DEF Tails, Tops, u
  <2>1. QED  BY <1>5, <1>6, <1>7
<1>9. PICK n \in 1..(Len(p) + 1) : Above(p, s) = SubSeq(p, n, Len(p))
  BY <1>8
<1>10. Ascending(SubSeq(p, n, Len(p)))
  <2> DEFINE q == SubSeq(p, n, Len(p))
  <2>1. /\ Len(q) = Len(p) - n + 1
        /\ \A i \in 1..(Len(p) - n + 1) : q[i] = p[n + i - 1]
    BY <1>4
  <2> HIDE DEF q
  <2>2. Ascending(q)
    BY <2>1 DEF Ascending
  <2>3. QED  BY <2>2 DEF q
<1>11. QED  BY <1>4, <1>8, <1>9, <1>10

-----------------------------------------------------------------------------
(* The inductive invariant *)

\* The submit thread's place bounds what has been noted and committed.
SubmitInv ==
    /\ submitted <= seq
    /\ submit \in {"noted", "pushing", "failing", "published", "ending"} => submitted < seq
    /\ latest <= IF submit \in {"noted", "pushing"} THEN Current ELSE submitted
    /\ \A s \in Seqs : gpu[s] # "none" => s <= submitted \/ (s = Current /\ submit = "pushing")

\* What the signal's lock protects agrees with itself and with the marks.
SignalInv ==
    /\ Ascending(paced)
    /\ \A s \in Range(paced) : s <= latest /\ floor < s /\ mark[s] \in {"packet", "handler"}
    /\ floor <= latest
    /\ ended => ~attached /\ paced = <<>>
    /\ freed => ended

\* A submission whose draw half is still open.
Drawing(s) ==
    \/ s > submitted /\ gpu[s] = "none" /\ ~(s = Current /\ submit \in {"published", "ending"})
    \/ gpu[s] = "committed"

\* The draw counter stands below every one of them.
DrawInv == \A s \in 1..draw : ~Drawing(s)

\* The ring's entry j presents before the newest one.
Slot(n, j) == (n + Ring - j) % Ring
Back(j) == presents[Slot(newest, j)]

\* The presents after an entry of the ring are the entries in front of it.
RingInv ==
    /\ presenting \subseteq 1..seq
    /\ \A s \in presenting : \A j \in 0..(Ring - 1) :
           s > Back(j) => \E i \in 0..(j - 1) : s = Back(i)

\* A Present on its way waits for the entry of its bound, and knows the draw
\* half is over where it looks at the paced half.
TargetInv ==
    api # "ready" =>
        /\ bound \in 1..(Ring - 1) /\ target = Back(bound) /\ target # 0
        /\ api \in {"loaded", "timed"} => target <= draw

\* Where Present returned, everything up to its target was finished and is.
ReturnInv ==
    api = "ready" /\ ~ended /\ bound # 0 => \A s \in 1..Back(bound) : ~Unfinished(s)

LatencyInv ==
    /\ TypeOK /\ SubmitInv /\ SignalInv /\ DrawInv /\ RingInv /\ TargetInv /\ ReturnInv

-----------------------------------------------------------------------------
(* The signal *)

\* The floor of an ascending queue is below all of it.
LEMMA FloorIsBelow ==
    ASSUME NEW p \in Seq(Seqs), Ascending(p), NEW l \in 0..MaxSeq, \A x \in Range(p) : x <= l
    PROVE  /\ floor_of(p, l) \in 0..MaxSeq /\ floor_of(p, l) <= l
           /\ \A x \in Range(p) : floor_of(p, l) < x
<1>1. CASE p = <<>>
  <2>1. Range(p) = {}
    BY <1>1 DEF Range
  <2>2. QED  BY <1>1, <2>1 DEF floor_of
<1>2. CASE p # <<>>
  <2>1. p \in Seq(Nat) /\ Range(p) \subseteq Seqs
    BY LatencyAssumption DEF Seqs, Range
  <2>2. Head(p) \in Range(p) /\ \A x \in Range(p) : Head(p) <= x
    BY <1>2, <2>1, FrontIsLeast
  <2>3. QED  BY <1>2, <2>1, <2>2, LatencyAssumption DEF floor_of, Seqs
<1>3. QED  BY <1>1, <1>2

\* SignalInv survives what only takes presents out and publishes their floor.
LEMMA ShrinkKeeps ==
    ASSUME TypeOK, SignalInv,
           paced' \in Seq(Seqs), Ascending(paced'), Range(paced') \subseteq Range(paced),
           floor' \in {floor, floor_of(paced', latest)},
           UNCHANGED <<latest, freed>>, ended => ended', ended' => ~attached',
           ended' => ended \/ paced' = <<>>,
           \A s \in Range(paced') : mark'[s] \in {"packet", "handler"}
    PROVE  SignalInv' /\ floor' \in 0..MaxSeq
<1>1. latest \in 0..MaxSeq /\ floor \in 0..MaxSeq
  BY DEF TypeOK
<1>2. \A s \in Range(paced') : s <= latest /\ floor < s
  BY DEF SignalInv
<1>3. /\ floor_of(paced', latest) \in 0..MaxSeq /\ floor_of(paced', latest) <= latest
      /\ \A s \in Range(paced') : floor_of(paced', latest) < s
  BY <1>1, <1>2, FloorIsBelow
<1>4. ended' => paced' = <<>>
  <2>1. SUFFICES ASSUME ended, paced' # <<>>
                 PROVE  FALSE
    OBVIOUS
  <2>2. Range(paced') = {}
    BY <2>1 DEF SignalInv, Range
  <2>3. paced' \in Seq(Nat)
    BY LatencyAssumption DEF Seqs
  <2>4. QED  BY <2>1, <2>2, <2>3, FrontIsLeast
<1>5. floor' \in 0..MaxSeq /\ floor' <= latest /\ \A s \in Range(paced') : floor' < s
  BY <1>1, <1>2, <1>3 DEF SignalInv
<1>6. QED  BY <1>2, <1>4, <1>5 DEF SignalInv

\* resolve takes one present out, or finds it gone already.
LEMMA ResolveStep ==
    ASSUME TypeOK, SignalInv, NEW s \in Seqs, resolve(s), freed' = freed,
           mark' = [mark EXCEPT ![s] = "none"]
    PROVE  /\ SignalInv' /\ floor' \in 0..MaxSeq
           /\ paced' \in Seq(Seqs) /\ Range(paced') \subseteq Range(paced)
<1>1. paced \in Seq(Seqs) /\ Seqs \in SUBSET Nat /\ Ascending(paced)
  BY LatencyAssumption DEF TypeOK, SignalInv, Seqs
<1>2. /\ paced' \in Seq(Seqs) /\ Ascending(paced')
      /\ Range(paced') = Range(paced) \ {s}
  <2>1. CASE s \in Range(paced)
    <3>1. paced' = Without(paced, s)
      BY <2>1 DEF resolve
    <3>2. QED  BY <1>1, <2>1, <3>1, WithoutFacts
  <2>2. CASE s \notin Range(paced)
    BY <1>1, <2>2 DEF resolve
  <2>3. QED  BY <2>1, <2>2
<1>3. floor' \in {floor, floor_of(paced', latest)}
  BY DEF resolve, publish, Max2
<1>4. UNCHANGED <<latest, attached, ended>>
  BY DEF resolve
<1>5. ASSUME NEW t \in Range(paced')
      PROVE  mark'[t] \in {"packet", "handler"}
  <2>1. t # s /\ t \in Range(paced) /\ t \in Seqs
    BY <1>1, <1>2 DEF Range
  <2>2. mark[t] \in {"packet", "handler"} /\ mark \in [Seqs -> {"none", "packet", "handler"}]
    BY <2>1 DEF SignalInv, TypeOK
  <2>3. QED  BY <2>1, <2>2
<1>6. SignalInv' /\ floor' \in 0..MaxSeq
  BY <1>2, <1>3, <1>4, <1>5, ShrinkKeeps DEF SignalInv
<1>7. QED  BY <1>2, <1>6

\* So does a release, of the presents at or below s, under whatever publishes.
LEMMA ReleaseStep ==
    ASSUME TypeOK, SignalInv, NEW s \in Nat, paced' = Above(paced, s),
           floor' \in {floor, floor_of(paced', latest)},
           UNCHANGED <<latest, attached, ended, freed, mark>>
    PROVE  /\ SignalInv' /\ floor' \in 0..MaxSeq
           /\ paced' \in Seq(Seqs) /\ Range(paced') = {x \in Range(paced) : x > s}
<1>1. paced \in Seq(Seqs) /\ Seqs \in SUBSET Nat /\ Ascending(paced)
  BY LatencyAssumption DEF TypeOK, SignalInv, Seqs
<1>2. /\ paced' \in Seq(Seqs) /\ Ascending(paced')
      /\ Range(paced') = {x \in Range(paced) : x > s}
  BY <1>1, AboveFacts
<1>3. \A t \in Range(paced') : mark'[t] \in {"packet", "handler"}
  BY <1>2 DEF SignalInv
<1>4. SignalInv' /\ floor' \in 0..MaxSeq
  BY <1>2, <1>3, ShrinkKeeps DEF SignalInv
<1>5. QED  BY <1>2, <1>4

\* A submission noted in its turn joins at the back.
LEMMA NoteStep ==
    ASSUME TypeOK, SubmitInv, SignalInv, NEW waits \in BOOLEAN, Note(waits)
    PROVE  /\ SignalInv' /\ floor' \in 0..MaxSeq
           /\ paced' \in Seq(Seqs) /\ Range(paced') \subseteq Range(paced) \cup {Current}
           /\ latest' \in {latest, Current}
<1>1. /\ paced \in Seq(Seqs) /\ Seqs \in SUBSET Nat /\ Ascending(paced)
      /\ latest \in 0..MaxSeq /\ floor \in 0..MaxSeq
      /\ mark \in [Seqs -> {"none", "packet", "handler"}]
  BY LatencyAssumption DEF TypeOK, SignalInv, Seqs
<1>2. Current \in Seqs /\ latest < Current
  BY LatencyAssumption DEF TypeOK, SubmitInv, Note, Current, Seqs
<1>3. CASE ended
  BY <1>1, <1>3 DEF Note, note_submission, SignalInv
<1>4. CASE ~ended
  <2>1. /\ latest' = Current
        /\ paced' = IF waits THEN Append(paced, Current) ELSE paced
        /\ mark' = [mark EXCEPT ![Current] = IF waits THEN "packet" ELSE "none"]
        /\ floor' \in {floor, floor_of(paced', latest')}
        /\ UNCHANGED <<attached, ended, freed>>
    <3>1. note_submission(Current, waits) /\ freed' = freed
      BY DEF Note
    <3> HIDE DEF Current
    <3>2. latest' = Max2(latest, Current)
      BY <1>4, <3>1 DEF note_submission
    <3>3. latest' = Current
      BY <1>1, <1>2, <3>2 DEF Max2, Seqs
    <3>4. floor' \in {floor, floor_of(paced', latest')}
      BY <1>4, <3>1 DEF note_submission, publish, Max2
    <3>5. QED  BY <1>4, <3>1, <3>3, <3>4 DEF note_submission
  <2>2. paced \in Seq(Nat) /\ Range(paced) \subseteq Seqs
    BY <1>1, LatencyAssumption DEF Seqs, Range
  <2>3. \A x \in Range(paced) : x <= latest /\ floor < x /\ x < Current
    BY <1>1, <1>2, <2>2 DEF SignalInv, Seqs
  <2>4. /\ paced' \in Seq(Seqs) /\ Ascending(paced')
        /\ Range(paced') = IF waits THEN Range(paced) \cup {Current} ELSE Range(paced)
    <3>1. Current \in Nat
      BY <1>1, <1>2
    <3>2. /\ Ascending(Append(paced, Current))
          /\ Range(Append(paced, Current)) = Range(paced) \cup {Current}
      BY <1>1, <2>2, <2>3, <3>1, JoinedAscends
    <3> HIDE DEF Current
    <3>3. Append(paced, Current) \in Seq(Seqs)
      BY <1>1, <1>2
    <3>4. QED  BY <1>1, <2>1, <3>2, <3>3
  <2>5. \A x \in Range(paced') : x <= latest' /\ floor < x
    <3>1. \A x \in Range(paced) : x <= Current /\ floor < x
      BY <1>1, <1>2, <2>2, <2>3 DEF Seqs
    <3>2. floor < Current /\ Current <= Current
      BY <1>1, <1>2 DEF SignalInv, Seqs
    <3>3. QED  BY <2>1, <2>4, <3>1, <3>2
  <2>6. /\ floor_of(paced', latest') \in 0..MaxSeq /\ floor_of(paced', latest') <= latest'
        /\ \A x \in Range(paced') : floor_of(paced', latest') < x
    <3>1. latest' \in 0..MaxSeq
      BY <1>2, <2>1 DEF Seqs
    <3>2. QED  BY <2>4, <2>5, <3>1, FloorIsBelow
  <2>7. floor' \in 0..MaxSeq /\ floor' <= latest' /\ \A x \in Range(paced') : floor' < x
    <3>1. floor <= latest'
      BY <1>1, <1>2, <2>1 DEF SignalInv
    <3>2. QED  BY <1>1, <2>1, <2>5, <2>6, <3>1
  <2>8. ASSUME NEW x \in Range(paced')
        PROVE  mark'[x] \in {"packet", "handler"}
    <3>1. CASE x = Current
      <4>1. waits
        BY <1>2, <2>3, <2>4, <3>1, LatencyAssumption DEF Seqs
      <4>2. QED  BY <1>1, <1>2, <2>1, <3>1, <4>1
    <3>2. CASE x # Current
      <4>1. x \in Range(paced) /\ x \in Seqs
        BY <2>2, <2>4, <3>2
      <4>2. QED  BY <1>1, <2>1, <3>2, <4>1 DEF SignalInv
    <3>3. QED  BY <3>1, <3>2
  <2>9. ~ended' /\ (freed' => ended')
    BY <1>4, <2>1 DEF SignalInv
  <2>10. QED  BY <2>1, <2>4, <2>5, <2>7, <2>8, <2>9 DEF SignalInv
<1>5. QED  BY <1>3, <1>4

\* A present the signal comes to owe is one the submit thread notes in this step.
Joins == IF submit = "idle" /\ submit' = "noted" THEN {Current} ELSE {}

\* Every step keeps the signal sound, and only a note makes it owe a present.
LEMMA SignalStep ==
    ASSUME TypeOK, SubmitInv, SignalInv, [Next]_vars
    PROVE  /\ SignalInv' /\ floor' \in 0..MaxSeq
           /\ paced' \in Seq(Seqs) /\ Range(paced') \subseteq Range(paced) \cup Joins
<1> DEFINE Goal == /\ SignalInv' /\ floor' \in 0..MaxSeq
                   /\ paced' \in Seq(Seqs) /\ Range(paced') \subseteq Range(paced) \cup Joins
<1>0. /\ paced \in Seq(Seqs) /\ floor \in 0..MaxSeq /\ MaxSeq \in Nat /\ target \in Nat
      /\ queue \in Seq(Seqs) /\ mark \in [Seqs -> {"none", "packet", "handler"}]
      /\ releasing \in Nat
  BY LatencyAssumption DEF TypeOK
<1>1. ASSUME UNCHANGED <<signalVars, freed, mark>>
      PROVE  Goal
  BY <1>0, <1>1 DEF SignalInv, signalVars
<1>2. ASSUME NEW waits \in BOOLEAN, Note(waits)
      PROVE  Goal
  <2>1. submit = "idle" /\ submit' = "noted"
    BY <1>2 DEF Note
  <2>2. QED  BY <1>2, <2>1, NoteStep DEF Joins
<1>3. ASSUME NEW through, queue # <<>>, DropFront(through)
      PROVE  Goal
  <2>1. Head(queue) \in Seqs
    BY <1>0, <1>3
  <2>2. resolve(Head(queue)) /\ freed' = freed /\ mark' = [mark EXCEPT ![Head(queue)] = "none"]
    BY <1>3 DEF DropFront
  <2>3. QED  BY <2>1, <2>2, ResolveStep
<1>4. ASSUME NEW s \in Seqs, Presented(s)
      PROVE  Goal
  <2>1. resolve(s) /\ freed' = freed /\ mark' = [mark EXCEPT ![s] = "none"]
    BY <1>4 DEF Presented
  <2>2. QED  BY <2>1, ResolveStep
<1>5. ASSUME NEW s \in Nat, release_through(s), UNCHANGED <<freed, mark>>
      PROVE  Goal
  <2>1. /\ paced' = Above(paced, s)
        /\ floor' \in {floor, floor_of(paced', latest)}
        /\ UNCHANGED <<latest, attached, ended, freed, mark>>
    BY <1>5 DEF release_through, publish, Max2
  <2>2. QED  BY <2>1, ReleaseStep
<1>6. CASE CapFires
  <2>1. /\ paced' = Above(paced, target)
        /\ floor' \in {floor, floor_of(paced', latest)}
        /\ UNCHANGED <<latest, attached, ended, freed, mark>>
    BY <1>6 DEF CapFires, Max2
  <2>2. QED  BY <1>0, <2>1, ReleaseStep
<1>7. ASSUME end, UNCHANGED <<freed, mark>>
      PROVE  Goal
  <2>1. Range(paced') = {} /\ paced' = <<>> /\ paced' \in Seq(Seqs) /\ Ascending(paced')
    BY <1>7 DEF end, Range, Ascending
  <2>2. QED  BY <1>0, <1>7, <2>1 DEF end, SignalInv
<1>8. CASE Destroyed
  BY <1>0, <1>8 DEF Destroyed, SignalInv, signalVars
<1>9. CASE resolve_when_presented
  <2>1. \A s \in Range(paced) : s \in Seqs
    BY <1>0 DEF Range
  <2>2. Head(queue) \in Seqs /\ mark' = [mark EXCEPT ![Head(queue)] = "handler"]
    BY <1>0, <1>9 DEF resolve_when_presented
  <2>3. \A s \in Range(paced) : mark'[s] \in {"packet", "handler"}
    BY <1>0, <2>1, <2>2 DEF SignalInv
  <2>4. UNCHANGED <<signalVars, freed>>
    BY <1>9 DEF resolve_when_presented
  <2>5. QED  BY <1>0, <2>3, <2>4 DEF SignalInv, signalVars
<1>10. CASE Flush \/ Present \/ \E l \in Latencies : set_maximum_frame_latency(l)
  BY <1>1, <1>10 DEF Flush, Present, set_maximum_frame_latency
<1>11. CASE ApiStep
  BY <1>1, <1>11 DEF ApiStep, LoadDraw, LoadFloor, Wait, Sleep
<1>12. CASE Reset
  BY <1>0, <1>5, <1>12 DEF Reset
<1>13. CASE Shutdown
  BY <1>7, <1>13 DEF Shutdown
<1>14. CASE Commit \/ Push \/ retire_failed_submit \/ FailedRetired \/ EncodeFails
  BY <1>1, <1>14 DEF Commit, Push, retire_failed_submit, FailedRetired, EncodeFails
<1>15. CASE execute_submit
  BY <1>7, <1>15 DEF execute_submit
<1>16. ASSUME NEW s \in Seqs, GpuEnds(s) \/ HandlerRetires(s) \/ retired(s)
       PROVE  Goal
  BY <1>1, <1>16 DEF GpuEnds, HandlerRetires, retired
<1>17. CASE WaiterRetires
  BY <1>1, <1>17 DEF WaiterRetires
<1>18. CASE drop_front \/ drop_unshown \/ drop_occluded
  BY <1>3, <1>18 DEF drop_front, drop_unshown, drop_occluded, DropFront
<1>19. CASE Release
  BY <1>0, <1>5, <1>19 DEF Release
<1>20. CASE Done \/ UNCHANGED vars
  BY <1>1, <1>20 DEF Done, vars
<1>21. QED
  BY <1>2, <1>4, <1>6, <1>8, <1>9, <1>10, <1>11, <1>12, <1>13, <1>14, <1>15, <1>16, <1>17,
     <1>18, <1>19, <1>20 DEF Next, SubmitStep, PresenterStep

-----------------------------------------------------------------------------
(* The types *)

\* retire_finished moves the counter over buffers that ended, or not at all.
LEMMA RetiredFacts ==
    ASSUME TypeOK
    PROVE  /\ Retired \in 0..MaxSeq /\ draw <= Retired
           /\ \/ Retired = draw
              \/ /\ Retired \in Seqs /\ gpu[Retired] # "none"
                 /\ \A t \in 1..Retired : gpu[t] # "committed"
<1> DEFINE covered == {s \in Seqs : gpu[s] # "none" /\ \A t \in 1..s : gpu[t] # "committed"}
           all == covered \cup {draw}
<1>1. all \in SUBSET (0..MaxSeq) /\ all # {} /\ MaxSeq \in Nat
  BY LatencyAssumption DEF TypeOK, Seqs
<1>2. Retired = Max(all)
  BY DEF Retired
<1> HIDE DEF all
<1>3. Retired \in all /\ \A y \in all : Retired >= y
  BY <1>1, <1>2, MaxFacts
<1>4. draw <= Retired
  BY <1>1, <1>3 DEF all
<1>5. QED  BY <1>1, <1>3, <1>4 DEF all

\* Remainders within two turns of the ring.
LEMMA Remainder ==
    ASSUME NEW m \in Nat \ {0}, NEW x \in Nat, x < 2 * m
    PROVE  x % m = IF x < m THEN x ELSE x - m
<1>1. CASE x < m
  BY <1>1
<1>2. CASE x >= m
  BY <1>2
<1>3. QED  BY <1>1, <1>2

\* The slot j behind n, and the one after n.
LEMMA SlotFacts ==
    ASSUME NEW n \in 0..(Ring - 1), NEW j \in 0..(Ring - 1)
    PROVE  /\ Slot(n, j) = IF j <= n THEN n - j ELSE n + Ring - j
           /\ Slot(n, j) \in 0..(Ring - 1)
           /\ (n + 1) % Ring = IF n = Ring - 1 THEN 0 ELSE n + 1
           /\ (n + 1) % Ring \in 0..(Ring - 1)
<1> DEFINE x == n + Ring - j
           y == n + 1
<1>1. Ring \in Nat \ {0} /\ x \in Nat /\ y \in Nat /\ x < 2 * Ring /\ y < 2 * Ring
  BY LatencyAssumption
<1> HIDE DEF x, y
<1>2. x % Ring = IF x < Ring THEN x ELSE x - Ring
  BY <1>1, Remainder
<1>3. y % Ring = IF y < Ring THEN y ELSE y - Ring
  BY <1>1, Remainder
<1>4. QED  BY <1>1, <1>2, <1>3 DEF Slot, x, y

\* Every step keeps the types; the signal's own are SignalStep's.
LEMMA TypeStep ==
    ASSUME TypeOK, SubmitInv, [Next]_vars, floor' \in 0..MaxSeq, paced' \in Seq(Seqs)
    PROVE  TypeOK'
<1> USE LatencyAssumption DEF TypeOK, Seqs, Waiting, BufferStates
<1>0. Current \in Nat /\ (submit \notin {"idle", "failed"} => Current \in Seqs)
  BY DEF SubmitInv, Current
<1>1. CASE Flush
  BY <1>1 DEF Flush, signalVars, pipeVars
<1>2. CASE Present
  <2>1. /\ newest' = (newest + 1) % Ring
        /\ presents' = [presents EXCEPT ![newest'] = seq + 1]
        /\ target' = presents'[Slot(newest', latency)]
    BY <1>2 DEF Present, record_present, Slot
  <2>2. newest' \in 0..(Ring - 1) /\ Slot(newest', latency) \in 0..(Ring - 1)
    <3>1. newest \in 0..(Ring - 1) /\ 0 \in 0..(Ring - 1) /\ latency \in 0..(Ring - 1)
      OBVIOUS
    <3>2. (newest + 1) % Ring \in 0..(Ring - 1)
      BY <3>1, SlotFacts
    <3>3. QED  BY <2>1, <3>1, <3>2, SlotFacts
  <2>3. presents' \in [0..(Ring - 1) -> 0..MaxSeq] /\ target' \in 0..MaxSeq
    <3>1. seq + 1 \in 0..MaxSeq
      BY <1>2 DEF Present
    <3>2. QED  BY <2>1, <2>2, <3>1
  <2>4. seq' \in 0..MaxSeq /\ presenting' \subseteq Seqs
    BY <1>2 DEF Present
  <2>5. bound' \in 0..(Ring - 1) /\ api' \in {"ready", "recorded"}
    BY <1>2 DEF Present
  <2>6. UNCHANGED <<latency, signalVars, draw, freed, pipeVars, gpu, mark, releasing>>
    BY <1>2 DEF Present
  <2>7. QED  BY <2>2, <2>3, <2>4, <2>5, <2>6 DEF signalVars, pipeVars
<1>3. ASSUME NEW l \in Latencies, set_maximum_frame_latency(l)
      PROVE  TypeOK'
  BY <1>3 DEF set_maximum_frame_latency, signalVars, pipeVars
<1>4. CASE ApiStep
  <2>1. \A place : Goto(place) => target' \in 0..MaxSeq
    BY DEF Goto
  <2>2. QED
    BY <1>4, <2>1 DEF ApiStep, LoadDraw, LoadFloor, Wait, Sleep, Goto, signalVars, pipeVars
<1>5. CASE CapFires
  BY <1>5 DEF CapFires, Goto, pipeVars
<1>6. CASE Reset \/ Shutdown
  BY <1>6 DEF Reset, Shutdown, release_through, end, publish, Notified, apiVars, pipeVars
<1>7. CASE Destroyed
  BY <1>7 DEF Destroyed, apiVars, signalVars, pipeVars
<1>8. ASSUME NEW waits \in BOOLEAN, Note(waits)
      PROVE  TypeOK'
  <2>1. Current \in Seqs
    BY <1>8 DEF Note, Current
  <2>2. latest' \in 0..MaxSeq /\ mark' \in [Seqs -> {"none", "packet", "handler"}]
    <3>1. note_submission(Current, waits)
      BY <1>8 DEF Note
    <3> HIDE DEF Current
    <3>2. latest' \in {latest, Current}
      BY <3>1 DEF note_submission, Max2
    <3>3. mark' \in [Seqs -> {"none", "packet", "handler"}]
      BY <2>1, <3>1 DEF note_submission
    <3>4. QED  BY <2>1, <3>2, <3>3
  <2>3. QED  BY <1>8, <2>2 DEF Note, note_submission, publish, Notified, apiVars
<1>9. CASE Commit
  BY <1>0, <1>9 DEF Commit, apiVars, signalVars
<1>10. CASE Push
  <2>1. Current \in Seqs
    BY <1>0, <1>10 DEF Push
  <2> HIDE DEF Current
  <2>2. submitted' \in 0..MaxSeq
    BY <1>10, <2>1 DEF Push
  <2>3. queue' \in Seq(Seqs)
    <3>1. Append(queue, Current) \in Seq(Seqs)
      BY <2>1
    <3>2. QED  BY <1>10, <3>1 DEF Push
  <2>4. QED  BY <1>10, <2>2, <2>3 DEF Push, apiVars, signalVars
<1>11. CASE EncodeFails
  BY <1>11 DEF EncodeFails, apiVars, signalVars
<1>12. CASE retire_failed_submit
  BY <1>0, <1>12 DEF retire_failed_submit, Max2, apiVars, signalVars
<1>13. CASE FailedRetired
  BY <1>13 DEF FailedRetired, Notified, apiVars, signalVars
<1>14. CASE execute_submit
  <2>1. submitted' \in 0..MaxSeq
    BY <1>0, <1>14 DEF execute_submit
  <2>2. QED  BY <1>14, <2>1 DEF execute_submit, end, Notified, apiVars
<1>15. ASSUME NEW s \in Seqs, GpuEnds(s)
       PROVE  TypeOK'
  BY <1>15 DEF GpuEnds, apiVars, signalVars, pipeVars
<1>16. ASSUME NEW s \in Seqs, HandlerRetires(s)
       PROVE  TypeOK'
  BY <1>16, RetiredFacts, SMTT(30) DEF HandlerRetires, apiVars, signalVars, pipeVars
<1>17. ASSUME NEW s \in Seqs, retired(s)
       PROVE  TypeOK'
  BY <1>17 DEF retired, Notified, apiVars, signalVars, pipeVars
<1>18. CASE WaiterRetires
  BY <1>18, RetiredFacts DEF WaiterRetires, apiVars, signalVars, pipeVars
<1>19. ASSUME NEW s \in Seqs, resolve(s)
       PROVE  /\ latest' \in 0..MaxSeq /\ attached' \in BOOLEAN /\ ended' \in BOOLEAN
              /\ api' \in {"ready", "recorded", "loaded", "await"} \cup Waiting
  BY <1>19 DEF resolve, publish, Notified
<1>20. ASSUME NEW s \in Seqs, Presented(s)
       PROVE  TypeOK'
  BY <1>19, <1>20 DEF Presented, apiVars, pipeVars
<1>21. ASSUME NEW through \in 0..MaxSeq, DropFront(through)
       PROVE  TypeOK'
  <2>1. Head(queue) \in Seqs /\ Tail(queue) \in Seq(Seqs)
    BY <1>21 DEF DropFront
  <2>2. QED  BY <1>19, <1>21, <2>1 DEF DropFront, apiVars
<1>22. CASE drop_front \/ drop_unshown \/ drop_occluded
  <2>1. queue # <<>> => Head(queue) \in 0..MaxSeq
    <3>1. queue # <<>> => Head(queue) \in Seqs
      OBVIOUS
    <3>2. QED  BY <3>1
  <2>2. 0 \in 0..MaxSeq /\ MaxSeq \in 0..MaxSeq
    OBVIOUS
  <2> HIDE DEF TypeOK
  <2>3. QED  BY <1>21, <1>22, <2>1, <2>2 DEF drop_front, drop_unshown, drop_occluded
<1>23. CASE Release
  BY <1>23 DEF Release, release_through, publish, Notified, apiVars, pipeVars
<1>24. CASE resolve_when_presented
  <2>1. Head(queue) \in Seqs /\ Tail(queue) \in Seq(Seqs)
    BY <1>24 DEF resolve_when_presented
  <2>2. QED  BY <1>24, <2>1 DEF resolve_when_presented, apiVars, signalVars
<1>25. CASE Done \/ UNCHANGED vars
  <2>1. /\ UNCHANGED <<seq, presenting, presents, newest, latency, bound, api, target>>
        /\ UNCHANGED <<paced, latest, attached, ended, draw, floor, freed>>
        /\ UNCHANGED <<submit, submitted, gpu, queue, mark, releasing>>
    BY <1>25 DEF Done, vars, apiVars, signalVars, pipeVars
  <2>2. QED  BY <2>1
<1>26. QED
  BY <1>1, <1>2, <1>3, <1>4, <1>5, <1>6, <1>7, <1>8, <1>9, <1>10, <1>11, <1>12, <1>13, <1>14,
     <1>15, <1>16, <1>17, <1>18, <1>20, <1>22, <1>23, <1>24, <1>25
     DEF Next, SubmitStep, PresenterStep

-----------------------------------------------------------------------------
(* The submit thread and the draw counter *)

\* The submit thread takes the submissions in order, and commits only its own.
LEMMA SubmitThreadStep ==
    ASSUME TypeOK, SubmitInv, [Next]_vars
    PROVE  SubmitInv'
<1> USE LatencyAssumption DEF Seqs, Current
<1>0. /\ seq \in Nat /\ submitted \in Nat /\ latest \in Nat
      /\ gpu \in [Seqs -> BufferStates]
  BY DEF TypeOK
<1>1. ASSUME UNCHANGED <<submit, submitted, latest, gpu>>, seq' \in {seq, seq + 1}
      PROVE  SubmitInv'
  BY <1>0, <1>1 DEF SubmitInv
<1>2. ASSUME NEW waits \in BOOLEAN, Note(waits)
      PROVE  SubmitInv'
  <2>1. /\ submit = "idle" /\ submit' = "noted" /\ submitted < seq
        /\ UNCHANGED <<seq, submitted, gpu>> /\ note_submission(Current, waits)
    BY <1>2 DEF Note, apiVars
  <2>2. latest' \in {latest, Current}
    <3> HIDE DEF Current
    <3>1. QED  BY <2>1 DEF note_submission, Max2
  <2>3. QED  BY <1>0, <2>1, <2>2 DEF SubmitInv
<1>3. CASE Commit
  BY <1>0, <1>3 DEF Commit, SubmitInv, apiVars, signalVars
<1>4. CASE Push
  BY <1>0, <1>4 DEF Push, SubmitInv, apiVars, signalVars
<1>5. CASE EncodeFails \/ retire_failed_submit \/ FailedRetired
  BY <1>0, <1>5 DEF EncodeFails, retire_failed_submit, FailedRetired, SubmitInv, apiVars, signalVars
<1>6. CASE execute_submit
  BY <1>0, <1>6 DEF execute_submit, end, SubmitInv, apiVars
<1>7. ASSUME NEW s \in Seqs, NEW place \in BufferStates, gpu[s] # "none",
             gpu' = [gpu EXCEPT ![s] = place],
             UNCHANGED <<submit, submitted, latest, seq>>
      PROVE  SubmitInv'
  BY <1>0, <1>7 DEF SubmitInv
<1>8. ASSUME NEW s \in Seqs, GpuEnds(s) \/ HandlerRetires(s) \/ retired(s)
      PROVE  SubmitInv'
  BY <1>7, <1>8 DEF GpuEnds, HandlerRetires, retired, BufferStates, apiVars, signalVars, pipeVars
<1>9. CASE Flush \/ Present \/ \E l \in Latencies : set_maximum_frame_latency(l)
  BY <1>1, <1>9 DEF Flush, Present, set_maximum_frame_latency, signalVars, pipeVars
<1>10. CASE ApiStep \/ CapFires
  BY <1>1, <1>10 DEF ApiStep, LoadDraw, LoadFloor, Wait, Sleep, CapFires, Goto, signalVars, pipeVars
<1>11. CASE Reset \/ Shutdown \/ Destroyed \/ WaiterRetires
  BY <1>1, <1>11 DEF Reset, Shutdown, Destroyed, WaiterRetires, release_through, end,
                     apiVars, signalVars, pipeVars
<1>12. CASE \E s \in Seqs : Presented(s)
  BY <1>1, <1>12 DEF Presented, resolve, apiVars, pipeVars
<1>13. CASE PresenterStep
  BY <1>1, <1>13 DEF PresenterStep, drop_front, drop_unshown, drop_occluded, DropFront, resolve,
                     Release, release_through, resolve_when_presented, apiVars, signalVars, pipeVars
<1>14. CASE Done \/ UNCHANGED vars
  BY <1>1, <1>14 DEF Done, vars, apiVars, signalVars, pipeVars
<1>15. QED
  BY <1>2, <1>3, <1>4, <1>5, <1>6, <1>8, <1>9, <1>10, <1>11, <1>12, <1>13, <1>14 DEF Next, SubmitStep

\* A draw half that is over stays over.
LEMMA DrawnStays ==
    ASSUME TypeOK, SubmitInv, [Next]_vars, NEW s \in Seqs, Drawing(s)'
    PROVE  Drawing(s)
<1> USE LatencyAssumption DEF Seqs, Current
<1>0. submitted \in Nat /\ gpu \in [Seqs -> BufferStates]
  BY DEF TypeOK
<1>1. ASSUME UNCHANGED <<submit, submitted, gpu>>
      PROVE  Drawing(s)
  BY <1>1 DEF Drawing
<1>2. CASE Commit
  BY <1>0, <1>2 DEF Commit, SubmitInv, Drawing
<1>3. CASE Push \/ execute_submit
  BY <1>0, <1>3 DEF Push, execute_submit, Drawing
<1>4. CASE EncodeFails \/ retire_failed_submit \/ FailedRetired \/ \E waits \in BOOLEAN : Note(waits)
  BY <1>0, <1>4 DEF EncodeFails, retire_failed_submit, FailedRetired, Note, Drawing
<1>5. ASSUME NEW t \in Seqs, GpuEnds(t) \/ HandlerRetires(t) \/ retired(t)
      PROVE  Drawing(s)
  BY <1>0, <1>5 DEF GpuEnds, HandlerRetires, retired, pipeVars, Drawing
<1>6. CASE Flush \/ Present \/ \E l \in Latencies : set_maximum_frame_latency(l)
  BY <1>1, <1>6 DEF Flush, Present, set_maximum_frame_latency, pipeVars
<1>7. CASE ApiStep \/ CapFires
  BY <1>1, <1>7 DEF ApiStep, LoadDraw, LoadFloor, Wait, Sleep, CapFires, pipeVars
<1>8. CASE Reset \/ Shutdown \/ Destroyed \/ WaiterRetires \/ \E t \in Seqs : Presented(t)
  BY <1>1, <1>8 DEF Reset, Shutdown, Destroyed, WaiterRetires, Presented, pipeVars
<1>9. CASE PresenterStep
  BY <1>1, <1>9 DEF PresenterStep, drop_front, drop_unshown, drop_occluded, DropFront, Release,
                    resolve_when_presented, pipeVars
<1>10. CASE Done \/ UNCHANGED vars
  BY <1>1, <1>10 DEF Done, vars, pipeVars
<1>11. QED
  BY <1>2, <1>3, <1>4, <1>5, <1>6, <1>7, <1>8, <1>9, <1>10 DEF Next, SubmitStep

\* The draw counter moves up only, over buffers that ended or over a failed
\* submission with nothing committed before it.
LEMMA DrawMoves ==
    ASSUME TypeOK, [Next]_vars
    PROVE  /\ draw <= draw'
           /\ draw' = draw \/ draw' = Retired \/ retire_failed_submit
<1>0. draw \in Nat /\ submitted \in Nat /\ draw <= Retired
  BY RetiredFacts, LatencyAssumption DEF TypeOK
<1>1. ASSUME draw' = draw \/ draw' = Retired
      PROVE  draw <= draw' /\ (draw' = draw \/ draw' = Retired)
  BY <1>0, <1>1
<1>2. CASE retire_failed_submit
  BY <1>0, <1>2 DEF retire_failed_submit, Max2, Current
<1>3. CASE WaiterRetires \/ \E s \in Seqs : HandlerRetires(s)
  BY <1>1, <1>3 DEF WaiterRetires, HandlerRetires
<1>4. CASE Flush \/ Present \/ \E l \in Latencies : set_maximum_frame_latency(l)
  BY <1>1, <1>4 DEF Flush, Present, set_maximum_frame_latency
<1>5. CASE ApiStep \/ CapFires
  BY <1>1, <1>5 DEF ApiStep, LoadDraw, LoadFloor, Wait, Sleep, CapFires
<1>6. CASE Reset \/ Shutdown \/ Destroyed
  BY <1>1, <1>6 DEF Reset, Shutdown, Destroyed
<1>7. CASE Commit \/ Push \/ EncodeFails \/ FailedRetired \/ execute_submit
           \/ \E waits \in BOOLEAN : Note(waits)
  BY <1>1, <1>7 DEF Commit, Push, EncodeFails, FailedRetired, execute_submit, Note
<1>8. CASE \E s \in Seqs : GpuEnds(s) \/ retired(s) \/ Presented(s)
  BY <1>1, <1>8 DEF GpuEnds, retired, Presented
<1>9. CASE PresenterStep
  BY <1>1, <1>9 DEF PresenterStep, drop_front, drop_unshown, drop_occluded, DropFront, Release,
                    resolve_when_presented
<1>10. CASE Done \/ UNCHANGED vars
  BY <1>1, <1>10 DEF Done, vars
<1>11. QED
  BY <1>2, <1>3, <1>4, <1>5, <1>6, <1>7, <1>8, <1>9, <1>10 DEF Next, SubmitStep

LEMMA DrawStep ==
    ASSUME TypeOK, TypeOK', SubmitInv, DrawInv, [Next]_vars
    PROVE  DrawInv'
<1>0. /\ draw \in 0..MaxSeq /\ draw' \in 0..MaxSeq /\ submitted \in Nat /\ MaxSeq \in Nat
      /\ Retired \in 0..MaxSeq
  <2>1. Retired \in 0..MaxSeq
    BY RetiredFacts
  <2>2. QED  BY <2>1, LatencyAssumption, SMTT(30) DEF TypeOK
<1>1. SUFFICES ASSUME NEW s \in 1..draw', Drawing(s)'
               PROVE  FALSE
  BY DEF DrawInv
<1>2. s \in Seqs /\ s \in Nat /\ Drawing(s)
  <2>1. s \in Seqs /\ s \in Nat
    BY <1>0 DEF Seqs
  <2>2. QED  BY <1>1, <2>1, DrawnStays
<1>3. CASE draw' = draw
  BY <1>1, <1>2, <1>3 DEF DrawInv
<1>4. CASE draw' = Retired /\ draw' # draw
  <2>1. Retired \in Seqs /\ gpu[Retired] # "none" /\ \A t \in 1..Retired : gpu[t] # "committed"
    BY <1>4, RetiredFacts
  <2>2. Retired <= submitted + 1 /\ s <= Retired
    BY <1>0, <1>4, <2>1 DEF SubmitInv, Current, Seqs
  <2>3. gpu[s] # "committed"
    BY <1>4, <2>1
  <2>4. s > submitted /\ gpu[s] = "none"
    BY <1>2, <2>3 DEF Drawing
  <2>5. s = Retired
    BY <1>0, <1>2, <2>2, <2>4
  <2>6. QED  BY <2>1, <2>4, <2>5
<1>5. CASE retire_failed_submit
  <2>1. /\ \A t \in Seqs : gpu[t] # "committed"
        /\ draw' = Max2(draw, submitted + 1)
        /\ submit' = "published" /\ UNCHANGED <<gpu, submitted>>
    BY <1>5 DEF retire_failed_submit, Current
  <2>2. s > submitted /\ s # submitted + 1
    BY <1>1, <1>2, <2>1 DEF Drawing, Current
  <2>3. s <= draw
    BY <1>0, <1>2, <2>1, <2>2 DEF Max2
  <2>4. QED  BY <1>0, <1>2, <2>3 DEF DrawInv
<1>6. QED  BY <1>3, <1>4, <1>5, DrawMoves

\* What is finished stays finished.
LEMMA FinishedStays ==
    ASSUME TypeOK, SubmitInv, SignalInv, [Next]_vars, NEW s \in Seqs, Unfinished(s)'
    PROVE  Unfinished(s)
<1>1. CASE Drawing(s)'
  <2>1. Drawing(s)
    BY <1>1, DrawnStays
  <2>2. QED  BY <2>1 DEF Drawing, Unfinished
<1>2. CASE ~Drawing(s)'
  <2>1. s \in Range(paced')
    BY <1>2 DEF Drawing, Unfinished
  <2>2. s \in Range(paced) \cup Joins
    BY <2>1, SignalStep
  <2>3. CASE s \in Range(paced)
    BY <2>3 DEF Unfinished
  <2>4. CASE s \in Joins
    <3>1. submit = "idle" /\ s = submitted + 1
      BY <2>4 DEF Joins, Current
    <3>2. submitted \in Nat
      BY DEF TypeOK
    <3>3. gpu[s] = "none"
      BY <3>1, <3>2 DEF SubmitInv
    <3>4. QED  BY <3>1, <3>2, <3>3 DEF Unfinished
  <2>5. QED  BY <2>2, <2>3, <2>4
<1>3. QED  BY <1>1, <1>2

-----------------------------------------------------------------------------
(* The ring *)

\* Only Present moves the ring.
LEMMA RingMoves ==
    ASSUME [Next]_vars
    PROVE  Present \/ (UNCHANGED <<presenting, presents, newest, bound>> /\ seq' \in {seq, seq + 1})
<1>1. CASE Flush \/ \E l \in Latencies : set_maximum_frame_latency(l)
  BY <1>1 DEF Flush, set_maximum_frame_latency
<1>2. CASE ApiStep \/ CapFires
  BY <1>2 DEF ApiStep, LoadDraw, LoadFloor, Wait, Sleep, CapFires, Goto
<1>3. CASE Reset \/ Shutdown \/ Destroyed \/ WaiterRetires
  BY <1>3 DEF Reset, Shutdown, Destroyed, WaiterRetires, apiVars
<1>4. CASE SubmitStep \/ EncodeFails
  BY <1>4 DEF SubmitStep, Commit, Push, EncodeFails, retire_failed_submit, FailedRetired,
              execute_submit, Note, apiVars
<1>5. CASE \E s \in Seqs : GpuEnds(s) \/ HandlerRetires(s) \/ retired(s) \/ Presented(s)
  BY <1>5 DEF GpuEnds, HandlerRetires, retired, Presented, apiVars
<1>6. CASE PresenterStep
  BY <1>6 DEF PresenterStep, drop_front, drop_unshown, drop_occluded, DropFront, Release,
              resolve_when_presented, apiVars
<1>7. CASE Done \/ UNCHANGED vars
  BY <1>7 DEF Done, vars, apiVars
<1>8. QED  BY <1>1, <1>2, <1>3, <1>4, <1>5, <1>6, <1>7 DEF Next

\* A present recorded moves every entry one back.
LEMMA PresentShifts ==
    ASSUME TypeOK, Present
    PROVE  /\ Back(0)' = seq + 1
           /\ \A j \in 1..(Ring - 1) : Back(j)' = Back(j - 1)
           /\ target' = Back(latency)'
<1>0. /\ newest \in 0..(Ring - 1) /\ latency \in 1..(Ring - 1) /\ Ring \in Nat \ {0}
      /\ presents \in [0..(Ring - 1) -> 0..MaxSeq]
  BY LatencyAssumption DEF TypeOK
<1>1. /\ newest' = (newest + 1) % Ring
      /\ presents' = [presents EXCEPT ![newest'] = seq + 1]
      /\ target' = presents'[Slot(newest', latency)] /\ latency' = latency
  BY DEF Present, record_present, Slot
<1>2. newest' = (IF newest = Ring - 1 THEN 0 ELSE newest + 1) /\ newest' \in 0..(Ring - 1)
  BY <1>0, <1>1, SlotFacts
<1>3. \A j \in 0..(Ring - 1) :
          Slot(newest', j) = IF j <= newest' THEN newest' - j ELSE newest' + Ring - j
  BY <1>2, SlotFacts
<1>4. \A j \in 0..(Ring - 1) : Slot(newest, j) = IF j <= newest THEN newest - j ELSE newest + Ring - j
  BY <1>0, SlotFacts
<1>5. Slot(newest', 0) = newest'
  BY <1>0, <1>2, <1>3
<1>6. ASSUME NEW j \in 1..(Ring - 1)
      PROVE  Slot(newest', j) = Slot(newest, j - 1) /\ Slot(newest', j) # newest'
             /\ Slot(newest, j - 1) \in 0..(Ring - 1)
  <2>1. j \in 0..(Ring - 1) /\ j - 1 \in 0..(Ring - 1)
    BY <1>0
  <2>2. Slot(newest', j) = IF j <= newest' THEN newest' - j ELSE newest' + Ring - j
    BY <1>3, <2>1
  <2>3. Slot(newest, j - 1) = IF j - 1 <= newest THEN newest - (j - 1) ELSE newest + Ring - (j - 1)
    BY <1>4, <2>1
  <2>4. QED  BY <1>0, <1>2, <2>1, <2>2, <2>3
<1>7. Back(0)' = seq + 1
  BY <1>0, <1>1, <1>2, <1>5 DEF Back
<1>8. ASSUME NEW j \in 1..(Ring - 1)
      PROVE  Back(j)' = Back(j - 1)
  <2>1. presents'[Slot(newest', j)] = presents[Slot(newest, j - 1)]
    BY <1>0, <1>1, <1>6
  <2>2. QED  BY <2>1 DEF Back, Slot
<1>9. QED  BY <1>1, <1>7, <1>8 DEF Back, Slot

LEMMA RingStep ==
    ASSUME TypeOK, RingInv, [Next]_vars
    PROVE  RingInv'
<1>0. seq \in Nat /\ Ring \in Nat \ {0} /\ presenting \subseteq 1..seq
  BY LatencyAssumption DEF TypeOK, RingInv
<1>1. CASE Present
  <2>1. presenting' = presenting \cup {seq + 1} /\ seq' = seq + 1
    BY <1>1 DEF Present
  <2>2. Back(0)' = seq + 1 /\ \A j \in 1..(Ring - 1) : Back(j)' = Back(j - 1)
    BY <1>1, PresentShifts
  <2>3. SUFFICES ASSUME NEW s \in presenting', NEW j \in 0..(Ring - 1), s > Back(j)'
                 PROVE  \E i \in 0..(j - 1) : s = Back(i)'
    BY <1>0, <2>1 DEF RingInv
  <2>4. j \in 1..(Ring - 1)
    BY <1>0, <2>1, <2>2, <2>3
  <2>5. CASE s = seq + 1
    BY <2>2, <2>4, <2>5
  <2>6. CASE s \in presenting
    <3>1. j - 1 \in 0..(Ring - 1) /\ s > Back(j - 1)
      BY <1>0, <2>2, <2>3, <2>4
    <3>2. PICK i \in 0..((j - 1) - 1) : s = Back(i)
      BY <2>6, <3>1 DEF RingInv
    <3>3. i + 1 \in 1..(Ring - 1) /\ i + 1 \in 0..(j - 1) /\ (i + 1) - 1 = i
      BY <1>0, <2>4
    <3>4. Back(i + 1)' = Back(i)
      BY <2>2, <3>3
    <3>5. QED  BY <3>2, <3>3, <3>4
  <2>7. QED  BY <2>1, <2>5, <2>6
<1>2. CASE UNCHANGED <<presenting, presents, newest, bound>> /\ seq' \in {seq, seq + 1}
  <2>1. \A j : Back(j)' = Back(j)
    BY <1>2 DEF Back, Slot
  <2>2. QED  BY <1>0, <1>2, <2>1 DEF RingInv
<1>3. QED  BY <1>1, <1>2, RingMoves

-----------------------------------------------------------------------------
(* The wait of Present *)

\* Outside Present's own steps, Present stays where it is or is woken.
LEMMA OthersOnlyWake ==
    ASSUME [Next]_vars, ~Present, ~ApiStep, ~CapFires
    PROVE  UNCHANGED <<bound, target, newest, presents>> /\ api' \in {api, Notified}
<1>1. CASE Flush \/ \E l \in Latencies : set_maximum_frame_latency(l)
  BY <1>1 DEF Flush, set_maximum_frame_latency
<1>2. CASE Reset \/ Shutdown \/ Destroyed \/ WaiterRetires
  BY <1>2 DEF Reset, Shutdown, Destroyed, WaiterRetires, release_through, publish, end, apiVars
<1>3. CASE \E waits \in BOOLEAN : Note(waits)
  BY <1>3 DEF Note, note_submission, publish, apiVars
<1>4. CASE Commit \/ Push \/ EncodeFails \/ retire_failed_submit \/ FailedRetired \/ execute_submit
  BY <1>4 DEF Commit, Push, EncodeFails, retire_failed_submit, FailedRetired, execute_submit, end,
              apiVars
<1>5. CASE \E s \in Seqs : GpuEnds(s) \/ HandlerRetires(s) \/ retired(s)
  BY <1>5 DEF GpuEnds, HandlerRetires, retired, apiVars
<1>6. CASE \E s \in Seqs : Presented(s)
  BY <1>6 DEF Presented, resolve, publish, apiVars
<1>7. CASE PresenterStep
  BY <1>7 DEF PresenterStep, drop_front, drop_unshown, drop_occluded, DropFront, resolve, Release,
              release_through, publish, resolve_when_presented, apiVars
<1>8. CASE Done \/ UNCHANGED vars
  BY <1>8 DEF Done, vars, apiVars
<1>9. QED  BY <1>1, <1>2, <1>3, <1>4, <1>5, <1>6, <1>7, <1>8 DEF Next, SubmitStep

\* What one pass of the wait may do.
LEMMA WaitPlaces ==
    ASSUME TypeOK, Wait
    PROVE  \/ Goto("ready") /\ ended
           \/ Goto("ready") /\ draw >= target /\ floor_of(paced, latest) >= target
           \/ Goto("reading")
           \/ Goto("timed") /\ draw >= target
<1>1. draw \in Nat /\ target \in Nat /\ ended \in BOOLEAN
  BY LatencyAssumption DEF TypeOK
<1>2. CASE ended
  BY <1>2 DEF Wait
<1>3. CASE ~ended /\ draw < target
  BY <1>3 DEF Wait
<1>4. CASE ~ended /\ draw >= target /\ floor_of(paced, latest) >= target
  BY <1>1, <1>4 DEF Wait
<1>5. CASE ~ended /\ draw >= target /\ ~(floor_of(paced, latest) >= target)
  BY <1>1, <1>5 DEF Wait
<1>6. QED  BY <1>1, <1>2, <1>3, <1>4, <1>5

LEMMA TargetStep ==
    ASSUME TypeOK, TypeOK', TargetInv, [Next]_vars
    PROVE  TargetInv'
<1>0. draw \in Nat /\ draw' \in Nat /\ target \in Nat /\ draw <= draw' /\ latency \in 1..(Ring - 1)
  <2>1. draw <= draw'
    BY DrawMoves
  <2>2. QED  BY <2>1, LatencyAssumption, SMTT(30) DEF TypeOK
<1>1. CASE Present
  <2>1. target' = Back(latency)' /\ latency' = latency /\ bound' = latency
        /\ api' = IF target' = 0 THEN "ready" ELSE "recorded"
    BY <1>1, PresentShifts DEF Present
  <2>2. Back(latency)' = Back(bound)'
    BY <2>1 DEF Back, Slot
  <2>3. QED  BY <1>0, <2>1, <2>2 DEF TargetInv
<1>2. ASSUME NEW place, Goto(place), api # "ready", place \in {"loaded", "timed"} => draw >= target
      PROVE  TargetInv'
  <2>1. /\ api' = place /\ UNCHANGED <<bound, newest, presents>>
        /\ place # "ready" => target' = target
    BY <1>2 DEF Goto
  <2>2. Back(bound)' = Back(bound)
    BY <2>1 DEF Back, Slot
  <2>3. QED  BY <1>0, <1>2, <2>1, <2>2 DEF TargetInv
<1>3. CASE LoadDraw \/ LoadFloor \/ Sleep \/ CapFires
  BY <1>0, <1>2, <1>3 DEF LoadDraw, LoadFloor, Sleep, CapFires
<1>4. CASE Wait
  <2>1. api # "ready"
    BY <1>4 DEF Wait
  <2>2. QED  BY <1>2, <1>4, <2>1, WaitPlaces
<1>5. CASE ~Present /\ ~ApiStep /\ ~CapFires
  <2>1. UNCHANGED <<bound, target, newest, presents>> /\ api' \in {api, Notified}
    BY <1>5, OthersOnlyWake
  <2>2. Back(bound)' = Back(bound)
    BY <2>1 DEF Back, Slot
  <2>3. (api' # "ready" => api # "ready") /\ (api' \in {"loaded", "timed"} => api' = api)
    BY <2>1 DEF Notified
  <2>4. QED  BY <1>0, <2>1, <2>2, <2>3 DEF TargetInv
<1>6. QED  BY <1>1, <1>3, <1>4, <1>5 DEF ApiStep

\* A signal that ended stays ended.
LEMMA EndedStays ==
    ASSUME [Next]_vars, ended
    PROVE  ended'
<1>1. CASE Flush \/ Present \/ \E l \in Latencies : set_maximum_frame_latency(l)
  BY <1>1 DEF Flush, Present, set_maximum_frame_latency, signalVars
<1>2. CASE ApiStep \/ CapFires
  BY <1>2 DEF ApiStep, LoadDraw, LoadFloor, Wait, Sleep, CapFires, signalVars
<1>3. CASE Reset \/ Shutdown \/ Destroyed \/ WaiterRetires
  BY <1>3 DEF Reset, Shutdown, Destroyed, WaiterRetires, release_through, end, signalVars
<1>4. CASE SubmitStep \/ EncodeFails
  BY <1>4 DEF SubmitStep, Commit, Push, EncodeFails, retire_failed_submit, FailedRetired,
              execute_submit, end, Note, note_submission, signalVars
<1>5. CASE \E s \in Seqs : GpuEnds(s) \/ HandlerRetires(s) \/ retired(s) \/ Presented(s)
  BY <1>5 DEF GpuEnds, HandlerRetires, retired, Presented, resolve, signalVars
<1>6. CASE PresenterStep
  BY <1>6 DEF PresenterStep, drop_front, drop_unshown, drop_occluded, DropFront, resolve, Release,
              release_through, resolve_when_presented, signalVars
<1>7. CASE Done \/ UNCHANGED vars
  BY <1>7 DEF Done, vars, signalVars
<1>8. QED  BY <1>1, <1>2, <1>3, <1>4, <1>5, <1>6, <1>7 DEF Next

\* The three ways a wait returns on a live signal all find everything up to the
\* target finished.
LEMMA ReturnsFinished ==
    ASSUME LatencyInv, [Next]_vars, api # "ready", api' = "ready", ~ended',
           NEW s \in 1..target
    PROVE  ~Unfinished(s)'
<1>0. /\ s \in Seqs /\ s \in Nat /\ target \in Nat /\ draw \in Nat /\ floor \in Nat
      /\ latest \in 0..MaxSeq /\ paced \in Seq(Seqs) /\ Range(paced) \subseteq Seqs
  <2>1. /\ target \in 0..MaxSeq /\ draw \in 0..MaxSeq /\ floor \in 0..MaxSeq /\ MaxSeq \in Nat
        /\ latest \in 0..MaxSeq /\ paced \in Seq(Seqs)
    BY LatencyAssumption DEF LatencyInv, TypeOK
  <2>2. Range(paced) \subseteq Seqs
    BY <2>1, SMTT(30) DEF Range
  <2>3. s \in Seqs /\ s \in Nat /\ target \in Nat /\ draw \in Nat /\ floor \in Nat
    BY <2>1 DEF Seqs
  <2>4. QED  BY <2>1, <2>2, <2>3
<1>1. ASSUME target <= draw
      PROVE  ~Drawing(s)
  BY <1>0, <1>1 DEF LatencyInv, DrawInv
<1>2. ASSUME target <= draw, s \notin Range(paced)
      PROVE  ~Unfinished(s)'
  <2>1. ~Unfinished(s)
    BY <1>1, <1>2 DEF Drawing, Unfinished
  <2>2. QED  BY <1>0, <2>1, FinishedStays DEF LatencyInv
<1>3. CASE LoadFloor
  <2>1. api = "loaded" /\ floor >= target
    BY <1>3 DEF LoadFloor, Goto
  <2>2. s \notin Range(paced)
    BY <1>0, <2>1 DEF LatencyInv, SignalInv
  <2>3. target <= draw
    BY <2>1 DEF LatencyInv, TargetInv
  <2>4. QED  BY <1>2, <2>2, <2>3
<1>4. CASE Wait
  <2>1. ended' = ended
    BY <1>4 DEF Wait, signalVars
  <2>2. draw >= target /\ floor_of(paced, latest) >= target
    BY <1>4, <2>1, WaitPlaces DEF LatencyInv, Goto
  <2>3. \A x \in Range(paced) : floor_of(paced, latest) < x
    BY <1>0, FloorIsBelow DEF LatencyInv, SignalInv
  <2>4. floor_of(paced, latest) \in 0..MaxSeq
    BY <1>0, FloorIsBelow DEF LatencyInv, SignalInv
  <2>5. s \notin Range(paced)
    BY <1>0, <2>2, <2>3, <2>4
  <2>6. QED  BY <1>0, <1>2, <2>2, <2>5
<1>5. CASE CapFires
  <2>1. api = "timed" /\ paced' = Above(paced, target)
    BY <1>5 DEF CapFires
  <2>2. paced \in Seq(Seqs) /\ Seqs \in SUBSET Nat /\ Ascending(paced)
    BY <1>0, LatencyAssumption DEF LatencyInv, SignalInv, Seqs
  <2>3. Range(paced') = {x \in Range(paced) : x > target}
    BY <1>0, <2>1, <2>2, AboveFacts
  <2>4. target <= draw
    BY <2>1 DEF LatencyInv, TargetInv
  <2>5. ~Drawing(s)'
    BY <1>0, <1>1, <2>4, DrawnStays DEF LatencyInv
  <2>6. s \notin Range(paced')
    BY <1>0, <2>3
  <2>7. QED  BY <2>5, <2>6 DEF Drawing, Unfinished
<1>6. CASE LoadDraw \/ Sleep
  BY <1>6 DEF LoadDraw, Sleep, Goto
<1>7. CASE Present
  BY <1>7 DEF Present
<1>8. CASE ~Present /\ ~ApiStep /\ ~CapFires
  BY <1>8, OthersOnlyWake DEF Notified
<1>9. QED  BY <1>3, <1>4, <1>5, <1>6, <1>7, <1>8 DEF ApiStep

LEMMA ReturnStep ==
    ASSUME LatencyInv, [Next]_vars
    PROVE  ReturnInv'
<1>1. SUFFICES ASSUME api' = "ready", ~ended', bound' # 0, NEW s \in 1..Back(bound)'
               PROVE  ~Unfinished(s)'
  BY DEF ReturnInv
<1>2. CASE Present
  <2>1. target' = Back(latency)' /\ latency' = latency /\ bound' = latency /\ target' = 0
    <3>1. TypeOK
      BY DEF LatencyInv
    <3>2. QED  BY <1>1, <1>2, <3>1, PresentShifts DEF Present
  <2>2. Back(bound)' = 0
    BY <2>1 DEF Back, Slot
  <2>3. QED  BY <2>2
<1>3. CASE UNCHANGED <<presents, newest, bound>>
  <2>1. Back(bound)' = Back(bound)
    BY <1>3 DEF Back, Slot
  <2>2. CASE api = "ready"
    <3>1. ~ended
      BY <1>1, EndedStays
    <3>2. ~Unfinished(s)
      BY <1>1, <1>3, <2>1, <2>2, <3>1 DEF LatencyInv, ReturnInv
    <3>3. s \in Seqs
      <4>1. newest \in 0..(Ring - 1) /\ bound \in 0..(Ring - 1) /\ MaxSeq \in Nat
            /\ presents \in [0..(Ring - 1) -> 0..MaxSeq]
        BY LatencyAssumption DEF LatencyInv, TypeOK
      <4>2. Back(bound) \in 0..MaxSeq
        BY <4>1, SlotFacts DEF Back
      <4>3. QED  BY <1>1, <2>1, <4>1, <4>2 DEF Seqs
    <3>4. QED  BY <3>2, <3>3, FinishedStays DEF LatencyInv
  <2>3. CASE api # "ready"
    <3>1. Back(bound) = target
      BY <2>3 DEF LatencyInv, TargetInv
    <3>2. QED  BY <1>1, <2>1, <2>3, <3>1, ReturnsFinished
  <2>4. QED  BY <2>2, <2>3
<1>4. QED  BY <1>2, <1>3, RingMoves

-----------------------------------------------------------------------------
(* The theorems *)

LEMMA LatencyInit == Init => LatencyInv
<1> SUFFICES ASSUME Init PROVE LatencyInv
  OBVIOUS
<1>0. Range(paced) = {}
  BY DEF Init, Range
<1>1. TypeOK
  <2>1. latency \in 1..(Ring - 1) /\ 0 \in 0..(Ring - 1) /\ 0 \in 0..MaxSeq
    BY LatencyAssumption DEF Init
  <2>2. paced \in Seq(Seqs) /\ queue \in Seq(Seqs)
    BY DEF Init
  <2>3. QED  BY <2>1, <2>2 DEF Init, TypeOK, BufferStates
<1>2. SubmitInv /\ SignalInv /\ DrawInv /\ TargetInv /\ ReturnInv
  BY <1>0, LatencyAssumption, SMTT(30) DEF Init, SubmitInv, SignalInv, DrawInv, TargetInv, ReturnInv, Seqs,
                                 Ascending
<1>3. RingInv
  BY DEF Init, RingInv
<1>4. QED  BY <1>1, <1>2, <1>3 DEF LatencyInv

LEMMA LatencyNext == LatencyInv /\ [Next]_vars => LatencyInv'
<1> SUFFICES ASSUME LatencyInv, [Next]_vars PROVE LatencyInv'
  OBVIOUS
<1>1. TypeOK /\ SubmitInv /\ SignalInv /\ DrawInv /\ RingInv /\ TargetInv
  BY DEF LatencyInv
<1>2. SignalInv' /\ floor' \in 0..MaxSeq /\ paced' \in Seq(Seqs)
  BY <1>1, SignalStep
<1>3. TypeOK'
  BY <1>1, <1>2, TypeStep
<1>4. SubmitInv' /\ RingInv'
  BY <1>1, SubmitThreadStep, RingStep
<1>5. DrawInv' /\ TargetInv'
  BY <1>1, <1>3, DrawStep, TargetStep
<1>6. QED  BY <1>2, <1>3, <1>4, <1>5, ReturnStep DEF LatencyInv

\* The strengthened invariant holds of every behaviour.
THEOREM LatencyInvariant == Spec => []LatencyInv
BY LatencyInit, LatencyNext, PTL DEF Spec

\* A Present of bound L that returned leaves at most L presented frames
\* unfinished, whatever ring, latencies, flushes, drops and completions there were.
THEOREM AtMostLatencyFrames == Spec => []LatencyBound
<1>1. ASSUME LatencyInv, api = "ready", ~ended, bound # 0
      PROVE  Cardinality({s \in presenting : Unfinished(s)}) <= bound
  <2> DEFINE U == {s \in presenting : Unfinished(s)}
             T == {Back(i - 1) : i \in 1..bound}
             f == [i \in 1..bound |-> Back(i - 1)]
  <2>1. /\ bound \in Nat /\ bound \in 0..(Ring - 1) /\ newest \in 0..(Ring - 1) /\ Ring \in Nat
        /\ presents \in [0..(Ring - 1) -> 0..MaxSeq] /\ presenting \subseteq Seqs /\ MaxSeq \in Nat
    BY <1>1, LatencyAssumption, SMTT(30) DEF LatencyInv, TypeOK
  <2>2. Back(bound) \in 0..MaxSeq
    BY <2>1, SlotFacts DEF Back
  <2>3. U \subseteq T
    <3>1. SUFFICES ASSUME NEW s \in U
                   PROVE  s \in T
      OBVIOUS
    <3>2. s \in presenting /\ s \in Seqs /\ Unfinished(s)
      BY <2>1
    <3>3. s > Back(bound)
      BY <1>1, <2>1, <2>2, <3>2 DEF LatencyInv, ReturnInv, Seqs
    <3>4. PICK i \in 0..(bound - 1) : s = Back(i)
      BY <1>1, <2>1, <3>2, <3>3 DEF LatencyInv, RingInv
    <3>5. i + 1 \in 1..bound /\ (i + 1) - 1 = i
      BY <2>1
    <3>6. QED  BY <3>4, <3>5
  <2>4. f \in Surjection(1..bound, T)
    BY DEF Surjection
  <2>5. IsFiniteSet(1..bound) /\ Cardinality(1..bound) = bound
    <3>1. 1 \in Int /\ bound \in Int /\ ~(1 > bound) /\ bound - 1 + 1 = bound
      BY <1>1, <2>1
    <3>2. QED  BY <3>1, FS_Interval
  <2> HIDE DEF U, T, f
  <2>6. IsFiniteSet(T) /\ Cardinality(T) <= bound
    BY <2>4, <2>5, FS_Surjection
  <2>7. IsFiniteSet(U) /\ Cardinality(U) <= Cardinality(T)
    BY <2>3, <2>6, FS_Subset
  <2>8. Cardinality(U) \in Nat /\ Cardinality(T) \in Nat
    BY <2>6, <2>7, FS_CardinalityType
  <2>9. QED  BY <2>1, <2>6, <2>7, <2>8 DEF U
<1>2. LatencyInv => LatencyBound
  BY <1>1 DEF LatencyBound
<1>3. QED  BY <1>2, LatencyInvariant, PTL

\* The PE counter stands below every paced present still owed, and each of them
\* has a mark that will resolve it.
THEOREM FloorBelowOwed == Spec => []FloorIsSound
<1>1. LatencyInv => FloorIsSound
  BY DEF LatencyInv, SignalInv, FloorIsSound
<1>2. QED  BY <1>1, LatencyInvariant, PTL

\* Once the PE counters are freed no step writes the paced floor.
THEOREM FreedFloorStays == Spec => FreedFloorUntouched
<1>1. ASSUME LatencyInv, [Next]_vars, freed
      PROVE  floor' = floor
  <2>1. ~attached /\ ended
    BY <1>1 DEF LatencyInv, SignalInv
  <2>2. CASE Flush \/ Present \/ \E l \in Latencies : set_maximum_frame_latency(l)
    BY <2>2 DEF Flush, Present, set_maximum_frame_latency, signalVars
  <2>3. CASE ApiStep \/ CapFires
    BY <2>1, <2>3 DEF ApiStep, LoadDraw, LoadFloor, Wait, Sleep, CapFires, signalVars
  <2>4. CASE Reset \/ Shutdown \/ Destroyed \/ WaiterRetires
    BY <2>1, <2>4 DEF Reset, Shutdown, Destroyed, WaiterRetires, release_through, publish, end,
                      signalVars
  <2>5. CASE SubmitStep \/ EncodeFails
    BY <2>1, <2>5 DEF SubmitStep, Commit, Push, EncodeFails, retire_failed_submit, FailedRetired,
                      execute_submit, end, Note, note_submission, signalVars
  <2>6. CASE \E s \in Seqs : GpuEnds(s) \/ HandlerRetires(s) \/ retired(s) \/ Presented(s)
    BY <2>1, <2>6 DEF GpuEnds, HandlerRetires, retired, Presented, resolve, publish, signalVars
  <2>7. CASE PresenterStep
    BY <2>1, <2>7 DEF PresenterStep, drop_front, drop_unshown, drop_occluded, DropFront, resolve,
                      Release, release_through, publish, resolve_when_presented, signalVars
  <2>8. CASE Done \/ UNCHANGED vars
    BY <2>8 DEF Done, vars, signalVars
  <2>9. QED  BY <1>1, <2>2, <2>3, <2>4, <2>5, <2>6, <2>7, <2>8 DEF Next
<1>2. LatencyInv /\ [Next]_vars => [freed => floor' = floor]_vars
  BY <1>1
<1>3. QED  BY <1>2, LatencyInvariant, PTL DEF Spec, FreedFloorUntouched

=============================================================================
