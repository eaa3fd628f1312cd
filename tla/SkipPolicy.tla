----------------------------- MODULE SkipPolicy -----------------------------
(***************************************************************************)
(* When a draw whose shader is still building may be left out of its frame, *)
(* stated over what happened in the last frames and without the bookkeeping *)
(* that remembers it.  A plane is rebuilt when it was cleared whole in this *)
(* frame and in the one before; a texture feeds kept content when it was    *)
(* read into a target that is not rebuilt within the last FeedMemory frames. *)
(***************************************************************************)
EXTENDS Integers, Sequences, FiniteSets

CONSTANTS Planes,       \* <<texture, plane>> pairs of the attachments
          BackBuffer,   \* the discarded back buffer, undefined at every frame start
          FeedMemory,   \* FEED_MEMORY_FRAMES
          Passes        \* the pass lists a submission may hold

Textures == {x[1] : x \in Planes}

VARIABLES now,      \* planes cleared whole in this frame
          before,   \* planes cleared whole in the frame before
          age       \* frames since a texture was read into kept content

vars == <<now, before, age>>

Never == FeedMemory + 1
Color(t) == <<t, "color">>

Rebuilt(x, n, fed) ==
    /\ x \in n \cap before \/ x = Color(BackBuffer)
    /\ x[1] \notin fed

Fed == {t \in Textures : age[t] # Never}

\* What a submission reads into kept content: the least set closed under "a
\* pass that writes a plane not rebuilt, or one already in the set, puts what it
\* samples into the set".  Only textures with a recent clear can be in it.
KeptReads(passes) ==
    LET tracked == {x[1] : x \in now \cup before}
        Closed(m) == \A i \in DOMAIN passes :
            (\E x \in passes[i].writes : ~Rebuilt(x, now, Fed \cup m))
                => passes[i].reads \cap tracked \subseteq m
        closed == {m \in SUBSET tracked : Closed(m)}
    IN  {t \in tracked : \A m \in closed : t \in m}

Init == now = {} /\ before = {} /\ age = [t \in Textures |-> Never]

Frame ==
    /\ before' = now /\ now' = {}
    /\ age' = [t \in Textures |-> IF age[t] = Never THEN Never ELSE age[t] + 1]

Clear(x) == now' = now \cup {x} /\ UNCHANGED <<before, age>>

Copy(src, dst, whole) ==
    LET n == IF whole THEN now \cup {Color(dst)} ELSE now IN
    /\ now' = n
    /\ age' = IF Rebuilt(Color(dst), n, Fed) THEN age ELSE [age EXCEPT ![src] = 0]
    /\ UNCHANGED before

Submit(passes) ==
    /\ age' = [t \in Textures |-> IF t \in KeptReads(passes) THEN 0 ELSE age[t]]
    /\ UNCHANGED <<now, before>>

Forget(t) ==
    /\ now' = {x \in now : x[1] # t} /\ before' = {x \in before : x[1] # t}
    /\ age' = [age EXCEPT ![t] = Never]

Reset ==
    /\ now' = {} /\ before' = {} /\ age' = [t \in Textures |-> Never]

\* A draw testing or writing these planes may be left out.
MaySkip(planes) == \A x \in planes : Rebuilt(x, now, Fed)

Next ==
    \/ Frame \/ Reset
    \/ \E x \in Planes : Clear(x)
    \/ \E s, d \in Textures : \E w \in {FALSE, Color(d) \in Planes} : Copy(s, d, w)
    \/ \E passes \in Passes : Submit(passes)
    \/ \E t \in Textures : Forget(t)

Spec == Init /\ [][Next]_vars
=============================================================================
