----------------------------- MODULE MCWorkers -----------------------------
(* Model checking of CompileWorkers and MemWatch: the threads that work beside *)
(* the frame, and who waits for them. The two share no state, so a behaviour   *)
(* moves one of them: the states are their sum and not their product.          *)
EXTENDS MemWatch

CONSTANTS Pipelines, VsOf, PsOf, Twin, Twins, Fallible, MaxWorkers, MaxDraws, MaxSubmits,
          MaxResets

\* Two pipelines over three libraries.
MCPipelines == {"p1", "p2"}
MCVsOf == [p1 |-> "v", p2 |-> "v"]
MCPsOf == [p1 |-> "f", p2 |-> "g"]
MCTwin == [p1 |-> "q1", p2 |-> "q2"]
MCTwins == {"p1"}
MCFallible == {"f", "p1", "q1"}

VARIABLES
    part,       \* the component this behaviour moves
    enc, ready, running, results, pc, draws, submitted, made, count

C == INSTANCE CompileWorkers

compileVars == <<enc, ready, running, results, pc, draws, submitted, made, count>>
all == <<part, vars, compileVars>>

\* Where compiling rests it has no workers: nothing of it is enabled that
\* fairness would ask for.
MCInit ==
    /\ part \in {"compile", "watch"}
    /\ C!Init /\ Init
    /\ part = "watch" => ready = 0

MCNext ==
    \/ part = "compile" /\ C!Next /\ UNCHANGED <<part, vars>>
    \/ part = "watch" /\ Next /\ UNCHANGED <<part, compileVars>>

MCSpec == MCInit /\ [][MCNext]_all /\ C!Fairness /\ Fairness

-----------------------------------------------------------------------------
(* CompileWorkers: a build in flight is in exactly one place and reports once, *)
(* and teardown leaves no Metal object behind (async_compile.rs, compile.rs).  *)
JobsAccounted == C!JobsAccounted

(* CompileWorkers: a submission hands on no placeholder, and a deferred draw   *)
(* goes missing only because a build of its own failed (compile.rs,            *)
(* resolve_deferred_draws).                                                    *)
SubmissionIsExact == C!SubmissionIsExact

(* Every wait ends: the encoder's for builds, with workers busy, idle or never *)
(* started (wait_until_installed, finish_compiles); the sampler's for an       *)
(* answer (await_answer); a present's for the device's lock and a release's    *)
(* for the watch thread (ApiLock::enter, mem_watch.rs drop).                   *)
WaitsEnd ==
    (C!EncoderWaits \/ Waits) ~> ~(C!EncoderWaits \/ Waits)
=============================================================================
