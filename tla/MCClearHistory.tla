--------------------------- MODULE MCClearHistory ---------------------------
(* A scratch target, a depth surface sampled as a texture and the back buffer. *)
EXTENDS ClearHistory

CONSTANTS a, ds, bb

Depth == <<ds, "depth">>
MCPlanes == {Color(a), Color(bb), Depth}
Pass(writes, reads) == [writes |-> writes, reads |-> reads]
MCPasses ==
    {<<Pass({Color(a)}, {ds}), Pass({Color(bb), Depth}, {a})>>,
     <<Pass({Depth}, {a}), Pass({Color(a)}, {ds})>>,
     <<Pass({Color(bb)}, {a, ds})>>}
=============================================================================
