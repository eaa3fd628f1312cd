--------------------------- MODULE MCRenderPasses ---------------------------
(* The back buffer with its depth-stencil surface, a texture target, a 1x1 target and a *)
(* shadow map; the calls are chosen so that every rule applies to some submission.      *)
EXTENDS RenderPasses

MCExtent == [bb |-> 3, rt |-> 3, px |-> 1, ds |-> 3, sh |-> 3]
MCStencilPlane == [ds |-> "st", sh |-> NoTex]

At(color, depth, viewport) == [color |-> color, depth |-> depth, viewport |-> viewport]
Draw(at, writes, tests, samples) ==
    [at |-> at, writes |-> writes, tests |-> tests, samples |-> samples]

MCDraws ==
    {Draw(At("bb", "ds", 3), {"color", "depth"}, {"depth"}, NoTex),
     Draw(At("bb", "ds", 3), {"depth"}, {"depth"}, NoTex),
     Draw(At("bb", "ds", 3), {"color", "stencil"}, {"stencil"}, "rt"),
     Draw(At("bb", "ds", 2), {"color"}, {"depth"}, "sh"),
     Draw(At("rt", NoTex, 3), {"color"}, {}, NoTex),
     Draw(At("px", "ds", 3), {"depth"}, {"depth"}, NoTex),
     Draw(At("px", "ds", 3), {"color", "depth"}, {"depth"}, NoTex)}
MCClears ==
    {[at |-> At("bb", "ds", 3), planes |-> {"color", "depth", "stencil"}],
     [at |-> At("bb", "ds", 2), planes |-> {"color", "depth"}],
     [at |-> At("rt", "ds", 3), planes |-> {"color"}],
     [at |-> At("px", "ds", 3), planes |-> {"depth", "stencil"}]}
MCCopies ==
    {[src |-> "bb", dst |-> "rt", cells |-> 3], [src |-> "rt", dst |-> "bb", cells |-> 2],
     [src |-> "ds", dst |-> "sh", cells |-> 3]}
MCStretches == {[src |-> "rt", dst |-> "bb"]}
=============================================================================
