--------------------------- MODULE MCPipelineNet ----------------------------
(* A tree of five pipelines: two ways into b, which prefixes and goes on.  *)
(*     a --prefix--> b --prefix--> d (the application's sink)              *)
(*     c --remap---> b             e --forward--> d                        *)
EXTENDS PipelineNet, TLC

CONSTANTS a, b, c, d, e

MCPipes == {a, b, c, d, e}
MCKind == a :> "prefix" @@ b :> "prefix" @@ c :> "remap" @@ d :> "app" @@ e :> "forward"
MCTarget == a :> b @@ b :> d @@ c :> b @@ d :> d @@ e :> d
MCHops == a :> 2 @@ b :> 1 @@ c :> 2 @@ d :> 0 @@ e :> 1
=============================================================================
