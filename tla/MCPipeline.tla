----------------------------- MODULE MCPipeline -----------------------------
(* Instances of Pipeline for TLC.                                          *)
EXTENDS Pipeline, TLC

CONSTANTS h1, h2, a, b

\* h2 takes the role b away from the node.
TwoThenOne  == (h1 :> {a, b}) @@ (h2 :> {a})

\* Neither describes the role a.
Described == (h1 :> {b}) @@ (h2 :> {})
=============================================================================
