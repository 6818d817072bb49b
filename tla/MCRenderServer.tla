--------------------------- MODULE MCRenderServer ---------------------------
(* RenderServer with small constants. The calls a renderer's               *)
(* receiveMessage makes back into the object:                              *)
EXTENDS RenderServer

NoCalls  == {}
OnlyStop == {"stop"}

\* Whether the port can be bound.
AlwaysListens == {TRUE}
MayListen     == BOOLEAN
=============================================================================
