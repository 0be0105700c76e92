--------------------------- MODULE VoodooTriangles ---------------------------
(***************************************************************************)
(* What the Voodoo's render threads promise the threads that use them:     *)
(* triangles are submitted, as long as there is room, and drawn.  Who      *)
(* needs the frame buffer waits until none is left.                        *)
(*                                                                         *)
(* VoodooFifo uses these steps; VoodooRender, which models the threads,    *)
(* the ring and the events, implements them.                               *)
(***************************************************************************)
EXTENDS Naturals

CONSTANT PARAM_SIZE     \* triangles the ring holds

ASSUME ParamAssumption == PARAM_SIZE \in Nat \ {0}

VARIABLE tris           \* triangles that some render thread has yet to draw

NoneLeft == tris = 0
Submit   == tris < PARAM_SIZE /\ tris' = tris + 1
Draw     == tris > 0 /\ tris' = tris - 1

TrianglesSpec == NoneLeft /\ [][Submit \/ Draw]_tris
==============================================================================
