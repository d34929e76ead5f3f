------------------------------ MODULE FrameIO ------------------------------
(***************************************************************************)
(* What a receive path of the NanoCore firmware promises its caller: the  *)
(* frames that arrive from the wire are handed over one at a time, in      *)
(* arrival order, each with the length the NIC reported for it, and every *)
(* frame that arrives is eventually handed over.  rv_recv (RvNetif) and    *)
(* ethernetif_input with low_level_input (LwipNetif) both implement it;   *)
(* their MC runs check this Spec (RvNetif) or its safety part SafeSpec    *)
(* (LwipNetif) under a refinement mapping from the driver's state.        *)
(***************************************************************************)
EXTENDS Naturals, Sequences

CONSTANTS
  NumFrames,   \* frames the wire offers during a behaviour
  Lens         \* the lengths the caller may be told a frame has

Frames == 1..NumFrames

VARIABLES
  frameLen,    \* frameLen[f]: the length of frame f
  arrived,     \* frames that have arrived from the wire
  delivered    \* [frame, len] of every frame handed to the caller, in order

vars == <<frameLen, arrived, delivered>>

TypeOK ==
  /\ frameLen \in [Frames -> Lens]
  /\ arrived \in 0..NumFrames
  /\ delivered \in Seq([frame : Frames, len : Lens])

Init ==
  /\ frameLen \in [Frames -> Lens]
  /\ arrived = 0
  /\ delivered = <<>>

(* The NIC takes in the next frame.                                        *)
Arrive ==
  /\ arrived < NumFrames
  /\ arrived' = arrived + 1
  /\ UNCHANGED <<frameLen, delivered>>

(* The receive call returns the oldest frame not yet handed over.          *)
Deliver ==
  /\ Len(delivered) < arrived
  /\ LET f == Len(delivered) + 1
     IN  delivered' = Append(delivered, [frame |-> f, len |-> frameLen[f]])
  /\ UNCHANGED <<frameLen, arrived>>

Next == Arrive \/ Deliver

(* The safety part: only arrived frames, in order, with their lengths.    *)
SafeSpec == Init /\ [][Next]_vars

(* Arrival belongs to the wire; a frame that has arrived is delivered.    *)
Spec == SafeSpec /\ WF_vars(Deliver)

=============================================================================
