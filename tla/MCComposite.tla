---------------------------- MODULE MCComposite ----------------------------
(***************************************************************************)
(* A base of three frames and an overlay of two, composited for two, over  *)
(* channels of one frame.  The base's third frame, past the window, and    *)
(* the overlay's second do not decode.                                     *)
(***************************************************************************)
EXTENDS CompositeFrames, TLC

CONSTANTS base, overlay

MCOrder == <<base, overlay>>
MCTotal == (base :> 3) @@ (overlay :> 2)
MCLimit == (base :> 2) @@ (overlay :> 2)
MCDamaged == {<<base, 2>>, <<overlay, 1>>}
=============================================================================
