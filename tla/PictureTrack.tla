----------------------------- MODULE PictureTrack ----------------------------
(***************************************************************************)
(* What an overlapped wrap promises, whatever its threads do: the picture  *)
(* essence grows by the next frame in presentation order and by nothing    *)
(* else, and the file appears under its final name once, with everything   *)
(* that was written, or is thrown away.                                    *)
(***************************************************************************)
EXTENDS Naturals, Sequences

VARIABLES
  essence,      \* the frames in the essence container, in file order
  file          \* "none", "part", "final" or "discarded"

Init == essence = <<>> /\ file = "none"

WriteNextFrame ==
  /\ file \in {"none", "part"}
  /\ file' = "part"
  /\ essence' = Append(essence, Len(essence))

Publish == file = "part" /\ file' = "final" /\ UNCHANGED essence

Discard == file \in {"none", "part"} /\ file' = "discarded" /\ UNCHANGED essence

(* The file may be created before its first frame is in it.                *)
Create == file = "none" /\ file' = "part" /\ UNCHANGED essence

Next == WriteNextFrame \/ Publish \/ Discard \/ Create

Spec == Init /\ [][Next]_<<essence, file>>
=============================================================================
