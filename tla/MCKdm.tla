------------------------------- MODULE MCKdm -------------------------------
(***************************************************************************)
(* Two cinemas.  The first replaces the certificate of its first screen    *)
(* and gives up its second; the other never changes.  A booking is of the  *)
(* first screen alone, with the one that goes, or with the other cinema's. *)
(***************************************************************************)
EXTENDS KdmDistribution, TLC

CONSTANTS fa, fb, s1, s2, s3, c1, c2

MCFlm == (fa :> <<(s1 :> c1) @@ (s2 :> c1), s1 :> c2>>) @@ (fb :> <<s3 :> c1>>)
=============================================================================
