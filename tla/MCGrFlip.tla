------------------------------ MODULE MCGrFlip ------------------------------
(***************************************************************************)
(* GrFlip with three pictures: the one flipped last, the one before, and   *)
(* one that must not be on the screen any more.  Only the mappings of the  *)
(* framebuffer are counted.                                                *)
(***************************************************************************)
EXTENDS GrFlip

CONSTANTS p1, p2, p3

MCPictures == {p1, p2, p3}

=============================================================================
