------------------------- MODULE MCConfigConversion -------------------------
(***************************************************************************)
(* A small instance of ConfigConversion: longs of four bits, of which the  *)
(* application uses those at the boundaries.                               *)
(***************************************************************************)
EXTENDS ConfigConversion

BoundaryLongs == {-MaxLong - 1, -1, 0, MaxLong}

(* Any one change, or two of the sections that are cheap.                     *)
Costs == [s \in Sections |-> IF s \in {"jwt", "limits"} THEN 1 ELSE 2]
=============================================================================
