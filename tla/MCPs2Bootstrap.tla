--------------------------- MODULE MCPs2Bootstrap ---------------------------
(* A small Stage 0 for each class; the last chunk is a short one.           *)
EXTENDS Ps2Bootstrap

MCImage == [class \in Classes |-> IF class = "Xt" THEN <<250, 14, 31>>
                                                  ELSE <<180, 9, 240>>]
=============================================================================
