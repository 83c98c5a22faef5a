------------------------------ MODULE MCKiosk ------------------------------
(* A pool of two lanes and a meet of two heats. *)
EXTENDS Kiosk
=============================================================================
