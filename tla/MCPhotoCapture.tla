--------------------------- MODULE MCPhotoCapture ---------------------------
(* A few photos on one device.                                             *)
EXTENDS PhotoCapture
=============================================================================
