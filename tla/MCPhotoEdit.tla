---------------------------- MODULE MCPhotoEdit ----------------------------
(* A few photos in one editing session.                                    *)
EXTENDS PhotoEdit
=============================================================================
