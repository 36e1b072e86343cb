---------------------------- MODULE MCSubPicLocks ----------------------------
(* A queue thread, one renderer, the UI, the decoder; two subtitle streams    *)
(* and three calls of SetSubPicProvider.                                      *)
EXTENDS SubPicLocks
=============================================================================
