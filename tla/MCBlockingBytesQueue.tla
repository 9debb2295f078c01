------------------------ MODULE MCBlockingBytesQueue ------------------------
(* BlockingBytesQueue for TLC; the .cfg files give the constants values.   *)
EXTENDS BlockingBytesQueue
=============================================================================
