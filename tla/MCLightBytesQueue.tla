-------------------------- MODULE MCLightBytesQueue --------------------------
(* LightBytesQueue for TLC; the .cfg files give the constants values.      *)
EXTENDS LightBytesQueue
=============================================================================
