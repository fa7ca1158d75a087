-------------------------- MODULE MCDongleRecovery --------------------------
(* Small instance of DongleRecovery: the dongle restarts once, every limit  *)
(* is reached.                                                              *)
EXTENDS DongleRecovery
=============================================================================
