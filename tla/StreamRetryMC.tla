----------------------------- MODULE StreamRetryMC -----------------------------
(* Values of the constants of StreamRetry for TLC. *)
EXTENDS StreamRetry

AllServerCodes == Codes \ {"notStatus"}
===============================================================================
