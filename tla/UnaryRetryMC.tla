----------------------------- MODULE UnaryRetryMC -----------------------------
(* Values of the constants of UnaryRetry for TLC. *)
EXTENDS UnaryRetry, TLC

CONSTANTS put, range

PutAndRange == put :> "Put" @@ range :> "Range"

\* The rules tell the two context codes apart nowhere, so servers answer one;
\* the contexts of the calls end with both.
SomeServerCodes == {"Canceled", "Unavailable", "Internal"}
===============================================================================
