------------------------------ MODULE Backoff ------------------------------
(***************************************************************************)
(* delay_for_attempt of RetryPolicy (jobs/contracts.py) and RetryStrategy  *)
(* (external_api/contracts.py), in whole units of time.                    *)
(***************************************************************************)
EXTENDS Integers, FiniteSetsExt

Delay(base, multiplier, cap, attempt) ==
  IF attempt <= 1 THEN 0 ELSE Min({cap, base * multiplier ^ (attempt - 2)})
=============================================================================
