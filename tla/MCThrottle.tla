----------------------------- MODULE MCThrottle -----------------------------
(***************************************************************************)
(* TLC instances of Throttle.  Amounts hold a request larger than any      *)
(* limit, and there are enough threads for a waiter behind the front one.  *)
(***************************************************************************)
EXTENDS Throttle, TLC

CONSTANTS t1, t2, t3

ThreadSet == {t1, t2, t3}
AmountSet == {1, 3}
LimitSet == {1, 2}
=============================================================================
