------------------------------ MODULE Throttle ------------------------------
(***************************************************************************)
(* common/Throttle: a counting limiter shared by threads.  The messenger   *)
(* bounds the bytes of undispatched messages with one, the Objecter bounds *)
(* the bytes and the number of operations in flight with two.              *)
(*                                                                         *)
(* Every operation runs under Throttle::lock, so each of them is one step, *)
(* except that _wait() releases the lock in cv->Wait(): a caller that has  *)
(* to wait is split into the step that queues its condition variable and   *)
(* the steps (Wake) in which it owns the lock again.                       *)
(***************************************************************************)
EXTENDS Integers, Sequences

CONSTANTS
    Threads,        \* callers
    Amounts,        \* the values c that callers ask for, take or return
    Maxes,          \* the values given to the constructor and to _reset_max
    CountBound      \* bound: take() is not called beyond this total

ASSUME AmountsAssumption == Amounts \subseteq Nat
ASSUME MaxesAssumption == Maxes \subseteq Nat /\ 0 \notin Maxes
ASSUME CountBoundAssumption == CountBound \in Nat

VARIABLES
    max,            \* the limit; 0 would disable the throttle for good
    count,          \* what is in use
    cond,           \* list<Cond*>: the waiters, oldest first
    want,           \* want[t]: the c of t's pending _wait(c)
    woken,          \* waiters whose condition variable has been signalled
    last            \* history: whether the last step was a take(), which never waits

vars == <<max, count, cond, want, woken, last>>

Waiting(t) == \E i \in 1..Len(cond) : cond[i] = t

(* Mutant: the amount asked for is left out of the sum. *)
_should_wait_full(c, m, cur) == cur > m

(* m && ((c <= m && cur + c > m) || (c >= m && cur > m)); m is never 0 here. *)
_should_wait(c, m, cur) ==
    \/ c <= m /\ cur + c > m
    \/ c >= m /\ cur > m

(* if (!cond.empty()) cond.front()->SignalOne() *)
SignalFront(q, w) == IF q = <<>> THEN w ELSE w \cup {Head(q)}

Init ==
    /\ max \in Maxes
    /\ count = 0
    /\ cond = <<>>
    /\ want = [t \in Threads |-> 0]
    /\ woken = {}
    /\ last = "other"

(* _reset_max(m) when the caller passes m > 0, nothing when it passes 0. *)
_reset_max(m) ==
    IF m = 0 THEN max' = max ELSE max' = m

(* The entry of _wait(c): queue behind the others, or go straight through.  *)
(* The limit seen is the one _reset_max has just set.                      *)
_wait(t, c, m) ==
    LET signalled == IF m = 0 THEN woken ELSE SignalFront(cond, woken)
    IN  IF _should_wait(c, IF m = 0 THEN max ELSE m, count) \/ cond # <<>>
        THEN /\ cond' = Append(cond, t)
             /\ want' = [want EXCEPT ![t] = c]
             /\ woken' = signalled
             /\ UNCHANGED count
        ELSE /\ count' = count + c
             /\ woken' = signalled
             /\ UNCHANGED <<cond, want>>

get(t, c, m) ==
    /\ ~Waiting(t)
    /\ _reset_max(m)
    /\ _wait(t, c, m)
    /\ last' = "other"

(* wait(m) is _wait(0) without the count.add that get() ends with. *)
wait(t, m) ==
    /\ ~Waiting(t)
    /\ _reset_max(m)
    /\ _wait(t, 0, m)
    /\ last' = "other"

(* The return of cv->Wait(), signalled or spurious, and the rest of the    *)
(* loop of _wait: sleep again, or leave the queue, wake the next waiter    *)
(* and (in get) add c to the count.                                        *)
Wake(t) ==
    /\ Waiting(t)
    /\ IF _should_wait(want[t], max, count) \/ t # Head(cond)
       THEN /\ woken' = woken \ {t}
            /\ UNCHANGED <<count, cond, want>>
       ELSE /\ cond' = Tail(cond)
            /\ woken' = SignalFront(Tail(cond), woken \ {t})
            /\ count' = count + want[t]
            /\ want' = [want EXCEPT ![t] = 0]
    /\ last' = "other"
    /\ UNCHANGED max

(* Mutant: get_or_fail looks at the limit only. *)
get_or_fail_barging(t, c) ==
    /\ ~Waiting(t)
    /\ ~_should_wait(c, max, count)
    /\ count' = count + c
    /\ last' = "other"
    /\ UNCHANGED <<max, cond, want, woken>>

get_or_fail(t, c) ==
    /\ ~Waiting(t)
    /\ ~(_should_wait(c, max, count) \/ cond # <<>>)
    /\ count' = count + c
    /\ last' = "other"
    /\ UNCHANGED <<max, cond, want, woken>>

take(t, c) ==
    /\ ~Waiting(t)
    /\ count + c <= CountBound
    /\ count' = count + c
    /\ last' = "take"
    /\ UNCHANGED <<max, cond, want, woken>>

(* Mutant of put: the front waiter is not signalled. *)
put_silent(c) ==
    /\ c # 0
    /\ count >= c
    /\ count' = count - c
    /\ last' = "other"
    /\ UNCHANGED <<max, cond, want, woken>>

(* Whoever finishes the work returns the amount, so any caller may; the    *)
(* guard is the assertion of put(), "if count goes negative, we failed     *)
(* somewhere!", which callers owe.                                         *)
put(c) ==
    /\ c # 0
    /\ count >= c
    /\ woken' = SignalFront(cond, woken)
    /\ count' = count - c
    /\ last' = "other"
    /\ UNCHANGED <<max, cond, want>>

Next ==
    \/ \E t \in Threads, c \in Amounts, m \in Maxes \cup {0} : get(t, c, m)
    \/ \E t \in Threads, m \in Maxes \cup {0} : wait(t, m)
    \/ \E t \in Threads : Wake(t)
    \/ \E t \in Threads, c \in Amounts : get_or_fail(t, c)
    \/ \E t \in Threads, c \in Amounts : take(t, c)
    \/ \E c \in Amounts : put(c)

Spec == Init /\ [][Next]_vars

(* A signalled waiter eventually runs again, and what is in use is         *)
(* eventually returned: the messenger and the Objecter put() back every    *)
(* budget when a message has been dispatched or an operation completes.    *)
FairSpec ==
    /\ Spec
    /\ \A t \in Threads : WF_vars(t \in woken /\ Wake(t))
    /\ WF_vars(\E c \in Amounts : put(c))

-----------------------------------------------------------------------------
(* The values the fields of Throttle range over. *)
TypeOK ==
    /\ max \in Maxes
    /\ count \in Nat
    /\ cond \in Seq(Threads)
    /\ want \in [Threads -> Nat]
    /\ woken \subseteq Threads
    /\ last \in {"take", "other"}

(* No lost wakeup: only the front waiter is ever signalled, so whenever    *)
(* the front waiter sleeps without a signal on its way, the limit really   *)
(* forbids it to go on (put, _reset_max and the departing waiter signal it *)
(* before the change that lets it through takes effect).                   *)
NoLostWakeup ==
    (cond # <<>> /\ Head(cond) \notin woken)
        => _should_wait(want[Head(cond)], max, count)

(* "normally stay under max, except for large c": a step that admits a     *)
(* caller keeps the count within the limit in force, unless the request    *)
(* itself exceeds the limit and the count was within it.  take() is exempt *)
(* by design.                                                              *)
AdmitsWithinLimit ==
    [][count' > count /\ last' # "take" =>
          \/ count' <= max'
          \/ count <= max' /\ count' - count > max']_vars

(* "always wait behind other waiters": while anyone waits, only the oldest *)
(* waiter is admitted, neither by get() nor by get_or_fail() of a          *)
(* latecomer.                                                              *)
OvertakesNobody ==
    [][count' > count /\ last' # "take" => cond = <<>> \/ cond' = Tail(cond)]_vars

(* Every caller of get() or wait() is let through in the end, whatever the *)
(* limit is changed to meanwhile, unless take() keeps coming back.         *)
WaiterAdmitted ==
    \A t \in Threads : Waiting(t) ~> (~Waiting(t) \/ last = "take")
=============================================================================
