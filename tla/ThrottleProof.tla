---------------------------- MODULE ThrottleProof ----------------------------
(***************************************************************************)
(* TLAPS proofs about Throttle, for every set of threads, amounts and      *)
(* limits.                                                                 *)
(***************************************************************************)
EXTENDS Throttle, TLAPS

(* Signalling the front waiter signals threads only. *)
LEMMA SignalFrontType ==
    ASSUME NEW q \in Seq(Threads), NEW w \in SUBSET Threads
    PROVE  SignalFront(q, w) \in SUBSET Threads
BY DEF SignalFront

(* Appending to a queue that has a front does not change the front. *)
LEMMA HeadOfAppend ==
    ASSUME NEW q \in Seq(Threads), NEW t \in Threads
    PROVE  /\ q # <<>> => Head(Append(q, t)) = Head(q)
           /\ q = <<>> => Head(Append(q, t)) = t
           /\ Append(q, t) \in Seq(Threads)
           /\ Append(q, t) # <<>>
OBVIOUS

(* The front waiter is a waiter. *)
LEMMA HeadWaits ==
    ASSUME cond \in Seq(Threads), cond # <<>>
    PROVE  Waiting(Head(cond)) /\ Head(cond) \in Threads
BY DEF Waiting

IInv == TypeOK /\ NoLostWakeup

LEMMA InitIInv == Init => IInv
BY AmountsAssumption, MaxesAssumption DEF Init, IInv, TypeOK, NoLostWakeup

(* Queueing behind _wait(c), or passing it, keeps both invariants. *)
LEMMA WaitStep ==
    ASSUME IInv, NEW t \in Threads, NEW c \in Nat, NEW m \in Maxes \cup {0},
           ~Waiting(t), _reset_max(m), _wait(t, c, m), last' = "other"
    PROVE  IInv'
<1> DEFINE lim == IF m = 0 THEN max ELSE m
<1> DEFINE signalled == IF m = 0 THEN woken ELSE SignalFront(cond, woken)
<1>1. max' = lim /\ max' \in Maxes
  BY DEF _reset_max, IInv, TypeOK
<1>2. signalled \in SUBSET Threads /\ woken' = signalled
  BY SignalFrontType DEF _wait, IInv, TypeOK
<1>3. CASE _should_wait(c, lim, count) \/ cond # <<>>
  <2>1. /\ cond' = Append(cond, t)
        /\ want' = [want EXCEPT ![t] = c]
        /\ count' = count
    BY <1>3 DEF _wait
  <2>2. TypeOK'
    BY <1>1, <1>2, <2>1 DEF IInv, TypeOK
  <2>3. CASE cond = <<>>
    <3>1. Head(cond') = t /\ want'[t] = c /\ _should_wait(c, lim, count)
      BY <1>3, <2>1, <2>3, HeadOfAppend DEF IInv, TypeOK
    <3> QED
      BY <1>1, <2>1, <2>2, <3>1 DEF IInv, NoLostWakeup
  <2>4. CASE cond # <<>>
    <3>1. Head(cond') = Head(cond) /\ Head(cond) # t /\ Head(cond) \in Threads
      BY <2>1, <2>4, HeadOfAppend, HeadWaits DEF IInv, TypeOK
    <3>2. want'[Head(cond)] = want[Head(cond)]
      BY <2>1, <3>1 DEF IInv, TypeOK
    <3>3. CASE m = 0
      BY <1>1, <1>2, <2>1, <2>2, <2>4, <3>1, <3>2, <3>3 DEF IInv, NoLostWakeup
    <3>4. CASE m # 0
      <4>1. Head(cond) \in woken'
        BY <1>2, <2>4, <3>4 DEF SignalFront
      <4> QED
        BY <2>2, <3>1, <4>1 DEF IInv, NoLostWakeup
    <3> QED
      BY <3>3, <3>4
  <2> QED
    BY <2>3, <2>4
<1>4. CASE ~(_should_wait(c, lim, count) \/ cond # <<>>)
  <2>1. count' = count + c /\ cond' = cond /\ want' = want /\ cond = <<>>
    BY <1>4 DEF _wait
  <2> QED
    BY <1>1, <1>2, <2>1 DEF IInv, TypeOK, NoLostWakeup
<1> QED
  BY <1>3, <1>4

(* A waiter that owns the lock again sleeps on, or leaves and signals the  *)
(* new front.                                                              *)
LEMMA WakeStep ==
    ASSUME IInv, NEW t \in Threads, Wake(t)
    PROVE  IInv'
<1>1. cond # <<>> /\ cond \in Seq(Threads) /\ Tail(cond) \in Seq(Threads)
  BY DEF Wake, Waiting, IInv, TypeOK
<1>2. CASE _should_wait(want[t], max, count) \/ t # Head(cond)
  BY <1>2 DEF Wake, IInv, TypeOK, NoLostWakeup
<1>3. CASE ~(_should_wait(want[t], max, count) \/ t # Head(cond))
  <2>1. /\ cond' = Tail(cond)
        /\ woken' = SignalFront(Tail(cond), woken \ {t})
        /\ count' = count + want[t]
        /\ want' = [want EXCEPT ![t] = 0]
        /\ max' = max
        /\ last' = "other"
    BY <1>3 DEF Wake
  <2>2. TypeOK'
    <3>1. SignalFront(Tail(cond), woken \ {t}) \in SUBSET Threads
      BY <1>1, SignalFrontType DEF IInv, TypeOK
    <3>2. want[t] \in Nat /\ count' \in Nat /\ want' \in [Threads -> Nat]
      BY <2>1 DEF IInv, TypeOK
    <3> QED
      BY <1>1, <2>1, <3>1, <3>2 DEF IInv, TypeOK
  <2>3. cond' # <<>> => Head(cond') \in woken'
    BY <2>1 DEF SignalFront
  <2> QED
    BY <2>2, <2>3 DEF IInv, NoLostWakeup
<1> QED
  BY <1>2, <1>3

(* put() signals the front before the count falls. *)
LEMMA PutStep ==
    ASSUME IInv, NEW c \in Nat, put(c)
    PROVE  IInv'
<1>1. TypeOK'
  BY SignalFrontType DEF put, IInv, TypeOK
<1>2. cond' # <<>> => Head(cond') \in woken'
  BY DEF put, SignalFront
<1> QED
  BY <1>1, <1>2 DEF IInv, NoLostWakeup

(* take() and get_or_fail() only raise the count. *)
LEMMA RaiseStep ==
    ASSUME IInv, NEW t \in Threads, NEW c \in Nat,
           take(t, c) \/ get_or_fail(t, c)
    PROVE  IInv'
<1>1. /\ count' = count + c
      /\ UNCHANGED <<max, cond, want, woken>>
      /\ last' \in {"take", "other"}
  BY DEF take, get_or_fail
<1>2. TypeOK'
  BY <1>1 DEF IInv, TypeOK
<1>3. NoLostWakeup'
  <2> SUFFICES ASSUME cond' # <<>>, Head(cond') \notin woken'
               PROVE  _should_wait(want'[Head(cond')], max', count')
    BY DEF NoLostWakeup
  <2>1. _should_wait(want[Head(cond)], max, count)
    BY <1>1 DEF IInv, NoLostWakeup
  <2>2. want[Head(cond)] \in Nat /\ max \in Nat /\ count \in Nat
    BY <1>1, HeadWaits, MaxesAssumption DEF IInv, TypeOK
  <2> QED
    BY <1>1, <2>1, <2>2 DEF _should_wait
<1> QED
  BY <1>2, <1>3 DEF IInv

LEMMA NextIInv == IInv /\ [Next]_vars => IInv'
<1> SUFFICES ASSUME IInv, [Next]_vars
             PROVE  IInv'
  OBVIOUS
<1>1. ASSUME NEW t \in Threads, NEW c \in Amounts, NEW m \in Maxes \cup {0},
             get(t, c, m)
      PROVE  IInv'
  BY <1>1, WaitStep, AmountsAssumption DEF get
<1>2. ASSUME NEW t \in Threads, NEW m \in Maxes \cup {0}, wait(t, m)
      PROVE  IInv'
  BY <1>2, WaitStep DEF wait
<1>3. ASSUME NEW t \in Threads, Wake(t)
      PROVE  IInv'
  BY <1>3, WakeStep
<1>4. ASSUME NEW t \in Threads, NEW c \in Amounts,
             take(t, c) \/ get_or_fail(t, c)
      PROVE  IInv'
  BY <1>4, RaiseStep, AmountsAssumption
<1>5. ASSUME NEW c \in Amounts, put(c)
      PROVE  IInv'
  BY <1>5, PutStep, AmountsAssumption
<1>6. CASE UNCHANGED vars
  BY <1>6 DEF vars, IInv, TypeOK, NoLostWakeup
<1> QED
  BY <1>1, <1>2, <1>3, <1>4, <1>5, <1>6 DEF Next

(* The fields of Throttle keep their types; in particular the assertion of *)
(* put() is enough to keep the count from going negative.                  *)
THEOREM TypeCorrect == Spec => []TypeOK
<1>1. IInv => TypeOK
  BY DEF IInv
<1> QED
  BY InitIInv, NextIInv, <1>1, PTL DEF Spec

(* The front waiter never sleeps through its turn, for any number of       *)
(* threads, any amounts and any sequence of limits given to _reset_max.    *)
THEOREM NoWakeupIsLost == Spec => []NoLostWakeup
<1>1. IInv => NoLostWakeup
  BY DEF IInv
<1> QED
  BY InitIInv, NextIInv, <1>1, PTL DEF Spec

(* What one step may add to the count, and for whom. *)
Admission ==
    count' > count /\ last' # "take" =>
        /\ \/ count' <= max'
           \/ count <= max' /\ count' - count > max'
        /\ cond = <<>> \/ cond' = Tail(cond)

LEMMA WaitAdmits ==
    ASSUME IInv, NEW t \in Threads, NEW c \in Nat, NEW m \in Maxes \cup {0},
           _reset_max(m), _wait(t, c, m)
    PROVE  Admission
<1> DEFINE lim == IF m = 0 THEN max ELSE m
<1>1. max' = lim /\ lim \in Nat /\ count \in Nat
  BY MaxesAssumption DEF _reset_max, IInv, TypeOK
<1>2. CASE _should_wait(c, lim, count) \/ cond # <<>>
  <2>1. count' = count
    BY <1>2 DEF _wait
  <2> QED
    BY <1>1, <2>1 DEF Admission
<1>3. CASE ~(_should_wait(c, lim, count) \/ cond # <<>>)
  <2>1. count' = count + c /\ cond = <<>> /\ ~_should_wait(c, lim, count)
    BY <1>3 DEF _wait
  <2> QED
    BY <1>1, <2>1 DEF Admission, _should_wait
<1> QED
  BY <1>2, <1>3

LEMMA NextAdmits == IInv /\ [Next]_vars => [Admission]_vars
<1> SUFFICES ASSUME IInv, Next
             PROVE  Admission
  OBVIOUS
<1>1. ASSUME NEW t \in Threads, NEW c \in Amounts, NEW m \in Maxes \cup {0},
             get(t, c, m)
      PROVE  Admission
  BY <1>1, WaitAdmits, AmountsAssumption DEF get
<1>2. ASSUME NEW t \in Threads, NEW m \in Maxes \cup {0}, wait(t, m)
      PROVE  Admission
  BY <1>2, WaitAdmits DEF wait
<1>3. ASSUME NEW t \in Threads, Wake(t)
      PROVE  Admission
  <2>1. want[t] \in Nat /\ count \in Nat /\ max \in Nat /\ max' = max
    BY <1>3, MaxesAssumption DEF Wake, IInv, TypeOK
  <2>2. \/ count' = count
        \/ /\ count' = count + want[t]
           /\ cond' = Tail(cond)
           /\ ~_should_wait(want[t], max, count)
    BY <1>3 DEF Wake
  <2> QED
    BY <2>1, <2>2 DEF Admission, _should_wait
<1>4. ASSUME NEW t \in Threads, NEW c \in Amounts, get_or_fail(t, c)
      PROVE  Admission
  <2>1. c \in Nat /\ count \in Nat /\ max \in Nat
    BY MaxesAssumption, AmountsAssumption DEF IInv, TypeOK
  <2> QED
    BY <1>4, <2>1 DEF get_or_fail, Admission, _should_wait
<1>5. ASSUME NEW t \in Threads, NEW c \in Amounts, take(t, c)
      PROVE  Admission
  BY <1>5 DEF take, Admission
<1>6. ASSUME NEW c \in Amounts, put(c)
      PROVE  Admission
  <2>1. c \in Nat /\ count \in Nat
    BY AmountsAssumption DEF IInv, TypeOK
  <2> QED
    BY <1>6, <2>1 DEF put, Admission
<1> QED
  BY <1>1, <1>2, <1>3, <1>4, <1>5, <1>6 DEF Next

(* A step of get(), wait() or get_or_fail() admits its caller within the   *)
(* limit in force, or over it only as the single oversized request.        *)
THEOREM AdmissionsKeepTheLimit == Spec => AdmitsWithinLimit
<1>1. IInv /\ [Next]_vars
        => [count' > count /\ last' # "take" =>
              \/ count' <= max'
              \/ count <= max' /\ count' - count > max']_vars
  BY NextAdmits DEF Admission
<1> QED
  BY InitIInv, NextIInv, <1>1, PTL DEF Spec, AdmitsWithinLimit

(* Nobody is admitted ahead of the oldest waiter. *)
THEOREM NobodyIsOvertaken == Spec => OvertakesNobody
<1>1. IInv /\ [Next]_vars
        => [count' > count /\ last' # "take" => cond = <<>> \/ cond' = Tail(cond)]_vars
  BY NextAdmits DEF Admission
<1> QED
  BY InitIInv, NextIInv, <1>1, PTL DEF Spec, OvertakesNobody
=============================================================================
