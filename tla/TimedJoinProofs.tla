-------------------------- MODULE TimedJoinProofs --------------------------
(***************************************************************************)
(* Proofs about the clock arithmetic of thread_task_timed_join, for every  *)
(* length of a second, every timeout, every clock and every offset between *)
(* the two clocks.                                                         *)
(***************************************************************************)
EXTENDS TimedJoin, TLAPS

-----------------------------------------------------------------------------
(* Seconds and ticks.                                                      *)

\* A time is its seconds and its fraction of a second.
LEMMA DivMod ==
    ASSUME NEW t \in Int
    PROVE  /\ t \div NSEC \in Int /\ t % NSEC \in 0..(NSEC - 1)
           /\ t = (t \div NSEC) * NSEC + (t % NSEC)
  BY NsecAssumption

\* More seconds are at least a second more.
LEMMA SecondMore ==
    ASSUME NEW a \in Int, NEW b \in Int, a > b
    PROVE  a * NSEC >= b * NSEC + NSEC
  BY NsecAssumption

\* Seconds add up.
LEMMA SumOfSeconds ==
    ASSUME NEW a \in Int, NEW b \in Int
    PROVE  (a + b) * NSEC = a * NSEC + b * NSEC /\ a * NSEC \in Int /\ b * NSEC \in Int
  BY NsecAssumption

-----------------------------------------------------------------------------
(* The deadline.                                                           *)

\* bigger() against the deadline without carry, for a timeout that fits into a
\* long: it never misses a deadline that has passed, and it is wrong by less
\* than a second, and only when the fractions of a second add up to one.
LEMMA BiggerThanDeadline ==
    ASSUME NEW now \in Int, NEW from \in Int, NEW t \in Int, t # Huge
    PROVE  /\ now >= from + t => bigger(Timespec(now), Deadline(Timespec(from), t))
           /\ bigger(Timespec(now), Deadline(Timespec(from), t)) =>
                 /\ now > from + t - NSEC
                 /\ now < from + t => (from % NSEC) + (t % NSEC) >= NSEC
  <1> DEFINE s  == now \div NSEC   n  == now % NSEC
             s0 == from \div NSEC  n0 == from % NSEC
             q  == t \div NSEC     r  == t % NSEC
  <1>1. /\ s \in Int /\ s0 \in Int /\ q \in Int
        /\ n \in 0..(NSEC - 1) /\ n0 \in 0..(NSEC - 1) /\ r \in 0..(NSEC - 1)
        /\ now = s * NSEC + n /\ from = s0 * NSEC + n0 /\ t = q * NSEC + r
    BY DivMod
  <1>2. bigger(Timespec(now), Deadline(Timespec(from), t)) <=>
           (s = s0 + q /\ n >= n0 + r) \/ s > s0 + q
    <2>1. /\ Timespec(now) = [tv_sec |-> s, tv_nsec |-> n]
          /\ Deadline(Timespec(from), t) = [tv_sec |-> s0 + q, tv_nsec |-> n0 + r]
      BY DEF Timespec, Deadline
    <2> HIDE DEF s, n, s0, n0, q, r
    <2> QED BY <1>1, <2>1, NsecAssumption DEF bigger
  <1> HIDE DEF s, n, s0, n0, q, r
  <1>3. (s0 + q) * NSEC = s0 * NSEC + q * NSEC /\ s0 * NSEC \in Int /\ q * NSEC \in Int
    BY <1>1, SumOfSeconds
  <1>4. from + t = (s0 + q) * NSEC + n0 + r
    BY <1>1, <1>3, NsecAssumption
  <1>5. s > s0 + q => s * NSEC >= (s0 + q) * NSEC + NSEC
    BY <1>1, SecondMore
  <1>6. s < s0 + q => (s0 + q) * NSEC >= s * NSEC + NSEC
    BY <1>1, SecondMore
  <1>7. s * NSEC \in Int /\ (s0 + q) * NSEC \in Int
    BY <1>1, <1>3, NsecAssumption
  <1>8. now >= from + t => s >= s0 + q /\ (s = s0 + q => n >= n0 + r)
    BY <1>1, <1>4, <1>6, <1>7, NsecAssumption
  <1>9. s = s0 + q /\ n >= n0 + r => now >= from + t
    BY <1>1, <1>4, <1>7, NsecAssumption
  <1>10. s > s0 + q => now > from + t - NSEC /\ (now < from + t => n0 + r >= NSEC)
    BY <1>1, <1>4, <1>5, <1>7, NsecAssumption
  <1>11. now >= from + t => bigger(Timespec(now), Deadline(Timespec(from), t))
    BY <1>1, <1>2, <1>8
  <1>12. ASSUME bigger(Timespec(now), Deadline(Timespec(from), t))
         PROVE  now > from + t - NSEC /\ (now < from + t => n0 + r >= NSEC)
    BY <1>2, <1>9, <1>10, <1>12, NsecAssumption
  <1> QED BY <1>11, <1>12 DEF n0, r

\* A timeout that does not fit gives a deadline long ago: (long) timeout is
\* LONG_MIN.
LEMMA HugeDeadline ==
    ASSUME NEW now \in Int, NEW from \in Int, from <= now
    PROVE  bigger(Timespec(now), Deadline(Timespec(from), Huge))
  <1>1. /\ now \div NSEC \in Int /\ from \div NSEC \in Int
        /\ now % NSEC \in 0..(NSEC - 1) /\ from % NSEC \in 0..(NSEC - 1)
        /\ now = (now \div NSEC) * NSEC + (now % NSEC)
        /\ from = (from \div NSEC) * NSEC + (from % NSEC)
    BY DivMod
  <1>2. LONG_MIN \in Int /\ LONG_MIN < 0
    BY ClockAssumption
  <1>3. from \div NSEC <= now \div NSEC
    <2> DEFINE a == from \div NSEC  b == now \div NSEC
    <2>1. a > b => a * NSEC >= b * NSEC + NSEC
      BY <1>1, SecondMore
    <2>2. a * NSEC \in Int /\ b * NSEC \in Int
      BY <1>1, NsecAssumption
    <2> HIDE DEF a, b
    <2>3. a \in Int /\ b \in Int /\ now < b * NSEC + NSEC /\ from >= a * NSEC
      BY <1>1, <2>2, NsecAssumption DEF a, b
    <2> QED BY <2>1, <2>2, <2>3, NsecAssumption DEF a, b
  <1>4. (from \div NSEC) + LONG_MIN < now \div NSEC
    BY <1>1, <1>2, <1>3
  <1> QED BY <1>1, <1>4 DEF Timespec, Deadline, bigger

-----------------------------------------------------------------------------
(* The call.                                                               *)

\* What the call knows while it runs and after it: its start is not in the
\* future and its deadline was made of its start and its timeout.
TJInv ==
    /\ mono \in Int /\ start \in Int /\ start <= mono /\ timeout \in Int
    /\ pc # "idle" => /\ ret = "none" /\ timeout > 0
                      /\ timeout_time = Deadline(Timespec(start), timeout)
    /\ EarlyHasACause

\* Every step keeps it.
LEMMA NextTJInv ==
    ASSUME TJInv, [Next]_tjVars
    PROVE  TJInv'
  <1>1. CASE Tick
    BY <1>1, NsecAssumption DEF Tick, TJInv, EarlyHasACause
  <1>2. CASE Finish \/ CondTimedwaitReturns \/ Idle \/ UNCHANGED tjVars
    BY <1>2 DEF Finish, CondTimedwaitReturns, Idle, tjVars, TJInv, EarlyHasACause
  <1>3. ASSUME NEW t \in Timeouts, thread_task_timed_join(t)
        PROVE  TJInv'
    <2>1. t \in Int
      BY ClockAssumption
    <2> QED BY <1>3, <2>1 DEF thread_task_timed_join, TJInv, EarlyHasACause
  <1>4. CASE Check
    <2>1. /\ pc = "check" /\ ret = "none" /\ timeout > 0
          /\ timeout_time = Deadline(Timespec(start), timeout)
          /\ UNCHANGED <<mono, timeout, start, timeout_time>>
      BY <1>4 DEF Check, TJInv
    <2>2. CASE ret' # "TIMEOUT"
      BY <1>4, <2>1, <2>2 DEF Check, TJInv, EarlyHasACause
    <2>3. CASE pc' = "idle" /\ ret' = "TIMEOUT" /\ bigger(Timespec(mono), timeout_time)
      <3>1. ASSUME timeout # Huge
            PROVE  /\ mono > start + timeout - NSEC
                   /\ mono < start + timeout => (start % NSEC) + (timeout % NSEC) >= NSEC
        BY <2>1, <2>3, <3>1, BiggerThanDeadline DEF TJInv
      <3> QED BY <2>1, <2>3, <3>1 DEF TJInv, EarlyHasACause
    <2> QED BY <1>4, <2>1, <2>2, <2>3 DEF Check
  <1> QED BY <1>1, <1>2, <1>3, <1>4 DEF Next

\* The invariant holds throughout.
LEMMA TimedJoinInvariance == Spec => []TJInv
  <1>1. Init => TJInv
    BY NsecAssumption DEF Init, TJInv, EarlyHasACause
  <1>2. TJInv /\ [Next]_tjVars => TJInv'
    BY NextTJInv
  <1> QED BY <1>1, <1>2, PTL DEF Spec

\* thread_task_timed_join reports a timeout early only where the carry of lines
\* 250-252 is missing, and then by less than a second, or where the timeout does not
\* fit into a long.
THEOREM TimeoutEarlyCauses == Spec => []EarlyHasACause
  <1>1. TJInv => EarlyHasACause
    BY DEF TJInv
  <1> QED BY <1>1, TimedJoinInvariance, PTL

\* A caller that looks at the clock when its time is over does not wait again.
THEOREM TimeoutSeen == Spec => TimeoutNotMissed
  <1> DEFINE NotMissed == pc = "check" /\ mono >= start + timeout => pc' # "wait"
  <1>1. TJInv /\ [Next]_tjVars => [NotMissed]_tjVars
    <2> SUFFICES ASSUME TJInv, Next, pc = "check", mono >= start + timeout, pc' = "wait"
                 PROVE  FALSE
      OBVIOUS
    <2>1. Check /\ ~bigger(Timespec(mono), timeout_time)
      BY DEF Next, Tick, Finish, thread_task_timed_join, CondTimedwaitReturns, Idle, Check
    <2>2. timeout_time = Deadline(Timespec(start), timeout)
      BY DEF TJInv
    <2>3. CASE timeout = Huge
      BY <2>1, <2>2, <2>3, HugeDeadline DEF TJInv
    <2>4. CASE timeout # Huge
      BY <2>1, <2>2, <2>4, BiggerThanDeadline DEF TJInv
    <2> QED BY <2>3, <2>4
  <1> QED BY <1>1, TimedJoinInvariance, PTL DEF Spec, TimeoutNotMissed
=============================================================================
