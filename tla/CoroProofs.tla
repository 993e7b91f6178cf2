----------------------------- MODULE CoroProofs -----------------------------
(***************************************************************************)
(* Proofs about the scheduler of 1/libcoro.c under the program of          *)
(* 1/solution.c: for every number of coroutines and files, whatever the    *)
(* files hold and whichever quanta are over when.                          *)
(***************************************************************************)
EXTENDS CoroSort, SeqLemmas, FiniteSetTheorems

-----------------------------------------------------------------------------
(* The inductive invariant.                                                *)

CoroTypes ==
    /\ coro_list \in Seq(Coros) /\ NoRepeat(coro_list)
    /\ reaped \in Seq(Coros) /\ NoRepeat(reaped)
    /\ coro_this \in Coros \cup {Sched}
    /\ is_finished \subseteq Coros /\ is_sched_waiting \in BOOLEAN
    /\ switch_count \in [Coros \cup {Sched} -> Nat]
    /\ main \in {"create", "wait", "combine", "done"}

\* Where the coroutines are.  As long as one runs, all the finished ones have
\* been reaped; otherwise at most one has not.
Whereabouts ==
    /\ Elems(reaped) \cap Elems(coro_list) = {} /\ Elems(reaped) \subseteq is_finished
    /\ main # "create" => Elems(reaped) \cup Elems(coro_list) = Coros
    /\ coro_this # Sched => /\ is_sched_waiting /\ coro_this \in Elems(coro_list)
                            /\ is_finished = Elems(reaped)
    /\ \E c \in Coros \cup {Sched} : is_finished \subseteq Elems(reaped) \cup {c}

\* While main creates the coroutines none of them has run.
Creation ==
    main = "create" =>
        /\ coro_this = Sched /\ is_finished = {} /\ reaped = <<>>
        /\ Elems(coro_list) = 1..Len(coro_list) /\ Len(coro_list) < num_cor
        /\ \A c \in Coros : switch_count[c] = 0

\* The switches of the i-th coroutine of the list in the rounds that are over.
Rounds(i) == switch_count[coro_list[i]]
             - (IF coro_this # Sched /\ i < Place(coro_this) THEN 1 ELSE 0)

\* Rounds that were cut short are the only difference there is between rounds.
InRounds == \A i, j \in 1..Len(coro_list) : i < j =>
    Rounds(i) - Rounds(j) \in 0..Cardinality(is_finished)

\* There is a file, and main combines files there are.
FilesThere ==
    /\ Len(files) \in Nat \ {0} /\ DOMAIN files = 1..Len(files)
    /\ \A k \in 1..Len(files) : DOMAIN files[k] = {"arr", "size", "sorted"}
    /\ merged \in 1..Len(files)

\* What a coroutine works on is claimed, and by nobody else.
Claims ==
    /\ DOMAIN job = Coros
    /\ \A c \in Coros : /\ DOMAIN job[c] = {"i", "plan"} /\ job[c].i \in 0..Len(files)
                        /\ job[c].i # 0 => files[job[c].i].sorted
                        /\ job[c].i = 0 => job[c].plan = <<>>
    /\ \A c, d \in Coros : c # d /\ job[c].i = job[d].i => job[c].i = 0

SchedInv == CoroTypes /\ Whereabouts /\ Creation /\ InRounds
CoroInv  == SchedInv /\ FilesThere /\ Claims

-----------------------------------------------------------------------------
(* The scheduler.                                                          *)

\* coro_this_ptr and the list's order: a coroutine has one place.
LEMMA PlaceIs ==
    ASSUME coro_list \in Seq(Coros), NoRepeat(coro_list), NEW c \in Elems(coro_list)
    PROVE  /\ Place(c) \in 1..Len(coro_list) /\ coro_list[Place(c)] = c
           /\ \A i \in 1..Len(coro_list) : coro_list[i] = c => i = Place(c)
  BY DEF Elems, NoRepeat, Place

\* Sched is no coroutine; there are finitely many.
LEMMA CorosFinite ==
    /\ Sched \notin Coros /\ IsFiniteSet(Coros) /\ num_cor \in Nat
    /\ \A S \in SUBSET Coros : IsFiniteSet(S) /\ Cardinality(S) \in Nat
  <1>1. IsFiniteSet(Coros)
    BY CoroAssumption, FS_Interval DEF Coros
  <1>2. Sched \notin Coros /\ num_cor \in Nat
    BY CoroAssumption DEF Coros, Sched
  <1>3. ASSUME NEW S \in SUBSET Coros PROVE IsFiniteSet(S) /\ Cardinality(S) \in Nat
    <2>1. IsFiniteSet(S)
      BY <1>1, FS_Subset
    <2> QED BY <2>1, FS_CardinalityType
  <1> QED BY <1>1, <1>2, <1>3

\* The elements of the list are coroutines.
LEMMA ListTypes ==
    ASSUME CoroTypes
    PROVE  /\ Len(coro_list) \in Nat /\ Elems(coro_list) \subseteq Coros
           /\ \A i \in 1..Len(coro_list) : /\ coro_list[i] \in Coros
                                           /\ coro_list[i] \in Elems(coro_list)
                                           /\ switch_count[coro_list[i]] \in Nat
  <1>1. Len(coro_list) \in Nat /\ \A i \in 1..Len(coro_list) : coro_list[i] \in Coros
    BY LenProperties, ElementOfSeq DEF CoroTypes
  <1> QED BY <1>1 DEF CoroTypes, Elems

\* coro_new: a coroutine is created.
LEMMA CreateKeeps ==
    ASSUME SchedInv, Create
    PROVE  SchedInv'
  <1> DEFINE c == Len(coro_list) + 1
  <1>1. /\ CoroTypes /\ Whereabouts /\ main = "create" /\ coro_list' = <<c>> \o coro_list
        /\ UNCHANGED <<coro_this, is_finished, is_sched_waiting, switch_count, reaped>>
        /\ coro_this = Sched /\ is_finished = {} /\ reaped = <<>>
        /\ Elems(coro_list) = 1..Len(coro_list) /\ Len(coro_list) < num_cor
        /\ \A x \in Coros : switch_count[x] = 0
    BY DEF SchedInv, Create, Creation, coro_new, coro_list_add
  <1>2. Len(coro_list) \in Nat /\ num_cor \in Nat
    BY <1>1, ListTypes, CorosFinite
  <1>3. c \in Coros /\ c \notin Elems(coro_list) /\ c \in Nat
    BY <1>1, <1>2 DEF Coros
  <1> HIDE DEF c
  <1>4. /\ coro_list' \in Seq(Coros) /\ NoRepeat(coro_list')
        /\ Elems(coro_list') = Elems(coro_list) \cup {c}
    BY <1>1, <1>3, PrependElems DEF CoroTypes
  <1>5. Len(coro_list') = c
    <2>1. <<c>> \in Seq(Coros) /\ Len(<<c>>) = 1
      BY <1>3
    <2> QED BY <1>1, <1>2, <2>1, ConcatProperties DEF CoroTypes, c
  <1>6. CoroTypes'
    BY <1>1, <1>4 DEF CoroTypes, Create
  <1>7. Elems(coro_list') = 1..Len(coro_list')
    <2>1. 1..(Len(coro_list) + 1) = 1..Len(coro_list) \cup {Len(coro_list) + 1}
      BY <1>2
    <2> QED BY <1>1, <1>4, <1>5, <2>1 DEF c
  <1>8. Whereabouts'
    <2>1. Elems(reaped') = {}
      BY <1>1, EmptyList
    <2>2. main' # "create" => Len(coro_list') = num_cor
      BY <1>1 DEF Create
    <2> QED BY <1>1, <1>7, <2>1, <2>2 DEF Whereabouts, Coros
  <1>9. Creation'
    <2>1. main' = "create" => Len(coro_list') < num_cor
      BY <1>1, <1>2, <1>5 DEF Create, c
    <2> QED BY <1>1, <1>7, <2>1 DEF Creation
  <1>10. InRounds'
    <2>1. \A i \in 1..Len(coro_list') : Rounds(i)' = 0
      <3>1. \A i \in 1..Len(coro_list') : coro_list'[i] \in Coros
        BY <1>4, ElementOfSeq
      <3> QED BY <1>1, <3>1 DEF Rounds
    <2>2. Cardinality(is_finished') = 0
      BY <1>1, FS_EmptySet
    <2> QED BY <2>1, <2>2 DEF InRounds
  <1> QED BY <1>6, <1>8, <1>9, <1>10 DEF SchedInv

\* coro_yield: the next one in the list goes on, or the scheduler.
LEMMA YieldKeeps ==
    ASSUME SchedInv, coro_yield, main' = main
    PROVE  SchedInv'
  <1> DEFINE p == Place(coro_this)  n == Len(coro_list)  to == Successor(coro_this)
  <1>1. /\ CoroTypes /\ Whereabouts /\ coro_this # Sched /\ InRounds /\ main # "create"
    BY DEF SchedInv, coro_yield, Creation
  <1>2. /\ coro_this \in Elems(coro_list) /\ coro_this \in Coros /\ is_sched_waiting
        /\ is_finished = Elems(reaped)
    BY <1>1 DEF Whereabouts, CoroTypes
  <1>3. /\ switch_count' = [switch_count EXCEPT ![coro_this] = @ + 1] /\ coro_this' = to
        /\ is_sched_waiting' = (to # Sched)
        /\ UNCHANGED <<coro_list, is_finished, reaped>>
    BY DEF coro_yield, coro_yield_to
  <1>4. /\ p \in 1..n /\ coro_list[p] = coro_this /\ n \in Nat
        /\ \A i \in 1..n : coro_list[i] = coro_this => i = p
    BY <1>1, <1>2, PlaceIs, ListTypes DEF CoroTypes
  <1>5. \/ p = n /\ to = Sched
        \/ p < n /\ p + 1 \in 1..n /\ to = coro_list[p + 1] /\ to \in Elems(coro_list)
           /\ to \in Coros
    <2>1. CASE p = n
      BY <2>1 DEF Successor
    <2>2. CASE p # n
      <3>1. p < n /\ p + 1 \in 1..n /\ to = coro_list[p + 1]
        BY <1>4, <2>2 DEF Successor
      <3> QED BY <1>1, <3>1, ListTypes
    <2> QED BY <2>1, <2>2
  <1> HIDE DEF p, n, to
  <1>6. CoroTypes'
    <2>1. switch_count' \in [Coros \cup {Sched} -> Nat]
      BY <1>1, <1>2, <1>3 DEF CoroTypes
    <2>2. to \in Coros \cup {Sched}
      BY <1>5
    <2> QED BY <1>1, <1>3, <2>1, <2>2 DEF CoroTypes
  <1>7. Whereabouts'
    <2>1. to # Sched => is_sched_waiting'
      BY <1>3
    <2>2. to # Sched => to \in Elems(coro_list)
      BY <1>5
    <2> QED BY <1>1, <1>2, <1>3, <2>1, <2>2 DEF Whereabouts
  <1>8. Creation'
    BY <1>1 DEF Creation
  <1>9. InRounds'
    <2>1. \A i \in 1..n : switch_count[coro_list[i]] \in Nat
      BY <1>1, ListTypes DEF n
    <2>2. \A i \in 1..n : Rounds(i) = switch_count[coro_list[i]] - (IF i < p THEN 1 ELSE 0)
      BY <1>1 DEF Rounds, p
    <2>3. \A i \in 1..n : switch_count'[coro_list[i]] =
              IF i = p THEN switch_count[coro_list[i]] + 1 ELSE switch_count[coro_list[i]]
      <3>1. \A i \in 1..n : coro_list[i] \in Coros /\ (coro_list[i] = coro_this <=> i = p)
        BY <1>1, <1>4, ListTypes DEF n
      <3> QED BY <1>1, <1>3, <3>1 DEF CoroTypes
    <2>4. CASE to = Sched
      <3>1. p = n
        BY <1>5, <2>4, CorosFinite
      <3>2. \A i \in 1..n : Rounds(i)' = switch_count'[coro_list[i]]
        <4>1. coro_this' = Sched
          BY <1>3, <2>4
        <4>2. \A i \in 1..n : switch_count'[coro_list[i]] \in Nat
          BY <2>1, <2>3
        <4> QED BY <1>3, <4>1, <4>2 DEF Rounds
      <3>3. \A i \in 1..n : Rounds(i)' = Rounds(i) + 1
        BY <1>4, <2>1, <2>2, <2>3, <3>1, <3>2
      <3>4. \A i, j \in 1..n : Rounds(i)' - Rounds(j)' = Rounds(i) - Rounds(j)
        <4>1. \A i \in 1..n : Rounds(i) \in Int
          BY <2>1, <2>2
        <4> QED BY <3>3, <4>1
      <3> QED BY <1>1, <1>3, <3>4 DEF InRounds, n
    <2>5. CASE to # Sched
      <3>1. coro_this' = coro_list[p + 1] /\ p + 1 \in 1..n
        BY <1>3, <1>5, <2>5
      <3>2. Place(coro_this)' = p + 1
        <4>1. coro_list' \in Seq(Coros) /\ NoRepeat(coro_list') /\ coro_this' \in Elems(coro_list')
          BY <1>1, <1>3, <1>5, <2>5 DEF CoroTypes
        <4>2. Place(coro_this)' = CHOOSE i \in 1..n : coro_list[i] = coro_this'
          BY <1>3 DEF Place, n
        <4> QED BY <1>1, <1>3, <3>1, <4>2 DEF CoroTypes, NoRepeat, n
      <3>3. \A i \in 1..n : Rounds(i)' = switch_count'[coro_list[i]] - (IF i < p + 1 THEN 1 ELSE 0)
        <4>1. coro_this' # Sched
          BY <1>3, <2>5
        <4> QED BY <1>3, <3>2, <4>1 DEF Rounds
      <3>4. \A i \in 1..n : Rounds(i)' = Rounds(i)
        BY <1>4, <2>1, <2>2, <2>3, <3>3
      <3> QED BY <1>1, <1>3, <3>4 DEF InRounds, n
    <2> QED BY <2>4, <2>5
  <1> QED BY <1>6, <1>7, <1>8, <1>9 DEF SchedInv

\* coro_body ends: the coroutine is finished and the scheduler goes on.
LEMMA ReturnKeeps ==
    ASSUME SchedInv, coro_return, main' = main
    PROVE  SchedInv'
  <1> DEFINE p == Place(coro_this)  n == Len(coro_list)
  <1>1. /\ CoroTypes /\ Whereabouts /\ coro_this # Sched /\ InRounds /\ main # "create"
    BY DEF SchedInv, coro_return, Creation
  <1>2. /\ coro_this \in Elems(coro_list) /\ coro_this \in Coros /\ is_finished = Elems(reaped)
    BY <1>1 DEF Whereabouts, CoroTypes
  <1>3. /\ is_finished' = is_finished \cup {coro_this} /\ coro_this' = Sched
        /\ is_sched_waiting' = FALSE /\ UNCHANGED <<coro_list, switch_count, reaped>>
    BY DEF coro_return
  <1>4. /\ p \in 1..n /\ coro_list[p] = coro_this /\ n \in Nat
    BY <1>1, <1>2, PlaceIs, ListTypes DEF CoroTypes
  <1>5. CoroTypes'
    BY <1>1, <1>2, <1>3 DEF CoroTypes
  <1>6. Whereabouts'
    BY <1>1, <1>2, <1>3 DEF Whereabouts
  <1>7. Creation'
    BY <1>1 DEF Creation
  <1>8. coro_this \notin is_finished
    BY <1>1, <1>2 DEF Whereabouts
  <1>9. /\ Cardinality(is_finished') = Cardinality(is_finished) + 1
        /\ Cardinality(is_finished) \in Nat
    <2>1. IsFiniteSet(is_finished) /\ Cardinality(is_finished) \in Nat
      BY <1>1, CorosFinite DEF CoroTypes
    <2> QED BY <1>3, <1>8, <2>1, FS_AddElement
  <1> HIDE DEF p, n
  <1>10. InRounds'
    <2>1. \A i \in 1..n : switch_count[coro_list[i]] \in Nat
      BY <1>1, ListTypes DEF n
    <2>2. \A i \in 1..n : Rounds(i) = switch_count[coro_list[i]] - (IF i < p THEN 1 ELSE 0)
      BY <1>1 DEF Rounds, p
    <2>3. \A i \in 1..n : Rounds(i)' = switch_count[coro_list[i]]
      BY <1>3, <2>1 DEF Rounds
    <2>4. ASSUME NEW i \in 1..n, NEW j \in 1..n, i < j
          PROVE  Rounds(i)' - Rounds(j)' \in 0..Cardinality(is_finished')
      <3>1. Rounds(i) - Rounds(j) \in 0..Cardinality(is_finished)
        BY <1>1, <2>4 DEF InRounds, n
      <3> QED BY <1>4, <1>9, <2>1, <2>2, <2>3, <2>4, <3>1
    <2> QED BY <1>3, <2>4 DEF InRounds, n
  <1> QED BY <1>5, <1>6, <1>7, <1>10 DEF SchedInv

\* Without a finished coroutine in the list, all of them have been reaped.
LEMMA NoneFinished ==
    ASSUME CoroTypes, Whereabouts, main # "create", FinishedAt = {}
    PROVE  is_finished = Elems(reaped)
  BY SMTT(40) DEF CoroTypes, Whereabouts, FinishedAt, Elems

\* coro_sched_wait starts a round.
LEMMA SwitchKeeps ==
    ASSUME SchedInv, SchedSwitches, main # "create", main' = main
    PROVE  SchedInv'
  <1> DEFINE n == Len(coro_list)
  <1>1. CoroTypes /\ Whereabouts /\ InRounds /\ coro_this = Sched /\ FinishedAt = {}
    BY DEF SchedInv, SchedSwitches
  <1>2. /\ switch_count' = [switch_count EXCEPT ![Sched] = @ + 1] /\ coro_this' = Head(coro_list)
        /\ is_sched_waiting' = TRUE /\ UNCHANGED <<coro_list, is_finished, reaped>>
    BY <1>1 DEF SchedSwitches, coro_yield_to
  <1>3. n \in Nat /\ 1 \in 1..n /\ Head(coro_list) = coro_list[1]
    BY <1>1 DEF SchedSwitches, CoroTypes
  <1>4. coro_this' \in Elems(coro_list) /\ coro_this' \in Coros
    BY <1>1, <1>2, <1>3, ListTypes
  <1>5. is_finished = Elems(reaped)
    BY <1>1, NoneFinished
  <1>6. CoroTypes'
    <2>1. switch_count' \in [Coros \cup {Sched} -> Nat]
      BY <1>1, <1>2 DEF CoroTypes
    <2> QED BY <1>1, <1>2, <1>4, <2>1 DEF CoroTypes
  <1>7. Whereabouts'
    <2>1. is_sched_waiting'
      BY <1>2
    <2> QED BY <1>1, <1>2, <1>4, <1>5, <2>1 DEF Whereabouts
  <1>8. Creation'
    BY DEF Creation
  <1>9. InRounds'
    <2>1. \A i \in 1..n : switch_count'[coro_list[i]] = switch_count[coro_list[i]]
      BY <1>1, <1>2, ListTypes, CorosFinite DEF CoroTypes
    <2>2. Place(coro_this)' = 1
      <3>1. Place(coro_this)' = CHOOSE i \in 1..n : coro_list[i] = coro_this'
        BY <1>2 DEF Place
      <3> QED BY <1>1, <1>2, <1>3, <3>1 DEF CoroTypes, NoRepeat
    <2>3. \A i \in 1..n : Rounds(i)' = Rounds(i)
      <3>1. \A i \in 1..n : ~(i < 1)
        OBVIOUS
      <3> QED BY <1>1, <1>2, <2>1, <2>2, <3>1 DEF Rounds
    <2> QED BY <1>1, <1>2, <2>3 DEF InRounds
  <1> QED BY <1>6, <1>7, <1>8, <1>9 DEF SchedInv

\* coro_sched_wait returns a finished coroutine.
LEMMA ReapKeeps ==
    ASSUME SchedInv, NEW c \in Coros, SchedReturns(c), main # "create", main' = main
    PROVE  SchedInv'
  <1> DEFINE n == Len(coro_list)
             k == CHOOSE i \in FinishedAt : \A j \in FinishedAt : i <= j
  <1>1. CoroTypes /\ Whereabouts /\ InRounds /\ coro_this = Sched /\ FinishedAt # {}
    BY DEF SchedInv, SchedReturns
  <1>2. /\ c = coro_list[k] /\ coro_list' = RemoveAt(coro_list, k) /\ reaped' = Append(reaped, c)
        /\ UNCHANGED <<coro_this, is_finished, is_sched_waiting, switch_count>>
    BY DEF SchedReturns, coro_list_delete
  <1>3. k \in FinishedAt
    <2>1. FinishedAt \subseteq Nat
      BY DEF FinishedAt
    <2> QED BY <1>1, <2>1, Least
  <1>4. k \in 1..n /\ c \in is_finished /\ n \in Nat
    BY <1>1, <1>2, <1>3, ListTypes DEF FinishedAt
  <1> HIDE DEF k, n
  <1>5. /\ coro_list' \in Seq(Coros) /\ NoRepeat(coro_list')
        /\ Elems(coro_list') = Elems(coro_list) \ {c} /\ c \in Elems(coro_list)
    BY <1>1, <1>2, <1>4, RemoveAtElems DEF CoroTypes, n, Elems
  <1>6. c \notin Elems(reaped)
    BY <1>1, <1>5 DEF Whereabouts
  <1>7. /\ reaped' \in Seq(Coros) /\ NoRepeat(reaped') /\ Elems(reaped') = Elems(reaped) \cup {c}
    BY <1>1, <1>2, <1>6, AppendElems DEF CoroTypes
  <1>8. CoroTypes'
    BY <1>1, <1>2, <1>5, <1>7 DEF CoroTypes
  <1>9. is_finished \subseteq Elems(reaped')
    BY <1>1, <1>4, <1>6, <1>7 DEF Whereabouts
  <1>10. Whereabouts'
    BY <1>1, <1>2, <1>4, <1>5, <1>6, <1>7, <1>9 DEF Whereabouts
  <1>11. Creation'
    BY DEF Creation
  <1>12. InRounds'
    <2>1. \A i \in 1..n : Rounds(i) = switch_count[coro_list[i]]
      BY <1>1, ListTypes DEF Rounds, n
    <2>2. /\ Len(coro_list') = n - 1
          /\ \A i \in 1..(n - 1) : coro_list'[i] = IF i < k THEN coro_list[i] ELSE coro_list[i + 1]
      BY <1>1, <1>2, <1>4, RemoveAtIs DEF CoroTypes, n
    <2>3. \A i \in 1..(n - 1) : Rounds(i)' = switch_count[coro_list'[i]]
      <3>1. \A i \in 1..(n - 1) : switch_count[coro_list'[i]] \in Nat
        BY <1>1, <1>4, <1>5, <2>2, ElementOfSeq DEF CoroTypes
      <3> QED BY <1>1, <1>2, <3>1 DEF Rounds
    <2>4. \A i \in 1..(n - 1) : Rounds(i)' = IF i < k THEN Rounds(i) ELSE Rounds(i + 1)
      BY <1>4, <2>1, <2>2, <2>3
    <2>5. ASSUME NEW i \in 1..(n - 1), NEW j \in 1..(n - 1), i < j
          PROVE  Rounds(i)' - Rounds(j)' \in 0..Cardinality(is_finished)
      <3>1. /\ i \in 1..n /\ j \in 1..n /\ i + 1 \in 1..n /\ j + 1 \in 1..n
            /\ i < j + 1 /\ i + 1 < j + 1
        BY <1>4, <2>5
      <3>2. \A x, y \in 1..n : x < y => Rounds(x) - Rounds(y) \in 0..Cardinality(is_finished)
        BY <1>1 DEF InRounds, n
      <3>3. CASE j < k
        BY <1>4, <2>4, <2>5, <3>1, <3>2, <3>3
      <3>4. CASE i < k /\ ~(j < k)
        BY <1>4, <2>4, <2>5, <3>1, <3>2, <3>4
      <3>5. CASE ~(i < k)
        BY <1>4, <2>4, <2>5, <3>1, <3>2, <3>5
      <3> QED BY <1>4, <3>3, <3>4, <3>5
    <2> QED BY <1>2, <2>2, <2>5 DEF InRounds
  <1> QED BY <1>8, <1>10, <1>11, <1>12 DEF SchedInv

\* Steps of the program that leave the scheduler alone.
LEMMA SchedStutter ==
    ASSUME SchedInv, UNCHANGED coVars,
           \/ main' = main
           \/ main # "create" /\ main' \in {"combine", "done"}
    PROVE  SchedInv'
  <1>1. /\ CoroTypes /\ Whereabouts /\ Creation /\ InRounds
        /\ coro_list' = coro_list /\ coro_this' = coro_this /\ is_finished' = is_finished
        /\ is_sched_waiting' = is_sched_waiting /\ switch_count' = switch_count /\ reaped' = reaped
    BY DEF SchedInv, coVars
  <1>2. CoroTypes'
    BY <1>1 DEF CoroTypes
  <1>3. Whereabouts' /\ Creation'
    BY <1>1 DEF Whereabouts, Creation
  <1>4. \A i : Rounds(i)' = Rounds(i)
    BY <1>1 DEF Rounds, Place
  <1>5. InRounds'
    BY <1>1, <1>4 DEF InRounds
  <1> QED BY <1>2, <1>3, <1>5 DEF SchedInv

-----------------------------------------------------------------------------
(* The files and who sorts them.                                           *)

\* A step that changes one file, and not whether it is claimed.
LEMMA OneFileChanged ==
    ASSUME FilesThere, NEW k \in 1..Len(files), NEW r, files' = [files EXCEPT ![k] = r],
           DOMAIN r = {"arr", "size", "sorted"}
    PROVE  /\ Len(files') = Len(files) /\ DOMAIN files' = 1..Len(files')
           /\ \A i \in 1..Len(files') : DOMAIN files'[i] = {"arr", "size", "sorted"}
           /\ files'[k] = r /\ \A i \in 1..Len(files) \ {k} : files'[i] = files[i]
  <1>1. DOMAIN files' = 1..Len(files) /\ Len(files) \in Nat
    BY DEF FilesThere
  <1>2. Len(files') = Len(files)
    BY <1>1
  <1>3. files'[k] = r /\ \A i \in 1..Len(files) \ {k} : files'[i] = files[i]
    BY DEF FilesThere
  <1> QED BY <1>1, <1>2, <1>3 DEF FilesThere

\* coroutine_func_f claims a file.
LEMMA ClaimKeeps ==
    ASSUME FilesThere, Claims, NEW c \in Coros, Claim(c)
    PROVE  FilesThere' /\ Claims'
  <1>1. PICK k \in Unclaimed(job[c].i + 1) :
            /\ files' = Marked(k)
            /\ job' = [job EXCEPT ![c] = [i |-> k, plan |-> Append(sorting[0, files[k].size], "pause")]]
    BY DEF Claim
  <1>2. k \in 1..Len(files) /\ k # 0 /\ ~files[k].sorted
    <2>1. job[c].i \in 0..Len(files) /\ Len(files) \in Nat
      BY DEF Claims, FilesThere
    <2>2. k \in (job[c].i + 1)..Len(files) /\ ~files[k].sorted
      BY <1>1 DEF Unclaimed
    <2> QED BY <2>1, <2>2
  <1> DEFINE r == [files[k] EXCEPT !.sorted = TRUE]
             plan == Append(sorting[0, files[k].size], "pause")
  <1>3. DOMAIN r = {"arr", "size", "sorted"} /\ r.sorted = TRUE /\ files' = [files EXCEPT ![k] = r]
    BY <1>1, <1>2 DEF Marked, FilesThere
  <1>4. r.sorted
    BY <1>3, Zenon
  <1> HIDE DEF r, plan
  <1>5. /\ Len(files') = Len(files) /\ DOMAIN files' = 1..Len(files')
        /\ \A i \in 1..Len(files') : DOMAIN files'[i] = {"arr", "size", "sorted"}
        /\ files'[k] = r /\ \A i \in 1..Len(files) \ {k} : files'[i] = files[i]
    BY <1>2, <1>3, OneFileChanged
  <1>6. \A i \in 1..Len(files) : files[i].sorted => files'[i].sorted
    BY <1>4, <1>5
  <1>7. files'[k].sorted
    BY <1>4, <1>5
  <1>8. FilesThere'
    BY <1>5 DEF FilesThere, Claim
  <1>9. /\ DOMAIN job' = Coros /\ job'[c] = [i |-> k, plan |-> plan]
        /\ \A d \in Coros \ {c} : job'[d] = job[d]
    BY <1>1 DEF Claims, plan
  <1>10. /\ job'[c].i = k /\ DOMAIN job'[c] = {"i", "plan"}
    BY <1>9
  <1>11. ASSUME NEW d \in Coros
         PROVE  /\ DOMAIN job'[d] = {"i", "plan"} /\ job'[d].i \in 0..Len(files')
                /\ job'[d].i # 0 => files'[job'[d].i].sorted
                /\ job'[d].i = 0 => job'[d].plan = <<>>
    <2>1. CASE d = c
      BY <1>2, <1>5, <1>7, <1>10, <2>1
    <2>2. CASE d # c
      BY <1>5, <1>6, <1>9, <2>2 DEF Claims
    <2> QED BY <2>1, <2>2
  <1>12. \A d \in Coros \ {c} : job[d].i # k
    BY <1>2 DEF Claims
  <1>13. \A d, e \in Coros : d # e /\ job'[d].i = job'[e].i => job'[d].i = 0
    BY <1>9, <1>10, <1>12 DEF Claims
  <1> QED BY <1>8, <1>9, <1>11, <1>13 DEF Claims

\* The coroutines keep the files they have claimed, and get no plan without one.
SameJobs ==
    /\ DOMAIN job' = Coros
    /\ \A d \in Coros : /\ DOMAIN job'[d] = {"i", "plan"} /\ job'[d].i = job[d].i
                        /\ job[d].plan = <<>> => job'[d].plan = <<>>

\* Steps that change neither who has claimed what nor the number of files.
LEMMA ClaimsKept ==
    ASSUME FilesThere, Claims, Len(files') = Len(files), SameJobs,
           \A i \in 1..Len(files) : files[i].sorted => files'[i].sorted
    PROVE  Claims'
  BY DEF Claims, FilesThere, SameJobs

\* A coroutine goes on with its plan.
LEMMA AdvanceIs ==
    ASSUME Claims, NEW c \in Coros, Advance(c), job[c].plan # <<>>
    PROVE  SameJobs
  <1>1. DOMAIN job' = Coros /\ \A d \in Coros \ {c} : job'[d] = job[d]
    BY DEF Claims, Advance
  <1>2. job'[c].i = job[c].i /\ DOMAIN job'[c] = {"i", "plan"}
    BY DEF Claims, Advance
  <1> QED BY <1>1, <1>2 DEF Claims, SameJobs

\* A part of a file is merged.
LEMMA MergeKeeps ==
    ASSUME FilesThere, Claims, NEW c \in Coros, MergePart(c)
    PROVE  FilesThere' /\ Claims'
  <1>1. Advance(c) /\ job[c].plan # <<>> /\ merged' = merged
    BY DEF MergePart, Working
  <1>2. job[c].i \in 1..Len(files)
    BY <1>1 DEF Claims, FilesThere
  <1> DEFINE k == job[c].i
             a == merge(files[k].arr, Head(job[c].plan)[1], Head(job[c].plan)[2])
             r == [files[k] EXCEPT !.arr = a]
  <1>3. files' = [files EXCEPT ![k] = r]
    BY <1>2 DEF MergePart, FilesThere
  <1> HIDE DEF a
  <1>4. DOMAIN r = {"arr", "size", "sorted"} /\ r.sorted = files[k].sorted
    BY <1>2 DEF FilesThere
  <1> HIDE DEF r, k
  <1>5. k \in 1..Len(files)
    BY <1>2 DEF k
  <1>6. /\ Len(files') = Len(files) /\ DOMAIN files' = 1..Len(files')
        /\ \A i \in 1..Len(files') : DOMAIN files'[i] = {"arr", "size", "sorted"}
        /\ files'[k] = r /\ \A i \in 1..Len(files) \ {k} : files'[i] = files[i]
    BY <1>3, <1>4, <1>5, OneFileChanged
  <1>7. \A i \in 1..Len(files) : files[i].sorted => files'[i].sorted
    BY <1>4, <1>6
  <1>8. FilesThere'
    BY <1>1, <1>6 DEF FilesThere
  <1>9. SameJobs
    BY <1>1, AdvanceIs
  <1> QED BY <1>6, <1>7, <1>8, <1>9, ClaimsKept

\* Two files are combined.
LEMMA CombineKeeps ==
    ASSUME FilesThere, Claims, Combine
    PROVE  FilesThere' /\ Claims'
  <1>1. CASE merged >= Combined
    BY <1>1 DEF Combine, FilesThere, Claims
  <1>2. CASE ~(merged >= Combined)
    <2> DEFINE k == merged + 1
               r == combine(files[k], files[merged])
    <2>1. files' = [files EXCEPT ![k] = r] /\ merged' = k /\ job' = job
      BY <1>2 DEF Combine, FilesThere, Combined
    <2>2. k \in 1..Len(files)
      BY <1>2 DEF FilesThere, Combined
    <2>3. DOMAIN r = {"arr", "size", "sorted"} /\ r.sorted = files[k].sorted
      BY <2>2 DEF FilesThere, combine
    <2> HIDE DEF r, k
    <2>4. /\ Len(files') = Len(files) /\ DOMAIN files' = 1..Len(files')
          /\ \A i \in 1..Len(files') : DOMAIN files'[i] = {"arr", "size", "sorted"}
          /\ files'[k] = r /\ \A i \in 1..Len(files) \ {k} : files'[i] = files[i]
      BY <2>1, <2>2, <2>3, OneFileChanged
    <2>5. \A i \in 1..Len(files) : files[i].sorted => files'[i].sorted
      BY <2>3, <2>4
    <2>6. FilesThere'
      BY <2>1, <2>2, <2>4 DEF FilesThere
    <2>7. Claims'
      BY <2>1, <2>4, <2>5 DEF Claims, FilesThere
    <2> QED BY <2>6, <2>7
  <1> QED BY <1>1, <1>2

-----------------------------------------------------------------------------
(* The theorems.                                                           *)

\* The coroutines are not there yet, the files are.
LEMMA InitCoroInv ==
    ASSUME Init
    PROVE  CoroInv
  <1>1. PICK numbers \in Inputs : \E behind \in [DOMAIN numbers -> Behind] :
            input = [i \in DOMAIN numbers |-> [numbers |-> numbers[i], behind |-> behind[i]]]
    BY DEF Init
  <1>2. DOMAIN numbers = 1..Len(numbers) /\ Len(numbers) \in Nat \ {0}
    BY InputAssumption
  <1>3. DOMAIN files = 1..Len(numbers)
    BY <1>1, <1>2 DEF Init, works_new
  <1>4. Len(files) = Len(numbers)
    BY <1>2, <1>3
  <1>5. \A k \in 1..Len(files) : DOMAIN files[k] = {"arr", "size", "sorted"}
    BY <1>3, <1>4 DEF Init, works_new, my_context_new
  <1>6. FilesThere
    BY <1>2, <1>3, <1>4, <1>5 DEF FilesThere, Init
  <1>7. Claims
    BY <1>2, <1>4 DEF Claims, Init
  <1>8. /\ coro_list = <<>> /\ coro_this = Sched /\ is_finished = {} /\ reaped = <<>>
        /\ is_sched_waiting = FALSE /\ main = "create"
        /\ switch_count = [c \in Coros \cup {Sched} |-> 0]
    BY DEF Init, CoroInit
  <1>9. /\ coro_list \in Seq(Coros) /\ reaped \in Seq(Coros) /\ Len(coro_list) = 0
        /\ Elems(coro_list) = {} /\ NoRepeat(coro_list)
        /\ Elems(reaped) = {} /\ NoRepeat(reaped)
    BY <1>8, EmptyList
  <1>10. CoroTypes
    BY <1>8, <1>9 DEF CoroTypes
  <1>11. Whereabouts /\ InRounds
    BY <1>8, <1>9 DEF Whereabouts, InRounds
  <1>12. Creation
    <2>1. 0 < num_cor
      BY CoroAssumption, InputAssumption
    <2> QED BY <1>8, <1>9, <2>1 DEF Creation
  <1> QED BY <1>6, <1>7, <1>10, <1>11, <1>12 DEF CoroInv, SchedInv

\* Every step keeps the inductive invariant.
LEMMA NextCoroInv ==
    ASSUME CoroInv, [Next]_vars
    PROVE  CoroInv'
  <1>1. SchedInv /\ FilesThere /\ Claims
    BY DEF CoroInv
  <1>2. ASSUME UNCHANGED <<files, job, merged>> PROVE FilesThere' /\ Claims'
    BY <1>1, <1>2 DEF FilesThere, Claims
  <1>3. CASE UNCHANGED vars
    BY <1>1, <1>2, <1>3, SchedStutter DEF CoroInv, vars, sortVars
  <1>4. CASE Create
    BY <1>1, <1>2, <1>4, CreateKeeps DEF CoroInv, Create
  <1>5. CASE Wait
    <2>1. SchedInv'
      <3>1. main = "wait" /\ main # "create"
        BY <1>5 DEF Wait
      <3>2. CASE SchedSwitches /\ UNCHANGED main
        BY <1>1, <3>1, <3>2, SwitchKeeps
      <3>3. CASE \E c \in Coros : SchedReturns(c) /\ UNCHANGED main
        BY <1>1, <3>1, <3>3, ReapKeeps
      <3>4. CASE SchedEmpty /\ main' = "combine"
        BY <1>1, <3>1, <3>4, SchedStutter DEF SchedEmpty
      <3> QED BY <1>5, <3>2, <3>3, <3>4 DEF Wait
    <2> QED BY <1>2, <1>5, <2>1 DEF CoroInv, Wait
  <1>6. CASE Combine
    <2>1. UNCHANGED coVars /\ (main' = main \/ (main # "create" /\ main' \in {"combine", "done"}))
      BY <1>6 DEF Combine
    <2> QED BY <1>1, <1>6, <2>1, SchedStutter, CombineKeeps DEF CoroInv
  <1>7. ASSUME NEW c \in Coros, Claim(c) PROVE CoroInv'
    <2>1. coro_yield /\ main' = main
      BY <1>7 DEF Claim
    <2> QED BY <1>1, <1>7, <2>1, YieldKeeps, ClaimKeeps DEF CoroInv
  <1>8. ASSUME NEW c \in Coros, Finish(c) PROVE CoroInv'
    BY <1>1, <1>2, <1>8, ReturnKeeps DEF CoroInv, Finish, sortVars
  <1>9. ASSUME NEW c \in Coros, to_yield(c) PROVE CoroInv'
    <2>1. Advance(c) /\ job[c].plan # <<>> /\ UNCHANGED <<files, main, merged>>
      BY <1>9 DEF to_yield, Working
    <2>2. SchedInv'
      BY <1>1, <1>9, <2>1, YieldKeeps, SchedStutter DEF to_yield
    <2>3. FilesThere' /\ Claims'
      <3>1. FilesThere'
        BY <1>1, <2>1 DEF FilesThere
      <3>2. SameJobs
        BY <1>1, <2>1, AdvanceIs
      <3>3. Len(files') = Len(files) /\ \A i \in 1..Len(files) : files[i].sorted => files'[i].sorted
        BY <2>1
      <3> QED BY <1>1, <3>1, <3>2, <3>3, ClaimsKept
    <2> QED BY <2>2, <2>3 DEF CoroInv
  <1>10. ASSUME NEW c \in Coros, MergePart(c) PROVE CoroInv'
    <2>1. UNCHANGED coVars /\ main' = main
      BY <1>10 DEF MergePart
    <2> QED BY <1>1, <1>10, <2>1, SchedStutter, MergeKeeps DEF CoroInv
  <1> QED BY <1>3, <1>4, <1>5, <1>6, <1>7, <1>8, <1>9, <1>10 DEF Next

\* The inductive invariant holds in every state of the program.
THEOREM CoroInvariant == Spec => []CoroInv
  <1>1. Init => CoroInv
    BY InitCoroInv
  <1>2. CoroInv /\ [Next]_vars => CoroInv'
    BY NextCoroInv
  <1> QED BY <1>1, <1>2, PTL DEF Spec

\* The scheduler and the coroutines never lose each other (coro_sched_wait,
\* coro_body, coro_yield): whoever runs is alive, in the list and has a place to
\* return to; every coroutine is reaped once, after it has finished.
THEOREM SchedulerIsSound == Spec => []SchedulerSound
  <1>1. ASSUME CoroInv PROVE SchedulerSound
    <2>1. CoroTypes /\ Whereabouts /\ FilesThere /\ Claims
      BY <1>1 DEF CoroInv, SchedInv
    <2>2. /\ ToSet(coro_list) = Elems(coro_list) /\ IsInjective(coro_list)
          /\ ToSet(reaped) = Elems(reaped) /\ IsInjective(reaped)
      BY <2>1, LenProperties DEF CoroTypes, ToSet, Elems, IsInjective, NoRepeat
    <2>3. TypeOK
      BY <2>1, <2>2 DEF TypeOK, CoroTypes, FilesThere, Claims
    <2>4. PlaceToReturn
      BY <2>1, <2>2 DEF PlaceToReturn, Whereabouts, InList
    <2>5. Cardinality(is_finished \ ToSet(reaped)) <= 1
      <3>1. PICK c \in Coros \cup {Sched} : is_finished \ ToSet(reaped) \subseteq {c}
        BY <2>1, <2>2 DEF Whereabouts
      <3>2. IsFiniteSet({c}) /\ Cardinality({c}) = 1
        BY FS_Singleton
      <3> QED BY <3>1, <3>2, FS_Subset
    <2>6. ReapedOnce
      BY <2>1, <2>2, <2>5 DEF ReapedOnce, Whereabouts
    <2> QED BY <2>3, <2>4, <2>6 DEF SchedulerSound
  <1> QED BY <1>1, CoroInvariant, PTL

\* Round robin (coro_yield, coro_sched_wait): a coroutine is never behind one that
\* comes after it in the list, and ahead of it by no more than one switch and one
\* for every round that a finished coroutine cut short.
THEOREM RoundsAreFair == Spec => []RoundRobin
  <1>1. ASSUME CoroInv PROVE RoundRobin
    <2>1. CoroTypes /\ Whereabouts /\ InRounds
      BY <1>1 DEF CoroInv, SchedInv
    <2>2. Cardinality(is_finished) \in Nat
      BY <2>1, CorosFinite DEF CoroTypes
    <2> SUFFICES ASSUME NEW i \in 1..Len(coro_list), NEW j \in 1..Len(coro_list), i < j
                 PROVE  switch_count[coro_list[i]] - switch_count[coro_list[j]]
                            \in 0..(1 + Cardinality(is_finished))
      BY DEF RoundRobin
    <2>3. switch_count[coro_list[i]] \in Nat /\ switch_count[coro_list[j]] \in Nat
      BY <2>1, ListTypes
    <2>4. Rounds(i) - Rounds(j) \in 0..Cardinality(is_finished)
      BY <2>1 DEF InRounds
    <2>5. CASE coro_this = Sched
      BY <2>2, <2>3, <2>4, <2>5 DEF Rounds
    <2>6. CASE coro_this # Sched
      <3> DEFINE p == Place(coro_this)
      <3>1. p \in 1..Len(coro_list)
        BY <2>1, <2>6, PlaceIs DEF CoroTypes, Whereabouts
      <3>2. /\ Rounds(i) = switch_count[coro_list[i]] - (IF i < p THEN 1 ELSE 0)
            /\ Rounds(j) = switch_count[coro_list[j]] - (IF j < p THEN 1 ELSE 0)
        BY <2>6 DEF Rounds
      <3> DEFINE a == switch_count[coro_list[i]]  b == switch_count[coro_list[j]]
                 C == Cardinality(is_finished)
      <3> HIDE DEF p, a, b, C
      <3>3. a \in Nat /\ b \in Nat /\ C \in Nat
        BY <2>2, <2>3 DEF a, b, C
      <3>4. (a - (IF i < p THEN 1 ELSE 0)) - (b - (IF j < p THEN 1 ELSE 0)) \in 0..C
        BY <2>4, <3>2 DEF a, b, C
      <3>5. (j < p => i < p) /\ i \in Int /\ j \in Int
        BY <3>1
      <3>6. a - b \in 0..(1 + C)
        <4>1. CASE i < p /\ j < p
          BY <3>3, <3>4, <4>1
        <4>2. CASE i < p /\ ~(j < p)
          BY <3>3, <3>4, <4>2
        <4>3. CASE ~(i < p)
          BY <3>3, <3>4, <3>5, <4>3
        <4> QED BY <4>1, <4>2, <4>3
      <3> QED BY <3>6 DEF a, b, C
    <2> QED BY <2>5, <2>6
  <1> QED BY <1>1, CoroInvariant, PTL

\* No file has two sorters (coroutine_func_f), although coroutines give way between
\* claiming a file and sorting it.
THEOREM OneSorter == Spec => []SortedByOne
  <1>1. ASSUME CoroInv PROVE SortedByOne
    BY <1>1 DEF CoroInv, Claims, SortedByOne
  <1> QED BY <1>1, CoroInvariant, PTL
=============================================================================
