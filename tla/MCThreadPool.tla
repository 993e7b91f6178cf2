---------------------------- MODULE MCThreadPool ----------------------------
(***************************************************************************)
(* Small instances of ThreadPool for TLC.                                  *)
(***************************************************************************)
EXTENDS ThreadPoolProps, TLC

CONSTANTS t1, t2, u1, u2

OneUser   == {u1}
TwoUsers  == {u1, u2}
OneTask   == {t1}
TwoTasks  == {t1, t2}

\* One application thread with every handle.
AllHandles == [u \in Users |-> Tasks]

\* Each application thread owns one task.
OwnHandles == (u1 :> {t1}) @@ (u2 :> {t2})

\* Then the two threads can change places, each with its task.
OwnerSymmetry == {p \in Permutations(Users \cup Tasks) :
                    p[u1] \in Users /\ p[t1] \in Tasks /\ (p[u1] = u1 <=> p[t1] = t1)}

ZeroedHeap == {0}
DirtyHeap  == {0, 1}
AnyHeap    == {-1, 0, 1}
=============================================================================
