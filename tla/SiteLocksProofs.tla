-------------------------- MODULE SiteLocksProofs --------------------------
(***************************************************************************)
(* Proofs about SiteLocks for any finite set of tasks and any set of       *)
(* sites: mutual exclusion, entries kept exactly while they are used, and  *)
(* the registry as one queue per site.                                     *)
(***************************************************************************)
EXTENDS SiteLocks, SequencesExt, FiniteSetTheorems, TLAPS

Users(l) == {t \in Tasks : lock[t] = l}

(***************************************************************************)
(* The inductive invariant.  Exclusion per lock object (Held) is not       *)
(* enough: two tasks of one site must also have the same object, which     *)
(* holds because an entry is dropped only when its count of users is zero. *)
(***************************************************************************)

\* Whoever is not idle refers to the entry its site has in the registry.
Referenced ==
    /\ \A t \in Tasks : pc[t] = "idle" <=> lock[t] = NoLock
    /\ \A t \in Tasks : pc[t] # "idle" => entries[slug[t]] = lock[t]
    /\ \A s, u \in Slugs : entries[s] = entries[u] /\ entries[s] # NoLock => s = u

\* The count of an entry is the number of its users.
Counts == \A l \in Locks : waiting[l] = Cardinality(Users(l))

\* A lock is taken exactly when a user is inside, and then by one.
Held ==
    /\ \A t \in Tasks : pc[t] = "inside" => locked[lock[t]]
    /\ \A l \in Locks : locked[l] => \E t \in Tasks : lock[t] = l /\ pc[t] = "inside"
    /\ \A t, u \in Tasks : pc[t] = "inside" /\ pc[u] = "inside" /\ lock[t] = lock[u] => t = u

\* The waiters of a lock are its users who await it, each once.
Waiters ==
    /\ \A l \in Locks : \A i \in 1 .. Len(waiters[l]) :
          lock[waiters[l][i]] = l /\ pc[waiters[l][i]] \in Queued
    /\ \A t \in Tasks : pc[t] \in Queued => \E i \in 1 .. Len(waiters[lock[t]]) : waiters[lock[t]][i] = t
    /\ \A l \in Locks : \A i, j \in 1 .. Len(waiters[l]) : waiters[l][i] = waiters[l][j] => i = j

\* Only the first waiter of a free lock has been woken.
Woken ==
    \A t \in Tasks : pc[t] \in {"woken", "doomed"} => ~locked[lock[t]] /\ waiters[lock[t]][1] = t

Inv == TypeOK /\ Referenced /\ Counts /\ Held /\ Waiters /\ Woken

\* The invariant gives the property.
LEMMA InvExcludes == Inv => MutualExclusion
BY DEF Inv, Referenced, Held, MutualExclusion

\* A task's own lock is an object once it is not idle.
LEMMA OwnLock ==
    ASSUME Inv, NEW t \in Tasks, pc[t] # "idle"
    PROVE  lock[t] \in Locks /\ lock[t] = entries[slug[t]]
BY DEF Inv, TypeOK, Referenced

\* Taking one out of a queue of distinct tasks keeps the rest, in order.
LEMMA WithoutFacts ==
    ASSUME NEW w \in Seq(Tasks), NEW k \in 1 .. Len(w),
           \A i, j \in 1 .. Len(w) : w[i] = w[j] => i = j
    PROVE  /\ Without(w, w[k]) \in Seq(Tasks)
           /\ Len(Without(w, w[k])) = Len(w) - 1
           /\ \A j \in 1 .. Len(w) - 1 : Without(w, w[k])[j] = IF j < k THEN w[j] ELSE w[j + 1]
<1> DEFINE at == CHOOSE i \in 1 .. Len(w) : w[i] = w[k]
<1>1. at = k
  <2>1. at \in 1 .. Len(w) /\ w[at] = w[k]
    OBVIOUS
  <2> QED BY <2>1
<1>2. Without(w, w[k]) = [j \in 1 .. Len(w) - 1 |-> IF j < k THEN w[j] ELSE w[j + 1]]
  BY <1>1 DEF Without
<1>3. \A j \in 1 .. Len(w) - 1 : (IF j < k THEN w[j] ELSE w[j + 1]) \in Tasks
  OBVIOUS
<1> QED BY <1>2, <1>3

\* Waking changes at most the first waiter, from pending.
LEMMA WakeFacts ==
    ASSUME NEW p \in [Tasks -> PC], NEW w \in Seq(Tasks)
    PROVE  /\ WakeFirst(p, w) \in [Tasks -> PC]
           /\ \A t \in Tasks : \/ WakeFirst(p, w)[t] = p[t]
                               \/ /\ WakeFirst(p, w)[t] = "woken" /\ p[t] = "pending"
                                  /\ w # <<>> /\ t = w[1]
BY DEF WakeFirst, PC, Queued

\* At the start nobody uses a lock.
LEMMA InitInv == Init => Inv
<1> SUFFICES ASSUME Init PROVE Inv
  OBVIOUS
<1> USE Objects DEF Init
<1>1. TypeOK
  <2>1. locked \in [Locks -> BOOLEAN]
    OBVIOUS
  <2> QED BY <2>1 DEF TypeOK, PC
<1>2. Counts
  <2>1. \A l \in Locks : Users(l) = {}
    BY DEF Users
  <2> QED BY <2>1, FS_EmptySet DEF Counts
<1>3. Referenced
  BY DEF Referenced
<1>4. Held /\ Waiters /\ Woken
  BY DEF Held, Waiters, Woken, Queued
<1> QED BY <1>1, <1>2, <1>3, <1>4 DEF Inv

\* The users of a lock are finitely many, and counting them is safe.
LEMMA UsersFinite ==
    ASSUME NEW l
    PROVE  IsFiniteSet(Users(l))
BY Objects, FS_Subset DEF Users

\* hold's finally: the entry stays while another task uses it.
LEMMA DropFacts ==
    ASSUME Inv, NEW t \in Tasks, pc[t] # "idle", Drop(t)
    PROVE  /\ entries' \in [Slugs -> Locks \cup {NoLock}]
           /\ waiting' \in [Locks -> Nat]
           /\ lock' = [lock EXCEPT ![t] = NoLock] /\ lock' \in [Tasks -> Locks \cup {NoLock}]
           /\ slug' = slug
           /\ Counts'
           /\ \A u \in Tasks \ {t} : pc[u] # "idle" => entries'[slug[u]] = lock[u]
           /\ \A s, u \in Slugs : entries'[s] = entries'[u] /\ entries'[s] # NoLock => s = u
<1> DEFINE l == lock[t]
<1>0. /\ entries \in [Slugs -> Locks \cup {NoLock}] /\ waiting \in [Locks -> Nat]
      /\ lock \in [Tasks -> Locks \cup {NoLock}] /\ slug \in [Tasks -> Slugs]
      /\ l \in Locks /\ l = entries[slug[t]] /\ l # NoLock
  BY OwnLock, Objects DEF Inv, TypeOK
<1>1. /\ waiting' = [waiting EXCEPT ![l] = @ - 1]
      /\ entries' = [s \in Slugs |-> IF s = slug[t] /\ waiting[l] = 1 /\ entries[s] = l
                                     THEN NoLock ELSE entries[s]]
      /\ lock' = [lock EXCEPT ![t] = NoLock]
      /\ slug' = slug
  BY DEF Drop
<1>2. t \in Users(l) /\ IsFiniteSet(Users(l)) /\ waiting[l] = Cardinality(Users(l))
  BY <1>0, UsersFinite DEF Users, Inv, Counts
<1>3. /\ Cardinality(Users(l) \ {t}) = Cardinality(Users(l)) - 1
      /\ IsFiniteSet(Users(l) \ {t}) /\ Cardinality(Users(l) \ {t}) \in Nat
  <2>1. IsFiniteSet(Users(l) \ {t}) /\ Cardinality(Users(l) \ {t}) = Cardinality(Users(l)) - 1
    BY <1>2, FS_RemoveElement
  <2> QED BY <2>1, FS_CardinalityType
<1>4. waiting' \in [Locks -> Nat]
  BY <1>0, <1>1, <1>2, <1>3
<1>5. Counts'
  <2> SUFFICES ASSUME NEW m \in Locks PROVE waiting'[m] = Cardinality(Users(m)')
    BY DEF Counts
  <2>1. CASE m = l
    <3>1. Users(m)' = Users(l) \ {t}
      BY <1>0, <1>1, <2>1 DEF Users
    <3> QED BY <1>0, <1>1, <1>2, <1>3, <2>1, <3>1
  <2>2. CASE m # l
    <3>1. Users(m)' = Users(m)
      BY <1>0, <1>1, <2>2, Objects DEF Users
    <3> QED BY <1>0, <1>1, <2>2, <3>1 DEF Inv, Counts
  <2> QED BY <2>1, <2>2
<1>6. ASSUME NEW u \in Tasks \ {t}, pc[u] # "idle" PROVE entries'[slug[u]] = lock[u]
  <2>1. entries[slug[u]] = lock[u]
    BY <1>6 DEF Inv, Referenced
  <2>2. CASE lock[u] = l
    <3>1. u \in Users(l) \ {t}
      BY <2>2 DEF Users
    <3>2. Cardinality(Users(l) \ {t}) # 0
      BY <1>3, <3>1, FS_EmptySet
    <3>3. waiting[l] # 1
      BY <1>2, <1>3, <3>2
    <3> QED BY <1>0, <1>1, <2>1, <3>3
  <2>3. CASE lock[u] # l
    BY <1>0, <1>1, <2>1, <2>3
  <2> QED BY <2>2, <2>3
<1>7. entries' \in [Slugs -> Locks \cup {NoLock}]
  BY <1>0, <1>1
<1>8. \A s, u \in Slugs : entries'[s] = entries'[u] /\ entries'[s] # NoLock => s = u
  BY <1>0, <1>1 DEF Inv, Referenced
<1>9. lock' \in [Tasks -> Locks \cup {NoLock}]
  BY <1>0, <1>1
<1> QED BY <1>1, <1>4, <1>5, <1>6, <1>7, <1>8, <1>9

\* hold up to the lock.
LEMMA AskInv ==
    ASSUME Inv, NEW t \in Tasks, NEW s \in Slugs, NEW l \in Locks, Ask(t, s, l)
    PROVE  Inv'
<1>0. /\ entries \in [Slugs -> Locks \cup {NoLock}] /\ waiting \in [Locks -> Nat]
      /\ locked \in [Locks -> BOOLEAN] /\ waiters \in [Locks -> Seq(Tasks)]
      /\ pc \in [Tasks -> PC] /\ slug \in [Tasks -> Slugs] /\ lock \in [Tasks -> Locks \cup {NoLock}]
      /\ NoLock \notin Locks
  BY Objects DEF Inv, TypeOK
<1>1. /\ pc[t] = "idle" /\ EntryOf(s, l)
      /\ entries' = [entries EXCEPT ![s] = l]
      /\ waiting' = [waiting EXCEPT ![l] = @ + 1]
      /\ slug' = [slug EXCEPT ![t] = s]
      /\ lock' = [lock EXCEPT ![t] = l]
  BY DEF Ask, Counted
<1>2. lock[t] = NoLock
  BY <1>1 DEF Inv, Referenced
<1>3. Counts'
  <2> SUFFICES ASSUME NEW m \in Locks PROVE waiting'[m] = Cardinality(Users(m)')
    BY DEF Counts
  <2>1. CASE m = l
    <3>1. Users(m)' = Users(l) \cup {t} /\ t \notin Users(l)
      BY <1>0, <1>1, <1>2, <2>1 DEF Users
    <3>2. Cardinality(Users(l) \cup {t}) = Cardinality(Users(l)) + 1
      BY <3>1, UsersFinite, FS_AddElement
    <3> QED BY <1>0, <1>1, <2>1, <3>1, <3>2 DEF Inv, Counts
  <2>2. CASE m # l
    <3>1. Users(m)' = Users(m)
      BY <1>0, <1>1, <1>2, <2>2 DEF Users
    <3> QED BY <1>0, <1>1, <2>2, <3>1 DEF Inv, Counts
  <2> QED BY <2>1, <2>2
<1>4. \A u \in Slugs \ {s} : entries[u] # l
  BY <1>0, <1>1 DEF EntryOf, Unreferenced, Inv, Referenced
<1>5. \A u \in Tasks : pc[u] # "idle" => entries'[slug[u]] = lock[u]
  BY <1>0, <1>1 DEF EntryOf, Inv, Referenced
<1>6. \A u, v \in Slugs : entries'[u] = entries'[v] /\ entries'[u] # NoLock => u = v
  BY <1>0, <1>1, <1>4 DEF Inv, Referenced
<1>7. CASE Free(l)
  <2>1. /\ locked' = [locked EXCEPT ![l] = TRUE] /\ pc' = [pc EXCEPT ![t] = "inside"]
        /\ waiters' = waiters /\ ~locked[l]
    BY <1>7 DEF Ask, Free
  <2>2. TypeOK'
    <3>1. locked' \in [Locks -> BOOLEAN]
      BY <1>0, <2>1
    <3> QED BY <1>0, <1>1, <2>1, <3>1 DEF TypeOK, PC
  <2>3. Referenced'
    BY <1>0, <1>1, <1>5, <1>6, <2>1 DEF Referenced, Inv
  <2>4. Held'
    BY <1>0, <1>1, <1>2, <2>1 DEF Held, Inv
  <2>5. Waiters'
    <3>1. \A m \in Locks : \A i \in 1 .. Len(waiters[m]) : waiters[m][i] \in Tasks \ {t}
      <4>1. \A m \in Locks : \A i \in 1 .. Len(waiters[m]) : waiters[m][i] \in Tasks
        BY <1>0
      <4> QED BY <1>1, <4>1 DEF Inv, Waiters, Queued
    <3>2. \A m \in Locks : \A i \in 1 .. Len(waiters[m]) :
             lock'[waiters[m][i]] = m /\ pc'[waiters[m][i]] \in Queued
      BY <1>0, <1>1, <2>1, <3>1 DEF Inv, Waiters
    <3>3. \A u \in Tasks : pc'[u] \in Queued => pc[u] \in Queued /\ lock'[u] = lock[u]
      BY <1>0, <1>1, <2>1 DEF Queued
    <3> QED BY <2>1, <3>2, <3>3 DEF Inv, Waiters
  <2>6. \A u \in Tasks : pc[u] \in {"woken", "doomed"} => lock[u] # l
    <3> SUFFICES ASSUME NEW u \in Tasks, pc[u] \in {"woken", "doomed"}, lock[u] = l PROVE FALSE
      OBVIOUS
    <3>1. PICK i \in 1 .. Len(waiters[l]) : waiters[l][i] = u
      BY DEF Inv, Waiters, Queued
    <3>2. u \in Members(waiters[l])
      BY <3>1 DEF Members
    <3> QED BY <1>7, <3>2 DEF Free
  <2>7. Woken'
    BY <1>0, <1>1, <2>1, <2>6 DEF Woken, Inv
  <2> QED BY <1>3, <2>2, <2>3, <2>4, <2>5, <2>7 DEF Inv
<1>8. CASE ~Free(l)
  <2>1. /\ waiters' = [waiters EXCEPT ![l] = Append(@, t)] /\ pc' = [pc EXCEPT ![t] = "pending"]
        /\ locked' = locked
    BY <1>8 DEF Ask
  <2>2. TypeOK'
    BY <1>0, <1>1, <2>1 DEF TypeOK, PC, Queued
  <2>3. Referenced'
    BY <1>0, <1>1, <1>5, <1>6, <2>1 DEF Referenced, Inv
  <2>4. Held'
    BY <1>0, <1>1, <1>2, <2>1 DEF Held, Inv
  <2>5. /\ Len(waiters'[l]) = Len(waiters[l]) + 1 /\ Len(waiters[l]) \in Nat
        /\ waiters'[l][Len(waiters[l]) + 1] = t
        /\ \A i \in 1 .. Len(waiters[l]) : waiters'[l][i] = waiters[l][i]
        /\ \A m \in Locks \ {l} : waiters'[m] = waiters[m]
    BY <1>0, <2>1
  <2>6. \A i \in 1 .. Len(waiters[l]) : waiters[l][i] \in Tasks \ {t}
    <3>1. \A i \in 1 .. Len(waiters[l]) : waiters[l][i] \in Tasks
      BY <1>0
    <3> QED BY <1>1, <3>1 DEF Inv, Waiters, Queued
  <2>7. Waiters'
    <3>1. \A m \in Locks : \A i \in 1 .. Len(waiters'[m]) :
             lock'[waiters'[m][i]] = m /\ pc'[waiters'[m][i]] \in Queued
      <4> SUFFICES ASSUME NEW m \in Locks, NEW i \in 1 .. Len(waiters'[m])
                   PROVE  lock'[waiters'[m][i]] = m /\ pc'[waiters'[m][i]] \in Queued
        OBVIOUS
      <4>1. CASE m # l
        <5>1. waiters[m][i] \in Tasks /\ lock[waiters[m][i]] = m /\ pc[waiters[m][i]] \in Queued
          BY <1>0, <2>5, <4>1 DEF Inv, Waiters
        <5> QED BY <1>0, <1>1, <1>2, <2>1, <2>5, <4>1, <5>1
      <4>2. CASE m = l /\ i \in 1 .. Len(waiters[l])
        <5>1. waiters[l][i] \in Tasks \ {t} /\ lock[waiters[l][i]] = l /\ pc[waiters[l][i]] \in Queued
          BY <2>6, <4>2 DEF Inv, Waiters
        <5> QED BY <1>0, <1>1, <2>1, <2>5, <4>2, <5>1
      <4>3. CASE m = l /\ i = Len(waiters[l]) + 1
        BY <1>0, <1>1, <2>1, <2>5, <4>3 DEF Queued
      <4> QED BY <2>5, <4>1, <4>2, <4>3
    <3>2. \A u \in Tasks : pc'[u] \in Queued => \E i \in 1 .. Len(waiters'[lock'[u]]) : waiters'[lock'[u]][i] = u
      <4> SUFFICES ASSUME NEW u \in Tasks, pc'[u] \in Queued
                   PROVE  \E i \in 1 .. Len(waiters'[lock'[u]]) : waiters'[lock'[u]][i] = u
        OBVIOUS
      <4>1. CASE u = t
        <5>1. lock'[u] = l
          BY <1>0, <1>1, <4>1
        <5>2. Len(waiters[l]) + 1 \in 1 .. Len(waiters'[l])
          BY <2>5
        <5> QED BY <2>5, <4>1, <5>1, <5>2
      <4>2. CASE u # t
        <5>1. pc[u] \in Queued /\ lock'[u] = lock[u] /\ pc[u] # "idle"
          BY <1>0, <1>1, <2>1, <4>2 DEF Queued
        <5>2. PICK i \in 1 .. Len(waiters[lock[u]]) : waiters[lock[u]][i] = u
          BY <5>1 DEF Inv, Waiters
        <5>3. lock[u] \in Locks
          BY <5>1, OwnLock
        <5>4. i \in 1 .. Len(waiters'[lock[u]]) /\ waiters'[lock[u]][i] = u
          BY <2>5, <5>2, <5>3
        <5> QED BY <5>1, <5>4
      <4> QED BY <4>1, <4>2
    <3>3. \A m \in Locks : \A i, j \in 1 .. Len(waiters'[m]) : waiters'[m][i] = waiters'[m][j] => i = j
      <4> SUFFICES ASSUME NEW m \in Locks, NEW i \in 1 .. Len(waiters'[m]), NEW j \in 1 .. Len(waiters'[m]),
                          waiters'[m][i] = waiters'[m][j]
                   PROVE  i = j
        OBVIOUS
      <4>1. CASE m # l
        BY <2>5, <4>1 DEF Inv, Waiters
      <4>2. CASE m = l
        <5> DEFINE n == Len(waiters[l])
        <5>1. n \in Nat /\ i \in 1 .. n + 1 /\ j \in 1 .. n + 1
          BY <2>5, <4>2
        <5>2. CASE i \in 1 .. n /\ j \in 1 .. n
          <6>1. waiters[l][i] = waiters[l][j]
            BY <2>5, <4>2, <5>2
          <6> QED BY <5>2, <6>1 DEF Inv, Waiters
        <5>3. CASE i \in 1 .. n /\ j \notin 1 .. n
          <6>1. j = n + 1 /\ waiters'[m][j] = t
            BY <2>5, <4>2, <5>1, <5>3
          <6>2. waiters'[m][i] \in Tasks \ {t}
            BY <2>5, <2>6, <4>2, <5>3
          <6> QED BY <6>1, <6>2
        <5>4. CASE i \notin 1 .. n /\ j \in 1 .. n
          <6>1. i = n + 1 /\ waiters'[m][i] = t
            BY <2>5, <4>2, <5>1, <5>4
          <6>2. waiters'[m][j] \in Tasks \ {t}
            BY <2>5, <2>6, <4>2, <5>4
          <6> QED BY <6>1, <6>2
        <5>5. CASE i \notin 1 .. n /\ j \notin 1 .. n
          BY <5>1, <5>5
        <5> QED BY <5>2, <5>3, <5>4, <5>5
      <4> QED BY <4>1, <4>2
    <3> QED BY <3>1, <3>2, <3>3 DEF Waiters
  <2>8. Woken'
    <3> SUFFICES ASSUME NEW u \in Tasks, pc'[u] \in {"woken", "doomed"}
                 PROVE  ~locked'[lock'[u]] /\ waiters'[lock'[u]][1] = u
      BY DEF Woken
    <3>1. u # t /\ pc[u] \in {"woken", "doomed"} /\ lock'[u] = lock[u]
      BY <1>0, <1>1, <2>1
    <3>2. ~locked[lock[u]] /\ waiters[lock[u]][1] = u /\ lock[u] \in Locks
      BY <3>1, OwnLock DEF Inv, Woken
    <3>3. PICK i \in 1 .. Len(waiters[lock[u]]) : waiters[lock[u]][i] = u
      BY <3>1 DEF Inv, Waiters, Queued
    <3>4. 1 \in 1 .. Len(waiters[lock[u]])
      BY <1>0, <3>2, <3>3
    <3> QED BY <2>1, <2>5, <3>1, <3>2, <3>4
  <2> QED BY <1>3, <2>2, <2>3, <2>4, <2>7, <2>8 DEF Inv
<1> QED BY <1>7, <1>8

\* The queues once t has left the one of its lock: what is left of it is in
\* order, and whoever else was queued still is.
WaitersLess(t) ==
    /\ waiters' \in [Locks -> Seq(Tasks)]
    /\ \A m \in Locks \ {lock[t]} : waiters'[m] = waiters[m]
    /\ waiters'[lock[t]] = Without(waiters[lock[t]], t)
    /\ \A m \in Locks : \A i \in 1 .. Len(waiters'[m]) :
          /\ waiters'[m][i] \in Tasks \ {t}
          /\ lock[waiters'[m][i]] = m /\ pc[waiters'[m][i]] \in Queued
    /\ \A u \in Tasks \ {t} : pc[u] \in Queued =>
          \E i \in 1 .. Len(waiters'[lock[u]]) : waiters'[lock[u]][i] = u
    /\ \A m \in Locks : \A i, j \in 1 .. Len(waiters'[m]) : waiters'[m][i] = waiters'[m][j] => i = j
    /\ \A u \in Tasks \ {t} : pc[u] \in Queued /\ waiters[lock[u]][1] = u => waiters'[lock[u]][1] = u

\* Taking a queued task out of its queue is such a step.
LEMMA LessFacts ==
    ASSUME Inv, NEW t \in Tasks, pc[t] \in Queued,
           waiters' = [waiters EXCEPT ![lock[t]] = Without(@, t)]
    PROVE  WaitersLess(t)
<1> DEFINE l == lock[t]
           w == waiters[l]
<1>0. waiters \in [Locks -> Seq(Tasks)] /\ l \in Locks /\ w \in Seq(Tasks)
  <2>1. pc[t] # "idle"
    BY DEF Queued
  <2> QED BY <2>1, OwnLock DEF Inv, TypeOK
<1>1. PICK k \in 1 .. Len(w) : w[k] = t
  BY DEF Inv, Waiters
<1>2. \A i, j \in 1 .. Len(w) : w[i] = w[j] => i = j
  BY <1>0 DEF Inv, Waiters
<1>3. /\ Without(w, t) \in Seq(Tasks) /\ Len(Without(w, t)) = Len(w) - 1
      /\ \A j \in 1 .. Len(w) - 1 : Without(w, t)[j] = IF j < k THEN w[j] ELSE w[j + 1]
  <2>1. /\ Without(w, w[k]) \in Seq(Tasks) /\ Len(Without(w, w[k])) = Len(w) - 1
        /\ \A j \in 1 .. Len(w) - 1 : Without(w, w[k])[j] = IF j < k THEN w[j] ELSE w[j + 1]
    BY <1>0, <1>2, WithoutFacts
  <2> QED BY <1>1, <2>1
<1>4. waiters'[l] = Without(w, t) /\ \A m \in Locks \ {l} : waiters'[m] = waiters[m]
  BY <1>0
<1>5. waiters' \in [Locks -> Seq(Tasks)]
  BY <1>0, <1>3
<1>6. Len(w) \in Nat
  BY <1>0
<1>7. ASSUME NEW m \in Locks, NEW i \in 1 .. Len(waiters'[m])
      PROVE  /\ waiters'[m][i] \in Tasks \ {t}
             /\ lock[waiters'[m][i]] = m /\ pc[waiters'[m][i]] \in Queued
  <2>1. CASE m = l
    <3>1. i \in 1 .. Len(w) - 1
      BY <1>3, <1>4, <2>1
    <3>2. PICK j \in 1 .. Len(w) : j # k /\ waiters'[m][i] = w[j]
      <4>1. CASE i < k
        BY <1>1, <1>3, <1>4, <1>6, <2>1, <3>1, <4>1
      <4>2. CASE ~(i < k)
        <5>1. i + 1 \in 1 .. Len(w) /\ i + 1 # k
          BY <1>1, <1>6, <3>1, <4>2
        <5> QED BY <1>3, <1>4, <2>1, <3>1, <4>2, <5>1
      <4> QED BY <4>1, <4>2
    <3>3. w[j] \in Tasks /\ w[j] # t
      BY <1>0, <1>1, <1>2, <3>2
    <3> QED BY <1>0, <2>1, <3>2, <3>3 DEF Inv, Waiters
  <2>2. CASE m # l
    <3>1. waiters'[m] = waiters[m] /\ waiters[m][i] \in Tasks
      BY <1>0, <1>4, <2>2
    <3>2. lock[waiters[m][i]] = m /\ pc[waiters[m][i]] \in Queued
      BY <3>1 DEF Inv, Waiters
    <3> QED BY <2>2, <3>1, <3>2
  <2> QED BY <2>1, <2>2
<1>8. ASSUME NEW u \in Tasks \ {t}, pc[u] \in Queued
      PROVE  /\ \E i \in 1 .. Len(waiters'[lock[u]]) : waiters'[lock[u]][i] = u
             /\ waiters[lock[u]][1] = u => waiters'[lock[u]][1] = u
  <2>1. PICK i \in 1 .. Len(waiters[lock[u]]) : waiters[lock[u]][i] = u
    BY <1>8 DEF Inv, Waiters
  <2>2. lock[u] \in Locks
    <3>1. pc[u] # "idle"
      BY <1>8 DEF Queued
    <3> QED BY <3>1, OwnLock
  <2>3. CASE lock[u] = l
    <3>1. i # k /\ i \in 1 .. Len(w) /\ w[i] = u
      BY <1>1, <2>1, <2>3
    <3>2. \E j \in 1 .. Len(w) - 1 : Without(w, t)[j] = u
      <4>1. CASE i < k
        <5>1. i \in 1 .. Len(w) - 1
          BY <1>1, <1>6, <3>1, <4>1
        <5>2. Without(w, t)[i] = w[i]
          BY <1>3, <4>1, <5>1
        <5> QED BY <3>1, <5>1, <5>2
      <4>2. CASE ~(i < k)
        <5>1. i - 1 \in 1 .. Len(w) - 1 /\ ~(i - 1 < k) /\ (i - 1) + 1 = i
          BY <1>1, <1>6, <3>1, <4>2
        <5>2. Without(w, t)[i - 1] = w[(i - 1) + 1]
          BY <1>3, <5>1
        <5> QED BY <3>1, <5>1, <5>2
      <4> QED BY <4>1, <4>2
    <3>3. w[1] = u => Without(w, t)[1] = u
      <4> SUFFICES ASSUME w[1] = u PROVE Without(w, t)[1] = u
        OBVIOUS
      <4>1. 1 \in 1 .. Len(w) /\ 1 # k
        BY <1>1, <1>6
      <4>2. 1 \in 1 .. Len(w) - 1 /\ 1 < k
        BY <1>1, <1>6, <4>1
      <4> QED BY <1>3, <4>2
    <3> QED BY <1>3, <1>4, <2>3, <3>2, <3>3
  <2>4. CASE lock[u] # l
    BY <1>4, <2>1, <2>2, <2>4
  <2> QED BY <2>3, <2>4
<1>9. ASSUME NEW m \in Locks, NEW i \in 1 .. Len(waiters'[m]), NEW j \in 1 .. Len(waiters'[m]),
             waiters'[m][i] = waiters'[m][j]
      PROVE  i = j
  <2>1. CASE m = l
    <3>1. i \in 1 .. Len(w) - 1 /\ j \in 1 .. Len(w) - 1
      BY <1>3, <1>4, <2>1
    <3>2. Without(w, t)[i] = Without(w, t)[j]
      BY <1>4, <1>9, <2>1
    <3>3. /\ i < k => Without(w, t)[i] = w[i]
          /\ ~(i < k) => Without(w, t)[i] = w[i + 1]
          /\ j < k => Without(w, t)[j] = w[j]
          /\ ~(j < k) => Without(w, t)[j] = w[j + 1]
      BY <1>3, <3>1
    <3>4. i \in 1 .. Len(w) /\ i + 1 \in 1 .. Len(w) /\ j \in 1 .. Len(w) /\ j + 1 \in 1 .. Len(w)
      BY <1>6, <3>1
    <3> QED BY <1>1, <1>2, <3>1, <3>2, <3>3, <3>4
  <2>2. CASE m # l
    BY <1>4, <1>9, <2>2 DEF Inv, Waiters
  <2> QED BY <2>1, <2>2
<1> HIDE DEF l, w
<1> QED BY <1>4, <1>5, <1>7, <1>8, <1>9 DEF WaitersLess, l, w

\* A woken task takes the lock: it was free and nobody else was woken.
LEMMA ResumeInv ==
    ASSUME Inv, NEW t \in Tasks, Resume(t)
    PROVE  Inv'
<1> DEFINE l == lock[t]
           w == waiters[l]
<1>0. /\ entries \in [Slugs -> Locks \cup {NoLock}] /\ waiting \in [Locks -> Nat]
      /\ locked \in [Locks -> BOOLEAN] /\ waiters \in [Locks -> Seq(Tasks)]
      /\ pc \in [Tasks -> PC] /\ slug \in [Tasks -> Slugs] /\ lock \in [Tasks -> Locks \cup {NoLock}]
  BY DEF Inv, TypeOK
<1>1. /\ pc[t] = "woken"
      /\ waiters' = [waiters EXCEPT ![l] = Without(@, t)]
      /\ locked' = [locked EXCEPT ![l] = TRUE]
      /\ pc' = [pc EXCEPT ![t] = "inside"]
      /\ UNCHANGED <<entries, waiting, slug, lock>>
  BY DEF Resume
<1>2. l \in Locks /\ l # NoLock /\ ~locked[l] /\ w[1] = t
  BY <1>1, OwnLock, Objects DEF Inv, Woken
<1>3. \A u \in Tasks : lock[u] = l /\ pc[u] \in {"woken", "doomed"} => u = t
  BY <1>2 DEF Inv, Woken
<1>4. WaitersLess(t)
  BY <1>0, <1>1, <1>2, LessFacts DEF Queued
<1>5. TypeOK'
  <2>1. locked' \in [Locks -> BOOLEAN]
    BY <1>0, <1>1
  <2>2. pc' \in [Tasks -> PC]
    BY <1>0, <1>1 DEF PC
  <2>3. waiters' \in [Locks -> Seq(Tasks)]
    BY <1>0, <1>1, <1>4 DEF WaitersLess
  <2> QED BY <1>0, <1>1, <2>1, <2>2, <2>3 DEF TypeOK
<1>6. Referenced' /\ Counts'
  BY <1>0, <1>1 DEF Inv, Referenced, Counts, Users
<1>7. Held'
  BY <1>0, <1>1, <1>2 DEF Inv, Held
<1>8. Waiters'
  <2>1. \A m \in Locks : \A i \in 1 .. Len(waiters'[m]) :
           lock'[waiters'[m][i]] = m /\ pc'[waiters'[m][i]] \in Queued
    BY <1>0, <1>1, <1>4 DEF WaitersLess
  <2>2. \A u \in Tasks : pc'[u] \in Queued => u # t /\ pc[u] \in Queued
    BY <1>0, <1>1 DEF Queued
  <2> QED BY <1>1, <1>4, <2>1, <2>2 DEF Waiters, WaitersLess
<1>9. Woken'
  <2> SUFFICES ASSUME NEW u \in Tasks, pc'[u] \in {"woken", "doomed"}
               PROVE  ~locked'[lock'[u]] /\ waiters'[lock'[u]][1] = u
    BY DEF Woken
  <2>1. u # t /\ pc[u] \in {"woken", "doomed"} /\ lock'[u] = lock[u]
    BY <1>0, <1>1
  <2>2. lock[u] # l /\ lock[u] \in Locks
    BY <1>3, <2>1, OwnLock
  <2> QED BY <1>0, <1>1, <1>2, <2>1, <2>2 DEF Inv, Woken
<1> QED BY <1>5, <1>6, <1>7, <1>8, <1>9 DEF Inv

\* The end of a section: the lock is free, and at most its first waiter woken.
LEMMA LeaveInv ==
    ASSUME Inv, NEW t \in Tasks, Leave(t)
    PROVE  Inv'
<1> DEFINE l == lock[t]
           w == waiters[l]
<1>0. /\ entries \in [Slugs -> Locks \cup {NoLock}] /\ waiting \in [Locks -> Nat]
      /\ locked \in [Locks -> BOOLEAN] /\ waiters \in [Locks -> Seq(Tasks)]
      /\ pc \in [Tasks -> PC] /\ slug \in [Tasks -> Slugs] /\ lock \in [Tasks -> Locks \cup {NoLock}]
  BY DEF Inv, TypeOK
<1>1. /\ pc[t] = "inside" /\ pc[t] # "idle"
      /\ locked' = [locked EXCEPT ![l] = FALSE]
      /\ pc' = WakeFirst([pc EXCEPT ![t] = "idle"], w)
      /\ Drop(t)
      /\ UNCHANGED waiters
  BY DEF Leave
<1>2. l \in Locks /\ l # NoLock /\ locked[l] /\ w \in Seq(Tasks)
  BY <1>0, <1>1, OwnLock, Objects DEF Inv, Held
<1>3. /\ entries' \in [Slugs -> Locks \cup {NoLock}]
      /\ waiting' \in [Locks -> Nat]
      /\ lock' = [lock EXCEPT ![t] = NoLock] /\ lock' \in [Tasks -> Locks \cup {NoLock}]
      /\ slug' = slug
      /\ Counts'
      /\ \A u \in Tasks \ {t} : pc[u] # "idle" => entries'[slug[u]] = lock[u]
      /\ \A s, u \in Slugs : entries'[s] = entries'[u] /\ entries'[s] # NoLock => s = u
  BY <1>1, DropFacts
<1>4. /\ pc' \in [Tasks -> PC] /\ pc'[t] = "idle"
      /\ \A u \in Tasks \ {t} : \/ pc'[u] = pc[u]
                                \/ pc'[u] = "woken" /\ pc[u] = "pending" /\ w # <<>> /\ u = w[1]
  <2> DEFINE P == [pc EXCEPT ![t] = "idle"]
  <2>1. P \in [Tasks -> PC] /\ P[t] = "idle" /\ \A u \in Tasks \ {t} : P[u] = pc[u]
    BY <1>0 DEF PC
  <2>2. pc' = WakeFirst(P, w)
    BY <1>1
  <2> HIDE DEF P, w
  <2>3. /\ WakeFirst(P, w) \in [Tasks -> PC]
        /\ \A u \in Tasks : \/ WakeFirst(P, w)[u] = P[u]
                            \/ WakeFirst(P, w)[u] = "woken" /\ P[u] = "pending" /\ w # <<>> /\ u = w[1]
    BY <1>2, <2>1, WakeFacts
  <2> QED BY <2>1, <2>2, <2>3
<1>5. TypeOK'
  <2>1. locked' \in [Locks -> BOOLEAN]
    BY <1>0, <1>1
  <2> QED BY <1>0, <1>1, <1>3, <1>4, <2>1 DEF TypeOK
<1>6. Referenced'
  BY <1>0, <1>3, <1>4 DEF Inv, Referenced
<1>7. Held'
  <2>1. \A u \in Tasks : pc'[u] = "inside" => u # t /\ pc[u] = "inside" /\ lock'[u] = lock[u]
    BY <1>0, <1>3, <1>4
  <2>2. \A u \in Tasks \ {t} : pc[u] = "inside" => pc'[u] = "inside" /\ lock[u] # l
    BY <1>0, <1>1, <1>4 DEF Inv, Held
  <2>3. \A u \in Tasks : pc'[u] = "inside" => locked'[lock'[u]]
    <3>1. \A u \in Tasks : pc[u] = "inside" => lock[u] \in Locks
      BY OwnLock
    <3> QED BY <1>0, <1>1, <2>1, <2>2, <3>1 DEF Inv, Held
  <2>4. \A m \in Locks : locked'[m] => \E u \in Tasks : lock'[u] = m /\ pc'[u] = "inside"
    <3> SUFFICES ASSUME NEW m \in Locks, locked'[m] PROVE \E u \in Tasks : lock'[u] = m /\ pc'[u] = "inside"
      OBVIOUS
    <3>1. m # l /\ locked[m]
      BY <1>0, <1>1, <1>2
    <3>2. PICK u \in Tasks : lock[u] = m /\ pc[u] = "inside"
      BY <3>1 DEF Inv, Held
    <3> QED BY <1>0, <1>3, <2>2, <3>1, <3>2
  <2>5. \A u, v \in Tasks : pc'[u] = "inside" /\ pc'[v] = "inside" /\ lock'[u] = lock'[v] => u = v
    BY <2>1 DEF Inv, Held
  <2> QED BY <2>3, <2>4, <2>5 DEF Held
<1>8. Waiters'
  <2>1. \A m \in Locks : \A i \in 1 .. Len(waiters[m]) : waiters[m][i] \in Tasks \ {t}
    <3>1. \A m \in Locks : \A i \in 1 .. Len(waiters[m]) : waiters[m][i] \in Tasks
      BY <1>0
    <3> QED BY <1>1, <3>1 DEF Inv, Waiters, Queued
  <2>2. \A m \in Locks : \A i \in 1 .. Len(waiters[m]) :
           lock'[waiters[m][i]] = m /\ pc'[waiters[m][i]] \in Queued
    <3> SUFFICES ASSUME NEW m \in Locks, NEW i \in 1 .. Len(waiters[m])
                 PROVE  lock'[waiters[m][i]] = m /\ pc'[waiters[m][i]] \in Queued
      OBVIOUS
    <3>1. lock[waiters[m][i]] = m /\ pc[waiters[m][i]] \in Queued /\ waiters[m][i] \in Tasks \ {t}
      BY <2>1 DEF Inv, Waiters
    <3> QED BY <1>0, <1>3, <1>4, <3>1 DEF Queued
  <2>3. \A u \in Tasks : pc'[u] \in Queued => pc[u] \in Queued /\ lock'[u] = lock[u]
    BY <1>0, <1>3, <1>4 DEF Queued
  <2>4. waiters' = waiters
    BY <1>1
  <2>5. \A u \in Tasks : pc'[u] \in Queued => \E i \in 1 .. Len(waiters[lock'[u]]) : waiters[lock'[u]][i] = u
    BY <2>3 DEF Inv, Waiters
  <2>6. \A m \in Locks : \A i, j \in 1 .. Len(waiters[m]) : waiters[m][i] = waiters[m][j] => i = j
    BY DEF Inv, Waiters
  <2> QED BY <2>2, <2>4, <2>5, <2>6 DEF Waiters
<1>9. Woken'
  <2> SUFFICES ASSUME NEW u \in Tasks, pc'[u] \in {"woken", "doomed"}
               PROVE  ~locked'[lock'[u]] /\ waiters'[lock'[u]][1] = u
    BY DEF Woken
  <2>1. u # t /\ lock'[u] = lock[u] /\ waiters' = waiters
    BY <1>0, <1>1, <1>3, <1>4
  <2>2. CASE pc'[u] = pc[u]
    <3>1. ~locked[lock[u]] /\ waiters[lock[u]][1] = u /\ lock[u] \in Locks
      BY <2>2, OwnLock DEF Inv, Woken
    <3> QED BY <1>0, <1>1, <1>2, <2>1, <3>1
  <2>3. CASE w # <<>> /\ u = w[1]
    <3>1. 1 \in 1 .. Len(w)
      BY <1>2, <2>3
    <3>2. lock[u] = l
      BY <1>2, <2>3, <3>1 DEF Inv, Waiters
    <3> QED BY <1>0, <1>1, <1>2, <2>1, <2>3, <3>2
  <2> QED BY <1>4, <2>1, <2>2, <2>3
<1> QED BY <1>3, <1>5, <1>6, <1>7, <1>8, <1>9 DEF Inv

\* A cancellation only marks the task.
LEMMA CancelInv ==
    ASSUME Inv, NEW t \in Tasks, Cancel(t)
    PROVE  Inv'
<1>0. pc \in [Tasks -> PC] /\ waiters \in [Locks -> Seq(Tasks)]
  BY DEF Inv, TypeOK
<1>1. PICK to \in {"cancelled", "doomed"} : pc' = [pc EXCEPT ![t] = to]
  BY DEF Cancel
<1>2. /\ pc[t] \in {"pending", "woken"}
      /\ pc'[t] = "doomed" => pc[t] = "woken"
      /\ UNCHANGED <<entries, waiting, locked, waiters, slug, lock>>
  BY <1>0 DEF Cancel
<1>3. pc' \in [Tasks -> PC] /\ pc'[t] = to /\ \A u \in Tasks \ {t} : pc'[u] = pc[u]
  BY <1>0, <1>1 DEF PC, Queued
<1>4. TypeOK'
  BY <1>2, <1>3 DEF Inv, TypeOK
<1>5. Referenced' /\ Counts' /\ Held'
  BY <1>2, <1>3 DEF Inv, Referenced, Counts, Users, Held
<1>6. Waiters'
  <2>1. \A u \in Tasks : pc'[u] \in Queued <=> pc[u] \in Queued
    BY <1>1, <1>2, <1>3 DEF Queued
  <2>2. \A m \in Locks : \A i \in 1 .. Len(waiters[m]) : waiters[m][i] \in Tasks
    BY <1>0
  <2> QED BY <1>2, <2>1, <2>2 DEF Inv, Waiters
<1>7. Woken'
  BY <1>2, <1>3 DEF Inv, Woken
<1> QED BY <1>4, <1>5, <1>6, <1>7 DEF Inv

\* A cancelled task leaves its queue, and the next is woken if the lock is free.
LEMMA UnwindInv ==
    ASSUME Inv, NEW t \in Tasks, Unwind(t)
    PROVE  Inv'
<1> DEFINE l == lock[t]
<1>0. /\ entries \in [Slugs -> Locks \cup {NoLock}] /\ waiting \in [Locks -> Nat]
      /\ locked \in [Locks -> BOOLEAN] /\ waiters \in [Locks -> Seq(Tasks)]
      /\ pc \in [Tasks -> PC] /\ slug \in [Tasks -> Slugs] /\ lock \in [Tasks -> Locks \cup {NoLock}]
  BY DEF Inv, TypeOK
<1>1. /\ pc[t] \in {"cancelled", "doomed"} /\ pc[t] # "idle" /\ pc[t] \in Queued /\ pc[t] # "inside"
      /\ waiters' = [waiters EXCEPT ![l] = Without(@, t)]
      /\ Drop(t)
      /\ locked' = locked
  BY DEF Unwind, Queued
<1>2. l \in Locks /\ l # NoLock
  BY <1>1, OwnLock, Objects
<1>3. /\ entries' \in [Slugs -> Locks \cup {NoLock}]
      /\ waiting' \in [Locks -> Nat]
      /\ lock' = [lock EXCEPT ![t] = NoLock] /\ lock' \in [Tasks -> Locks \cup {NoLock}]
      /\ slug' = slug
      /\ Counts'
      /\ \A u \in Tasks \ {t} : pc[u] # "idle" => entries'[slug[u]] = lock[u]
      /\ \A s, u \in Slugs : entries'[s] = entries'[u] /\ entries'[s] # NoLock => s = u
  BY <1>1, DropFacts
<1>4. WaitersLess(t)
  BY <1>1, LessFacts
<1>5. /\ pc' \in [Tasks -> PC] /\ pc'[t] = "idle"
      /\ \A u \in Tasks \ {t} : \/ pc'[u] = pc[u]
                                \/ /\ pc'[u] = "woken" /\ pc[u] = "pending" /\ ~locked[l]
                                   /\ waiters'[l] # <<>> /\ u = waiters'[l][1]
  <2> DEFINE P == [pc EXCEPT ![t] = "idle"]
             v == waiters'[l]
  <2>1. P \in [Tasks -> PC] /\ P[t] = "idle" /\ \A u \in Tasks \ {t} : P[u] = pc[u]
    BY <1>0 DEF PC
  <2>2. v \in Seq(Tasks) /\ v = Without(waiters[l], t)
    BY <1>2, <1>4 DEF WaitersLess
  <2>3. CASE locked[l]
    <3>1. pc' = P
      BY <2>3 DEF Unwind
    <3> QED BY <2>1, <3>1
  <2>4. CASE ~locked[l]
    <3>1. pc' = WakeFirst(P, v)
      BY <2>2, <2>4 DEF Unwind
    <3> HIDE DEF P, v
    <3>2. /\ WakeFirst(P, v) \in [Tasks -> PC]
          /\ \A u \in Tasks : \/ WakeFirst(P, v)[u] = P[u]
                              \/ WakeFirst(P, v)[u] = "woken" /\ P[u] = "pending" /\ v # <<>> /\ u = v[1]
      BY <2>1, <2>2, WakeFacts
    <3> QED BY <2>1, <2>4, <3>1, <3>2 DEF v
  <2> QED BY <2>3, <2>4
<1>6. TypeOK'
  <2>1. waiters' \in [Locks -> Seq(Tasks)]
    BY <1>4 DEF WaitersLess
  <2> QED BY <1>0, <1>1, <1>3, <1>5, <2>1 DEF TypeOK
<1>7. Referenced'
  BY <1>0, <1>3, <1>5 DEF Inv, Referenced
<1>8. Held'
  <2>1. \A u \in Tasks : pc'[u] = "inside" <=> pc[u] = "inside"
    BY <1>1, <1>5
  <2>2. \A u \in Tasks : pc[u] = "inside" => lock'[u] = lock[u]
    BY <1>0, <1>1, <1>3
  <2> QED BY <1>1, <2>1, <2>2 DEF Inv, Held
<1>9. Waiters'
  <2>1. \A m \in Locks : \A i \in 1 .. Len(waiters'[m]) :
           lock'[waiters'[m][i]] = m /\ pc'[waiters'[m][i]] \in Queued
    BY <1>0, <1>3, <1>4, <1>5 DEF WaitersLess, Queued
  <2>2. \A u \in Tasks : pc'[u] \in Queued => u # t /\ pc[u] \in Queued /\ lock'[u] = lock[u]
    BY <1>0, <1>3, <1>5 DEF Queued
  <2> QED BY <1>4, <2>1, <2>2 DEF Waiters, WaitersLess
<1>10. Woken'
  <2> SUFFICES ASSUME NEW u \in Tasks, pc'[u] \in {"woken", "doomed"}
               PROVE  ~locked'[lock'[u]] /\ waiters'[lock'[u]][1] = u
    BY DEF Woken
  <2>1. u # t /\ lock'[u] = lock[u]
    BY <1>0, <1>3, <1>5
  <2>2. CASE pc'[u] = pc[u]
    <3>1. ~locked[lock[u]] /\ waiters[lock[u]][1] = u /\ pc[u] \in Queued
      BY <2>2 DEF Inv, Woken, Queued
    <3> QED BY <1>1, <1>4, <2>1, <3>1 DEF WaitersLess
  <2>3. CASE ~locked[l] /\ waiters'[l] # <<>> /\ u = waiters'[l][1]
    <3>1. waiters'[l] \in Seq(Tasks)
      BY <1>2, <1>4 DEF WaitersLess
    <3>2. 1 \in 1 .. Len(waiters'[l])
      BY <2>3, <3>1
    <3>3. lock[u] = l
      BY <1>2, <1>4, <2>3, <3>2 DEF WaitersLess
    <3> QED BY <1>1, <2>1, <2>3, <3>3
  <2> QED BY <1>5, <2>1, <2>2, <2>3
<1> QED BY <1>3, <1>6, <1>7, <1>8, <1>9, <1>10 DEF Inv

\* Every step keeps the invariant.
LEMMA NextInv == Inv /\ [Next]_vars => Inv'
<1> SUFFICES ASSUME Inv, [Next]_vars PROVE Inv'
  OBVIOUS
<1>1. CASE UNCHANGED vars
  BY <1>1 DEF vars, Inv, TypeOK, Referenced, Counts, Users, Held, Waiters, Woken
<1>2. CASE Next
  BY <1>2, AskInv, ResumeInv, LeaveInv, CancelInv, UnwindInv DEF Next
<1> QED BY <1>1, <1>2

\* No two handlers are ever inside sections of one site, for any number of
\* handlers and sites, with entries dropped and made again and handlers
\* cancelled at any point (SiteLocks.hold).
THEOREM Exclusion == Spec => []MutualExclusion
<1>1. Spec => []Inv
  BY InitInv, NextInv, PTL DEF Spec
<1>2. Inv => MutualExclusion
  BY InvExcludes
<1> QED BY <1>1, <1>2, PTL

\* An entry of the registry has a user.
Used == \A s \in Slugs : entries[s] # NoLock => \E t \in Tasks : lock[t] = entries[s]

\* hold's finally drops the entry with its last user, and no other entry.
LEMMA DropUsed ==
    ASSUME Inv, Used, NEW t \in Tasks, pc[t] # "idle", Drop(t)
    PROVE  Used'
<1> DEFINE l == lock[t]
<1>0. /\ entries \in [Slugs -> Locks \cup {NoLock}] /\ lock \in [Tasks -> Locks \cup {NoLock}]
      /\ l \in Locks /\ l = entries[slug[t]] /\ slug[t] \in Slugs
  BY OwnLock DEF Inv, TypeOK
<1>1. /\ entries' = [s \in Slugs |-> IF s = slug[t] /\ waiting[l] = 1 /\ entries[s] = l
                                     THEN NoLock ELSE entries[s]]
      /\ lock' = [lock EXCEPT ![t] = NoLock]
  BY DEF Drop
<1> SUFFICES ASSUME NEW s \in Slugs, entries'[s] # NoLock
             PROVE  \E u \in Tasks : lock'[u] = entries'[s]
  BY DEF Used
<1>2. entries'[s] = entries[s] /\ entries[s] # NoLock
  BY <1>0, <1>1
<1>3. CASE entries[s] # l
  <2>1. PICK u \in Tasks : lock[u] = entries[s]
    BY <1>2 DEF Used
  <2> QED BY <1>0, <1>1, <1>2, <1>3, <2>1
<1>4. CASE entries[s] = l
  <2>1. s = slug[t] /\ waiting[l] # 1
    BY <1>0, <1>1, <1>2, <1>4 DEF Inv, Referenced
  <2>2. t \in Users(l) /\ IsFiniteSet(Users(l)) /\ waiting[l] = Cardinality(Users(l))
    BY <1>0, UsersFinite DEF Users, Inv, Counts
  <2>3. Cardinality(Users(l) \ {t}) = Cardinality(Users(l)) - 1 /\ Cardinality(Users(l)) \in Nat
    BY <2>2, FS_RemoveElement, FS_CardinalityType
  <2>4. Cardinality(Users(l) \ {t}) # 0
    BY <2>1, <2>2, <2>3
  <2>5. Users(l) \ {t} # {}
    BY <2>4, FS_EmptySet
  <2>6. PICK u \in Tasks \ {t} : lock[u] = l
    BY <2>5 DEF Users
  <2> QED BY <1>0, <1>1, <1>2, <1>4, <2>6
<1> QED BY <1>3, <1>4

LEMMA NextUsed == Inv /\ Used /\ [Next]_vars => Used'
<1> SUFFICES ASSUME Inv, Used, [Next]_vars PROVE Used'
  OBVIOUS
<1>0. /\ entries \in [Slugs -> Locks \cup {NoLock}] /\ lock \in [Tasks -> Locks \cup {NoLock}]
  BY DEF Inv, TypeOK
<1>1. CASE UNCHANGED <<entries, lock>>
  BY <1>1 DEF Used
<1>2. ASSUME NEW t \in Tasks, NEW s \in Slugs, NEW l \in Locks, Ask(t, s, l) PROVE Used'
  <2>1. lock[t] = NoLock /\ entries' = [entries EXCEPT ![s] = l] /\ lock' = [lock EXCEPT ![t] = l]
    BY <1>2 DEF Ask, Inv, Referenced
  <2>2. ASSUME NEW u \in Slugs, entries'[u] # NoLock PROVE \E v \in Tasks : lock'[v] = entries'[u]
    <3>1. CASE u = s
      BY <1>0, <2>1, <3>1
    <3>2. CASE u # s
      <4>1. PICK v \in Tasks : lock[v] = entries[u] /\ entries[u] # NoLock
        BY <1>0, <2>1, <2>2, <3>2 DEF Used
      <4> QED BY <1>0, <2>1, <3>2, <4>1
    <3> QED BY <3>1, <3>2
  <2> QED BY <2>2 DEF Used
<1>3. ASSUME NEW t \in Tasks, Leave(t) PROVE Used'
  BY <1>3, DropUsed DEF Leave
<1>4. ASSUME NEW t \in Tasks, Unwind(t) PROVE Used'
  BY <1>4, DropUsed DEF Unwind
<1> QED BY <1>1, <1>2, <1>3, <1>4 DEF Next, vars, Resume, Cancel

\* The registry has an entry exactly for the sites whose lock somebody holds or awaits, and
\* the entry counts them, for any number of handlers and sites and whoever is cancelled: no
\* entry leaks, and none is dropped under a waiter ("dropped when nobody holds or awaits it").
THEOREM EntriesCounted == Spec => []EntriesInUse
<1>1. Init => Used
  BY DEF Init, Used
<1>2. Spec => [](Inv /\ Used)
  BY <1>1, InitInv, NextInv, NextUsed, PTL DEF Spec
<1>3. Inv /\ Used => EntriesInUse
  <2> SUFFICES ASSUME Inv, Used, NEW s \in Slugs
               PROVE  IF {t \in Tasks : pc[t] # "idle" /\ slug[t] = s} = {} THEN entries[s] = NoLock
                      ELSE /\ entries[s] # NoLock
                           /\ waiting[entries[s]] = Cardinality({t \in Tasks : pc[t] # "idle" /\ slug[t] = s})
    BY DEF EntriesInUse
  <2> DEFINE users == {t \in Tasks : pc[t] # "idle" /\ slug[t] = s}
  <2>1. \A t \in Tasks : lock[t] = entries[s] /\ entries[s] # NoLock => t \in users
    BY DEF Inv, TypeOK, Referenced
  <2>2. \A t \in users : lock[t] = entries[s] /\ entries[s] # NoLock /\ entries[s] \in Locks
    BY OwnLock, Objects
  <2>3. CASE users = {}
    BY <2>1, <2>3 DEF Used
  <2>4. CASE users # {}
    <3>1. entries[s] \in Locks /\ entries[s] # NoLock
      BY <2>2, <2>4
    <3>2. users = Users(entries[s])
      BY <2>1, <2>2, <3>1 DEF Users
    <3> HIDE DEF users
    <3>3. waiting[entries[s]] = Cardinality(users)
      BY <3>1, <3>2 DEF Inv, Counts
    <3> QED BY <2>4, <3>1, <3>3 DEF users
  <2> QED BY <2>3, <2>4
<1> QED BY <1>2, <1>3, PTL

(***************************************************************************)
(* What a queue keeps (Kept) of a lock's waiters: by induction over how    *)
(* far the queue has been read.                                            *)
(***************************************************************************)

\* A set with 0 and the successor of whatever natural is in it has them all: one left out
\* would be k, and adding one would map the set's part up to k into that part without 0.
LEMMA NatSetInduction ==
    ASSUME NEW S, 0 \in S, \A n \in Nat : n \in S => n + 1 \in S
    PROVE  Nat \subseteq S
<1> SUFFICES ASSUME NEW k \in Nat, k \notin S PROVE FALSE
  OBVIOUS
<1> DEFINE A == {n \in 0 .. k : n \in S}
           next == [n \in A |-> n + 1]
<1>1. IsFiniteSet(0 .. k)
  BY FS_Interval
<1>2. IsFiniteSet(A) /\ IsFiniteSet(A \ {0}) /\ Cardinality(A \ {0}) = Cardinality(A) - 1 /\ Cardinality(A) \in Nat
  <2>1. IsFiniteSet(A) /\ 0 \in A
    BY <1>1, FS_Subset
  <2> HIDE DEF A
  <2> QED BY <2>1, FS_RemoveElement, FS_CardinalityType
<1>3. next \in Injection(A, A \ {0})
  BY DEF Injection, IsInjective
<1> HIDE DEF A, next
<1>4. Cardinality(A) <= Cardinality(A \ {0})
  BY <1>2, <1>3, FS_Injection DEF ExistsInjection
<1> QED BY <1>2, <1>4


(***************************************************************************)
(* Kept by its beginnings: f[n] is what is kept of the first n of w.       *)
(***************************************************************************)
Keeps(f, Y, w, K) ==
    /\ f \in [0 .. Len(w) -> Seq(Y)] /\ f[0] = <<>>
    /\ \A n \in 1 .. Len(w) : f[n] = IF w[n] \in K THEN Append(f[n - 1], w[n]) ELSE f[n - 1]

\* Such beginnings exist, and the last one is Kept.
LEMMA KeptBegins ==
    ASSUME NEW Y, NEW w \in Seq(Y), NEW K
    PROVE  \E f : Keeps(f, Y, w, K) /\ Kept(w, K) = f[Len(w)]
<1> DEFINE Eq(f, m) == f = [n \in 0 .. m |->
                              IF n = 0 THEN <<>>
                              ELSE IF w[n] \in K THEN Append(f[n - 1], w[n]) ELSE f[n - 1]]
           P == {m \in Nat : m <= Len(w) => \E f : Eq(f, m)}
<1>0. Len(w) \in Nat
  OBVIOUS
<1>1. 0 \in P
  <2> DEFINE f == [n \in 0 .. 0 |-> <<>>]
  <2>1. Eq(f, 0)
    OBVIOUS
  <2> QED BY <2>1
<1>2. ASSUME NEW m \in Nat, m \in P PROVE m + 1 \in P
  <2>1. m + 1 <= Len(w) => \E f : Eq(f, m + 1)
    <3> SUFFICES ASSUME m + 1 <= Len(w) PROVE \E f : Eq(f, m + 1)
      OBVIOUS
    <3>0. \E g : Eq(g, m)
      <4> HIDE DEF Eq
      <4> QED BY <1>0, <1>2
    <3>1. PICK g : Eq(g, m)
      BY <3>0
    <3> DEFINE f == [n \in 0 .. m + 1 |->
                       IF n <= m THEN g[n] ELSE IF w[n] \in K THEN Append(g[n - 1], w[n]) ELSE g[n - 1]]
    <3>2. \A n \in 0 .. m : f[n] = g[n]
      OBVIOUS
    <3>3. \A n \in 0 .. m + 1 : f[n] = IF n = 0 THEN <<>>
                                       ELSE IF w[n] \in K THEN Append(f[n - 1], w[n]) ELSE f[n - 1]
      <4> DEFINE next(h, n) == IF n = 0 THEN <<>> ELSE IF w[n] \in K THEN Append(h[n - 1], w[n]) ELSE h[n - 1]
      <4>1. \A n \in 0 .. m : f[n] = next(g, n)
        <5>1. g = [n \in 0 .. m |-> next(g, n)]
          BY <3>1
        <5> HIDE DEF next, f
        <5> QED BY <3>2, <5>1
      <4>2. \A n \in 0 .. m : next(f, n) = next(g, n)
        <5> SUFFICES ASSUME NEW n \in 0 .. m PROVE next(f, n) = next(g, n)
          OBVIOUS
        <5>1. n # 0 => n - 1 \in 0 .. m
          OBVIOUS
        <5> HIDE DEF f
        <5> QED BY <3>2, <5>1
      <4>3. f[m + 1] = next(f, m + 1)
        BY <3>2
      <4> HIDE DEF f, next
      <4>4. \A n \in 0 .. m + 1 : f[n] = next(f, n)
        BY <4>1, <4>2, <4>3
      <4> QED BY <4>4 DEF next
    <3> HIDE DEF f
    <3>4. f = [n \in 0 .. m + 1 |-> f[n]]
      BY DEF f
    <3>5. Eq(f, m + 1)
      BY <3>3, <3>4
    <3> QED BY <3>5
  <2> HIDE DEF Eq
  <2> QED BY <2>1
<1> HIDE DEF P
<1>3. Len(w) \in P
  BY <1>0, <1>1, <1>2, NatSetInduction
<1> DEFINE f == CHOOSE g : Eq(g, Len(w))
<1>4. Kept(w, K) = f[Len(w)]
  BY DEF Kept
<1>5. \E g : Eq(g, Len(w))
  <2> HIDE DEF Eq
  <2> QED BY <1>0, <1>3 DEF P
<1>6. Eq(f, Len(w))
  BY <1>5
<1> HIDE DEF f
<1>7. f[0] = <<>> /\ \A n \in 1 .. Len(w) : f[n] = IF w[n] \in K THEN Append(f[n - 1], w[n]) ELSE f[n - 1]
  <2>1. \A n \in 0 .. Len(w) : f[n] = IF n = 0 THEN <<>> ELSE IF w[n] \in K THEN Append(f[n - 1], w[n]) ELSE f[n - 1]
    BY <1>6
  <2>2. f[0] = <<>>
    BY <1>0, <2>1
  <2>3. \A n \in 1 .. Len(w) : n \in 0 .. Len(w) /\ n # 0
    BY <1>0
  <2> HIDE DEF Eq
  <2> QED BY <2>1, <2>2, <2>3
<1> DEFINE Q == {n \in Nat : n <= Len(w) => f[n] \in Seq(Y)}
<1>8. Len(w) \in Nat /\ 0 \in Q
  <2>1. <<>> \in Seq(Y)
    OBVIOUS
  <2> QED BY <1>0, <1>7, <2>1
<1>9. ASSUME NEW n \in Nat, n \in Q PROVE n + 1 \in Q
  <2> SUFFICES ASSUME n + 1 <= Len(w) PROVE f[n + 1] \in Seq(Y)
    OBVIOUS
  <2>1. f[n] \in Seq(Y) /\ w[n + 1] \in Y
    BY <1>0, <1>9
  <2>2. f[n + 1] = IF w[n + 1] \in K THEN Append(f[n], w[n + 1]) ELSE f[n]
    BY <1>0, <1>7
  <2> QED BY <2>1, <2>2
<1> HIDE DEF Q
<1>10. Nat \subseteq Q
  BY <1>8, <1>9, NatSetInduction
<1>11. \A n \in 0 .. Len(w) : f[n] \in Seq(Y)
  BY <1>0, <1>10 DEF Q
<1>12. f \in [0 .. Len(w) -> Seq(Y)]
  BY <1>6, <1>11
<1>13. Keeps(f, Y, w, K)
  BY <1>7, <1>12 DEF Keeps
<1> QED BY <1>4, <1>13


\* v and w begin with the same m, and J and K have the same of those.
Alike(v, J, w, K, m) ==
    /\ m \in Nat /\ m <= Len(v) /\ m <= Len(w)
    /\ \A i \in 1 .. m : v[i] = w[i] /\ (v[i] \in J <=> w[i] \in K)

\* Two that keep the same of what they begin with agree there.
LEMMA KeepsAgree ==
    ASSUME NEW Y, NEW v, NEW w, NEW J, NEW K, NEW f, NEW g, NEW m,
           Alike(v, J, w, K, m), v \in Seq(Y), w \in Seq(Y), Keeps(f, Y, v, J), Keeps(g, Y, w, K)
    PROVE  f[m] = g[m]
<1>0. /\ m \in Nat /\ m <= Len(v) /\ m <= Len(w)
      /\ \A i \in 1 .. m : v[i] = w[i] /\ (v[i] \in J <=> w[i] \in K)
  BY DEF Alike
<1> DEFINE P == {n \in Nat : n <= m => f[n] = g[n]}
<1>1. 0 \in P
  BY DEF Keeps
<1>2. ASSUME NEW n \in Nat, n \in P PROVE n + 1 \in P
  <2> SUFFICES ASSUME n + 1 <= m PROVE f[n + 1] = g[n + 1]
    OBVIOUS
  <2>1. f[n] = g[n] /\ Len(v) \in Nat /\ Len(w) \in Nat
    BY <1>0, <1>2
  <2>2. n + 1 \in 1 .. m /\ n + 1 \in 1 .. Len(v) /\ n + 1 \in 1 .. Len(w) /\ (n + 1) - 1 = n
    BY <1>0, <2>1
  <2>3. v[n + 1] = w[n + 1] /\ (v[n + 1] \in J <=> w[n + 1] \in K)
    BY <1>0, <2>2
  <2>4. f[n + 1] = IF v[n + 1] \in J THEN Append(f[n], v[n + 1]) ELSE f[n]
    BY <2>2 DEF Keeps
  <2>5. g[n + 1] = IF w[n + 1] \in K THEN Append(g[n], w[n + 1]) ELSE g[n]
    BY <2>2 DEF Keeps
  <2> QED BY <2>1, <2>3, <2>4, <2>5
<1> HIDE DEF P
<1>3. m \in P
  BY <1>0, <1>1, <1>2, NatSetInduction
<1> QED BY <1>0, <1>3 DEF P

\* What is kept depends on what of the sequence is in the set.
LEMMA KeptSame ==
    ASSUME NEW Y, NEW w \in Seq(Y), NEW J, NEW K, \A i \in 1 .. Len(w) : w[i] \in J <=> w[i] \in K
    PROVE  Kept(w, J) = Kept(w, K)
<1>1. PICK f : Keeps(f, Y, w, J) /\ Kept(w, J) = f[Len(w)]
  BY KeptBegins
<1>2. PICK g : Keeps(g, Y, w, K) /\ Kept(w, K) = g[Len(w)]
  BY KeptBegins
<1>3. Alike(w, J, w, K, Len(w))
  BY DEF Alike
<1>4. f[Len(w)] = g[Len(w)]
  BY <1>1, <1>2, <1>3, KeepsAgree
<1> QED BY <1>1, <1>2, <1>4

\* What is kept is of the set and of the sequence's type.
LEMMA KeptIn ==
    ASSUME NEW Y, NEW w \in Seq(Y), NEW K
    PROVE  /\ Kept(w, K) \in Seq(Y)
           /\ \A i \in 1 .. Len(Kept(w, K)) : Kept(w, K)[i] \in K
           /\ (\A i \in 1 .. Len(w) : w[i] \notin K) => Kept(w, K) = <<>>
<1>1. PICK f : Keeps(f, Y, w, K) /\ Kept(w, K) = f[Len(w)]
  BY KeptBegins
<1>2. Len(w) \in Nat /\ f \in [0 .. Len(w) -> Seq(Y)] /\ f[0] = <<>>
  BY <1>1 DEF Keeps
<1> DEFINE P == {n \in Nat : n <= Len(w) => /\ \A i \in 1 .. Len(f[n]) : f[n][i] \in K
                                            /\ (\A i \in 1 .. Len(w) : w[i] \notin K) => f[n] = <<>>}
<1>3. 0 \in P
  BY <1>2
<1>4. ASSUME NEW n \in Nat, n \in P PROVE n + 1 \in P
  <2>1. n + 1 <= Len(w) => /\ \A i \in 1 .. Len(f[n + 1]) : f[n + 1][i] \in K
                           /\ (\A i \in 1 .. Len(w) : w[i] \notin K) => f[n + 1] = <<>>
    <3> SUFFICES ASSUME n + 1 <= Len(w)
                 PROVE  /\ \A i \in 1 .. Len(f[n + 1]) : f[n + 1][i] \in K
                        /\ (\A i \in 1 .. Len(w) : w[i] \notin K) => f[n + 1] = <<>>
      OBVIOUS
    <3>1. n + 1 \in 1 .. Len(w) /\ (n + 1) - 1 = n /\ f[n] \in Seq(Y) /\ w[n + 1] \in Y
      <4>1. n + 1 \in 1 .. Len(w) /\ n \in 0 .. Len(w)
        BY <1>2
      <4> QED BY <1>2, <4>1
    <3>2. /\ \A i \in 1 .. Len(f[n]) : f[n][i] \in K
          /\ (\A i \in 1 .. Len(w) : w[i] \notin K) => f[n] = <<>>
      BY <1>2, <1>4
    <3>3. f[n + 1] = IF w[n + 1] \in K THEN Append(f[n], w[n + 1]) ELSE f[n]
      BY <1>1, <3>1 DEF Keeps
    <3>4. CASE w[n + 1] \in K
      <4>1. f[n + 1] = Append(f[n], w[n + 1])
        BY <3>3, <3>4
      <4>2. \A i \in 1 .. Len(f[n + 1]) : (i \in 1 .. Len(f[n]) /\ f[n + 1][i] = f[n][i]) \/ f[n + 1][i] = w[n + 1]
        BY <3>1, <4>1
      <4> QED BY <3>1, <3>2, <3>4, <4>2
    <3>5. CASE w[n + 1] \notin K
      BY <3>2, <3>3, <3>5
    <3> QED BY <3>4, <3>5
  <2> QED BY <2>1
<1> HIDE DEF P
<1>5. Len(w) \in P
  BY <1>2, <1>3, <1>4, NatSetInduction
<1>6. f[Len(w)] \in Seq(Y)
  BY <1>2
<1> QED BY <1>1, <1>5, <1>6 DEF P

\* One more at the end.
LEMMA KeptAppend ==
    ASSUME NEW Y, NEW w \in Seq(Y), NEW t \in Y, NEW K
    PROVE  Kept(Append(w, t), K) = IF t \in K THEN Append(Kept(w, K), t) ELSE Kept(w, K)
<1>1. PICK v : v = Append(w, t)
  OBVIOUS
<1>2. /\ v \in Seq(Y) /\ Len(v) = Len(w) + 1 /\ Len(w) \in Nat /\ v[Len(w) + 1] = t
      /\ \A i \in 1 .. Len(w) : v[i] = w[i]
  BY <1>1
<1>3. PICK f : Keeps(f, Y, v, K) /\ Kept(v, K) = f[Len(v)]
  BY <1>2, KeptBegins
<1>4. PICK g : Keeps(g, Y, w, K) /\ Kept(w, K) = g[Len(w)]
  BY KeptBegins
<1>5. f[Len(w)] = g[Len(w)]
  <2>1. PICK m \in Nat : m = Len(w)
    BY <1>2
  <2>2. Alike(v, K, w, K, m)
    BY <1>2, <2>1 DEF Alike
  <2>3. f[m] = g[m]
    BY <1>2, <1>3, <1>4, <2>2, KeepsAgree
  <2> QED BY <2>1, <2>3
<1>6. Len(w) + 1 \in 1 .. Len(v) /\ (Len(w) + 1) - 1 = Len(w)
  BY <1>2
<1>7. f[Len(w) + 1] = IF t \in K THEN Append(f[Len(w)], t) ELSE f[Len(w)]
  BY <1>2, <1>3, <1>6 DEF Keeps
<1> QED BY <1>1, <1>2, <1>3, <1>4, <1>5, <1>7

\* v is w without its k-th.
IsWithout(v, w, k) ==
    /\ k \in 1 .. Len(w) /\ Len(v) = Len(w) - 1
    /\ \A j \in 1 .. Len(v) : v[j] = IF j < k THEN w[j] ELSE w[j + 1]

\* Taking out one that is not kept changes nothing.
LEMMA KeptWithout ==
    ASSUME NEW Y, NEW v \in Seq(Y), NEW w \in Seq(Y), NEW k, IsWithout(v, w, k), NEW K, w[k] \notin K
    PROVE  Kept(v, K) = Kept(w, K)
<1>1. PICK f : Keeps(f, Y, w, K) /\ Kept(w, K) = f[Len(w)]
  BY KeptBegins
<1>2. PICK g : Keeps(g, Y, v, K) /\ Kept(v, K) = g[Len(v)]
  BY KeptBegins
<1>3. /\ k \in Nat /\ k >= 1 /\ k <= Len(w) /\ Len(v) = Len(w) - 1 /\ Len(v) \in Nat /\ Len(w) \in Nat
      /\ \A j \in 1 .. Len(v) : v[j] = IF j < k THEN w[j] ELSE w[j + 1]
  BY DEF IsWithout
<1> DEFINE P == {n \in Nat : n <= Len(v) => g[n] = IF n < k THEN f[n] ELSE f[n + 1]}
<1>4. 0 \in P
  BY <1>1, <1>2, <1>3 DEF Keeps
<1>5. ASSUME NEW n \in Nat, n \in P PROVE n + 1 \in P
  <2> SUFFICES ASSUME n + 1 <= Len(v) PROVE g[n + 1] = IF n + 1 < k THEN f[n + 1] ELSE f[n + 2]
    OBVIOUS
  <2>1. g[n] = IF n < k THEN f[n] ELSE f[n + 1]
    BY <1>3, <1>5
  <2>2. n + 1 \in 1 .. Len(v) /\ n + 1 \in 1 .. Len(w) /\ n + 2 \in 1 .. Len(w) /\ (n + 1) - 1 = n /\ (n + 2) - 1 = n + 1
    BY <1>3
  <2>3. g[n + 1] = IF v[n + 1] \in K THEN Append(g[n], v[n + 1]) ELSE g[n]
    BY <1>2, <2>2 DEF Keeps
  <2>4. f[n + 1] = IF w[n + 1] \in K THEN Append(f[n], w[n + 1]) ELSE f[n]
    BY <1>1, <2>2 DEF Keeps
  <2>5. f[n + 2] = IF w[n + 2] \in K THEN Append(f[n + 1], w[n + 2]) ELSE f[n + 1]
    BY <1>1, <2>2 DEF Keeps
  <2>6. v[n + 1] = IF n + 1 < k THEN w[n + 1] ELSE w[n + 2]
    BY <1>3, <2>2
  <2>7. CASE n + 1 < k
    <3>1. n < k
      BY <1>3, <2>7
    <3> QED BY <2>1, <2>3, <2>4, <2>6, <2>7, <3>1
  <2>8. CASE n + 1 = k
    <3>1. n < k /\ ~(n + 1 < k)
      BY <1>3, <2>8
    <3> QED BY <2>1, <2>3, <2>4, <2>5, <2>6, <2>8, <3>1
  <2>9. CASE n + 1 > k
    <3>1. ~(n < k) /\ ~(n + 1 < k)
      BY <1>3, <2>9
    <3> QED BY <2>1, <2>3, <2>5, <2>6, <3>1
  <2> QED BY <1>3, <2>7, <2>8, <2>9
<1> HIDE DEF P
<1>6. Len(v) \in P
  BY <1>3, <1>4, <1>5, NatSetInduction
<1>7. CASE Len(v) < k
  <2>1. Len(w) = k /\ k - 1 = Len(v)
    BY <1>3, <1>7
  <2>2. f[k] = f[k - 1]
    BY <1>1, <1>3 DEF Keeps
  <2> QED BY <1>1, <1>2, <1>3, <1>6, <1>7, <2>1, <2>2 DEF P
<1>8. CASE ~(Len(v) < k)
  <2>1. Len(v) + 1 = Len(w)
    BY <1>3
  <2> QED BY <1>1, <1>2, <1>3, <1>6, <1>8, <2>1 DEF P
<1> QED BY <1>7, <1>8


\* Sequences of the same elements are the same.
LEMMA SameSeq ==
    ASSUME NEW Y, NEW a \in Seq(Y), NEW b \in Seq(Y), Len(a) = Len(b), \A i \in 1 .. Len(a) : a[i] = b[i]
    PROVE  a = b
  OBVIOUS

\* RemoveAt by its elements.
LEMMA RemoveAtIs ==
    ASSUME NEW Y, NEW a \in Seq(Y), NEW p \in 1 .. Len(a)
    PROVE  /\ RemoveAt(a, p) \in Seq(Y) /\ Len(RemoveAt(a, p)) = Len(a) - 1
           /\ \A j \in 1 .. Len(a) - 1 : RemoveAt(a, p)[j] = IF j < p THEN a[j] ELSE a[j + 1]
<1>1. PICK b, c : b = SubSeq(a, 1, p - 1) /\ c = SubSeq(a, p + 1, Len(a))
  OBVIOUS
<1>2. /\ b \in Seq(Y) /\ Len(b) = p - 1
      /\ \A j \in 1 .. p - 1 : b[j] = a[j]
  BY <1>1
<1>3. /\ c \in Seq(Y) /\ Len(c) = Len(a) - p
      /\ \A j \in 1 .. Len(a) - p : c[j] = a[j + p]
  BY <1>1
<1>4. RemoveAt(a, p) = b \o c
  BY <1>1 DEF RemoveAt
<1>5. b \o c \in Seq(Y) /\ Len(b \o c) = Len(a) - 1
  <2>1. b \in Seq(Y) /\ c \in Seq(Y) /\ (p - 1) + (Len(a) - p) = Len(a) - 1
    BY <1>2, <1>3
  <2>2. b \o c \in Seq(Y) /\ Len(b \o c) = Len(b) + Len(c)
    BY <2>1
  <2> QED BY <1>2, <1>3, <2>1, <2>2
<1>6. ASSUME NEW j \in 1 .. Len(a) - 1 PROVE (b \o c)[j] = IF j < p THEN a[j] ELSE a[j + 1]
  <2>1. CASE j < p
    BY <1>2, <1>3, <2>1
  <2>2. CASE ~(j < p)
    <3>1. (b \o c)[j] = c[j - (p - 1)]
      BY <1>2, <1>3, <2>2
    <3>2. j - (p - 1) \in 1 .. Len(a) - p /\ (j - (p - 1)) + p = j + 1
      BY <2>2
    <3> QED BY <1>3, <2>2, <3>1, <3>2
  <2> QED BY <2>1, <2>2
<1> QED BY <1>4, <1>5, <1>6

\* Taking out the last, one before the last, and one behind the first.
LEMMA RemoveLast ==
    ASSUME NEW Y, NEW a \in Seq(Y), NEW y \in Y
    PROVE  RemoveAt(Append(a, y), Len(a) + 1) = a
<1>1. PICK b : b = Append(a, y)
  OBVIOUS
<1>2. b \in Seq(Y) /\ Len(b) = Len(a) + 1 /\ Len(a) + 1 \in 1 .. Len(b) /\ \A j \in 1 .. Len(a) : b[j] = a[j]
  BY <1>1
<1>3. PICK c : c = RemoveAt(b, Len(a) + 1)
  OBVIOUS
<1>4. /\ c \in Seq(Y) /\ Len(c) = Len(b) - 1
      /\ \A j \in 1 .. Len(b) - 1 : c[j] = IF j < Len(a) + 1 THEN b[j] ELSE b[j + 1]
  BY <1>2, <1>3, RemoveAtIs
<1>5. Len(c) = Len(a) /\ \A j \in 1 .. Len(a) : c[j] = a[j]
  BY <1>2, <1>4
<1> QED BY <1>1, <1>3, <1>4, <1>5

LEMMA RemoveBefore ==
    ASSUME NEW Y, NEW a \in Seq(Y), NEW y \in Y, NEW p \in 1 .. Len(a)
    PROVE  RemoveAt(Append(a, y), p) = Append(RemoveAt(a, p), y)
<1>1. PICK b : b = Append(a, y)
  OBVIOUS
<1>2. b \in Seq(Y) /\ Len(b) = Len(a) + 1 /\ p \in 1 .. Len(b) /\ b[Len(a) + 1] = y /\ \A j \in 1 .. Len(a) : b[j] = a[j]
  BY <1>1
<1>3. PICK c : c = RemoveAt(b, p)
  OBVIOUS
<1>4. /\ c \in Seq(Y) /\ Len(c) = Len(b) - 1
      /\ \A j \in 1 .. Len(b) - 1 : c[j] = IF j < p THEN b[j] ELSE b[j + 1]
  BY <1>2, <1>3, RemoveAtIs
<1>5. PICK d : d = RemoveAt(a, p)
  OBVIOUS
<1>6. /\ d \in Seq(Y) /\ Len(d) = Len(a) - 1
      /\ \A j \in 1 .. Len(a) - 1 : d[j] = IF j < p THEN a[j] ELSE a[j + 1]
  BY <1>5, RemoveAtIs
<1>7. PICK e : e = Append(d, y)
  OBVIOUS
<1>8. e \in Seq(Y) /\ Len(e) = Len(a) /\ e[Len(a)] = y /\ \A j \in 1 .. Len(a) - 1 : e[j] = d[j]
  BY <1>6, <1>7
<1>9. ASSUME NEW j \in 1 .. Len(a) PROVE c[j] = e[j]
  <2>1. CASE j = Len(a)
    <3>1. c[j] = b[j + 1]
      BY <1>2, <1>4, <2>1
    <3> QED BY <1>2, <1>8, <2>1, <3>1
  <2>2. CASE j < Len(a) /\ j < p
    <3>1. c[j] = b[j] /\ b[j] = a[j]
      BY <1>2, <1>4, <2>2
    <3>2. e[j] = d[j] /\ d[j] = a[j]
      <4>1. j \in 1 .. Len(a) - 1
        BY <2>2
      <4> QED BY <1>6, <1>8, <2>2, <4>1
    <3> QED BY <3>1, <3>2
  <2>3. CASE j < Len(a) /\ ~(j < p)
    <3>1. c[j] = b[j + 1] /\ b[j + 1] = a[j + 1]
      BY <1>2, <1>4, <2>3
    <3>2. e[j] = d[j] /\ d[j] = a[j + 1]
      <4>1. j \in 1 .. Len(a) - 1
        BY <2>3
      <4> QED BY <1>6, <1>8, <2>3, <4>1
    <3> QED BY <3>1, <3>2
  <2> QED BY <2>1, <2>2, <2>3
<1>10. Len(c) = Len(e)
  BY <1>2, <1>4, <1>8
<1> QED BY <1>1, <1>2, <1>3, <1>4, <1>5, <1>7, <1>8, <1>9, <1>10

LEMMA RemoveBehind ==
    ASSUME NEW Y, NEW a \in Seq(Y), NEW z \in Y, NEW p \in 1 .. Len(a)
    PROVE  /\ p + 1 \in 1 .. Len(<<z>> \o a) /\ (<<z>> \o a)[p + 1] = a[p]
           /\ RemoveAt(<<z>> \o a, p + 1) = <<z>> \o RemoveAt(a, p)
<1>1. PICK b : b = <<z>> \o a
  OBVIOUS
<1>2. /\ b \in Seq(Y) /\ Len(b) = Len(a) + 1 /\ p + 1 \in 1 .. Len(b) /\ b[1] = z
      /\ \A j \in 1 .. Len(a) : b[j + 1] = a[j]
  BY <1>1
<1>3. PICK c : c = RemoveAt(b, p + 1)
  OBVIOUS
<1>4. /\ c \in Seq(Y) /\ Len(c) = Len(b) - 1
      /\ \A j \in 1 .. Len(b) - 1 : c[j] = IF j < p + 1 THEN b[j] ELSE b[j + 1]
  BY <1>2, <1>3, RemoveAtIs
<1>5. PICK d : d = RemoveAt(a, p)
  OBVIOUS
<1>6. /\ d \in Seq(Y) /\ Len(d) = Len(a) - 1
      /\ \A j \in 1 .. Len(a) - 1 : d[j] = IF j < p THEN a[j] ELSE a[j + 1]
  BY <1>5, RemoveAtIs
<1>7. PICK e : e = <<z>> \o d
  OBVIOUS
<1>8. e \in Seq(Y) /\ Len(e) = Len(a) /\ e[1] = z /\ \A j \in 1 .. Len(a) - 1 : e[j + 1] = d[j]
  BY <1>6, <1>7
<1>9. ASSUME NEW j \in 1 .. Len(a) PROVE c[j] = e[j]
  <2>1. CASE j = 1
    <3>1. c[j] = b[1]
      BY <1>2, <1>4, <2>1
    <3> QED BY <1>2, <1>8, <2>1, <3>1
  <2>2. PICK i : i = j - 1
    OBVIOUS
  <2>3. CASE j # 1 /\ j < p + 1
    <3>0. i \in 1 .. Len(a) - 1 /\ j = i + 1 /\ i < p /\ i \in 1 .. Len(a)
      BY <2>2, <2>3
    <3>1. c[j] = b[i + 1] /\ b[i + 1] = a[i]
      BY <1>2, <1>4, <2>3, <3>0
    <3>2. e[j] = d[i] /\ d[i] = a[i]
      BY <1>6, <1>8, <3>0
    <3> QED BY <3>1, <3>2
  <2>4. CASE j # 1 /\ ~(j < p + 1)
    <3>0. i \in 1 .. Len(a) - 1 /\ j = i + 1 /\ ~(i < p) /\ j \in 1 .. Len(b) - 1
      BY <1>2, <2>2, <2>4
    <3>1. c[j] = b[j + 1] /\ b[j + 1] = a[j]
      BY <1>2, <1>4, <2>4, <3>0
    <3>2. e[j] = d[i] /\ d[i] = a[i + 1]
      BY <1>6, <1>8, <3>0
    <3> QED BY <3>0, <3>1, <3>2
  <2> QED BY <2>1, <2>3, <2>4
<1>10. Len(c) = Len(e)
  BY <1>2, <1>4, <1>8
<1>11. c = e
  <2>1. c \in Seq(Y) /\ e \in Seq(Y) /\ Len(c) = Len(e) /\ Len(c) = Len(a)
    BY <1>4, <1>8, <1>10
  <2>2. \A j \in 1 .. Len(c) : c[j] = e[j]
    BY <1>9, <2>1
  <2> QED BY <2>1, <2>2, SameSeq
<1>12. b[p + 1] = a[p]
  BY <1>2
<1> QED BY <1>1, <1>2, <1>3, <1>5, <1>7, <1>11, <1>12
\* Of one who is kept: taking it out of the set takes it out of what is kept.
LEMMA KeptLess ==
    ASSUME NEW Y, NEW w \in Seq(Y), NEW k \in 1 .. Len(w), NEW J, NEW K, w[k] \in K,
           \A i \in 1 .. Len(w) : w[i] \in J <=> w[i] \in K /\ i # k
    PROVE  \E p \in 1 .. Len(Kept(w, K)) : Kept(w, K)[p] = w[k] /\ Kept(w, J) = RemoveAt(Kept(w, K), p)
<1>1. PICK f : Keeps(f, Y, w, K) /\ Kept(w, K) = f[Len(w)]
  BY KeptBegins
<1>2. PICK g : Keeps(g, Y, w, J) /\ Kept(w, J) = g[Len(w)]
  BY KeptBegins
<1>3. Len(w) \in Nat /\ k \in Nat /\ k >= 1 /\ k <= Len(w) /\ w[k] \in Y
  OBVIOUS
<1>4. \A n \in 0 .. Len(w) : f[n] \in Seq(Y) /\ g[n] \in Seq(Y)
  BY <1>1, <1>2 DEF Keeps
<1>5. PICK a, y : a = f[k - 1] /\ y = w[k]
  OBVIOUS
<1>6. f[k - 1] = g[k - 1]
  <2>1. Alike(w, K, w, J, k - 1)
    BY <1>3 DEF Alike
  <2> QED BY <1>1, <1>2, <2>1, KeepsAgree
<1>7. a \in Seq(Y) /\ y \in Y
  <2>1. k - 1 \in 0 .. Len(w)
    BY <1>3
  <2> QED BY <1>3, <1>4, <1>5, <2>1
<1>8. f[k] = Append(a, y)
  BY <1>1, <1>5 DEF Keeps
<1>9. g[k] = a
  BY <1>2, <1>5, <1>6 DEF Keeps
<1>10. PICK p \in Nat : p = Len(a) + 1
  BY <1>7
<1> DEFINE Out(n) == p \in 1 .. Len(f[n]) /\ f[n][p] = w[k] /\ g[n] = RemoveAt(f[n], p)
           P == {n \in Nat : k + n <= Len(w) => Out(k + n)}
<1>11. 0 \in P
  <2>1. p \in 1 .. Len(f[k]) /\ f[k][p] = w[k]
    BY <1>5, <1>7, <1>8, <1>10
  <2>2. g[k] = RemoveAt(f[k], p)
    BY <1>7, <1>8, <1>9, <1>10, RemoveLast
  <2>3. Out(k)
    BY <2>1, <2>2
  <2>4. k + 0 = k
    BY <1>3
  <2> HIDE DEF Out
  <2> QED BY <2>3, <2>4
<1>12. ASSUME NEW n \in Nat, n \in P PROVE n + 1 \in P
  <2>1. ASSUME k + (n + 1) <= Len(w) PROVE Out(k + (n + 1))
    <3>1. PICK m \in Nat : m = k + n
      BY <1>3
    <3>2. /\ m \in 0 .. Len(w) /\ m + 1 \in 1 .. Len(w) /\ (m + 1) - 1 = m /\ m + 1 # k
          /\ k + (n + 1) = m + 1 /\ m <= Len(w)
      BY <1>3, <2>1, <3>1
    <3>3. f[m] \in Seq(Y) /\ g[m] \in Seq(Y) /\ w[m + 1] \in Y
      BY <1>4, <3>2
    <3>4. Out(m)
      <4> HIDE DEF Out
      <4> QED BY <1>12, <3>1, <3>2
    <3>5. f[m + 1] = IF w[m + 1] \in K THEN Append(f[m], w[m + 1]) ELSE f[m]
      BY <1>1, <3>2 DEF Keeps
    <3>6. g[m + 1] = IF w[m + 1] \in J THEN Append(g[m], w[m + 1]) ELSE g[m]
      BY <1>2, <3>2 DEF Keeps
    <3>7. w[m + 1] \in J <=> w[m + 1] \in K
      BY <3>2
    <3>8. Out(m + 1)
      <4>1. CASE w[m + 1] \notin K
        BY <3>4, <3>5, <3>6, <3>7, <4>1
      <4>2. CASE w[m + 1] \in K
        <5>1. PICK c, z : c = f[m] /\ z = w[m + 1]
          OBVIOUS
        <5>2. c \in Seq(Y) /\ z \in Y /\ p \in 1 .. Len(c) /\ c[p] = w[k] /\ g[m] = RemoveAt(c, p)
          BY <3>3, <3>4, <5>1
        <5>3. f[m + 1] = Append(c, z) /\ g[m + 1] = Append(RemoveAt(c, p), z)
          BY <3>5, <3>6, <3>7, <4>2, <5>1, <5>2
        <5>4. p \in 1 .. Len(Append(c, z)) /\ Append(c, z)[p] = w[k]
          BY <5>2
        <5>5. RemoveAt(Append(c, z), p) = Append(RemoveAt(c, p), z)
          BY <5>2, RemoveBefore
        <5> QED BY <5>3, <5>4, <5>5
      <4> QED BY <4>1, <4>2
    <3> HIDE DEF Out
    <3> QED BY <3>2, <3>8
  <2> HIDE DEF Out
  <2> QED BY <2>1
<1> HIDE DEF P
<1>13. Len(w) - k \in P
  <2>1. Len(w) - k \in Nat
    BY <1>3
  <2> QED BY <1>11, <1>12, <2>1, NatSetInduction
<1>14. Out(Len(w))
  <2>1. k + (Len(w) - k) = Len(w) /\ Len(w) <= Len(w)
    BY <1>3
  <2> HIDE DEF Out
  <2> QED BY <1>13, <2>1 DEF P
<1> QED BY <1>1, <1>2, <1>14

\* The first, when it is kept, comes before what is kept of the others.
LEMMA KeptHead ==
    ASSUME NEW Y, NEW v \in Seq(Y), NEW w \in Seq(Y), IsWithout(v, w, 1), NEW K, w[1] \in K
    PROVE  Kept(w, K) = <<w[1]>> \o Kept(v, K)
<1>1. PICK f : Keeps(f, Y, w, K) /\ Kept(w, K) = f[Len(w)]
  BY KeptBegins
<1>2. PICK g : Keeps(g, Y, v, K) /\ Kept(v, K) = g[Len(v)]
  BY KeptBegins
<1>3. /\ Len(v) = Len(w) - 1 /\ Len(v) \in Nat /\ Len(w) \in Nat /\ Len(w) >= 1
      /\ \A j \in 1 .. Len(v) : v[j] = w[j + 1]
  BY DEF IsWithout
<1>4. PICK z : z = w[1]
  OBVIOUS
<1>5. z \in Y /\ z \in K
  BY <1>3, <1>4
<1>6. \A n \in 0 .. Len(v) : g[n] \in Seq(Y)
  BY <1>2 DEF Keeps
<1>7. f[1] = <<z>> /\ g[0] = <<>>
  <2>1. 1 \in 1 .. Len(w) /\ 1 - 1 = 0
    BY <1>3
  <2>2. f[1] = Append(f[0], w[1]) /\ f[0] = <<>> /\ g[0] = <<>>
    BY <1>1, <1>2, <1>4, <1>5, <2>1 DEF Keeps
  <2>3. Append(<<>>, z) = <<z>>
    OBVIOUS
  <2> QED BY <1>4, <2>2, <2>3
<1> DEFINE P == {n \in Nat : n <= Len(v) => f[n + 1] = <<z>> \o g[n]}
<1>8. 0 \in P
  <2>1. <<z>> \o <<>> = <<z>>
    OBVIOUS
  <2>2. 0 + 1 = 1
    OBVIOUS
  <2> QED BY <1>7, <2>1, <2>2
<1>9. ASSUME NEW n \in Nat, n \in P PROVE n + 1 \in P
  <2> SUFFICES ASSUME n + 1 <= Len(v) PROVE f[(n + 1) + 1] = <<z>> \o g[n + 1]
    OBVIOUS
  <2>1. f[n + 1] = <<z>> \o g[n]
    BY <1>3, <1>9
  <2>2. /\ n \in 0 .. Len(v) /\ n + 1 \in 1 .. Len(v) /\ n + 2 \in 1 .. Len(w)
        /\ (n + 1) - 1 = n /\ (n + 2) - 1 = n + 1 /\ (n + 1) + 1 = n + 2
    BY <1>3
  <2>3. g[n + 1] = IF v[n + 1] \in K THEN Append(g[n], v[n + 1]) ELSE g[n]
    BY <1>2, <2>2 DEF Keeps
  <2>4. f[n + 2] = IF w[n + 2] \in K THEN Append(f[n + 1], w[n + 2]) ELSE f[n + 1]
    BY <1>1, <2>2 DEF Keeps
  <2>5. PICK a, y : a = g[n] /\ y = w[n + 2]
    OBVIOUS
  <2>6. a \in Seq(Y)
    BY <1>6, <2>2, <2>5
  <2>7. y \in Y
    BY <2>2, <2>5
  <2>8. v[n + 1] = y
    BY <1>3, <2>2, <2>5
  <2>9. Append(<<z>> \o a, y) = <<z>> \o Append(a, y)
    BY <1>5, <2>6, <2>7
  <2>10. CASE y \in K
    <3>1. g[n + 1] = Append(a, y) /\ f[n + 2] = Append(<<z>> \o a, y)
      BY <2>1, <2>3, <2>4, <2>5, <2>8, <2>10
    <3> QED BY <2>2, <2>9, <3>1
  <2>11. CASE y \notin K
    <3>1. g[n + 1] = a /\ f[n + 2] = <<z>> \o a
      BY <2>1, <2>3, <2>4, <2>5, <2>8, <2>11
    <3> QED BY <2>2, <3>1
  <2> QED BY <2>10, <2>11
<1> HIDE DEF P
<1>10. Len(v) \in P
  BY <1>3, <1>8, <1>9, NatSetInduction
<1>11. Len(v) + 1 = Len(w) /\ Len(v) <= Len(v)
  BY <1>3
<1> QED BY <1>1, <1>2, <1>4, <1>10, <1>11 DEF P

(***************************************************************************)
(* The registry as one queue per site: what the queue of a site is, that a *)
(* step at one site leaves the others' queues alone, and then each step as *)
(* the step of the abstract queue it implements.                           *)
(***************************************************************************)

\* Who is inside a section of s.
Inside(s) == {t \in Tasks : pc[t] = "inside" /\ slug[t] = s}

\* The queue of each site, with somebody inside and without.
QueueFacts ==
    \A s \in Slugs :
        /\ QueueOf(s) \in Seq(Tasks)
        /\ \A i \in 1 .. Len(QueueOf(s)) : pc[QueueOf(s)[i]] # "idle"
        /\ entries[s] = NoLock => QueueOf(s) = <<>> /\ Inside(s) = {}
        /\ entries[s] # NoLock =>
              /\ waiters[entries[s]] \in Seq(Tasks)
              /\ \A i \in 1 .. Len(waiters[entries[s]]) : slug[waiters[entries[s]][i]] = s
              /\ Inside(s) = {} => QueueOf(s) = Kept(waiters[entries[s]], Live)
              /\ \A t \in Inside(s) : QueueOf(s) = <<t>> \o Kept(waiters[entries[s]], Live)

LEMMA QueueIs == Inv => QueueFacts
<1> SUFFICES ASSUME Inv, NEW s \in Slugs
             PROVE  /\ QueueOf(s) \in Seq(Tasks)
                    /\ \A i \in 1 .. Len(QueueOf(s)) : pc[QueueOf(s)[i]] # "idle"
                    /\ entries[s] = NoLock => QueueOf(s) = <<>> /\ Inside(s) = {}
                    /\ entries[s] # NoLock =>
                          /\ waiters[entries[s]] \in Seq(Tasks)
                          /\ \A i \in 1 .. Len(waiters[entries[s]]) : slug[waiters[entries[s]][i]] = s
                          /\ Inside(s) = {} => QueueOf(s) = Kept(waiters[entries[s]], Live)
                          /\ \A t \in Inside(s) : QueueOf(s) = <<t>> \o Kept(waiters[entries[s]], Live)
  BY DEF QueueFacts
<1>1. CASE entries[s] = NoLock
  <2>1. QueueOf(s) = <<>>
    BY <1>1 DEF QueueOf
  <2>2. Inside(s) = {}
    BY <1>1 DEF Inside, Inv, Referenced
  <2> QED BY <1>1, <2>1, <2>2
<1>2. CASE entries[s] # NoLock
  <2>1. PICK w : w = waiters[entries[s]]
    OBVIOUS
  <2>2. entries[s] \in Locks /\ w \in Seq(Tasks)
    BY <1>2, <2>1 DEF Inv, TypeOK
  <2>3. \A i \in 1 .. Len(w) : slug[w[i]] = s
    <3> SUFFICES ASSUME NEW i \in 1 .. Len(w) PROVE slug[w[i]] = s
      OBVIOUS
    <3>1. w[i] \in Tasks /\ lock[w[i]] = entries[s] /\ pc[w[i]] # "idle"
      BY <2>1, <2>2 DEF Inv, Waiters, Queued
    <3>2. entries[slug[w[i]]] = entries[s] /\ slug[w[i]] \in Slugs
      BY <3>1 DEF Inv, Referenced, TypeOK
    <3> QED BY <1>2, <3>2 DEF Inv, Referenced
  <2>4. PICK kept : kept = Kept(w, Live)
    OBVIOUS
  <2>5. kept \in Seq(Tasks) /\ \A i \in 1 .. Len(kept) : kept[i] \in Live
    BY <2>2, <2>4, KeptIn
  <2>6. \A i \in 1 .. Len(kept) : pc[kept[i]] # "idle"
    BY <2>5 DEF Live
  <2>7. CASE Inside(s) = {}
    <3>1. QueueOf(s) = <<>> \o kept
      BY <1>2, <2>1, <2>4, <2>7 DEF QueueOf, Inside
    <3>2. <<>> \o kept = kept
      BY <2>5
    <3> QED BY <1>2, <2>1, <2>2, <2>3, <2>4, <2>5, <2>6, <2>7, <3>1, <3>2
  <2>8. CASE Inside(s) # {}
    <3>1. PICK t : t \in Inside(s)
      BY <2>8
    <3>2. \A u \in Inside(s) : u = t
      BY <3>1 DEF Inside, Inv, Referenced, Held
    <3>3. (CHOOSE u \in Inside(s) : TRUE) = t
      BY <3>1, <3>2
    <3>4. QueueOf(s) = <<t>> \o kept
      BY <1>2, <2>1, <2>4, <2>8, <3>3 DEF QueueOf, Inside
    <3>5. t \in Tasks /\ pc[t] # "idle"
      BY <3>1 DEF Inside
    <3>6. <<t>> \o kept \in Seq(Tasks)
      BY <2>5, <3>5
    <3>7. \A i \in 1 .. Len(<<t>> \o kept) : (<<t>> \o kept)[i] = t \/ \E j \in 1 .. Len(kept) : (<<t>> \o kept)[i] = kept[j]
      <4> SUFFICES ASSUME NEW i \in 1 .. Len(<<t>> \o kept)
                   PROVE  (<<t>> \o kept)[i] = t \/ \E j \in 1 .. Len(kept) : (<<t>> \o kept)[i] = kept[j]
        OBVIOUS
      <4>1. CASE i = 1
        BY <2>5, <4>1
      <4>2. CASE i # 1
        <5>1. i - 1 \in 1 .. Len(kept) /\ (<<t>> \o kept)[i] = kept[i - 1]
          BY <2>5, <4>2
        <5> QED BY <5>1
      <4> QED BY <4>1, <4>2
    <3>8. \A i \in 1 .. Len(QueueOf(s)) : pc[QueueOf(s)[i]] # "idle"
      BY <2>6, <3>4, <3>5, <3>7
    <3> QED BY <1>2, <2>1, <2>2, <2>3, <2>4, <2>8, <3>2, <3>4, <3>6, <3>8
  <2> QED BY <2>7, <2>8
<1> QED BY <1>1, <1>2

\* The same of the next state.
LEMMA QueueIsThen == Inv' => QueueFacts'
BY QueueIs, PTL

\* A step of t at the site s.
At(t, s) ==
    /\ \A u \in Slugs \ {s} : /\ entries'[u] = entries[u]
                              /\ entries[u] # NoLock => waiters'[entries[u]] = waiters[entries[u]]
    /\ \A v \in Tasks \ {t} : /\ slug'[v] = slug[v]
                              /\ pc'[v] = pc[v] \/ (pc[v] = "pending" /\ pc'[v] = "woken")
    /\ pc[t] # "idle" => slug[t] = s
    /\ pc'[t] # "idle" => slug'[t] = s

\* It leaves the queues of the other sites as they are.
LEMMA Elsewhere ==
    ASSUME Inv, Inv', NEW t \in Tasks, NEW s \in Slugs, At(t, s), NEW u \in Slugs \ {s}
    PROVE  QueueOf(u)' = QueueOf(u)
<1>0. QueueFacts /\ QueueFacts'
  BY QueueIs, QueueIsThen
<1>1. Inside(u)' = Inside(u)
  BY DEF At, Inside
<1>2. entries'[u] = entries[u]
  BY DEF At
<1>3. CASE entries[u] = NoLock
  BY <1>0, <1>2, <1>3 DEF QueueFacts
<1>4. CASE entries[u] # NoLock
  <2>1. PICK w : w = waiters[entries[u]]
    OBVIOUS
  <2>2. waiters'[entries[u]] = w /\ w \in Seq(Tasks) /\ \A i \in 1 .. Len(w) : slug[w[i]] = u
    BY <1>0, <1>4, <2>1 DEF At, QueueFacts
  <2>3. \A i \in 1 .. Len(w) : w[i] \in Live <=> w[i] \in Live'
    <3> SUFFICES ASSUME NEW i \in 1 .. Len(w) PROVE w[i] \in Live <=> w[i] \in Live'
      OBVIOUS
    <3>1. PICK v \in Tasks : v = w[i]
      BY <2>2
    <3>2. pc[v] # "idle" /\ slug[v] = u
      <4>1. entries[u] \in Locks
        BY <1>4 DEF Inv, TypeOK
      <4>2. pc[v] \in Queued
        BY <2>1, <3>1, <4>1 DEF Inv, Waiters
      <4> QED BY <2>2, <3>1, <4>2 DEF Queued
    <3>3. v # t
      BY <3>2 DEF At
    <3> QED BY <3>1, <3>3 DEF At, Live
  <2>4. Kept(w, Live) = Kept(w, Live')
    BY <2>2, <2>3, KeptSame
  <2>5. Kept(waiters[entries[u]], Live)' = Kept(w, Live')
    BY <1>2, <2>2
  <2>6. CASE Inside(u) = {}
    BY <1>0, <1>1, <1>2, <1>4, <2>1, <2>4, <2>5, <2>6 DEF QueueFacts
  <2>7. CASE Inside(u) # {}
    <3>1. PICK h : h \in Inside(u)
      BY <2>7
    <3>2. QueueOf(u) = <<h>> \o Kept(w, Live)
      BY <1>0, <1>4, <2>1, <3>1 DEF QueueFacts
    <3>3. QueueOf(u)' = <<h>> \o Kept(waiters[entries[u]], Live)'
      BY <1>0, <1>1, <1>2, <1>4, <3>1 DEF QueueFacts
    <3> QED BY <2>4, <2>5, <3>2, <3>3
  <2> QED BY <2>6, <2>7
<1> QED BY <1>3, <1>4

\* Who is inside, which is what the abstract queue calls entered.
EnteredNow == {t \in Tasks : pc[t] = "inside"}

\* The queues after a step at s that makes q of the one there.
LEMMA QueuesThen ==
    ASSUME Inv, Inv', NEW t \in Tasks, NEW s \in Slugs, At(t, s), NEW q, QueueOf(s)' = q
    PROVE  [u \in Slugs |-> QueueOf(u)]' = [[u \in Slugs |-> QueueOf(u)] EXCEPT ![s] = q]
<1>1. \A u \in Slugs \ {s} : QueueOf(u)' = QueueOf(u)
  BY Elsewhere
<1> QED BY <1>1

\* hold up to the lock: asking.
LEMMA AskAsks ==
    ASSUME Inv, Inv', NEW t \in Tasks, NEW s \in Slugs, NEW l \in Locks, Ask(t, s, l)
    PROVE  Abstract!Ask(t, s)
<1> DEFINE w == waiters[l]
<1>0. /\ QueueFacts /\ QueueFacts'
      /\ entries \in [Slugs -> Locks \cup {NoLock}] /\ waiters \in [Locks -> Seq(Tasks)]
      /\ locked \in [Locks -> BOOLEAN] /\ pc \in [Tasks -> PC] /\ slug \in [Tasks -> Slugs]
      /\ lock \in [Tasks -> Locks \cup {NoLock}] /\ w \in Seq(Tasks) /\ l # NoLock
  BY QueueIs, QueueIsThen, Objects DEF Inv, TypeOK
<1>1. /\ pc[t] = "idle" /\ EntryOf(s, l)
      /\ entries' = [entries EXCEPT ![s] = l]
      /\ slug' = [slug EXCEPT ![t] = s]
      /\ lock' = [lock EXCEPT ![t] = l]
  BY DEF Ask
<1>2. \A u \in Slugs \ {s} : entries[u] # l
  BY <1>0, <1>1 DEF EntryOf, Unreferenced, Inv, Referenced
<1>3. \A i \in 1 .. Len(w) : w[i] \in Tasks \ {t}
  <2>1. \A i \in 1 .. Len(w) : pc[w[i]] \in Queued
    BY DEF Inv, Waiters
  <2>2. \A i \in 1 .. Len(w) : w[i] \in Tasks
    BY <1>0
  <2> QED BY <1>1, <2>1, <2>2 DEF Queued
<1>4. entries[s] = NoLock => w = <<>> /\ ~locked[l]
  <2> SUFFICES ASSUME entries[s] = NoLock PROVE w = <<>> /\ ~locked[l]
    OBVIOUS
  <2>1. \A v \in Tasks : lock[v] # l
    BY <1>1 DEF EntryOf, Unreferenced
  <2>2. ~locked[l]
    BY <2>1 DEF Inv, Held
  <2>3. \A i \in 1 .. Len(w) : lock[w[i]] = l
    BY DEF Inv, Waiters
  <2>4. Len(w) = 0
    BY <1>0, <1>3, <2>1, <2>3
  <2> QED BY <1>0, <2>2, <2>4
<1>5. \A u \in Slugs : t \notin Abstract!Asking(u)
  <2> SUFFICES ASSUME NEW u \in Slugs, NEW i \in 1 .. Len(QueueOf(u)) PROVE QueueOf(u)[i] # t
    BY DEF Abstract!Asking
  <2> QED BY <1>0, <1>1 DEF QueueFacts
<1>6. entries'[s] = l /\ entries'[s] # NoLock
  BY <1>0, <1>1
<1>7. CASE Free(l)
  <2>1. /\ pc' = [pc EXCEPT ![t] = "inside"] /\ waiters' = waiters /\ ~locked[l]
        /\ \A v \in Members(w) : pc[v] = "cancelled"
    BY <1>7 DEF Ask, Free
  <2>2. At(t, s)
    BY <1>0, <1>1, <2>1 DEF At
  <2>3. Inside(s) = {}
    <3> SUFFICES ASSUME NEW v \in Inside(s) PROVE FALSE
      OBVIOUS
    <3>1. locked[lock[v]] /\ lock[v] = entries[s] /\ entries[s] # NoLock
      BY <1>0 DEF Inside, Inv, Held, Referenced
    <3> QED BY <1>1, <2>1, <3>1 DEF EntryOf
  <2>4. \A i \in 1 .. Len(w) : w[i] \notin Live /\ w[i] \notin Live'
    <3>1. \A i \in 1 .. Len(w) : pc[w[i]] = "cancelled" /\ pc'[w[i]] = "cancelled"
      BY <1>0, <1>3, <2>1 DEF Members
    <3> QED BY <3>1 DEF Live
  <2>5. Kept(w, Live) = <<>> /\ Kept(w, Live') = <<>>
    BY <1>0, <2>4, KeptIn
  <2>6. QueueOf(s) = <<>>
    <3>1. CASE entries[s] = NoLock
      BY <1>0, <3>1 DEF QueueFacts
    <3>2. CASE entries[s] # NoLock
      <4>1. entries[s] = l
        BY <1>1, <3>2 DEF EntryOf
      <4> QED BY <1>0, <2>3, <2>5, <3>2, <4>1 DEF QueueFacts
    <3> QED BY <3>1, <3>2
  <2>7. QueueOf(s)' = Append(QueueOf(s), t)
    <3>1. t \in Inside(s)'
      BY <1>0, <1>1, <2>1 DEF Inside
    <3>2. QueueOf(s)' = <<t>> \o Kept(waiters[entries[s]], Live)'
      BY <1>0, <1>6, <3>1 DEF QueueFacts
    <3>3. Kept(waiters[entries[s]], Live)' = <<>>
      BY <1>6, <2>1, <2>5
    <3>4. <<t>> \o <<>> = Append(<<>>, t)
      OBVIOUS
    <3> QED BY <2>6, <3>2, <3>3, <3>4
  <2>8. EnteredNow' = EnteredNow \cup {t}
    BY <1>0, <2>1 DEF EnteredNow
  <2>9. [u \in Slugs |-> QueueOf(u)]' = [[u \in Slugs |-> QueueOf(u)] EXCEPT ![s] = Append(@, t)]
    BY <2>2, <2>7, QueuesThen
  <2> QED BY <1>5, <2>6, <2>8, <2>9 DEF Abstract!Ask, EnteredNow
<1>8. CASE ~Free(l)
  <2>1. /\ waiters' = [waiters EXCEPT ![l] = Append(@, t)] /\ pc' = [pc EXCEPT ![t] = "pending"]
    BY <1>8 DEF Ask
  <2>2. entries[s] = l
    <3>1. ~(w = <<>> /\ ~locked[l])
      BY <1>8 DEF Free, Members
    <3> QED BY <1>1, <1>4, <3>1 DEF EntryOf
  <2>3. At(t, s)
    BY <1>0, <1>1, <1>2, <2>1 DEF At
  <2>4. waiters'[l] = Append(w, t) /\ entries' = entries
    BY <1>0, <1>1, <2>1, <2>2
  <2>5. \A i \in 1 .. Len(w) : w[i] \in Live <=> w[i] \in Live'
    BY <1>0, <1>3, <2>1 DEF Live
  <2>6. PICK kept : kept = Kept(w, Live)
    OBVIOUS
  <2>7. Kept(Append(w, t), Live') = Append(kept, t) /\ kept \in Seq(Tasks)
    <3>1. t \in Live'
      BY <1>0, <2>1 DEF Live
    <3>2. Kept(w, Live) = Kept(w, Live')
      BY <1>0, <2>5, KeptSame
    <3>3. Kept(Append(w, t), Live') = Append(Kept(w, Live'), t)
      BY <1>0, <3>1, KeptAppend
    <3>4. kept \in Seq(Tasks)
      BY <1>0, <2>6, KeptIn
    <3> QED BY <2>6, <3>2, <3>3, <3>4
  <2>8. Inside(s)' = Inside(s)
    BY <1>0, <1>1, <2>1 DEF Inside
  <2>9. QueueOf(s)' = Append(QueueOf(s), t)
    <3>1. Kept(waiters[entries[s]], Live)' = Append(kept, t)
      BY <2>2, <2>4, <2>7
    <3>2. CASE Inside(s) = {}
      <4>1. QueueOf(s) = kept /\ QueueOf(s)' = Append(kept, t)
        BY <1>0, <1>6, <2>2, <2>6, <2>8, <3>1, <3>2 DEF QueueFacts
      <4> QED BY <4>1
    <3>3. CASE Inside(s) # {}
      <4>1. PICK h : h \in Inside(s) /\ h \in Tasks
        BY <3>3 DEF Inside
      <4>2. QueueOf(s) = <<h>> \o kept
        BY <1>0, <1>6, <2>2, <2>6, <4>1 DEF QueueFacts
      <4>3. QueueOf(s)' = <<h>> \o Append(kept, t)
        <5>1. h \in Inside(s)' /\ QueueFacts'
          BY <1>0, <2>8, <4>1
        <5>2. QueueOf(s)' = <<h>> \o Kept(waiters[entries[s]], Live)'
          BY <1>6, <5>1 DEF QueueFacts
        <5> QED BY <3>1, <5>2
      <4>4. <<h>> \o Append(kept, t) = Append(<<h>> \o kept, t)
        BY <2>7, <4>1
      <4> QED BY <4>2, <4>3, <4>4
    <3> QED BY <3>2, <3>3
  <2>10. EnteredNow' = EnteredNow
    BY <1>0, <1>1, <2>1 DEF EnteredNow
  <2>11. [u \in Slugs |-> QueueOf(u)]' = [[u \in Slugs |-> QueueOf(u)] EXCEPT ![s] = Append(@, t)]
    BY <2>3, <2>9, QueuesThen
  <2> QED BY <1>5, <2>10, <2>11 DEF Abstract!Ask, EnteredNow
<1> QED BY <1>7, <1>8

\* A woken task takes the lock: the head of the queue enters.
LEMMA ResumeEnters ==
    ASSUME Inv, Inv', NEW t \in Tasks, NEW s \in Slugs, s = slug[t], Resume(t)
    PROVE  Abstract!Enter(t, s)
<1>1. PICK l, w, v :
         l \in Locks /\ s = slug[t] /\ l = lock[t] /\ w = waiters[l] /\ v = waiters'[l]
  <2>1. lock[t] \in Locks
    BY OwnLock DEF Resume
  <2> QED BY <2>1
<1> l \in Locks
  BY <1>1
<1>2. /\ QueueFacts /\ QueueFacts' /\ pc \in [Tasks -> PC] /\ l # NoLock /\ entries[s] = l
      /\ w \in Seq(Tasks) /\ v \in Seq(Tasks) /\ v = Without(w, t)
  <2>1. QueueFacts /\ QueueFacts' /\ pc \in [Tasks -> PC] /\ l # NoLock /\ entries[s] = l
    BY <1>1, QueueIs, QueueIsThen, Objects, OwnLock DEF Inv, TypeOK, Resume
  <2>2. w \in Seq(Tasks) /\ v \in Seq(Tasks)
    BY <1>1 DEF Inv, TypeOK
  <2>3. v = Without(w, t)
    BY <1>1 DEF Resume, Inv, TypeOK
  <2> QED BY <2>1, <2>2, <2>3
<1>3. /\ pc[t] = "woken" /\ pc' = [pc EXCEPT ![t] = "inside"]
      /\ UNCHANGED <<entries, slug>>
      /\ \A m \in Locks \ {l} : waiters'[m] = waiters[m]
  BY <1>1 DEF Resume, Inv, TypeOK
<1>4. Len(w) \in Nat /\ Len(w) >= 1 /\ w[1] = t /\ ~locked[l]
  <2>1. w[1] = t /\ ~locked[l]
    BY <1>1, <1>3 DEF Inv, Woken
  <2>2. \E i \in 1 .. Len(w) : w[i] = t
    BY <1>1, <1>3 DEF Inv, Waiters, Queued
  <2> QED BY <1>2, <2>1, <2>2
<1>5. IsWithout(v, w, 1) /\ \A i \in 1 .. Len(v) : v[i] # t
  <2>0. \A i, j \in 1 .. Len(w) : w[i] = w[j] => i = j
    BY <1>1 DEF Inv, Waiters
  <2>1. 1 \in 1 .. Len(w)
    BY <1>4
  <2>2. /\ Len(v) = Len(w) - 1
        /\ \A j \in 1 .. Len(w) - 1 : v[j] = IF j < 1 THEN w[j] ELSE w[j + 1]
    BY <1>2, <1>4, <2>0, <2>1, WithoutFacts
  <2>3. \A i \in 1 .. Len(v) : v[i] = w[i + 1] /\ i + 1 \in 1 .. Len(w) /\ i + 1 # 1
    BY <1>4, <2>2
  <2> QED BY <1>4, <2>0, <2>1, <2>2, <2>3 DEF IsWithout
<1>6. At(t, s)
  <2>1. \A u \in Slugs \ {s} : entries[u] # NoLock => entries[u] \in Locks \ {l}
    BY <1>2 DEF Inv, TypeOK, Referenced
  <2> QED BY <1>1, <1>2, <1>3, <2>1 DEF At
<1>7. Inside(s) = {} /\ t \in Inside(s)'
  <2>1. Inside(s) = {}
    <3> SUFFICES ASSUME NEW u \in Inside(s) PROVE FALSE
      OBVIOUS
    <3>1. locked[lock[u]] /\ lock[u] = entries[s]
      BY DEF Inside, Inv, Held, Referenced
    <3> QED BY <1>2, <1>4, <3>1
  <2> QED BY <1>1, <1>2, <1>3, <2>1 DEF Inside
<1>8. PICK kept : kept = Kept(v, Live)
  OBVIOUS
<1>9. kept \in Seq(Tasks) /\ Kept(w, Live) = <<t>> \o kept /\ Kept(v, Live') = kept
  <2>1. t \in Live
    BY <1>3 DEF Live
  <2>2. Kept(w, Live) = <<t>> \o kept
    BY <1>2, <1>4, <1>5, <1>8, <2>1, KeptHead
  <2>3. \A i \in 1 .. Len(v) : v[i] \in Live <=> v[i] \in Live'
    BY <1>2, <1>3, <1>5 DEF Live
  <2>4. Kept(v, Live) = Kept(v, Live')
    BY <1>2, <2>3, KeptSame
  <2>5. kept \in Seq(Tasks)
    BY <1>2, <1>8, KeptIn
  <2> QED BY <1>8, <2>2, <2>4, <2>5
<1>10. QueueOf(s) = <<t>> \o kept
  BY <1>1, <1>2, <1>7, <1>9 DEF QueueFacts
<1>11. QueueOf(s)' = QueueOf(s)
  <2>1. Kept(waiters[entries[s]], Live)' = kept
    BY <1>1, <1>2, <1>3, <1>9
  <2>2. QueueOf(s)' = <<t>> \o Kept(waiters[entries[s]], Live)'
    BY <1>2, <1>3, <1>7 DEF QueueFacts
  <2> QED BY <1>10, <2>1, <2>2
<1>12. [u \in Slugs |-> QueueOf(u)]' = [u \in Slugs |-> QueueOf(u)]
  <2>1. \A u \in Slugs : QueueOf(u)' = QueueOf(u)
    BY <1>6, <1>11, Elsewhere
  <2> QED BY <2>1
<1>13. EnteredNow' = EnteredNow \cup {t} /\ t \notin EnteredNow
  BY <1>2, <1>3 DEF EnteredNow
<1>14. QueueOf(s) # <<>> /\ Head(QueueOf(s)) = t
  <2>1. <<t>> \o kept # <<>> /\ Head(<<t>> \o kept) = t
    BY <1>9
  <2> QED BY <1>10, <2>1
<1> QED BY <1>1, <1>12, <1>13, <1>14 DEF Abstract!Enter, Abstract!IsHead, EnteredNow

\* The end of a section: the head of the queue leaves.
LEMMA LeaveLeaves ==
    ASSUME Inv, Inv', NEW t \in Tasks, NEW s \in Slugs, s = slug[t], Leave(t)
    PROVE  Abstract!Leave(t, s)
<1>1. PICK l, w :
         l \in Locks /\ s = slug[t] /\ l = lock[t] /\ w = waiters[l]
  <2>1. lock[t] \in Locks
    BY OwnLock DEF Leave
  <2> QED BY <2>1
<1> l \in Locks
  BY <1>1
<1>2. /\ QueueFacts /\ QueueFacts' /\ pc \in [Tasks -> PC] /\ l # NoLock /\ entries[s] = l
      /\ w \in Seq(Tasks)
  BY <1>1, QueueIs, QueueIsThen, Objects, OwnLock DEF Inv, TypeOK, Leave
<1>3. /\ pc[t] = "inside" /\ pc[t] # "idle" /\ waiters' = waiters /\ Drop(t) /\ slug' = slug
      /\ \A u \in Slugs \ {s} : entries'[u] = entries[u]
      /\ entries'[s] = NoLock \/ entries'[s] = l
  BY <1>1, <1>2 DEF Leave, Drop
<1>4. /\ pc' \in [Tasks -> PC] /\ pc'[t] = "idle"
      /\ \A u \in Tasks \ {t} : pc'[u] = pc[u] \/ (pc[u] = "pending" /\ pc'[u] = "woken")
  <2>1. PICK p : p = [pc EXCEPT ![t] = "idle"]
    OBVIOUS
  <2>2. p \in [Tasks -> PC] /\ p[t] = "idle" /\ \A u \in Tasks \ {t} : p[u] = pc[u]
    BY <1>2, <2>1 DEF PC
  <2>3. pc' = WakeFirst(p, w)
    BY <1>1, <2>1 DEF Leave
  <2> QED BY <1>2, <2>2, <2>3, WakeFacts
<1>5. At(t, s)
  BY <1>1, <1>3, <1>4 DEF At
<1>6. Inside(s) = {t} /\ Inside(s)' = {}
  <2>1. \A u \in Inside(s) : u = t
    BY <1>1, <1>3 DEF Inside, Inv, Referenced, Held
  <2>2. t \in Inside(s)
    BY <1>1, <1>3 DEF Inside
  <2>3. \A u \in Tasks : pc'[u] = "inside" => u # t /\ pc[u] = "inside"
    BY <1>4
  <2>4. Inside(s)' = {}
    BY <1>3, <2>1, <2>3 DEF Inside
  <2> QED BY <2>1, <2>2, <2>4
<1>7. \A i \in 1 .. Len(w) : w[i] \in Tasks \ {t} /\ pc[w[i]] \in Queued /\ slug[w[i]] = s
  <2>1. \A i \in 1 .. Len(w) : w[i] \in Tasks /\ pc[w[i]] \in Queued /\ slug[w[i]] = s
    BY <1>1, <1>2 DEF Inv, Waiters, QueueFacts
  <2> QED BY <1>3, <2>1 DEF Queued
<1>8. PICK kept : kept = Kept(w, Live)
  OBVIOUS
<1>9. kept \in Seq(Tasks) /\ Kept(w, Live') = kept
  <2>1. \A i \in 1 .. Len(w) : w[i] \in Live <=> w[i] \in Live'
    BY <1>4, <1>7 DEF Live
  <2>2. Kept(w, Live) = Kept(w, Live')
    BY <1>2, <2>1, KeptSame
  <2> QED BY <1>2, <1>8, <2>2, KeptIn
<1>10. QueueOf(s) = <<t>> \o kept
  BY <1>1, <1>2, <1>6, <1>8 DEF QueueFacts
<1>11. QueueOf(s)' = kept
  <2>1. CASE entries'[s] = l
    <3>1. Kept(waiters[entries[s]], Live)' = kept
      BY <1>1, <1>3, <1>9, <2>1
    <3> QED BY <1>2, <1>6, <2>1, <3>1 DEF QueueFacts
  <2>2. CASE entries'[s] = NoLock
    <3>1. QueueOf(s)' = <<>>
      BY <1>2, <2>2 DEF QueueFacts
    <3>2. Len(w) = 0
      <4> SUFFICES ASSUME Len(w) # 0 PROVE FALSE
        OBVIOUS
      <4>1. PICK u \in Tasks : u = w[1] /\ u # t /\ pc[u] \in Queued /\ slug[u] = s
        <5>1. 1 \in 1 .. Len(w)
          BY <1>2
        <5> QED BY <1>7, <5>1
      <4>2. pc'[u] # "idle" /\ slug'[u] = s
        BY <1>3, <1>4, <4>1 DEF Queued
      <4>3. entries'[s] = lock'[u] /\ lock'[u] # NoLock
        BY <4>2 DEF Inv, Referenced
      <4> QED BY <2>2, <4>3
    <3>3. Kept(w, Live) = <<>>
      <4>1. \A i \in 1 .. Len(w) : w[i] \notin Live
        BY <3>2
      <4> QED BY <1>2, <4>1, KeptIn
    <3> QED BY <1>8, <3>1, <3>3
  <2> QED BY <1>3, <2>1, <2>2
<1>12. [u \in Slugs |-> QueueOf(u)]' = [[u \in Slugs |-> QueueOf(u)] EXCEPT ![s] = Tail(@)]
  <2>1. Tail(<<t>> \o kept) = kept
    BY <1>9
  <2> QED BY <1>5, <1>10, <1>11, <2>1, QueuesThen
<1>13. EnteredNow' = EnteredNow \ {t} /\ t \in EnteredNow
  BY <1>3, <1>4 DEF EnteredNow
<1>14. QueueOf(s) # <<>> /\ Head(QueueOf(s)) = t
  <2>1. <<t>> \o kept # <<>> /\ Head(<<t>> \o kept) = t
    BY <1>9
  <2> QED BY <1>10, <2>1
<1> QED BY <1>1, <1>12, <1>13, <1>14 DEF Abstract!Leave, Abstract!IsHead, EnteredNow

\* A cancellation: a waiter gives up, wherever it stands.
LEMMA CancelGivesUp ==
    ASSUME Inv, Inv', NEW t \in Tasks, NEW s \in Slugs, s = slug[t], Cancel(t)
    PROVE  Abstract!GiveUp(t, s)
<1>1. PICK l, w :
         l \in Locks /\ s = slug[t] /\ l = lock[t] /\ w = waiters[l]
  <2>1. lock[t] \in Locks
    BY OwnLock DEF Cancel
  <2> QED BY <2>1
<1> l \in Locks
  BY <1>1
<1>2. /\ QueueFacts /\ QueueFacts' /\ pc \in [Tasks -> PC] /\ l # NoLock /\ entries[s] = l
      /\ w \in Seq(Tasks)
  BY <1>1, QueueIs, QueueIsThen, Objects, OwnLock DEF Inv, TypeOK, Cancel
<1>3. /\ pc[t] \in {"pending", "woken"} /\ pc'[t] \in {"cancelled", "doomed"}
      /\ \A u \in Tasks \ {t} : pc'[u] = pc[u]
      /\ UNCHANGED <<entries, waiters, slug>>
  BY <1>2 DEF Cancel
<1>4. At(t, s)
  BY <1>1, <1>3 DEF At
<1>5. Inside(s)' = Inside(s)
  BY <1>3 DEF Inside
<1>6. PICK k \in 1 .. Len(w) : w[k] = t /\ \A i \in 1 .. Len(w) : w[i] = t => i = k
  <2>1. PICK k \in 1 .. Len(w) : w[k] = t
    BY <1>1, <1>3 DEF Inv, Waiters, Queued
  <2>2. \A i, j \in 1 .. Len(w) : w[i] = w[j] => i = j
    BY <1>1 DEF Inv, Waiters
  <2> QED BY <2>1, <2>2
<1>7. PICK kept, less : kept = Kept(w, Live) /\ less = Kept(w, Live')
  OBVIOUS
<1>8. kept \in Seq(Tasks)
  BY <1>2, <1>7, KeptIn
<1>9. PICK p \in 1 .. Len(kept) : kept[p] = t /\ less = RemoveAt(kept, p)
  <2>1. w[k] \in Live
    BY <1>3, <1>6 DEF Live
  <2>2. \A i \in 1 .. Len(w) : w[i] \in Live' <=> w[i] \in Live /\ i # k
    BY <1>2, <1>3, <1>6 DEF Live
  <2>3. \E p \in 1 .. Len(Kept(w, Live)) :
           Kept(w, Live)[p] = w[k] /\ Kept(w, Live') = RemoveAt(Kept(w, Live), p)
    BY <1>2, <2>1, <2>2, KeptLess
  <2> QED BY <1>6, <1>7, <2>3
<1>10. Kept(waiters[entries[s]], Live)' = less
  BY <1>1, <1>2, <1>3, <1>7
<1>11. PICK q \in 1 .. Len(QueueOf(s)) : QueueOf(s)[q] = t /\ QueueOf(s)' = RemoveAt(QueueOf(s), q)
  <2>1. CASE Inside(s) = {}
    <3>1. QueueOf(s) = kept /\ QueueOf(s)' = less
      BY <1>1, <1>2, <1>3, <1>5, <1>7, <1>10, <2>1 DEF QueueFacts
    <3> QED BY <1>9, <3>1
  <2>2. CASE Inside(s) # {}
    <3>1. PICK h \in Tasks : h \in Inside(s)
      BY <2>2 DEF Inside
    <3>2. QueueOf(s) = <<h>> \o kept
      BY <1>1, <1>2, <1>7, <3>1 DEF QueueFacts
    <3>3. QueueOf(s)' = <<h>> \o less
      <4>1. h \in Inside(s)' /\ entries'[s] # NoLock /\ s \in Slugs
        BY <1>1, <1>2, <1>3, <1>5, <3>1
      <4>2. QueueOf(s)' = <<h>> \o Kept(waiters[entries[s]], Live)'
        BY <1>2, <4>1 DEF QueueFacts
      <4> QED BY <1>10, <4>2
    <3>4. /\ p + 1 \in 1 .. Len(<<h>> \o kept) /\ (<<h>> \o kept)[p + 1] = kept[p]
          /\ RemoveAt(<<h>> \o kept, p + 1) = <<h>> \o RemoveAt(kept, p)
      BY <1>8, <3>1, RemoveBehind
    <3> QED BY <1>9, <3>2, <3>3, <3>4
  <2> QED BY <2>1, <2>2
<1>12. [u \in Slugs |-> QueueOf(u)]' = [[u \in Slugs |-> QueueOf(u)] EXCEPT ![s] = RemoveAt(@, q)]
  BY <1>4, <1>11, QueuesThen
<1>13. EnteredNow' = EnteredNow /\ t \notin EnteredNow
  BY <1>3 DEF EnteredNow
<1>14. \E i \in 1 .. Len([u \in Slugs |-> QueueOf(u)][s]) :
          /\ [u \in Slugs |-> QueueOf(u)][s][i] = t
          /\ [u \in Slugs |-> QueueOf(u)]' = [[u \in Slugs |-> QueueOf(u)] EXCEPT ![s] = Abstract!RemoveAt(@, i)]
  <2>1. [u \in Slugs |-> QueueOf(u)][s] = QueueOf(s)
    BY <1>1
  <2>2. Abstract!RemoveAt(QueueOf(s), q) = RemoveAt(QueueOf(s), q)
    BY DEF Abstract!RemoveAt, RemoveAt
  <2> QED BY <1>11, <1>12, <2>1, <2>2
<1> QED BY <1>1, <1>13, <1>14 DEF Abstract!GiveUp, EnteredNow

\* A cancelled task that leaves its queue had given up before: nothing changes.
LEMMA UnwindStutters ==
    ASSUME Inv, Inv', NEW t \in Tasks, Unwind(t)
    PROVE  UNCHANGED Abstract!vars
<1>1. PICK s, l, w, v :
         s \in Slugs /\ l \in Locks /\ s = slug[t] /\ l = lock[t] /\ w = waiters[l] /\ v = waiters'[l]
  <2>1. slug[t] \in Slugs /\ lock[t] \in Locks
    BY OwnLock DEF Unwind, Inv, TypeOK
  <2> QED BY <2>1
<1> s \in Slugs /\ l \in Locks
  BY <1>1
<1>2. /\ QueueFacts /\ QueueFacts' /\ pc \in [Tasks -> PC] /\ l # NoLock /\ entries[s] = l
      /\ w \in Seq(Tasks) /\ v \in Seq(Tasks) /\ v = Without(w, t)
  <2>1. QueueFacts /\ QueueFacts' /\ pc \in [Tasks -> PC] /\ l # NoLock /\ entries[s] = l
    BY <1>1, QueueIs, QueueIsThen, Objects, OwnLock DEF Inv, TypeOK, Unwind
  <2>2. w \in Seq(Tasks) /\ v \in Seq(Tasks)
    BY <1>1 DEF Inv, TypeOK
  <2>3. v = Without(w, t)
    BY <1>1 DEF Unwind, Inv, TypeOK
  <2> QED BY <2>1, <2>2, <2>3
<1>3. /\ pc[t] \in {"cancelled", "doomed"} /\ pc[t] \in Queued
      /\ slug' = slug
      /\ \A m \in Locks \ {l} : waiters'[m] = waiters[m]
      /\ \A u \in Slugs \ {s} : entries'[u] = entries[u]
      /\ entries'[s] = NoLock \/ entries'[s] = l
  <2>1. /\ pc[t] \in {"cancelled", "doomed"} /\ pc[t] \in Queued /\ Drop(t)
        /\ waiters' = [waiters EXCEPT ![lock[t]] = Without(@, t)]
    BY DEF Unwind, Queued
  <2>2. \A m \in Locks \ {l} : waiters'[m] = waiters[m]
    BY <1>1, <2>1 DEF Inv, TypeOK
  <2> QED BY <1>1, <1>2, <2>1, <2>2 DEF Drop
<1>4. /\ pc'[t] = "idle"
      /\ \A u \in Tasks \ {t} : pc'[u] = pc[u] \/ (pc[u] = "pending" /\ pc'[u] = "woken")
  <2>1. PICK p : p = [pc EXCEPT ![t] = "idle"]
    OBVIOUS
  <2>2. p \in [Tasks -> PC] /\ p[t] = "idle" /\ \A u \in Tasks \ {t} : p[u] = pc[u]
    BY <1>2, <2>1 DEF PC
  <2>3. pc' = p \/ pc' = WakeFirst(p, v)
    BY <1>1, <1>2, <2>1 DEF Unwind
  <2>4. \A u \in Tasks : WakeFirst(p, v)[u] = p[u] \/ (p[u] = "pending" /\ WakeFirst(p, v)[u] = "woken")
    BY <1>2, <2>2, WakeFacts
  <2> QED BY <2>2, <2>3, <2>4
<1>5. At(t, s)
  <2>1. \A u \in Slugs \ {s} : entries[u] # NoLock => entries[u] \in Locks \ {l}
    BY <1>2 DEF Inv, TypeOK, Referenced
  <2> QED BY <1>1, <1>3, <1>4, <2>1 DEF At
<1>6. Inside(s)' = Inside(s)
  <2>1. \A u \in Tasks : pc'[u] = "inside" <=> pc[u] = "inside"
    BY <1>3, <1>4
  <2> QED BY <1>3, <2>1 DEF Inside
<1>7. PICK k \in 1 .. Len(w) : w[k] = t
  BY <1>1, <1>3 DEF Inv, Waiters
<1>8. \A i, j \in 1 .. Len(w) : w[i] = w[j] => i = j
  BY <1>1 DEF Inv, Waiters
<1>9. IsWithout(v, w, k)
  <2>1. /\ Len(Without(w, w[k])) = Len(w) - 1
        /\ \A j \in 1 .. Len(w) - 1 : Without(w, w[k])[j] = IF j < k THEN w[j] ELSE w[j + 1]
    BY <1>2, <1>8, WithoutFacts
  <2> QED BY <1>2, <1>7, <2>1 DEF IsWithout
<1>10. \A i \in 1 .. Len(v) : v[i] \in Tasks \ {t}
  <2> SUFFICES ASSUME NEW i \in 1 .. Len(v) PROVE v[i] \in Tasks \ {t}
    OBVIOUS
  <2>1. PICK j \in 1 .. Len(w) : j # k /\ v[i] = w[j]
    <3>0. i \in 1 .. Len(w) - 1 /\ Len(w) \in Nat /\ v[i] = IF i < k THEN w[i] ELSE w[i + 1]
      BY <1>2, <1>9 DEF IsWithout
    <3>1. CASE i < k
      <4>1. i \in 1 .. Len(w) /\ i # k
        BY <3>0, <3>1
      <4> QED BY <3>0, <3>1, <4>1
    <3>2. CASE ~(i < k)
      <4>1. i + 1 \in 1 .. Len(w) /\ i + 1 # k
        BY <3>0, <3>2
      <4> QED BY <3>0, <3>2, <4>1
    <3> QED BY <3>1, <3>2
  <2>2. w[j] \in Tasks /\ w[j] # t
    BY <1>2, <1>7, <1>8, <2>1
  <2> QED BY <2>1, <2>2
<1>11. Kept(v, Live') = Kept(w, Live)
  <2>1. \A i \in 1 .. Len(v) : v[i] \in Live <=> v[i] \in Live'
    BY <1>4, <1>10 DEF Live
  <2>2. Kept(v, Live) = Kept(v, Live')
    BY <1>2, <2>1, KeptSame
  <2>3. w[k] \notin Live
    BY <1>3, <1>7 DEF Live
  <2>4. Kept(v, Live) = Kept(w, Live)
    BY <1>2, <1>9, <2>3, KeptWithout
  <2> QED BY <2>2, <2>4
<1>12. QueueOf(s)' = QueueOf(s)
  <2>1. CASE entries'[s] = l
    <3>1. Kept(waiters[entries[s]], Live)' = Kept(w, Live)
      BY <1>1, <1>11, <2>1
    <3>2. CASE Inside(s) = {}
      <4>1. QueueOf(s) = Kept(w, Live)
        BY <1>1, <1>2, <3>2 DEF QueueFacts
      <4>2. QueueOf(s)' = Kept(waiters[entries[s]], Live)'
        BY <1>2, <1>6, <2>1, <3>2 DEF QueueFacts
      <4> QED BY <3>1, <4>1, <4>2
    <3>3. CASE Inside(s) # {}
      <4>1. PICK h : h \in Inside(s)
        BY <3>3
      <4>2. QueueOf(s) = <<h>> \o Kept(w, Live)
        BY <1>1, <1>2, <4>1 DEF QueueFacts
      <4>3. QueueOf(s)' = <<h>> \o Kept(waiters[entries[s]], Live)'
        BY <1>2, <1>6, <2>1, <4>1 DEF QueueFacts
      <4> QED BY <3>1, <4>2, <4>3
    <3> QED BY <3>2, <3>3
  <2>2. CASE entries'[s] = NoLock
    <3>1. QueueOf(s)' = <<>> /\ Inside(s)' = {}
      BY <1>2, <2>2 DEF QueueFacts
    <3>2. Len(v) = 0
      <4> SUFFICES ASSUME Len(v) # 0 PROVE FALSE
        OBVIOUS
      <4>1. 1 \in 1 .. Len(v)
        BY <1>2
      <4>2. lock'[v[1]] = l /\ pc'[v[1]] # "idle" /\ v[1] \in Tasks
        BY <1>1, <1>10, <4>1 DEF Inv, Waiters, Queued
      <4>3. PICK u \in Tasks : u = v[1] /\ lock'[u] = l /\ pc'[u] # "idle" /\ u # t
        BY <1>10, <4>1, <4>2
      <4>4. entries'[slug[u]] = l
        BY <1>3, <4>3 DEF Inv, Referenced
      <4>5. slug[u] = s
        <5>1. slug[u] \in Slugs
          BY DEF Inv, TypeOK
        <5> QED BY <1>2, <1>3, <4>4, <5>1 DEF Inv, Referenced
      <4> QED BY <1>2, <2>2, <4>4, <4>5
    <3>3. Kept(v, Live') = <<>>
      <4>1. \A i \in 1 .. Len(v) : v[i] \notin Live'
        BY <3>2
      <4> QED BY <1>2, <4>1, KeptIn
    <3> QED BY <1>1, <1>2, <1>6, <1>11, <3>1, <3>3 DEF QueueFacts
  <2> QED BY <1>3, <2>1, <2>2
<1>13. [u \in Slugs |-> QueueOf(u)]' = [u \in Slugs |-> QueueOf(u)]
  <2>1. \A u \in Slugs : QueueOf(u)' = QueueOf(u)
    BY <1>5, <1>12, Elsewhere
  <2> QED BY <2>1
<1>14. EnteredNow' = EnteredNow
  BY <1>3, <1>4 DEF EnteredNow
<1> QED BY <1>13, <1>14 DEF Abstract!vars, EnteredNow

\* The registry with its entries, wake-ups and cancellations is one queue per site, for any
\* number of handlers and sites: first come, first served, nobody passes a waiter who was
\* woken and has not run, and one who is cancelled leaves the order of the others alone
\* (SiteLocks.hold).
THEOREM QueuePerSite == Spec => IsQueuePerSite
<1>1. Init => Abstract!Init
  <2> SUFFICES ASSUME Init PROVE Abstract!Init
    OBVIOUS
  <2>1. \A s \in Slugs : QueueOf(s) = <<>>
    BY DEF Init, QueueOf
  <2>2. {t \in Tasks : pc[t] = "inside"} = {}
    BY DEF Init
  <2> QED BY <2>1, <2>2 DEF Abstract!Init
<1>2. Inv /\ Inv' /\ [Next]_vars => [Abstract!Next]_(Abstract!vars)
  <2> SUFFICES ASSUME Inv, Inv', [Next]_vars PROVE [Abstract!Next]_(Abstract!vars)
    OBVIOUS
  <2>1. CASE UNCHANGED vars
    BY <2>1 DEF vars, Abstract!vars, QueueOf, Live
  <2>2. ASSUME NEW t \in Tasks, NEW s \in Slugs, NEW l \in Locks, Ask(t, s, l) PROVE Abstract!Next
    BY <2>2, AskAsks DEF Abstract!Next
  <2>3. ASSUME NEW t \in Tasks, Resume(t) \/ Leave(t) \/ Cancel(t) PROVE Abstract!Next
    <3>1. PICK s \in Slugs : s = slug[t]
      BY DEF Inv, TypeOK
    <3>2. Abstract!Enter(t, s) \/ Abstract!Leave(t, s) \/ Abstract!GiveUp(t, s)
      BY <2>3, <3>1, ResumeEnters, LeaveLeaves, CancelGivesUp
    <3> QED BY <3>2 DEF Abstract!Next
  <2>4. ASSUME NEW t \in Tasks, Unwind(t) PROVE UNCHANGED Abstract!vars
    BY <2>4, UnwindStutters
  <2> QED BY <2>1, <2>2, <2>3, <2>4 DEF Next
<1>3. Spec => []Inv
  BY InitInv, NextInv, PTL DEF Spec
<1> QED BY <1>1, <1>2, <1>3, PTL DEF Spec, IsQueuePerSite, Abstract!Spec
============================================================================
