----------------------------- MODULE SiteLocks -----------------------------
(***************************************************************************)
(* SiteLocks (backend/storage.py): one asyncio.Lock per site, made on      *)
(* first use and dropped when nobody holds or awaits it.  The danger is in *)
(* the dropping: a lock dropped while someone still holds or awaits it     *)
(* would let the next caller make a second one for the same site.          *)
(*                                                                         *)
(* asyncio.Lock is external and is modelled with its wake-ups: release     *)
(* resolves the future of the first waiter, which takes the lock only when *)
(* the loop runs it, and a task may be cancelled before or after that.     *)
(***************************************************************************)
EXTENDS Naturals, Sequences, FiniteSets

CONSTANTS
    Slugs,    \* the sites
    Tasks,    \* the handlers' tasks
    Locks,    \* names for the _LockEntry objects
    NoLock    \* no object

ASSUME Objects ==
    /\ IsFiniteSet(Tasks)
    /\ NoLock \notin Locks

VARIABLES
    entries,   \* SiteLocks._entries: the entry of each site, or NoLock
    waiting,   \* _LockEntry.waiting
    locked,    \* asyncio.Lock._locked
    waiters,   \* asyncio.Lock._waiters, a task for its future
    pc,        \* where each task is
    slug,      \* the site each task asked for
    lock       \* the entry each task holds a reference to

vars == <<entries, waiting, locked, waiters, pc, slug, lock>>

\* "pending", "woken", "cancelled": the task's future is unresolved, resolved,
\* cancelled.  "doomed": it was resolved and then the task was cancelled.
Queued == {"pending", "woken", "cancelled", "doomed"}
PC == Queued \cup {"idle", "inside"}

Init ==
    /\ entries = [s \in Slugs |-> NoLock]
    /\ waiting = [l \in Locks |-> 0]
    /\ locked = [l \in Locks |-> FALSE]
    /\ waiters = [l \in Locks |-> <<>>]
    /\ pc = [t \in Tasks |-> "idle"]
    /\ slug \in [Tasks -> Slugs]
    /\ lock = [t \in Tasks |-> NoLock]

Members(w) == {w[i] : i \in 1 .. Len(w)}

\* The queue w once t's future is taken out.
Without(w, t) ==
    LET at == CHOOSE i \in 1 .. Len(w) : w[i] = t IN
    [j \in 1 .. Len(w) - 1 |-> IF j < at THEN w[j] ELSE w[j + 1]]

\* asyncio.Lock._wake_up_first: the tasks' states p after it, with queue w.
WakeFirst(p, w) ==
    [t \in Tasks |-> IF w # <<>> /\ t = Head(w) /\ p[t] = "pending" THEN "woken" ELSE p[t]]

\* Mutant: a newcomer takes a free lock past those already woken.
Free_Barges(l) == ~locked[l]

\* asyncio.Lock.acquire does not wait: free, and every waiter is cancelled.
Free(l) == ~locked[l] /\ \A t \in Members(waiters[l]) : pc[t] = "cancelled"

\* An object nobody refers to: its memory is the next new object's.
Unreferenced(l) == (\A s \in Slugs : entries[s] # l) /\ (\A t \in Tasks : lock[t] # l)

\* hold: the site's entry, made when there is none.
EntryOf(s, l) == IF entries[s] = NoLock THEN Unreferenced(l) ELSE l = entries[s]

\* hold: one more user of the entry.
Counted(l) == [waiting EXCEPT ![l] = @ + 1]

\* hold, up to the lock: the entry is counted before the lock is awaited.
Ask(t, s, l) ==
    /\ pc[t] = "idle"
    /\ EntryOf(s, l)
    /\ entries' = [entries EXCEPT ![s] = l]
    /\ waiting' = Counted(l)
    /\ slug' = [slug EXCEPT ![t] = s]
    /\ lock' = [lock EXCEPT ![t] = l]
    /\ IF Free(l)
       THEN /\ locked' = [locked EXCEPT ![l] = TRUE]
            /\ pc' = [pc EXCEPT ![t] = "inside"]
            /\ UNCHANGED waiters
       ELSE /\ waiters' = [waiters EXCEPT ![l] = Append(@, t)]
            /\ pc' = [pc EXCEPT ![t] = "pending"]
            /\ UNCHANGED locked

\* The loop runs a task whose future was resolved: it takes the lock.
Resume(t) ==
    /\ pc[t] = "woken"
    /\ waiters' = [waiters EXCEPT ![lock[t]] = Without(@, t)]
    /\ locked' = [locked EXCEPT ![lock[t]] = TRUE]
    /\ pc' = [pc EXCEPT ![t] = "inside"]
    /\ UNCHANGED <<entries, waiting, slug, lock>>

\* Mutant: the entry goes with the first who is done with it.
Drop_Always(t) ==
    /\ waiting' = [waiting EXCEPT ![lock[t]] = @ - 1]
    /\ entries' = [s \in Slugs |-> IF s = slug[t] /\ entries[s] = lock[t] THEN NoLock ELSE entries[s]]
    /\ lock' = [lock EXCEPT ![t] = NoLock]
    /\ UNCHANGED slug

\* Mutant: the entry is kept.
Drop_Never(t) ==
    /\ waiting' = [waiting EXCEPT ![lock[t]] = @ - 1]
    /\ lock' = [lock EXCEPT ![t] = NoLock]
    /\ UNCHANGED <<entries, slug>>

\* hold's finally: one less waiting, and the entry goes with the last.
Drop(t) ==
    /\ waiting' = [waiting EXCEPT ![lock[t]] = @ - 1]
    /\ entries' = [s \in Slugs |->
                      IF s = slug[t] /\ waiting[lock[t]] = 1 /\ entries[s] = lock[t]
                      THEN NoLock ELSE entries[s]]
    /\ lock' = [lock EXCEPT ![t] = NoLock]
    /\ UNCHANGED slug

\* The section ends, by its answer, an error or a cancellation: release, finally.
Leave(t) ==
    /\ pc[t] = "inside"
    /\ locked' = [locked EXCEPT ![lock[t]] = FALSE]
    /\ pc' = WakeFirst([pc EXCEPT ![t] = "idle"], waiters[lock[t]])
    /\ Drop(t)
    /\ UNCHANGED waiters

\* A waiting task is cancelled (a shutdown).
Cancel(t) ==
    /\ pc[t] \in {"pending", "woken"}
    /\ pc' = [pc EXCEPT ![t] = IF pc[t] = "pending" THEN "cancelled" ELSE "doomed"]
    /\ UNCHANGED <<entries, waiting, locked, waiters, slug, lock>>

\* Mutant: a cancelled waiter does not pass its wake-up on.
Unwind_Silent(t) ==
    /\ pc[t] \in {"cancelled", "doomed"}
    /\ waiters' = [waiters EXCEPT ![lock[t]] = Without(@, t)]
    /\ pc' = [pc EXCEPT ![t] = "idle"]
    /\ Drop(t)
    /\ UNCHANGED locked

\* The loop runs a cancelled task: it leaves the queue and passes the wake-up on.
Unwind(t) ==
    /\ pc[t] \in {"cancelled", "doomed"}
    /\ waiters' = [waiters EXCEPT ![lock[t]] = Without(@, t)]
    /\ pc' = IF locked[lock[t]] THEN [pc EXCEPT ![t] = "idle"]
             ELSE WakeFirst([pc EXCEPT ![t] = "idle"], Without(waiters[lock[t]], t))
    /\ Drop(t)
    /\ UNCHANGED locked

Next ==
    \E t \in Tasks :
        \/ \E s \in Slugs, l \in Locks : Ask(t, s, l)
        \/ Resume(t) \/ Leave(t) \/ Cancel(t) \/ Unwind(t)

Spec == Init /\ [][Next]_vars

\* The loop runs what is ready, and every section ends.
Fairness == \A t \in Tasks : WF_vars(Resume(t)) /\ WF_vars(Unwind(t)) /\ WF_vars(Leave(t))

FairSpec == Spec /\ Fairness

(***************************************************************************)
(* Properties                                                              *)
(***************************************************************************)

\* The shape of the registry, of its lock objects and of the tasks.
TypeOK ==
    /\ entries \in [Slugs -> Locks \cup {NoLock}]
    /\ waiting \in [Locks -> Nat]
    /\ locked \in [Locks -> BOOLEAN]
    /\ waiters \in [Locks -> Seq(Tasks)]
    /\ pc \in [Tasks -> PC]
    /\ slug \in [Tasks -> Slugs]
    /\ lock \in [Tasks -> Locks \cup {NoLock}]

\* Two handlers are never inside sections of the same site, whatever entries
\* were dropped and made again and whoever was cancelled (SiteLocks.hold).
MutualExclusion ==
    \A t, u \in Tasks : pc[t] = "inside" /\ pc[u] = "inside" /\ slug[t] = slug[u] => t = u

\* An entry is kept exactly for the sites someone holds or awaits ("dropped
\* when nobody holds or awaits it"), and counts them.
EntriesInUse ==
    \A s \in Slugs :
        LET users == {t \in Tasks : pc[t] # "idle" /\ slug[t] = s} IN
        IF users = {} THEN entries[s] = NoLock
        ELSE entries[s] # NoLock /\ waiting[entries[s]] = Cardinality(users)

\* A task that waits is let in or was cancelled, whoever else asks or is
\* cancelled meanwhile: no wake-up is lost with an entry or a cancelled task.
WaitersAreServed ==
    \A t \in Tasks : pc[t] = "pending" ~> pc[t] \in {"inside", "idle"}

\* Those of w that are in K, in the order of w.
Kept(w, K) ==
    LET first[n \in 0 .. Len(w)] ==
            IF n = 0 THEN <<>>
            ELSE IF w[n] \in K THEN Append(first[n - 1], w[n]) ELSE first[n - 1]
    IN  first[Len(w)]

\* Those who wait and were not cancelled.
Live == {t \in Tasks : pc[t] \in {"pending", "woken"}}

\* The queue the handlers see: who is inside, then those neither cancelled
\* nor let in, in the order they asked.
QueueOf(s) ==
    LET holder == {t \in Tasks : pc[t] = "inside" /\ slug[t] = s}
        front  == IF holder = {} THEN <<>> ELSE <<CHOOSE t \in holder : TRUE>>
    IN  IF entries[s] = NoLock THEN <<>>
        ELSE front \o Kept(waiters[entries[s]], Live)

Abstract == INSTANCE SiteQueue WITH
                queue   <- [s \in Slugs |-> QueueOf(s)],
                entered <- {t \in Tasks : pc[t] = "inside"}

\* The registry behaves as one queue per site: first come, first served, with
\* no one passing a waiter who was woken and has not run yet.
IsQueuePerSite == Abstract!Spec
============================================================================
