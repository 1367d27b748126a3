----------------------------- MODULE SiteQueue -----------------------------
(***************************************************************************)
(* What the backend's site locks promise the handlers: per site, those who *)
(* asked form a queue, only its head enters, and one who gives up leaves   *)
(* the others' order alone.  SiteStore takes this queue for its lock;      *)
(* SiteLocks is the code that keeps the promise.                           *)
(***************************************************************************)
EXTENDS Naturals, Sequences, SequencesExt

CONSTANTS Slugs, Tasks

VARIABLES
    queue,    \* per site, who holds the lock or awaits it, in order of asking
    entered   \* who is inside a section

vars == <<queue, entered>>

Asking(s) == {queue[s][i] : i \in 1 .. Len(queue[s])}

Init ==
    /\ queue = [s \in Slugs |-> <<>>]
    /\ entered = {}

\* One who finds the queue empty may enter at once.
Ask(t, s) ==
    /\ \A u \in Slugs : t \notin Asking(u)
    /\ queue' = [queue EXCEPT ![s] = Append(@, t)]
    /\ \/ entered' = entered
       \/ queue[s] = <<>> /\ entered' = entered \cup {t}

IsHead(t, s) == queue[s] # <<>> /\ Head(queue[s]) = t

Enter(t, s) ==
    /\ IsHead(t, s) /\ t \notin entered
    /\ entered' = entered \cup {t}
    /\ UNCHANGED queue

Leave(t, s) ==
    /\ IsHead(t, s) /\ t \in entered
    /\ queue' = [queue EXCEPT ![s] = Tail(@)]
    /\ entered' = entered \ {t}

GiveUp(t, s) ==
    /\ t \notin entered
    /\ \E i \in 1 .. Len(queue[s]) : queue[s][i] = t /\ queue' = [queue EXCEPT ![s] = RemoveAt(@, i)]
    /\ UNCHANGED entered

Next == \E t \in Tasks, s \in Slugs : Ask(t, s) \/ Enter(t, s) \/ Leave(t, s) \/ GiveUp(t, s)

Spec == Init /\ [][Next]_vars
============================================================================
