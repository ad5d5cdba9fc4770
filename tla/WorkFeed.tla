------------------------------- MODULE WorkFeed -------------------------------
(***************************************************************************)
(* What the pool promises the miners it notifies: a feed of jobs, each     *)
(* acceptable after the one before it, and for every miner a place in the  *)
(* feed that only moves forward.  Threads, client lists and sequence       *)
(* guards do not appear: the feed grows and one miner is served, each in a *)
(* step of its own.                                                        *)
(***************************************************************************)
EXTENDS Integers, Sequences

CONSTANTS Miners, Height

VARIABLES feed, at

Init == feed = << >> /\ at = [m \in Miners |-> 0]

Newest(jobs) == jobs[Len(jobs)]

\* New work differs from the last, is not for a lower height, and is not the empty
\* job for a parent the miners already have work on.
Acceptable(j) ==
    feed # << >> =>
       /\ j # Newest(feed)
       /\ Height[Newest(feed).prev] <= Height[j.prev]
       /\ j.body = 0 => Newest(feed).prev # j.prev

Publish ==
    /\ Len(feed') = Len(feed) + 1
    /\ feed' = Append(feed, Newest(feed'))
    /\ Acceptable(Newest(feed'))
    /\ at' = at

\* A miner is given a job of the feed, never an earlier one than it has.  Jobs may be
\* skipped, and the last one repeated.
Serve(m, n) ==
    /\ at[m] <= n
    /\ at' = [at EXCEPT ![m] = n] /\ feed' = feed

Next == Publish \/ \E m \in Miners, n \in 1..Len(feed) : Serve(m, n)

Spec == Init /\ [][Next]_<<feed, at>>
=============================================================================
