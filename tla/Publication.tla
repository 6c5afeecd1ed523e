---------------------------- MODULE Publication ----------------------------
(***************************************************************************)
(* What `benchplane run` promises about <output-root>/runs, with nothing   *)
(* of how it keeps the promise: a run ends by placing one finished bundle  *)
(* in one indivisible step, or it ends without placing anything.  A place  *)
(* that holds a bundle, or somebody else's files, is never written again.  *)
(***************************************************************************)
CONSTANTS Runs, RunIds, Statuses

VARIABLES
    ending,   \* how each run ended, as far as its caller can tell
    shelf     \* what stands at each place under runs/

Empty == [kind |-> "none", owner |-> {}, status |-> "absent"]

Init ==
    /\ ending = [r \in Runs |-> "pending"]
    /\ shelf = [i \in RunIds |-> Empty]

\* The bundle appears complete, with a terminal status; the run may or may not
\* live to report it.
Publish(r, i) ==
    /\ ending[r] = "pending"
    /\ shelf[i].kind \in {"none", "empty"}
    /\ \E s \in Statuses :
         shelf' = [shelf EXCEPT ![i] = [kind |-> "bundle", owner |-> {r}, status |-> s]]
    /\ \E e \in {"reported", "gone"} : ending' = [ending EXCEPT ![r] = e]

GiveUp(r) ==
    /\ ending[r] = "pending"
    /\ ending' = [ending EXCEPT ![r] = "gone"]
    /\ UNCHANGED shelf

\* Somebody else takes a free place.
Occupy(i) ==
    /\ shelf[i].kind = "none"
    /\ \E k \in {"empty", "foreign"} : shelf' = [shelf EXCEPT ![i].kind = k]
    /\ UNCHANGED ending

Finish(r) == GiveUp(r) \/ \E i \in RunIds : Publish(r, i)

Next == (\E r \in Runs : Finish(r)) \/ (\E i \in RunIds : Occupy(i))

Spec == Init /\ [][Next]_<<ending, shelf>>

FairSpec == Spec /\ \A r \in Runs : WF_<<ending, shelf>>(Finish(r))
=============================================================================
