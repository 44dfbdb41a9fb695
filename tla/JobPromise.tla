----------------------------- MODULE JobPromise -----------------------------
(***************************************************************************)
(* What enqueue() promises its caller (queue.ts lines 5 to 13 and 22 to    *)
(* 30): an accepted job is owed until a handler has succeeded with it.  It *)
(* is given up only after MaxFailures failures, or at once if nobody can   *)
(* handle it; otherwise only the loss of a process excuses that.  An       *)
(* administrator may have a job that was given up tried once more.         *)
(***************************************************************************)
EXTENDS Naturals

CONSTANTS Jobs, Handled, MaxFailures

VARIABLES promise, left, excused

Init == /\ promise = [j \in Jobs |-> "none"]
        /\ left = [j \in Jobs |-> MaxFailures]
        /\ excused = FALSE

Becomes(j, p) == promise' = [promise EXCEPT ![j] = p]

Accept(j) == promise[j] = "none" /\ Becomes(j, "owed") /\ UNCHANGED <<left, excused>>

Keep(j) == /\ promise[j] = "owed" /\ j \in Handled
           /\ Becomes(j, "kept")
           /\ UNCHANGED <<left, excused>>

FailOnce(j) == /\ promise[j] = "owed" /\ left[j] > 1
               /\ left' = [left EXCEPT ![j] = @ - 1]
               /\ UNCHANGED <<promise, excused>>

GiveUp(j) == /\ promise[j] = "owed"
             /\ left[j] <= 1 \/ j \notin Handled \/ excused
             /\ Becomes(j, "over")
             /\ left' \in {left, [left EXCEPT ![j] = 0]}
             /\ UNCHANGED excused

Reopen(j) == promise[j] = "over" /\ Becomes(j, "owed") /\ UNCHANGED <<left, excused>>

(* A process dies, and with it what it only kept in its memory.            *)
Die == /\ excused' = TRUE
       /\ \A j \in Jobs : \/ promise'[j] = promise[j]
                          \/ promise[j] = "owed" /\ promise'[j] = "over"
       /\ UNCHANGED left

Next == \/ \E j \in Jobs : Accept(j) \/ Keep(j) \/ FailOnce(j) \/ GiveUp(j) \/ Reopen(j)
        \/ Die

Spec == Init /\ [][Next]_<<promise, left, excused>>
=============================================================================
