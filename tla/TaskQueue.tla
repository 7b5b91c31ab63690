----------------------------- MODULE TaskQueue -----------------------------
(***************************************************************************)
(* What a task queue of this server promises to the threads that use it.   *)
(* EventLoop::queueinloop and ThreadPool::addtask are two implementations  *)
(* of the same service: a closure handed in is executed at most once, and  *)
(* closures are taken for execution in the order in which they were handed *)
(* in.  Whether each one is executed at all depends on stop_, so liveness  *)
(* is stated in the implementing modules and not here.                     *)
(***************************************************************************)
EXTENDS Naturals, Sequences, Functions

CONSTANT Tasks         \* the closures; each is handed in at most once

VARIABLES posted,      \* the tasks handed in so far, oldest first
          ran          \* the tasks taken for execution so far, oldest first

Init == posted = <<>> /\ ran = <<>>

\* A caller hands in a new task.
Post(t) ==
    /\ t \notin Range(posted)
    /\ posted' = Append(posted, t)
    /\ UNCHANGED ran

\* The oldest task that has not run yet is taken.
Run ==
    /\ Len(ran) < Len(posted)
    /\ ran' = Append(ran, posted[Len(ran) + 1])
    /\ UNCHANGED posted

Next == Run \/ \E t \in Tasks : Post(t)

Spec == Init /\ [][Next]_<<posted, ran>>
=============================================================================
