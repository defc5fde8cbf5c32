------------------------------- MODULE Wiring -------------------------------
(***************************************************************************)
(* What `cyclers::run` promises its caller, apart from how it is built.    *)
(*                                                                         *)
(* Every driver is fed by one sink stream through a lossless FIFO pipe in  *)
(* which at most Window items are under way.  The run has a result only    *)
(* when something failed, or when the first driver has terminated and no   *)
(* sink is being proxied any more.  Nothing moves once there is a result.  *)
(***************************************************************************)
EXTENDS Integers, Sequences

CONSTANTS Drivers,  \* the drivers given to `run`, each with its sink stream
          Items,    \* what sink streams yield
          Window    \* items yielded by a sink and not yet seen by its driver

VARIABLES yielded,     \* yielded[d]: all that d's sink stream has yielded
          observed,    \* observed[d]: all that came out of d's end of the pipe
          open,        \* the drivers whose sink stream is still proxied
          terminated,  \* whether the first driver has terminated
          result       \* what `run` has returned, "running" before that

vars == <<yielded, observed, open, terminated, result>>

Init == /\ yielded = [d \in Drivers |-> <<>>]
        /\ observed = [d \in Drivers |-> <<>>]
        /\ open = Drivers
        /\ terminated = FALSE
        /\ result = "running"

\* The result that goes with the sinks still open and the first driver's state.
Joined(sinks, first) == IF first /\ sinks = {} THEN "ok" ELSE "running"

Emit(d, x) == /\ d \in open
              /\ Len(yielded[d]) - Len(observed[d]) < Window
              /\ yielded' = [yielded EXCEPT ![d] = Append(@, x)]
              /\ UNCHANGED <<observed, open, terminated, result>>

Observe(d) == /\ Len(observed[d]) < Len(yielded[d])
              /\ observed' = [observed EXCEPT
                                ![d] = Append(@, yielded[d][Len(@) + 1])]
              /\ UNCHANGED <<yielded, open, terminated, result>>

Close(d) == /\ d \in open
            /\ open' = open \ {d}
            /\ result' = Joined(open', terminated)
            /\ UNCHANGED <<yielded, observed, terminated>>

Terminate == /\ ~terminated
             /\ terminated' = TRUE
             /\ result' = Joined(open, TRUE)
             /\ UNCHANGED <<yielded, observed, open>>

Fail == /\ result' = "err"
        /\ UNCHANGED <<yielded, observed, open, terminated>>

Next == /\ result = "running"
        /\ \/ \E d \in Drivers : \/ \E x \in Items : Emit(d, x)
                                 \/ Observe(d)
                                 \/ Close(d)
           \/ Terminate
           \/ Fail

Spec == Init /\ [][Next]_vars
=============================================================================
