--------------------------- MODULE SerialExecutor ---------------------------
(***************************************************************************)
(* What thread_pool_t::post_call promises to its callers, and nothing of   *)
(* how it keeps the promise (src/bas/thread_pool.hpp:150-151 and           *)
(* src/bas/netport.cpp:41-43): the function objects posted under one       *)
(* strand run one at a time, in the order in which they were posted.       *)
(*                                                                         *)
(* The k-th function object accepted under a strand is called k.  Nothing  *)
(* relates two different strands.                                          *)
(***************************************************************************)
EXTENDS Naturals

CONSTANTS
  Strands,   \* the strand_t objects in use
  MaxPosts   \* bound: how many function objects each strand is given

VARIABLES
  posted,    \* posted[s]  : how many were accepted under strand s
  running,   \* running[s] : the set of those that are running
  done       \* done[s]    : the last one that has returned

vars == <<posted, running, done>>

Init ==
  /\ posted  = [s \in Strands |-> 0]
  /\ running = [s \in Strands |-> {}]
  /\ done    = [s \in Strands |-> 0]

\* A function object is accepted under s.
Accept(s) ==
  /\ posted[s] < MaxPosts
  /\ posted' = [posted EXCEPT ![s] = @ + 1]
  /\ UNCHANGED <<running, done>>

\* The oldest one that has not run starts, if none under s is running.
Begin(s) ==
  /\ running[s] = {}
  /\ done[s] < posted[s]
  /\ running' = [running EXCEPT ![s] = {done[s] + 1}]
  /\ UNCHANGED <<posted, done>>

\* The running one returns.
End(s) ==
  /\ running[s] # {}
  /\ done'    = [done EXCEPT ![s] = @ + 1]
  /\ running' = [running EXCEPT ![s] = {}]
  /\ UNCHANGED posted

Next == \E s \in Strands : Accept(s) \/ Begin(s) \/ End(s)

Spec == Init /\ [][Next]_vars

\* Every function object accepted is run to its end.
Fairness == \A s \in Strands : WF_vars(Begin(s)) /\ WF_vars(End(s))
=============================================================================
