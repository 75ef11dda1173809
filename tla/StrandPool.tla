----------------------------- MODULE StrandPool -----------------------------
(***************************************************************************)
(* The task pool of src/bas/thread_pool.hpp.                               *)
(*                                                                         *)
(* thread_pool_t owns worker threads (inner_thread_t), each with a list of *)
(* function objects and an auto-reset event.  post_call(fo, strand) binds  *)
(* a strand to the least loaded worker the first time it meets it and      *)
(* appends every function object of the strand to that worker's list.     *)
(* Function objects may call post_call themselves, so a worker that runs   *)
(* one is a caller too.                                                    *)
(*                                                                         *)
(* One action is one critical section: a worker's step under fo_mtx_, a    *)
(* read of one list's size, one push_back, one set_event.  mtx_ is held    *)
(* from the first step of post_call to the last.                           *)
(***************************************************************************)
EXTENDS Naturals, Sequences, FiniteSets

CONSTANTS
  Strands,       \* the strand_t objects, the keys of strand_proc_list_
  Clients,       \* threads outside the pool that call post_call
  WorkerCount,   \* worker_count_
  MaxTaskSize,   \* MAX_TASK_SIZE
  MaxPosts,      \* bound: function objects accepted under each strand
  None           \* no worker, no holder, no function object

Workers == 1 .. WorkerCount
Callers == Clients \cup Workers
Tasks   == [strand : Strands, num : 1 .. MaxPosts]

ASSUME CountAssumption ==
  /\ IsFiniteSet(Strands)
  /\ WorkerCount \in Nat \ {0}
  /\ MaxTaskSize \in Nat
  /\ MaxPosts \in Nat

\* None is no worker and no function object, and the outside threads are
\* none of the workers.
ASSUME NoneAssumption ==
  /\ None \notin Callers
  /\ None \notin Tasks
  /\ Clients \cap Workers = {}

VARIABLES
  fo_list,           \* inner_thread_t::fo_list_ of every worker
  evt,               \* inner_thread_t::evt_, an auto-reset event
  alive,             \* inner_thread_t::alive_
  wpc,               \* where the loop of the worker stands
  fo,                \* the local fo of the loop
  list_size,         \* the local list_size of the loop
  strand_proc_list,  \* thread_pool_t::strand_proc_list_
  mtx,               \* the holder of thread_pool_t::mtx_
  call,              \* the post_call each caller is in
  stopping,          \* the thread in thread_pool_t::stop
  posted,            \* history: function objects accepted under each strand
  done               \* history: the last one of each strand that returned

workerVars == <<fo_list, evt, wpc, fo, list_size, done>>
callVars   == <<strand_proc_list, mtx, call, posted>>
stopVars   == <<alive, stopping>>
vars       == <<workerVars, callVars, stopVars>>

Idle     == [pc |-> "idle", strand |-> None, worker |-> None,
             smallest |-> 0, i |-> 1]
StopIdle == [pc |-> "no", i |-> 1]

Init ==
  /\ fo_list = [w \in Workers |-> <<>>]
  /\ evt = [w \in Workers |-> FALSE]
  /\ alive = [w \in Workers |-> TRUE]
  /\ wpc = [w \in Workers |-> "loop"]
  /\ fo = [w \in Workers |-> None]
  /\ list_size = [w \in Workers |-> 0]
  /\ strand_proc_list = [s \in Strands |-> None]
  /\ mtx = None
  /\ call = [c \in Callers |-> Idle]
  /\ stopping = StopIdle
  /\ posted = [s \in Strands |-> 0]
  /\ done = [s \in Strands |-> 0]
-----------------------------------------------------------------------------
(* The loop of a worker thread.                                            *)

\* while (alive_)
Loop(w) ==
  /\ wpc[w] = "loop"
  /\ wpc' = [wpc EXCEPT ![w] = IF alive[w] THEN "take" ELSE "exited"]
  /\ UNCHANGED <<fo_list, evt, fo, list_size, done, callVars, stopVars>>

\* Mutated form: one is subtracted from the size read after pop_front.
SizeLessOne(list) == Len(list) - 2

\* list_size, read after pop_front.
SizeAfterPop(list) == Len(list) - 1

\* fo_list_.front()
Front(list) == Head(list)

\* The critical section on fo_mtx_: an empty list leaves fo empty and
\* list_size 0, which sends the worker to its event.
Take(w) ==
  /\ wpc[w] = "take"
  /\ \/ /\ fo_list[w] = <<>>
        /\ fo' = [fo EXCEPT ![w] = None]
        /\ list_size' = [list_size EXCEPT ![w] = 0]
        /\ wpc' = [wpc EXCEPT ![w] = "wait"]
        /\ UNCHANGED fo_list
     \/ /\ fo_list[w] # <<>>
        /\ fo' = [fo EXCEPT ![w] = Front(fo_list[w])]
        /\ list_size' = [list_size EXCEPT ![w] = SizeAfterPop(fo_list[w])]
        /\ wpc' = [wpc EXCEPT ![w] = "run"]
        /\ fo_list' = [fo_list EXCEPT ![w] = Tail(@)]
  /\ UNCHANGED <<evt, done, callVars, stopVars>>

\* Mutated form: the worker parks after every function object.
AlwaysPark(size) == "wait"

\* if (!list_size) event_wait(evt_)
ParkOrLoop(size) == IF size = 0 THEN "wait" ELSE "loop"

\* fo() returns, or throws into the catch clauses: the worker goes on alike.
Finish(w) ==
  /\ wpc[w] = "run"
  /\ call[w].pc = "idle"
  /\ done' = [done EXCEPT ![fo[w].strand] = fo[w].num]
  /\ wpc' = [wpc EXCEPT ![w] = ParkOrLoop(list_size[w])]
  /\ UNCHANGED <<fo_list, evt, fo, list_size, callVars, stopVars>>

\* event_wait returns and resets the event.
Wait(w) ==
  /\ wpc[w] = "wait"
  /\ evt[w]
  /\ evt' = [evt EXCEPT ![w] = FALSE]
  /\ wpc' = [wpc EXCEPT ![w] = "loop"]
  /\ UNCHANGED <<fo_list, fo, list_size, done, callVars, stopVars>>

WorkerStep(w) == Loop(w) \/ Take(w) \/ Finish(w) \/ Wait(w)
-----------------------------------------------------------------------------
(* post_call.                                                              *)

\* A caller is free to call: an outside thread, or a running function object.
MayCall(c) == call[c].pc = "idle" /\ (c \in Workers => wpc[c] = "run")

Goto(c, pc) == call' = [call EXCEPT ![c].pc = pc]

\* mtx_.lock() and the look-up of the strand.
PostCall(c, s) ==
  /\ MayCall(c)
  /\ mtx = None
  /\ posted[s] < MaxPosts
  /\ mtx' = c
  /\ call' = [call EXCEPT ![c] =
       [pc |-> IF strand_proc_list[s] = None THEN "scan" ELSE "busy",
        strand |-> s, worker |-> strand_proc_list[s],
        smallest |-> 0, i |-> 1]]
  /\ UNCHANGED <<strand_proc_list, posted, workerVars, stopVars>>

\* Mutated form: a list of any size takes one more.
NeverBusy(w) == FALSE

\* is_busy()
IsBusy(w) == Len(fo_list[w]) > MaxTaskSize

\* A known strand: refuse and return, or go on to post.
CheckBusy(c) ==
  /\ call[c].pc = "busy"
  /\ IF IsBusy(call[c].worker)
     THEN call' = [call EXCEPT ![c] = Idle] /\ mtx' = None
     ELSE Goto(c, "push") /\ UNCHANGED mtx
  /\ UNCHANGED <<strand_proc_list, posted, workerVars, stopVars>>

\* task_size <= smallest: of two equal lists the later worker's is taken.
TakesOver(size, smallest) == size <= smallest

\* One round of i_get_appropriate_worker.  smallest is UINT64_MAX, above any
\* size, while no worker has been met.  After stop() has cleared workers_,
\* workers_[i] is out of bounds: the call never gets anywhere.
ScanWorker(c) ==
  /\ call[c].pc = "scan"
  /\ call[c].i \in Workers
  /\ LET i == call[c].i
         size == Len(fo_list[i])
     IN IF stopping.pc = "returned"
        THEN Goto(c, "undefined")
        ELSE call' = [call EXCEPT ![c] =
               IF call[c].worker = None \/ TakesOver(size, call[c].smallest)
               THEN [pc |-> "scan", strand |-> call[c].strand, worker |-> i,
                     smallest |-> size, i |-> i + 1]
               ELSE [@ EXCEPT !.i = i + 1]]
  /\ UNCHANGED <<strand_proc_list, mtx, posted, workerVars, stopVars>>

\* Mutated form: the chosen worker is used once and not remembered.
ForgetStrand(s, w) == strand_proc_list

\* strand_proc_list_[strand] = worker
Bind(s, w) == [strand_proc_list EXCEPT ![s] = w]

\* The scan is over: the strand is bound, with no look at is_busy.
BindStrand(c) ==
  /\ call[c].pc = "scan"
  /\ call[c].i \notin Workers
  /\ strand_proc_list' = Bind(call[c].strand, call[c].worker)
  /\ Goto(c, "push")
  /\ UNCHANGED <<mtx, posted, workerVars, stopVars>>

\* inner_thread_t::post, first half: push_back under fo_mtx_.
Push(c) ==
  /\ call[c].pc = "push"
  /\ LET s == call[c].strand
         w == call[c].worker
     IN /\ fo_list' = [fo_list EXCEPT ![w] =
                         Append(@, [strand |-> s, num |-> posted[s] + 1])]
        /\ posted' = [posted EXCEPT ![s] = @ + 1]
  /\ Goto(c, "signal")
  /\ UNCHANGED <<evt, wpc, fo, list_size, done, strand_proc_list, mtx, stopVars>>

\* set_event(evt_)
SetEvent(w) == [evt EXCEPT ![w] = TRUE]

\* inner_thread_t::post, second half, and the return of post_call.
Signal(c) ==
  /\ call[c].pc = "signal"
  /\ evt' = SetEvent(call[c].worker)
  /\ call' = [call EXCEPT ![c] = Idle]
  /\ mtx' = None
  /\ UNCHANGED <<fo_list, wpc, fo, list_size, done,
                 strand_proc_list, posted, stopVars>>

CallStep(c) ==
  CheckBusy(c) \/ ScanWorker(c) \/ BindStrand(c) \/ Push(c) \/ Signal(c)
-----------------------------------------------------------------------------
(* thread_pool_t::stop, called at most once, from outside the pool.  It    *)
(* takes neither mtx_ nor fo_mtx_ and sets no worker's event.              *)

StopCall ==
  /\ stopping.pc = "no"
  /\ stopping' = [stopping EXCEPT !.pc = "each"]
  /\ UNCHANGED <<alive, workerVars, callVars>>

\* item->stop(): alive_ = false
StopWorker ==
  /\ stopping.pc = "each"
  /\ stopping.i \in Workers
  /\ alive' = [alive EXCEPT ![stopping.i] = FALSE]
  /\ stopping' = [stopping EXCEPT !.pc = "join"]
  /\ UNCHANGED <<workerVars, callVars>>

\* Mutated form: the last thread is joined before alive_ of it is cleared.
JoinLast(w) == wpc[WorkerCount] = "exited"

\* work_trd_->join() returns.
Joined(w) == wpc[w] = "exited"

StopJoin ==
  /\ stopping.pc = "join"
  /\ Joined(stopping.i)
  /\ stopping' = [pc |-> "each", i |-> stopping.i + 1]
  /\ UNCHANGED <<alive, workerVars, callVars>>

\* workers_.clear(); strand_proc_list_ keeps its references.
StopClear ==
  /\ stopping.pc = "each"
  /\ stopping.i \notin Workers
  /\ stopping' = [stopping EXCEPT !.pc = "returned"]
  /\ UNCHANGED <<alive, workerVars, callVars>>

StopStep == StopWorker \/ StopJoin \/ StopClear
-----------------------------------------------------------------------------
\* The program idles: nobody is inside post_call, every worker is parked or has
\* ended, and unless stop() was called every strand has had its posts.
Resting ==
  /\ stopping.pc = "no" => \A s \in Strands : done[s] = MaxPosts
  /\ \A c \in Callers : call[c].pc \in {"idle", "undefined"}
  /\ \A w \in Workers : wpc[w] = "exited" \/ (wpc[w] = "wait" /\ ~evt[w])
  /\ UNCHANGED vars

Next ==
  \/ \E w \in Workers : WorkerStep(w)
  \/ \E c \in Callers : CallStep(c) \/ \E s \in Strands : PostCall(c, s)
  \/ StopCall
  \/ StopStep
  \/ Resting

Spec == Init /\ [][Next]_vars

\* Threads that can run do run, and a post_call that has the mutex goes on.  A
\* function object returns: it does not call post_call for ever, which takes
\* strong fairness, for Finish is disabled during each call.  Nobody is obliged
\* to call post_call or stop.
Fairness ==
  /\ \A w \in Workers : WF_vars(WorkerStep(w)) /\ SF_vars(Finish(w))
  /\ \A c \in Callers : WF_vars(CallStep(c))
  /\ WF_vars(StopStep)

FairSpec == Spec /\ Fairness
-----------------------------------------------------------------------------
(* Properties.                                                             *)

Calls == [pc : {"idle", "busy", "scan", "push", "signal", "undefined"},
          strand : Strands \cup {None}, worker : Workers \cup {None},
          smallest : Nat, i : 1 .. WorkerCount + 1]

\* The type of every variable, and what the pc of a call says of its fields.
TypeOK ==
  /\ fo_list \in [Workers -> Seq(Tasks)]
  /\ evt \in [Workers -> BOOLEAN]
  /\ alive \in [Workers -> BOOLEAN]
  /\ wpc \in [Workers -> {"loop", "take", "run", "wait", "exited"}]
  /\ fo \in [Workers -> Tasks \cup {None}]
  /\ list_size \in [Workers -> Nat]
  /\ strand_proc_list \in [Strands -> Workers \cup {None}]
  /\ mtx \in Callers \cup {None}
  /\ call \in [Callers -> Calls]
  /\ stopping \in [pc : {"no", "each", "join", "returned"},
                   i : 1 .. WorkerCount + 1]
  /\ posted \in [Strands -> 0 .. MaxPosts]
  /\ done \in [Strands -> 0 .. MaxPosts]

Running(s) == {w \in Workers : wpc[w] = "run" /\ fo[w].strand = s}

\* "Function objects under one strand are guaranteed to run serially"
\* (thread_pool.hpp:150-151): no two workers are inside function objects of
\* one strand, and the one that runs is the next in the order of posting.
Serial ==
  \A s \in Strands : \A w \in Running(s) :
    /\ Running(s) = {w}
    /\ fo[w].num = done[s] + 1

\* The worker has looked at its list for the last time before event_wait.
Parking(w) == wpc[w] = "wait" \/ (wpc[w] = "run" /\ list_size[w] = 0)

\* The event of thread_pool.hpp:62-65 and 82 loses no wake-up: when a worker
\* is parked, or about to park, over a list that is not empty, its event is
\* set or the caller that has just posted is about to set it.
NoLostWakeup ==
  \A w \in Workers :
    Parking(w) /\ fo_list[w] # <<>> =>
      \/ evt[w]
      \/ \E c \in Callers : call[c].pc = "signal" /\ call[c].worker = w

BoundTo(w) == {s \in Strands : strand_proc_list[s] = w}

\* MAX_TASK_SIZE (thread_pool.hpp:22, 85-88) bounds a list only up to one
\* function object per strand bound to the worker: the first post of a strand
\* is made without a look at is_busy, and a list of MAX_TASK_SIZE still takes one.
QueueBound ==
  \A w \in Workers : Len(fo_list[w]) <= MaxTaskSize + Cardinality(BoundTo(w))

\* A posted function object is that of SerialExecutor from push_back on, and
\* runs while its worker is inside fo().
SE == INSTANCE SerialExecutor WITH
        running <- [s \in Strands |-> {fo[w].num : w \in Running(s)}]

\* The pool keeps the promise of post_call: per strand one at a time, in
\* order (thread_pool.hpp:150-151).
SerialExecution == SE!Spec

\* Unless stop() is called, every function object that post_call accepted runs
\* and returns, however calls and workers interleave (thread_pool.hpp:31-88).
ServesAll == [](stopping.pc = "no") => SE!Fairness

\* Once stop() has returned no function object runs any more
\* (thread_pool.hpp:138-148), on any worker, then or later.
StoppedMeansQuiet ==
  stopping.pc = "returned" => \A w \in Workers : wpc[w] = "exited"

Hung(w) == stopping.pc = "join" /\ stopping.i = w /\ wpc[w] = "wait" /\ ~evt[w]

\* stop() sets no event (thread_pool.hpp:71-75): either it returns, or some
\* worker stays parked on its event and join never does.  There is no third
\* outcome, such as a worker that keeps running for ever.
StopOutcome ==
  stopping.pc # "no" ~>
    \/ stopping.pc = "returned"
    \/ \E w \in Workers : Hung(w)
=============================================================================
