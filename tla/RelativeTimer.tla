--------------------------- MODULE RelativeTimer ---------------------------
(***************************************************************************)
(* The timers of src/bas/timer_impl.hpp: relative_timer_manager_t, its     *)
(* task thread, its cancel thread, and the threads that call wait and      *)
(* cancel on timers (relative_timer_t, src/bas/timer.hpp's timer_t).       *)
(*                                                                         *)
(* The n-th call of wait is called n.  tasks[n] holds what it was given;   *)
(* the containers hold such numbers.  time_wait_map_ is the set of numbers *)
(* it holds, its keys being their timeouts, and the order within one list  *)
(* is left open.                                                           *)
(*                                                                         *)
(* One action is one critical section, one look at shared state without    *)
(* the lock, one wait or one SetEvent.  i_post_task is cut in two inside   *)
(* its critical section, because the task thread looks at time_wait_map_   *)
(* without the lock and can see it between i_cancel and the insertion.     *)
(***************************************************************************)
EXTENDS Integers, Sequences, FiniteSets

CONSTANTS
  Sids,          \* the timers
  Clients,       \* threads that call wait and cancel
  TaskThread,    \* the thread of i_on_task_thread
  None,          \* no timer, no time, no thread
  IntMax,        \* INT_MAX
  Delays,        \* the delays wait is called with
  MaxTime,       \* bound: the clock stops here
  MaxWaits,      \* bound: calls of wait
  MayCancel,     \* whether a task may be cancelled, or waited for anew, while it waits
  MayUninit,     \* whether uninit is called
  Urgent,        \* whether time passes only when every thread is blocked
  Slack          \* how late a callback may be: "slight error", timer_impl.hpp:15

Callers == Clients \cup {TaskThread}
Times   == 0 .. MaxTime
Ids     == 1 .. MaxWaits
Tasks   == [sid : Sids, timeout : Times]

ASSUME BoundAssumption ==
  /\ {MaxTime, MaxWaits, IntMax, Slack} \subseteq Nat
  /\ Delays \subseteq Nat
  /\ {MayCancel, MayUninit, Urgent} \subseteq BOOLEAN

ASSUME NameAssumption ==
  /\ TaskThread \notin Clients
  /\ None \notin Callers \cup Sids \cup Int

VARIABLES
  now,           \* GetTickCount64()
  mutex,         \* the holder of mutex_ between two steps
  sid_map,       \* sid_map_, None for no entry
  waiting,       \* the tasks in time_wait_map_
  cancel_list,   \* cancel_list_
  event,         \* event_, run_event_ and cancel_event_: auto-reset events
  run_event,
  cancel_event,
  run,           \* run_
  exit,          \* exit_
  tpc,           \* where the task thread stands
  tmp_time,      \* its tmp_time, None for -1
  tmp_list,      \* its tmp_list
  until,         \* when its WaitForSingleObject(event_, diff) times out
  cpc,           \* where the cancel thread stands
  clist,         \* its local cancel_list
  op,            \* the wait or cancel each caller is in
  upc,           \* where uninit stands
  tasks,         \* history: the calls of wait
  answers        \* history: the callbacks made for each

mapVars    == <<mutex, sid_map, waiting, cancel_list>>
eventVars  == <<event, run_event, cancel_event>>
flagVars   == <<run, exit, upc>>
taskVars   == <<tpc, tmp_time, tmp_list, until>>
cancelVars == <<cpc, clist>>
callVars   == <<op, tasks>>
vars == <<now, mapVars, eventVars, flagVars, taskVars, cancelVars, callVars, answers>>

NoOp       == [pc |-> "idle", id |-> 0, sid |-> None]
Signalling == [pc |-> "signal", id |-> 0, sid |-> None]

Init ==
  /\ now = 0
  /\ mutex = None
  /\ sid_map = [s \in Sids |-> None]
  /\ waiting = {}
  /\ cancel_list = {}
  /\ event = FALSE /\ run_event = FALSE /\ cancel_event = FALSE
  /\ run = TRUE /\ exit = FALSE
  /\ tpc = "while" /\ tmp_time = None /\ tmp_list = {} /\ until = 0
  /\ cpc = "while" /\ clist = {}
  /\ op = [c \in Callers |-> NoOp]
  /\ upc = "no"
  /\ tasks = <<>>
  /\ answers = [n \in Ids |-> <<>>]

\* The keys of time_wait_map_, and its first.
Keys    == {tasks[n].timeout : n \in waiting}
IsFirst(t) == t \in Keys /\ \A u \in Keys : t <= u
-----------------------------------------------------------------------------
(* wait and cancel.                                                        *)

\* A client calls when it likes, the task thread from a callback.  The cancel
\* thread does not: timer_t::i_on_timer drops TIE_CANCELLED.
MayCall(c) == op[c].pc = "idle" /\ (c = TaskThread => tpc = "callback")

SetOp(c, o) == op' = [op EXCEPT ![c] = o]

\* relative_timer_t::wait: the deadline is computed before the lock is taken.
Wait(c, s, ms) ==
  /\ MayCall(c)
  /\ Len(tasks) < MaxWaits
  /\ now + ms <= MaxTime
  /\ MayCancel \/ \A n \in 1 .. Len(tasks) : tasks[n].sid = s => answers[n] # <<>>
  /\ tasks' = Append(tasks, [sid |-> s, timeout |-> now + ms])
  /\ SetOp(c, [pc |-> "post", id |-> Len(tasks) + 1, sid |-> s])
  /\ UNCHANGED <<mapVars, run_event, cancel_event, event>>

\* relative_timer_t::cancel.
Cancel(c, s) ==
  /\ MayCall(c)
  /\ MayCancel
  /\ SetOp(c, [pc |-> "cancel", id |-> 0, sid |-> s])
  /\ UNCHANGED <<mapVars, eventVars, tasks>>

\* Mutated form: the first task of the list is taken, whose timer it may be.
VictimsAny(s) == {n \in waiting : tasks[n].timeout = sid_map[s]}

\* The tasks of timer s in the list that sid_map_ points to.
Victims(s) == {n \in waiting : tasks[n].sid = s /\ tasks[n].timeout = sid_map[s]}

\* i_cancel under the lock: the first task found moves to cancel_list_.
CancelTask(s) ==
  /\ sid_map' = [sid_map EXCEPT ![s] = None]
  /\ \/ /\ sid_map[s] = None \/ Victims(s) = {}
        /\ UNCHANGED <<waiting, cancel_list, cancel_event>>
     \/ /\ sid_map[s] # None
        /\ \E n \in Victims(s) : /\ waiting' = waiting \ {n}
                                 /\ cancel_list' = cancel_list \cup {n}
        /\ cancel_event' = TRUE

\* Mutated form: the pending task of the timer is left alone.
KeepPending(s) == UNCHANGED <<sid_map, waiting, cancel_list, cancel_event, run_event>>

\* The call of i_cancel in i_post_task, with its SetEvent(run_event_).
CancelPending(s) ==
  IF sid_map[s] = None
  THEN UNCHANGED <<sid_map, waiting, cancel_list, cancel_event, run_event>>
  ELSE CancelTask(s) /\ run_event' = TRUE

\* i_post_task up to the end of its call of i_cancel.
Post(c) ==
  /\ op[c].pc = "post"
  /\ mutex = None
  /\ \/ exit /\ SetOp(c, NoOp) /\ UNCHANGED <<mapVars, cancel_event, run_event>>
     \/ /\ ~exit
        /\ mutex' = c
        /\ CancelPending(op[c].sid)
        /\ SetOp(c, [op[c] EXCEPT !.pc = "insert"])
  /\ UNCHANGED <<event, tasks>>

\* Mutated form: a deadline before the first does not wake the task thread.
NeverSooner(t) == FALSE

\* task.timeout < tmp_timeout, which is -1 when the map is empty.
Sooner(t) == \E u \in Keys : IsFirst(u) /\ t < u

\* i_post_task from there to the end of the lock.
Insert(c) ==
  /\ op[c].pc = "insert"
  /\ LET n == op[c].id
         t == tasks[n].timeout
     IN /\ sid_map' = [sid_map EXCEPT ![op[c].sid] = t]
        /\ waiting' = waiting \cup {n}
        /\ event' = (event \/ Sooner(t))
  /\ mutex' = None
  /\ SetOp(c, Signalling)
  /\ UNCHANGED <<cancel_list, run_event, cancel_event, tasks>>

\* i_cancel under the lock, called from cancel.
DoCancel(c) ==
  /\ op[c].pc = "cancel"
  /\ mutex = None
  /\ \/ exit /\ SetOp(c, NoOp) /\ UNCHANGED <<sid_map, waiting, cancel_list, cancel_event>>
     \/ ~exit /\ CancelTask(op[c].sid) /\ SetOp(c, Signalling)
  /\ UNCHANGED <<mutex, event, run_event, tasks>>

\* Mutated form: the task thread is not told.
NoSignal == run_event

\* SetEvent(run_event_) at the end of i_post_task and i_cancel.
SetRunEvent == TRUE

Signal(c) ==
  /\ op[c].pc = "signal"
  /\ run_event' = SetRunEvent
  /\ SetOp(c, NoOp)
  /\ UNCHANGED <<mapVars, event, cancel_event, tasks>>

callerFrame == <<now, flagVars, taskVars, cancelVars, answers>>

CallerStep(c) == (Post(c) \/ Insert(c) \/ DoCancel(c) \/ Signal(c)) /\ UNCHANGED callerFrame
-----------------------------------------------------------------------------
(* i_on_task_thread.                                                       *)

\* The value of a long long as an int.
ToInt(x) == ((x + IntMax + 1) % (2 * (IntMax + 1))) - (IntMax + 1)

\* Mutated form: a delay that is one short.
DiffShort(t) == IF ToInt(t - now) < 1 THEN 0 ELSE ToInt(t - now) - 1

\* Mutated form: no clamp, and WaitForSingleObject takes a DWORD.
DiffUnsigned(t) == (t - now) % (2 * (IntMax + 1))

\* diff, clamped to 0.
Diff(t) == IF ToInt(t - now) < 0 THEN 0 ELSE ToInt(t - now)

\* while (run_), and the first key of time_wait_map_, read under the lock
\* (tmp_time is -1 here); WaitForSingleObject(event_, diff) begins.
TaskHead ==
  /\ tpc = "while"
  /\ \/ ~run /\ tpc' = "done" /\ UNCHANGED <<tmp_time, until>>
     \/ run /\ mutex = None /\ waiting = {} /\ tpc' = "check" /\ UNCHANGED <<tmp_time, until>>
     \/ /\ run /\ mutex = None
        /\ \E t \in Keys : IsFirst(t) /\ tmp_time' = t /\ until' = now + Diff(t)
        /\ tpc' = "wait"
  /\ UNCHANGED <<waiting, event, run_event, tmp_list, answers>>

\* The wait returns for the event.
TaskWoken ==
  /\ tpc = "wait" /\ event
  /\ tpc' = "check" /\ event' = FALSE /\ tmp_time' = None /\ until' = 0
  /\ UNCHANGED <<waiting, run_event, tmp_list, answers>>

\* It returns WAIT_TIMEOUT.
TaskTimeout ==
  /\ tpc = "wait" /\ ~event /\ now >= until
  /\ tpc' = "grab" /\ until' = 0
  /\ UNCHANGED <<waiting, event, run_event, tmp_time, tmp_list, answers>>

\* Mutated form: the list is copied and not erased.
KeepDue(due) == waiting

\* time_wait_map_.erase(tmp_time)
EraseDue(due) == waiting \ due

\* The list of tmp_time is taken, under the lock; sid_map_ keeps its entries.
TaskGrab ==
  /\ tpc = "grab" /\ mutex = None
  /\ tpc' = "call"
  /\ tmp_list' = {n \in waiting : tasks[n].timeout = tmp_time}
  /\ waiting' = EraseDue(tmp_list')
  /\ UNCHANGED <<event, run_event, tmp_time, until, answers>>

\* item.cb(TIE_OK) for one more item, or the end of the loop over tmp_list.
TaskCall ==
  /\ tpc = "call"
  /\ \/ tmp_list = {} /\ tpc' = "check" /\ tmp_time' = None /\ UNCHANGED <<tmp_list, answers>>
     \/ \E n \in tmp_list :
          /\ tpc' = "callback"
          /\ tmp_list' = tmp_list \ {n}
          /\ answers' = [answers EXCEPT ![n] = Append(@, "ok")]
          /\ UNCHANGED tmp_time
  /\ UNCHANGED <<waiting, event, run_event, until>>

\* The callback returns.
TaskReturn ==
  /\ tpc = "callback" /\ op[TaskThread].pc = "idle"
  /\ tpc' = "call"
  /\ UNCHANGED <<waiting, event, run_event, tmp_time, tmp_list, until, answers>>

\* time_wait_map_.empty(), without the lock.
TaskCheck ==
  /\ tpc = "check"
  /\ tpc' = IF waiting = {} THEN "park" ELSE "while"
  /\ UNCHANGED <<waiting, event, run_event, tmp_time, tmp_list, until, answers>>

\* WaitForSingleObject(run_event_, INFINITE) returns.
TaskUnpark ==
  /\ tpc = "park" /\ run_event
  /\ tpc' = "while" /\ run_event' = FALSE
  /\ UNCHANGED <<waiting, event, tmp_time, tmp_list, until, answers>>

taskFrame ==
  <<now, mutex, sid_map, cancel_list, cancel_event, flagVars, cancelVars, callVars>>

TaskStep ==
  /\ \/ TaskHead \/ TaskWoken \/ TaskTimeout \/ TaskGrab \/ TaskCall \/ TaskReturn
     \/ TaskCheck \/ TaskUnpark
  /\ UNCHANGED taskFrame
-----------------------------------------------------------------------------
(* i_on_cancel_thread.                                                     *)

\* cancel_list_.clear()
ClearCancelled == {}

\* while (run_), and cancel_list_ is taken, under the lock.
CancelGrab ==
  /\ cpc = "while"
  /\ \/ ~run /\ cpc' = "done" /\ UNCHANGED <<clist, cancel_list>>
     \/ /\ run /\ mutex = None
        /\ cpc' = "call"
        /\ clist' = cancel_list
        /\ cancel_list' = ClearCancelled
  /\ UNCHANGED <<cancel_event, answers>>

\* item.cb(TIE_CANCELLED) for one more item, or the end of the loop.
CancelCall ==
  /\ cpc = "call"
  /\ \/ clist = {} /\ cpc' = "check" /\ UNCHANGED <<clist, answers>>
     \/ \E n \in clist :
          /\ clist' = clist \ {n} /\ UNCHANGED cpc
          /\ answers' = [answers EXCEPT ![n] = Append(@, "cancelled")]
  /\ UNCHANGED <<cancel_list, cancel_event>>

\* cancel_list_.empty(), without the lock.
CancelCheck ==
  /\ cpc = "check"
  /\ cpc' = IF cancel_list = {} THEN "park" ELSE "while"
  /\ UNCHANGED <<cancel_list, cancel_event, clist, answers>>

CancelUnpark ==
  /\ cpc = "park" /\ cancel_event
  /\ cpc' = "while" /\ cancel_event' = FALSE
  /\ UNCHANGED <<cancel_list, clist, answers>>

cancelFrame ==
  <<now, mutex, sid_map, waiting, event, run_event, flagVars, taskVars, callVars>>

CancelStep ==
  (CancelGrab \/ CancelCall \/ CancelCheck \/ CancelUnpark) /\ UNCHANGED cancelFrame
-----------------------------------------------------------------------------
(* uninit, called at most once, by a thread of its own.                    *)

\* run_ = false
Uninit ==
  /\ MayUninit
  /\ upc = "no"
  /\ upc' = "clear" /\ run' = FALSE
  /\ UNCHANGED <<mapVars, eventVars, exit>>

\* The critical section.
UninitClear ==
  /\ upc = "clear" /\ mutex = None
  /\ upc' = "set" /\ exit' = TRUE
  /\ sid_map' = [s \in Sids |-> None]
  /\ waiting' = {}
  /\ cancel_list' = {}
  /\ UNCHANGED <<mutex, eventVars, run>>

\* Mutated form: run_event_ is not set.
SetTwo == event' = TRUE /\ cancel_event' = TRUE /\ UNCHANGED run_event

\* SetEvent on each of the three events.
SetAll == event' = TRUE /\ run_event' = TRUE /\ cancel_event' = TRUE

UninitSet ==
  /\ upc = "set"
  /\ upc' = "join" /\ SetAll
  /\ UNCHANGED <<mapVars, run, exit>>

\* Mutated form: only the task thread is joined.
JoinedTask == tpc = "done"

\* trd_->join() and cel_trd_->join() have returned.
JoinedBoth == tpc = "done" /\ cpc = "done"

UninitJoin ==
  /\ upc = "join"
  /\ JoinedBoth
  /\ upc' = "returned"
  /\ UNCHANGED <<mapVars, eventVars, run, exit>>

uninitFrame == <<now, taskVars, cancelVars, callVars, answers>>

UninitStep == (UninitClear \/ UninitSet \/ UninitJoin) /\ UNCHANGED uninitFrame
-----------------------------------------------------------------------------
\* Every thread is blocked until something happens or time passes.
Blocked ==
  /\ \A c \in Callers : op[c].pc = "idle"
  /\ \/ tpc = "wait" /\ ~event /\ now < until
     \/ tpc = "park" /\ ~run_event
     \/ tpc = "done"
  /\ (cpc = "park" /\ ~cancel_event) \/ cpc = "done"
  /\ upc \in {"no", "returned"}

Tick ==
  /\ now < MaxTime
  /\ Urgent => Blocked
  /\ now' = now + 1
  /\ UNCHANGED <<mapVars, eventVars, flagVars, taskVars, cancelVars, callVars, answers>>

Next ==
  \/ \E c \in Callers, s \in Sids :
       (Cancel(c, s) \/ \E ms \in Delays : Wait(c, s, ms)) /\ UNCHANGED callerFrame
  \/ \E c \in Callers : CallerStep(c)
  \/ TaskStep
  \/ CancelStep
  \/ Uninit /\ UNCHANGED uninitFrame
  \/ UninitStep
  \/ Tick

Spec == Init /\ [][Next]_vars

\* Threads that can run do, time passes, and a callback returns: it does not
\* call wait and cancel for ever, which takes strong fairness.  Nobody is
\* obliged to call wait, cancel or uninit.
Fairness ==
  /\ WF_vars(TaskStep) /\ SF_vars(TaskReturn /\ UNCHANGED taskFrame)
  /\ WF_vars(CancelStep)
  /\ \A c \in Callers : WF_vars(CallerStep(c))
  /\ WF_vars(UninitStep)
  /\ WF_vars(Tick)

FairSpec == Spec /\ Fairness
-----------------------------------------------------------------------------
(* Properties.                                                             *)

Posted == 1 .. Len(tasks)

TypeOK ==
  /\ now \in Times
  /\ mutex \in Callers \cup {None}
  /\ sid_map \in [Sids -> Times \cup {None}]
  /\ waiting \subseteq Posted
  /\ cancel_list \subseteq Posted
  /\ {event, run_event, cancel_event, run, exit} \subseteq BOOLEAN
  /\ tpc \in {"while", "wait", "grab", "call", "callback", "check", "park", "done"}
  /\ tmp_time \in Times \cup {None}
  /\ tmp_list \subseteq Posted
  /\ until \in 0 .. MaxTime + IntMax
  /\ cpc \in {"while", "call", "check", "park", "done"}
  /\ clist \subseteq Posted
  /\ op \in [Callers -> [pc : {"idle", "post", "insert", "cancel", "signal"},
                         id : 0 .. Len(tasks), sid : Sids \cup {None}]]
  /\ upc \in {"no", "clear", "set", "join", "returned"}
  /\ tasks \in Seq(Tasks) /\ Len(tasks) <= MaxWaits
  /\ answers \in [Ids -> Seq({"ok", "cancelled"})]

\* sid_map_ and time_wait_map_ agree (timer_impl.hpp:200-222, 224-252): a
\* timer has at most one waiting task, and sid_map_ leads to it.  Otherwise
\* cancel could not find it, and a second wait would not replace it.
Indexed ==
  \A n \in waiting :
    /\ sid_map[tasks[n].sid] = tasks[n].timeout
    /\ \A m \in waiting : tasks[m].sid = tasks[n].sid => m = n

\* A task is in one container at a time, and in none once it was called back
\* (timer_impl.hpp:224-326): so it is called back at most once, with TIE_OK
\* or with TIE_CANCELLED, whichever thread wins.
AtMostOnce ==
  \A n \in Posted :
    Len(answers[n])
      + Cardinality({i \in 1 .. 4 : n \in <<waiting, cancel_list, tmp_list, clist>>[i]})
        <= 1

\* "ok" comes no earlier than the deadline (timer_impl.hpp:270-288).
NeverEarly ==
  \A n \in Posted :
    n \in tmp_list \/ (\E i \in DOMAIN answers[n] : answers[n][i] = "ok") =>
      tasks[n].timeout <= now

\* cancel() leaves no waiting task of its timer (timer_impl.hpp:224-249).
CancelTakes ==
  [][\A c \in Callers : op[c].pc = "cancel" /\ op'[c].pc = "signal" =>
       \A n \in waiting' : tasks[n].sid # op[c].sid]_vars

\* Every task that waits is called back, with TIE_OK or TIE_CANCELLED, unless
\* uninit drops it: no interleaving of wait, cancel and the two threads with
\* their unlocked looks at empty() loses it (timer_impl.hpp:200-326).
Answered ==
  \A n \in Ids : n \in waiting ~> answers[n] # <<>> \/ exit

\* uninit returns (timer_impl.hpp:168-186): whatever the two threads were
\* waiting for, the events it sets get both to their ends.
UninitReturns == upc # "no" ~> upc = "returned"

\* No callback is made once uninit has returned (timer_impl.hpp:184-185).
SilentAfterUninit == [][upc = "returned" => UNCHANGED answers]_vars

\* The task thread does not sleep past a deadline: if it sleeps for a key and
\* an earlier one is in the map, its event is set (timer_impl.hpp:215-218).
NoOversleep ==
  tpc = "wait" => \A t \in Keys : t < tmp_time => event

\* The timing "may have slight error" (timer_impl.hpp:15): when no thread is
\* slow, no task waits for more than that past its deadline.
Timely == \A n \in waiting : now <= tasks[n].timeout + Slack
=============================================================================
