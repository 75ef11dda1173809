------------------------- MODULE RelativeTimerProofs -------------------------
(***************************************************************************)
(* Theorems about RelativeTimer, for any timers, callers, delays and       *)
(* bounds, whether or not cancel and uninit are called.                    *)
(*                                                                         *)
(* TInv is what every step preserves: the types, who is inside the lock,   *)
(* what a call of wait still holds, that the two maps agree, and that each *)
(* task is in one place.  Four smaller invariants stand on it: UninitInv   *)
(* (the threads have ended), DueInv (what was taken as due is due) and,    *)
(* when nobody cancels, StillInv (the sleep of the task thread) and        *)
(* TimeInv (what is due keeps time from passing).                          *)
(***************************************************************************)
EXTENDS RelativeTimer, TLAPS, SequenceTheorems, FiniteSetTheorems

-----------------------------------------------------------------------------
\* The caller between the two halves of i_post_task holds mutex_.
MutexInv == \A c \in Callers : op[c].pc = "insert" <=> mutex = c

\* The containers a task can be in.
Contained == waiting \cup cancel_list \cup tmp_list \cup clist

\* A call of wait whose task is in no container yet.
Calling(c) == op[c].pc \in {"post", "insert"}

\* Its task is new, and nobody else's; and once the old task of the timer is
\* cancelled the timer has none.
CallInv ==
  \A c \in Callers :
    /\ op[c].pc \in {"post", "insert", "cancel"} => op[c].sid \in Sids
    /\ Calling(c) =>
         /\ op[c].id \in Posted
         /\ tasks[op[c].id].sid = op[c].sid
         /\ op[c].id \notin Contained
         /\ answers[op[c].id] = <<>>
         /\ \A d \in Callers : d # c /\ Calling(d) => op[d].id # op[c].id
    /\ op[c].pc = "insert" => \A n \in waiting : tasks[n].sid # op[c].sid

\* A task is in one place, and in none once it was called back.
Once ==
  \A n \in Ids :
    /\ Len(answers[n]) <= 1
    /\ n \in Contained => answers[n] = <<>>
    /\ n \in waiting => n \notin cancel_list \cup tmp_list \cup clist
    /\ n \in cancel_list => n \notin tmp_list \cup clist
    /\ n \in tmp_list => n \notin clist
    /\ n \notin Posted => answers[n] = <<>>

TInv == TypeOK /\ MutexInv /\ CallInv /\ Indexed /\ Once

LEMMA TimerInit == Init => TInv
<1> SUFFICES ASSUME Init PROVE TInv
  OBVIOUS
<1>1. tasks = <<>> /\ Posted = {}
  BY DEF Init, Posted
<1>2. TypeOK
  <2>1. /\ <<>> \in Seq(Tasks)
        /\ <<>> \in Seq({"ok", "cancelled"})
        /\ Len(tasks) = 0
    BY <1>1
  <2>2. op \in [Callers -> [pc : {"idle", "post", "insert", "cancel", "signal"},
                           id : 0 .. Len(tasks), sid : Sids \cup {None}]]
    BY <2>1 DEF Init, NoOp
  <2>3. now \in Times /\ until \in 0 .. MaxTime + IntMax
    BY BoundAssumption DEF Init, Times
  <2>4. /\ tasks \in Seq(Tasks) /\ Len(tasks) <= MaxWaits
        /\ answers \in [Ids -> Seq({"ok", "cancelled"})]
    BY <1>1, <2>1, BoundAssumption DEF Init
  <2>5. /\ {event, run_event, cancel_event, run, exit} \subseteq BOOLEAN
        /\ waiting = {} /\ cancel_list = {} /\ tmp_list = {} /\ clist = {}
        /\ mutex = None /\ tmp_time = None
        /\ sid_map \in [Sids -> Times \cup {None}]
        /\ tpc = "while" /\ cpc = "while" /\ upc = "no"
    BY DEF Init
  <2> QED BY <2>2, <2>3, <2>4, <2>5 DEF TypeOK
<1>3. MutexInv /\ CallInv
  BY NameAssumption DEF Init, MutexInv, CallInv, Calling, NoOp
<1>4. Indexed /\ Once
  BY <1>1 DEF Init, Indexed, Once, Contained
<1> QED BY <1>2, <1>3, <1>4 DEF TInv
-----------------------------------------------------------------------------
(* The remaining time as an int.                                           *)

LEMMA ToIntBounds ==
  ASSUME NEW x \in Int
  PROVE  ToInt(x) \in Int /\ ToInt(x) <= IntMax
BY BoundAssumption DEF ToInt

\* An int holds what is in its range.
LEMMA ToIntExact ==
  ASSUME NEW x \in Int, x <= IntMax, -IntMax - 1 <= x
  PROVE  ToInt(x) = x
BY BoundAssumption DEF ToInt

LEMMA DiffBounds ==
  ASSUME NEW t \in Int, now \in Int
  PROVE  Diff(t) \in 0 .. IntMax
BY ToIntBounds, BoundAssumption DEF Diff
-----------------------------------------------------------------------------
(* Steps that leave the containers alone.                                  *)

heldVars == <<mutex, sid_map, waiting, cancel_list, tmp_list, clist, op, tasks, answers>>

LEMMA SameHeld ==
  ASSUME TInv, UNCHANGED heldVars
  PROVE  MutexInv' /\ CallInv' /\ Indexed' /\ Once'
BY DEF TInv, heldVars, MutexInv, CallInv, Indexed, Once, Contained, Calling, Posted

\* A task and what it is made of.
LEMMA TaskFields ==
  ASSUME TypeOK, NEW n \in Posted
  PROVE  tasks[n].sid \in Sids /\ tasks[n].timeout \in Times /\ n \in Ids
<1>1. tasks \in Seq(Tasks) /\ Len(tasks) <= MaxWaits
  BY DEF TypeOK
<1>2. n \in 1 .. Len(tasks) /\ Len(tasks) \in Nat
  BY <1>1 DEF Posted
<1>3. tasks[n] \in Tasks
  BY <1>1, <1>2
<1> QED BY <1>1, <1>2, <1>3, BoundAssumption DEF Tasks, Ids

LEMMA KeysAreTimes == ASSUME TypeOK PROVE Keys \subseteq Times
BY TaskFields DEF Keys, TypeOK

\* The task thread between its looks at the containers.
LEMMA TaskQuiet ==
  ASSUME TInv,
         TaskHead \/ TaskWoken \/ TaskTimeout \/ TaskReturn \/ TaskCheck \/ TaskUnpark,
         UNCHANGED taskFrame
  PROVE  TInv'
<1>1. UNCHANGED heldVars
  BY DEF TaskHead, TaskWoken, TaskTimeout, TaskReturn, TaskCheck, TaskUnpark, taskFrame,
         heldVars, cancelVars, callVars
<1>2. /\ tmp_time' \in Times \cup {None}
      /\ until' \in 0 .. MaxTime + IntMax
      /\ tpc' \in {"while", "wait", "grab", "call", "callback", "check", "park", "done"}
      /\ {event', run_event'} \subseteq BOOLEAN
  <2>1. CASE TaskHead
    <3>1. CASE \E t \in Keys : tmp_time' = t /\ until' = now + Diff(t) /\ tpc' = "wait"
      <4>1. PICK t \in Keys : tmp_time' = t /\ until' = now + Diff(t) /\ tpc' = "wait"
        BY <3>1
      <4>2. t \in Times /\ t \in Int /\ now \in Int /\ now \in 0 .. MaxTime
        BY KeysAreTimes, BoundAssumption DEF TInv, TypeOK, Times
      <4>3. Diff(t) \in 0 .. IntMax
        BY <4>2, DiffBounds
      <4>4. until' \in 0 .. MaxTime + IntMax
        BY <4>1, <4>2, <4>3, BoundAssumption
      <4>5. UNCHANGED <<event, run_event>>
        BY <2>1 DEF TaskHead
      <4> QED BY <4>1, <4>2, <4>4, <4>5 DEF TInv, TypeOK
    <3>2. CASE UNCHANGED <<tmp_time, until>> /\ tpc' \in {"done", "check"}
      BY <2>1, <3>2 DEF TaskHead, TInv, TypeOK
    <3> QED BY <2>1, <3>1, <3>2 DEF TaskHead
  <2>2. CASE TaskWoken \/ TaskTimeout \/ TaskReturn \/ TaskCheck \/ TaskUnpark
    <3>1. 0 \in 0 .. MaxTime + IntMax
      BY BoundAssumption
    <3> QED BY <2>2, <3>1 DEF TaskWoken, TaskTimeout, TaskReturn, TaskCheck, TaskUnpark,
                              TInv, TypeOK
  <2> QED BY <2>1, <2>2
<1>3. UNCHANGED <<now, cancel_event, run, exit, upc, cpc>>
  BY DEF taskFrame, flagVars, cancelVars
<1>4. TypeOK'
  BY <1>1, <1>2, <1>3 DEF TInv, TypeOK, heldVars, Posted
<1> QED BY <1>1, <1>4, SameHeld DEF TInv

\* The cancel thread between its looks at the containers.
LEMMA CancelQuiet ==
  ASSUME TInv, CancelCheck \/ CancelUnpark, UNCHANGED cancelFrame
  PROVE  TInv'
<1>1. UNCHANGED heldVars
  BY DEF CancelCheck, CancelUnpark, cancelFrame, heldVars, taskVars, callVars
<1>2. /\ UNCHANGED <<now, event, run_event, run, exit, upc, tpc, tmp_time, until>>
      /\ cpc' \in {"while", "park"}
      /\ cancel_event' \in BOOLEAN
  BY DEF CancelCheck, CancelUnpark, cancelFrame, flagVars, taskVars, TInv, TypeOK
<1>3. TypeOK'
  BY <1>1, <1>2 DEF TInv, TypeOK, heldVars, Posted
<1> QED BY <1>1, <1>3, SameHeld DEF TInv

\* uninit outside its critical section, and the clock.
LEMMA FlagsQuiet ==
  ASSUME TInv,
         \/ (Uninit \/ UninitSet \/ UninitJoin) /\ UNCHANGED uninitFrame
         \/ Tick
         \/ UNCHANGED vars
  PROVE  TInv'
<1>1. UNCHANGED heldVars
  BY DEF Uninit, UninitSet, UninitJoin, uninitFrame, Tick, vars, heldVars, mapVars, taskVars,
         cancelVars, callVars
<1>2. /\ UNCHANGED <<tpc, tmp_time, until, cpc>>
      /\ {event', run_event', cancel_event', run', exit'} \subseteq BOOLEAN
      /\ upc' \in {"no", "clear", "set", "join", "returned"}
  BY DEF Uninit, UninitSet, SetAll, UninitJoin, uninitFrame, Tick, vars, eventVars, flagVars,
         taskVars, cancelVars, TInv, TypeOK
<1>3. now' \in Times
  BY BoundAssumption
     DEF Uninit, UninitSet, UninitJoin, uninitFrame, Tick, vars, TInv, TypeOK, Times
<1>4. TypeOK'
  BY <1>1, <1>2, <1>3 DEF TInv, TypeOK, heldVars, Posted
<1> QED BY <1>1, <1>4, SameHeld DEF TInv
-----------------------------------------------------------------------------
(* wait and cancel.                                                        *)

OpType == [pc : {"idle", "post", "insert", "cancel", "signal"},
           id : 0 .. Len(tasks), sid : Sids \cup {None}]

LEMMA OpFields ==
  ASSUME TypeOK, NEW c \in Callers
  PROVE  op[c] \in OpType /\ op[c].id \in 0 .. Len(tasks) /\ op[c].sid \in Sids \cup {None}
BY DEF TypeOK, OpType

LEMMA SetOpType ==
  ASSUME TypeOK, NEW c \in Callers, NEW o \in OpType, SetOp(c, o)
  PROVE  /\ op' \in [Callers -> OpType]
         /\ op'[c] = o
         /\ \A d \in Callers : d # c => op'[d] = op[d]
BY DEF TypeOK, SetOp, OpType

LEMMA PlainOps ==
  ASSUME TypeOK
  PROVE  NoOp \in OpType /\ Signalling \in OpType
<1>1. Len(tasks) \in Nat
  BY DEF TypeOK
<1> QED BY <1>1 DEF NoOp, Signalling, OpType

\* A caller goes on without touching a container.
LEMMA OnlyOp ==
  ASSUME TInv, NEW c \in Callers, NEW o \in OpType, SetOp(c, o),
         o.pc \in {"idle", "signal", "cancel"},
         o.pc = "cancel" => o.sid \in Sids,
         op[c].pc # "insert",
         UNCHANGED <<now, mapVars, flagVars, taskVars, cancelVars, tasks, answers>>,
         {event', run_event', cancel_event'} \subseteq BOOLEAN
  PROVE  TInv'
<1>1. /\ op' \in [Callers -> OpType]
      /\ op'[c] = o
      /\ \A d \in Callers : d # c => op'[d] = op[d]
  BY SetOpType DEF TInv
<1>2. UNCHANGED <<now, mutex, sid_map, waiting, cancel_list, run, exit, upc, tpc, tmp_time,
                  tmp_list, until, cpc, clist, tasks, answers>>
  BY DEF mapVars, flagVars, taskVars, cancelVars
<1>3. TypeOK'
  BY <1>1, <1>2 DEF TInv, TypeOK, OpType, Posted
<1>4. MutexInv'
  BY <1>1, <1>2 DEF TInv, MutexInv
<1>5. \A d \in Callers : Calling(d)' => d # c /\ Calling(d)
  BY <1>1 DEF Calling
<1>6. CallInv'
  BY <1>1, <1>2, <1>5 DEF TInv, CallInv, Contained, Posted
<1>7. Indexed' /\ Once'
  BY <1>2 DEF TInv, Indexed, Once, Contained, Posted
<1> QED BY <1>3, <1>4, <1>6, <1>7 DEF TInv

LEMMA CancelKeeps ==
  ASSUME TInv, NEW c \in Callers, NEW s \in Sids, Cancel(c, s), UNCHANGED callerFrame
  PROVE  TInv'
<1> DEFINE o == [pc |-> "cancel", id |-> 0, sid |-> s]
<1>1. Len(tasks) \in Nat
  BY DEF TInv, TypeOK
<1>2. o \in OpType /\ o.pc = "cancel" /\ o.sid \in Sids
  BY <1>1 DEF OpType
<1>3. /\ SetOp(c, o) /\ op[c].pc # "insert"
      /\ {event', run_event', cancel_event'} \subseteq BOOLEAN
      /\ UNCHANGED <<now, mapVars, flagVars, taskVars, cancelVars, tasks, answers>>
  BY DEF Cancel, MayCall, callerFrame, eventVars, TInv, TypeOK
<1> HIDE DEF o
<1> QED BY <1>2, <1>3, OnlyOp

LEMMA SignalKeeps ==
  ASSUME TInv, NEW c \in Callers, Signal(c), UNCHANGED callerFrame
  PROVE  TInv'
<1>1. NoOp \in OpType /\ NoOp.pc = "idle"
  BY PlainOps DEF TInv, NoOp
<1>2. /\ SetOp(c, NoOp) /\ op[c].pc # "insert"
      /\ {event', run_event', cancel_event'} \subseteq BOOLEAN
      /\ UNCHANGED <<now, mapVars, flagVars, taskVars, cancelVars, tasks, answers>>
  BY DEF Signal, SetRunEvent, callerFrame, TInv, TypeOK
<1> QED BY <1>1, <1>2, OnlyOp

\* A call of wait makes a task that is in no container and was never answered.
LEMMA WaitKeeps ==
  ASSUME TInv, NEW c \in Callers, NEW s \in Sids, NEW ms \in Delays, Wait(c, s, ms),
         UNCHANGED callerFrame
  PROVE  TInv'
<1> DEFINE L == Len(tasks) + 1
           t == [sid |-> s, timeout |-> now + ms]
           o == [pc |-> "post", id |-> L, sid |-> s]
<1>1. /\ tasks \in Seq(Tasks) /\ Len(tasks) \in Nat /\ now \in Nat
      /\ Len(tasks) < MaxWaits /\ L \in Ids /\ L \notin Posted
  <2>1. tasks \in Seq(Tasks) /\ now \in Times /\ Len(tasks) < MaxWaits
    BY DEF Wait, TInv, TypeOK
  <2>2. Len(tasks) \in Nat /\ now \in Nat /\ L \in Ids
    BY <2>1, BoundAssumption DEF Times, Ids
  <2> QED BY <2>1, <2>2 DEF Posted
<1>2. t \in Tasks
  <2>1. now + ms \in 0 .. MaxTime
    BY <1>1, BoundAssumption DEF Wait
  <2> QED BY <2>1 DEF Tasks, Times
<1>3. tasks' = Append(tasks, t)
  BY DEF Wait
<1>4. /\ tasks' \in Seq(Tasks) /\ Len(tasks') = L
      /\ tasks'[L] = t
      /\ \A n \in Posted : tasks'[n] = tasks[n]
  BY <1>1, <1>2, <1>3, AppendProperties DEF Posted
<1>5. Posted' = Posted \cup {L}
  BY <1>1, <1>4 DEF Posted
<1>6. /\ UNCHANGED <<now, mutex, sid_map, waiting, cancel_list, event, run_event, cancel_event,
                     run, exit, upc, tpc, tmp_time, tmp_list, until, cpc, clist, answers>>
      /\ SetOp(c, o) /\ op[c].pc = "idle"
  BY DEF Wait, MayCall, callerFrame, mapVars, flagVars, taskVars, cancelVars
<1>7. /\ op'[c] = o
      /\ \A d \in Callers : d # c => op'[d] = op[d]
      /\ op' \in [Callers -> OpType']
  <2>1. op \in [Callers -> OpType]
    BY DEF TInv, TypeOK, OpType
  <2>2. OpType \subseteq OpType'
    BY <1>1, <1>4 DEF OpType
  <2>3. o \in OpType'
    BY <1>1, <1>4 DEF OpType
  <2> HIDE DEF o
  <2> QED BY <1>6, <2>1, <2>2, <2>3 DEF SetOp
<1>8. waiting \subseteq Posted /\ cancel_list \subseteq Posted /\ tmp_list \subseteq Posted
      /\ clist \subseteq Posted /\ Contained \subseteq Posted
  BY DEF TInv, TypeOK, Contained
<1> HIDE DEF L, t
<1>9. TypeOK'
  <2>1. Len(tasks') <= MaxWaits
    BY <1>1, <1>4, BoundAssumption DEF L
  <2>2. /\ waiting' \subseteq Posted' /\ cancel_list' \subseteq Posted'
        /\ tmp_list' \subseteq Posted' /\ clist' \subseteq Posted'
    BY <1>5, <1>6, <1>8
  <2>3. op' \in [Callers -> [pc : {"idle", "post", "insert", "cancel", "signal"},
                             id : 0 .. Len(tasks'), sid : Sids \cup {None}]]
    BY <1>7 DEF OpType
  <2>4. /\ now' \in Times /\ mutex' \in Callers \cup {None}
        /\ sid_map' \in [Sids -> Times \cup {None}]
        /\ {event', run_event', cancel_event', run', exit'} \subseteq BOOLEAN
        /\ tpc' \in {"while", "wait", "grab", "call", "callback", "check", "park", "done"}
        /\ tmp_time' \in Times \cup {None}
        /\ until' \in 0 .. MaxTime + IntMax
        /\ cpc' \in {"while", "call", "check", "park", "done"}
        /\ upc' \in {"no", "clear", "set", "join", "returned"}
        /\ answers' \in [Ids -> Seq({"ok", "cancelled"})]
    BY <1>6 DEF TInv, TypeOK
  <2> QED BY <1>4, <2>1, <2>2, <2>3, <2>4 DEF TypeOK
<1>10. MutexInv'
  BY <1>6, <1>7 DEF TInv, MutexInv
<1>11. CallInv'
  <2> SUFFICES ASSUME NEW d \in Callers
               PROVE  /\ op'[d].pc \in {"post", "insert", "cancel"} => op'[d].sid \in Sids
                      /\ Calling(d)' =>
                           /\ op'[d].id \in Posted'
                           /\ tasks'[op'[d].id].sid = op'[d].sid
                           /\ op'[d].id \notin Contained'
                           /\ answers'[op'[d].id] = <<>>
                           /\ \A e \in Callers : e # d /\ Calling(e)' => op'[e].id # op'[d].id
                      /\ op'[d].pc = "insert" => \A n \in waiting' : tasks'[n].sid # op'[d].sid
    BY DEF CallInv
  <2>1. Contained' = Contained
    BY <1>6 DEF Contained
  <2>2. \A e \in Callers : e # c /\ Calling(e)' => Calling(e) /\ op[e].id \in Posted
    BY <1>7 DEF TInv, CallInv, Calling
  <2>3. CASE d = c
    <3>1. \A e \in Callers : e # c /\ Calling(e)' => op'[e].id # L
      BY <1>1, <1>7, <2>2 DEF L
    <3>2. answers[L] = <<>> /\ L \notin Contained
      BY <1>1, <1>8 DEF TInv, Once, L
    <3> QED BY <1>4, <1>5, <1>6, <1>7, <2>1, <2>3, <3>1, <3>2 DEF t
  <2>4. CASE d # c
    <3>1. op'[d] = op[d] /\ (Calling(d)' => Calling(d))
      BY <1>7, <2>4 DEF Calling
    <3>2. Calling(d) => op[d].id # L /\ op[d].id \in Posted
      BY <1>1 DEF TInv, CallInv, L
    <3>3. Calling(d)' => \A e \in Callers : e # d /\ Calling(e)' => op'[e].id # op'[d].id
      BY <1>7, <2>2, <3>1, <3>2 DEF TInv, CallInv
    <3> QED BY <1>4, <1>5, <1>6, <1>8, <2>1, <3>1, <3>2, <3>3 DEF TInv, CallInv
  <2> QED BY <2>3, <2>4
<1>12. Indexed'
  BY <1>4, <1>6, <1>8 DEF TInv, Indexed
<1>13. Once'
  BY <1>5, <1>6 DEF TInv, Once, Contained
<1> QED BY <1>9, <1>10, <1>11, <1>12, <1>13 DEF TInv

\* What i_cancel leaves: some waiting tasks have moved to cancel_list_, and
\* none of the timer waits.
Taken(s, M) ==
  /\ M \subseteq waiting
  /\ waiting' = waiting \ M
  /\ cancel_list' = cancel_list \cup M
  /\ \A n \in waiting \ M : tasks[n].sid # s
  /\ sid_map' = [sid_map EXCEPT ![s] = None]
  /\ cancel_event' \in BOOLEAN

\* A waiting task of the timer is where sid_map_ leads.
LEMMA WaitingIsVictim ==
  ASSUME TInv, NEW n \in waiting
  PROVE  n \in Victims(tasks[n].sid) /\ sid_map[tasks[n].sid] # None
<1>1. tasks[n].timeout \in Times
  BY TaskFields DEF TInv, TypeOK
<1>2. tasks[n].timeout # None
  BY <1>1, NameAssumption, BoundAssumption DEF Times
<1> QED BY <1>2 DEF TInv, Indexed, Victims

LEMMA CancelTaskTakes ==
  ASSUME TInv, NEW s \in Sids, CancelTask(s)
  PROVE  \E M : Taken(s, M)
<1>1. CASE /\ sid_map[s] = None \/ Victims(s) = {}
           /\ UNCHANGED <<waiting, cancel_list, cancel_event>>
  <2>1. \A n \in waiting : tasks[n].sid # s
    BY <1>1, WaitingIsVictim
  <2>2. Taken(s, {})
    BY <1>1, <2>1 DEF CancelTask, Taken, TInv, TypeOK
  <2> QED BY <2>2
<1>2. CASE \E n \in Victims(s) : /\ waiting' = waiting \ {n}
                                 /\ cancel_list' = cancel_list \cup {n}
                                 /\ cancel_event' = TRUE
  <2>1. PICK n \in Victims(s) : /\ waiting' = waiting \ {n}
                                /\ cancel_list' = cancel_list \cup {n}
                                /\ cancel_event' = TRUE
    BY <1>2
  <2>2. n \in waiting /\ tasks[n].sid = s
    BY DEF Victims
  <2>3. \A m \in waiting \ {n} : tasks[m].sid # s
    BY <2>2 DEF TInv, Indexed
  <2>4. Taken(s, {n})
    BY <2>1, <2>2, <2>3 DEF CancelTask, Taken
  <2> QED BY <2>4
<1> QED BY <1>1, <1>2 DEF CancelTask

LEMMA CancelPendingTakes ==
  ASSUME TInv, NEW s \in Sids, CancelPending(s)
  PROVE  run_event' \in BOOLEAN /\ \E M : Taken(s, M)
<1>1. CASE sid_map[s] = None
  <2>1. \A n \in waiting : tasks[n].sid # s
    BY <1>1, WaitingIsVictim
  <2>2. sid_map' = [sid_map EXCEPT ![s] = None]
    BY <1>1 DEF CancelPending, TInv, TypeOK
  <2>3. Taken(s, {}) /\ run_event' \in BOOLEAN
    BY <1>1, <2>1, <2>2 DEF CancelPending, Taken, TInv, TypeOK
  <2> QED BY <2>3
<1>2. CASE sid_map[s] # None
  BY <1>2, CancelTaskTakes DEF CancelPending
<1> QED BY <1>1, <1>2

\* The containers after i_cancel.
LEMMA TakenKeeps ==
  ASSUME TInv, NEW s \in Sids, NEW M, Taken(s, M), UNCHANGED <<tmp_list, clist, tasks, answers>>
  PROVE  /\ waiting' \subseteq Posted' /\ cancel_list' \subseteq Posted'
         /\ sid_map' \in [Sids -> Times \cup {None}]
         /\ Contained' = Contained
         /\ Indexed' /\ Once'
<1>1. waiting' \subseteq Posted' /\ cancel_list' \subseteq Posted' /\ Posted' = Posted
  BY DEF Taken, TInv, TypeOK, Posted
<1>2. sid_map' \in [Sids -> Times \cup {None}]
  BY DEF Taken, TInv, TypeOK
<1>3. Contained' = Contained
  BY DEF Taken, Contained
<1>4. Indexed'
  <2> SUFFICES ASSUME NEW n \in waiting'
               PROVE  /\ sid_map'[tasks[n].sid] = tasks[n].timeout
                      /\ \A m \in waiting' : tasks[m].sid = tasks[n].sid => m = n
    BY DEF Indexed
  <2>1. n \in waiting /\ tasks[n].sid # s /\ waiting' \subseteq waiting
    BY DEF Taken
  <2>2. tasks[n].sid \in Sids
    BY <2>1, TaskFields DEF TInv, TypeOK
  <2>3. sid_map'[tasks[n].sid] = sid_map[tasks[n].sid]
    BY <2>1, <2>2 DEF Taken, TInv, TypeOK
  <2> QED BY <2>1, <2>3 DEF TInv, Indexed
<1>5. Once'
  <2> SUFFICES ASSUME NEW n \in Ids
               PROVE  /\ Len(answers[n]) <= 1
                      /\ n \in Contained' => answers[n] = <<>>
                      /\ n \in waiting' => n \notin cancel_list' \cup tmp_list \cup clist
                      /\ n \in cancel_list' => n \notin tmp_list \cup clist
                      /\ n \in tmp_list => n \notin clist
                      /\ n \notin Posted' => answers[n] = <<>>
    BY DEF Once
  <2> QED BY <1>1, <1>3 DEF Taken, TInv, Once
<1> QED BY <1>1, <1>2, <1>3, <1>4, <1>5

\* i_cancel as a part of DoCancel, or of Post.
LEMMA TakeStep ==
  ASSUME TInv, NEW c \in Callers, NEW o \in OpType, SetOp(c, o), NEW M, Taken(op[c].sid, M),
         {event', run_event'} \subseteq BOOLEAN,
         UNCHANGED <<now, flagVars, taskVars, cancelVars, tasks, answers>>,
         \/ op[c].pc = "cancel" /\ o.pc = "signal" /\ UNCHANGED mutex
         \/ /\ op[c].pc = "post" /\ o.pc = "insert" /\ o.id = op[c].id /\ o.sid = op[c].sid
            /\ mutex = None /\ mutex' = c
  PROVE  TInv'
<1>1. op[c].sid \in Sids
  BY DEF TInv, CallInv
<1>2. UNCHANGED <<now, run, exit, upc, tpc, tmp_time, tmp_list, until, cpc, clist, tasks, answers>>
  BY DEF flagVars, taskVars, cancelVars
<1>3. /\ waiting' \subseteq Posted' /\ cancel_list' \subseteq Posted'
      /\ sid_map' \in [Sids -> Times \cup {None}]
      /\ Contained' = Contained
      /\ Indexed' /\ Once'
  BY <1>1, <1>2, TakenKeeps
<1>4. /\ op' \in [Callers -> OpType]
      /\ op'[c] = o
      /\ \A d \in Callers : d # c => op'[d] = op[d]
  BY SetOpType DEF TInv
<1>5. TypeOK'
  <2>1. op' \in [Callers -> [pc : {"idle", "post", "insert", "cancel", "signal"},
                             id : 0 .. Len(tasks'), sid : Sids \cup {None}]]
    BY <1>2, <1>4 DEF OpType
  <2>2. Posted' = Posted
    BY <1>2 DEF Posted
  <2>3. mutex' \in Callers \cup {None} /\ cancel_event' \in BOOLEAN
    BY DEF TInv, TypeOK, Taken
  <2> QED BY <1>2, <1>3, <2>1, <2>2, <2>3 DEF TInv, TypeOK
<1>6. MutexInv'
  <2>1. None \notin Callers
    BY NameAssumption
  <2> QED BY <1>4, <2>1 DEF TInv, MutexInv
<1>7. CallInv'
  <2> SUFFICES ASSUME NEW d \in Callers
               PROVE  /\ op'[d].pc \in {"post", "insert", "cancel"} => op'[d].sid \in Sids
                      /\ Calling(d)' =>
                           /\ op'[d].id \in Posted'
                           /\ tasks'[op'[d].id].sid = op'[d].sid
                           /\ op'[d].id \notin Contained'
                           /\ answers'[op'[d].id] = <<>>
                           /\ \A e \in Callers : e # d /\ Calling(e)' => op'[e].id # op'[d].id
                      /\ op'[d].pc = "insert" => \A n \in waiting' : tasks'[n].sid # op'[d].sid
    BY DEF CallInv
  <2>1. \A e \in Callers : Calling(e)' => /\ Calling(e)
                                          /\ op'[e].id = op[e].id /\ op'[e].sid = op[e].sid
    BY <1>4 DEF Calling
  <2>2. Posted' = Posted
    BY <1>2 DEF Posted
  <2>3. op'[d].pc = "insert" => \A n \in waiting' : tasks'[n].sid # op'[d].sid
    <3>1. CASE d = c
      BY <1>2, <1>4, <3>1 DEF Taken
    <3>2. CASE d # c
      <4>1. op[d].pc = "insert" => mutex = d
        BY DEF TInv, MutexInv
      <4>2. waiting' \subseteq waiting
        BY DEF Taken
      <4> QED BY <1>2, <1>4, <3>2, <4>1, <4>2 DEF TInv, CallInv
    <3> QED BY <3>1, <3>2
  <2>4. op'[d].pc \in {"post", "insert", "cancel"} => op'[d].sid \in Sids
    BY <1>1, <1>4 DEF TInv, CallInv
  <2> QED BY <1>2, <1>3, <2>1, <2>2, <2>3, <2>4 DEF TInv, CallInv
<1> QED BY <1>3, <1>5, <1>6, <1>7 DEF TInv

LEMMA DoCancelKeeps ==
  ASSUME TInv, NEW c \in Callers, DoCancel(c), UNCHANGED callerFrame
  PROVE  TInv'
<1>1. op[c].sid \in Sids /\ op[c].pc = "cancel"
  BY DEF DoCancel, TInv, CallInv
<1>2. NoOp \in OpType /\ Signalling \in OpType /\ NoOp.pc = "idle" /\ Signalling.pc = "signal"
  BY PlainOps DEF TInv, NoOp, Signalling
<1>3. /\ UNCHANGED <<now, mutex, event, run_event, flagVars, taskVars, cancelVars, tasks, answers>>
      /\ {event', run_event'} \subseteq BOOLEAN
  BY DEF DoCancel, callerFrame, TInv, TypeOK
<1>4. CASE SetOp(c, NoOp) /\ UNCHANGED <<sid_map, waiting, cancel_list, cancel_event>>
  <2>1. UNCHANGED mapVars /\ {event', run_event', cancel_event'} \subseteq BOOLEAN
    BY <1>3, <1>4 DEF mapVars, TInv, TypeOK
  <2> QED BY <1>1, <1>2, <1>3, <1>4, <2>1, OnlyOp
<1>5. CASE CancelTask(op[c].sid) /\ SetOp(c, Signalling)
  <2>1. PICK M : Taken(op[c].sid, M)
    BY <1>1, <1>5, CancelTaskTakes
  <2> QED BY <1>1, <1>2, <1>3, <1>5, <2>1, TakeStep
<1> QED BY <1>4, <1>5 DEF DoCancel

LEMMA PostKeeps ==
  ASSUME TInv, NEW c \in Callers, Post(c), UNCHANGED callerFrame
  PROVE  TInv'
<1> DEFINE o == [op[c] EXCEPT !.pc = "insert"]
<1>1. op[c].sid \in Sids /\ op[c].pc = "post"
  BY DEF Post, TInv, CallInv
<1>2. /\ UNCHANGED <<now, event, flagVars, taskVars, cancelVars, tasks, answers>>
      /\ event' \in BOOLEAN
  BY DEF Post, callerFrame, TInv, TypeOK
<1>3. CASE SetOp(c, NoOp) /\ UNCHANGED <<mapVars, cancel_event, run_event>>
  <2>1. NoOp \in OpType /\ NoOp.pc = "idle"
    BY PlainOps DEF TInv, NoOp
  <2>2. {event', run_event', cancel_event'} \subseteq BOOLEAN
    BY <1>2, <1>3 DEF TInv, TypeOK
  <2> QED BY <1>1, <1>2, <1>3, <2>1, <2>2, OnlyOp
<1>4. CASE mutex = None /\ mutex' = c /\ CancelPending(op[c].sid) /\ SetOp(c, o)
  <2>1. PICK M : Taken(op[c].sid, M)
    BY <1>1, <1>4, CancelPendingTakes
  <2>2. {event', run_event'} \subseteq BOOLEAN
    BY <1>1, <1>2, <1>4, CancelPendingTakes
  <2>3. op[c] \in OpType
    BY OpFields DEF TInv
  <2>4. o \in OpType /\ o.pc = "insert" /\ o.id = op[c].id /\ o.sid = op[c].sid
    BY <2>3 DEF OpType
  <2> HIDE DEF o
  <2> QED BY <1>1, <1>2, <1>4, <2>1, <2>2, <2>4, TakeStep
<1> QED BY <1>3, <1>4 DEF Post

LEMMA InsertKeeps ==
  ASSUME TInv, NEW c \in Callers, Insert(c), UNCHANGED callerFrame
  PROVE  TInv'
<1> DEFINE n == op[c].id
           s == op[c].sid
           t == tasks[n].timeout
<1>1. op[c].pc = "insert" /\ Calling(c) /\ mutex = c
  BY DEF Insert, Calling, TInv, MutexInv
<1>2. /\ n \in Posted /\ tasks[n].sid = s /\ s \in Sids /\ n \notin Contained /\ answers[n] = <<>>
      /\ \A d \in Callers : d # c /\ Calling(d) => op[d].id # n
      /\ \A m \in waiting : tasks[m].sid # s
  BY <1>1 DEF TInv, CallInv
<1>3. t \in Times
  BY <1>2, TaskFields DEF TInv
<1>4. /\ sid_map' = [sid_map EXCEPT ![s] = t]
      /\ waiting' = waiting \cup {n}
      /\ event' = (event \/ Sooner(t))
      /\ mutex' = None
      /\ SetOp(c, Signalling)
      /\ UNCHANGED <<now, cancel_list, run_event, cancel_event, run, exit, upc, tpc, tmp_time,
                     tmp_list, until, cpc, clist, tasks, answers>>
  BY DEF Insert, callerFrame, flagVars, taskVars, cancelVars
<1>5. /\ op' \in [Callers -> OpType]
      /\ op'[c] = Signalling
      /\ \A d \in Callers : d # c => op'[d] = op[d]
  <2>1. Signalling \in OpType
    BY PlainOps DEF TInv
  <2> QED BY <1>4, <2>1, SetOpType DEF TInv
<1>6. Posted' = Posted
  BY <1>4 DEF Posted
<1> HIDE DEF n, s, t
<1>7. TypeOK'
  <2>1. op' \in [Callers -> [pc : {"idle", "post", "insert", "cancel", "signal"},
                             id : 0 .. Len(tasks'), sid : Sids \cup {None}]]
    BY <1>4, <1>5 DEF OpType
  <2>2. sid_map' \in [Sids -> Times \cup {None}]
    BY <1>3, <1>4 DEF TInv, TypeOK
  <2>3. event' \in BOOLEAN
    BY <1>4 DEF TInv, TypeOK, Sooner
  <2>4. waiting' \subseteq Posted
    BY <1>2, <1>4 DEF TInv, TypeOK
  <2> QED BY <1>4, <1>6, <2>1, <2>2, <2>3, <2>4 DEF TInv, TypeOK
<1>8. MutexInv'
  <2>1. None \notin Callers
    BY NameAssumption
  <2> QED BY <1>1, <1>4, <1>5, <2>1 DEF TInv, MutexInv, Signalling
<1>9. Contained' = Contained \cup {n}
  BY <1>4 DEF Contained
<1>10. CallInv'
  <2>1. \A d \in Callers : Calling(d)' => d # c /\ Calling(d) /\ op[d].id # n
    BY <1>2, <1>5 DEF Calling, Signalling
  <2>2. \A d \in Callers : op'[d].pc # "insert"
    BY <1>1, <1>5 DEF Signalling, TInv, MutexInv
  <2>3. \A d \in Callers : op'[d].pc \in {"post", "insert", "cancel"} => op'[d].sid \in Sids
    BY <1>5 DEF Signalling, TInv, CallInv
  <2> SUFFICES ASSUME NEW d \in Callers, Calling(d)'
               PROVE  /\ op'[d].id \in Posted'
                      /\ tasks'[op'[d].id].sid = op'[d].sid
                      /\ op'[d].id \notin Contained'
                      /\ answers'[op'[d].id] = <<>>
                      /\ \A e \in Callers : e # d /\ Calling(e)' => op'[e].id # op'[d].id
    BY <2>2, <2>3 DEF CallInv
  <2> QED BY <1>4, <1>5, <1>6, <1>9, <2>1 DEF TInv, CallInv
<1>11. Indexed'
  <2> SUFFICES ASSUME NEW k \in waiting'
               PROVE  /\ sid_map'[tasks[k].sid] = tasks[k].timeout
                      /\ \A m \in waiting' : tasks[m].sid = tasks[k].sid => m = k
    BY <1>4 DEF Indexed
  <2>1. CASE k = n
    BY <1>2, <1>4, <2>1 DEF TInv, TypeOK, t
  <2>2. CASE k \in waiting
    <3>1. tasks[k].sid \in Sids /\ tasks[k].sid # s
      BY <1>2, <2>2, TaskFields DEF TInv, TypeOK
    <3>2. sid_map'[tasks[k].sid] = sid_map[tasks[k].sid]
      BY <1>4, <3>1 DEF TInv, TypeOK
    <3> QED BY <1>2, <1>4, <2>2, <3>1, <3>2 DEF TInv, Indexed
  <2> QED BY <1>4, <2>1, <2>2
<1>12. Once'
  <2> SUFFICES ASSUME NEW k \in Ids
               PROVE  /\ Len(answers[k]) <= 1
                      /\ k \in Contained' => answers[k] = <<>>
                      /\ k \in waiting' => k \notin cancel_list \cup tmp_list \cup clist
                      /\ k \in cancel_list => k \notin tmp_list \cup clist
                      /\ k \in tmp_list => k \notin clist
                      /\ k \notin Posted' => answers[k] = <<>>
    BY <1>4 DEF Once
  <2>1. n \notin cancel_list \cup tmp_list \cup clist
    BY <1>2 DEF Contained
  <2> QED BY <1>2, <1>4, <1>6, <1>9, <2>1 DEF TInv, Once
<1> QED BY <1>7, <1>8, <1>10, <1>11, <1>12 DEF TInv
-----------------------------------------------------------------------------
(* The two threads and uninit take tasks out of the containers.            *)

\* Tasks move on or are dropped; none enters waiting, and none is answered.
LEMMA FewerHeld ==
  ASSUME TInv, Contained' \subseteq Contained, waiting' \subseteq waiting,
         UNCHANGED <<mutex, op, tasks, answers>>
  PROVE  MutexInv' /\ CallInv'
<1>1. MutexInv'
  BY DEF TInv, MutexInv
<1>2. \A c \in Callers : Calling(c)' <=> Calling(c)
  BY DEF Calling
<1>3. CallInv'
  BY <1>2 DEF TInv, CallInv, Posted
<1> QED BY <1>1, <1>3

LEMMA TaskGrabKeeps ==
  ASSUME TInv, TaskGrab, UNCHANGED taskFrame
  PROVE  TInv'
<1>1. /\ tpc' = "call"
      /\ tmp_list' = {n \in waiting : tasks[n].timeout = tmp_time}
      /\ waiting' = waiting \ tmp_list'
      /\ UNCHANGED <<now, mutex, sid_map, cancel_list, event, run_event, cancel_event, run, exit,
                     upc, tmp_time, until, cpc, clist, op, tasks, answers>>
  BY DEF TaskGrab, EraseDue, taskFrame, flagVars, cancelVars, callVars
<1>2. waiting' \subseteq waiting /\ tmp_list' \subseteq waiting
  BY <1>1
<1>3. TypeOK'
  BY <1>1, <1>2 DEF TInv, TypeOK, Posted
<1>4. Contained' \subseteq Contained
  BY <1>1, <1>2 DEF Contained
<1>5. Indexed'
  BY <1>1, <1>2 DEF TInv, Indexed
<1>6. Once'
  <2> SUFFICES ASSUME NEW n \in Ids
               PROVE  /\ Len(answers[n]) <= 1
                      /\ n \in Contained' => answers[n] = <<>>
                      /\ n \in waiting' => n \notin cancel_list \cup tmp_list' \cup clist
                      /\ n \in cancel_list => n \notin tmp_list' \cup clist
                      /\ n \in tmp_list' => n \notin clist
                      /\ n \notin Posted' => answers[n] = <<>>
    BY <1>1 DEF Once
  <2>1. Posted' = Posted
    BY <1>1 DEF Posted
  <2> QED BY <1>1, <1>2, <1>4, <2>1 DEF TInv, Once
<1> QED BY <1>1, <1>2, <1>3, <1>4, <1>5, <1>6, FewerHeld DEF TInv

LEMMA CancelGrabKeeps ==
  ASSUME TInv, CancelGrab, UNCHANGED cancelFrame
  PROVE  TInv'
<1>1. /\ cpc' \in {"done", "call"}
      /\ clist' \subseteq clist \cup cancel_list /\ cancel_list' \subseteq cancel_list
      /\ clist' \cap cancel_list' \subseteq clist
      /\ UNCHANGED <<now, mutex, sid_map, waiting, event, run_event, cancel_event, run, exit,
                     upc, tpc, tmp_time, tmp_list, until, op, tasks, answers>>
  BY DEF CancelGrab, ClearCancelled, cancelFrame, flagVars, taskVars, callVars
<1>2. TypeOK'
  BY <1>1 DEF TInv, TypeOK, Posted
<1>3. Contained' \subseteq Contained
  BY <1>1 DEF Contained
<1>4. Indexed'
  BY <1>1 DEF TInv, Indexed
<1>5. Once'
  <2> SUFFICES ASSUME NEW n \in Ids
               PROVE  /\ Len(answers[n]) <= 1
                      /\ n \in Contained' => answers[n] = <<>>
                      /\ n \in waiting => n \notin cancel_list' \cup tmp_list \cup clist'
                      /\ n \in cancel_list' => n \notin tmp_list \cup clist'
                      /\ n \in tmp_list => n \notin clist'
                      /\ n \notin Posted' => answers[n] = <<>>
    BY <1>1 DEF Once
  <2>1. Posted' = Posted
    BY <1>1 DEF Posted
  <2> QED BY <1>1, <1>3, <2>1 DEF TInv, Once
<1> QED BY <1>1, <1>2, <1>3, <1>4, <1>5, FewerHeld DEF TInv

LEMMA UninitClearKeeps ==
  ASSUME TInv, UninitClear, UNCHANGED uninitFrame
  PROVE  TInv'
<1>1. /\ upc' = "set" /\ exit' = TRUE
      /\ sid_map' = [s \in Sids |-> None]
      /\ waiting' = {} /\ cancel_list' = {}
      /\ UNCHANGED <<now, mutex, event, run_event, cancel_event, run, tpc, tmp_time, tmp_list,
                     until, cpc, clist, op, tasks, answers>>
  BY DEF UninitClear, uninitFrame, eventVars, taskVars, cancelVars, callVars
<1>2. TypeOK'
  BY <1>1 DEF TInv, TypeOK, Posted
<1>3. Contained' \subseteq Contained
  BY <1>1 DEF Contained
<1>4. Indexed' /\ Once'
  BY <1>1, <1>3 DEF TInv, Indexed, Once, Posted
<1> QED BY <1>1, <1>2, <1>3, <1>4, FewerHeld DEF TInv

\* A callback: the task leaves the list of the thread that makes it.
Answer(n, x) ==
  /\ answers' = [answers EXCEPT ![n] = Append(@, x)]
  /\ Contained' = Contained \ {n}
  /\ UNCHANGED <<mutex, sid_map, waiting, cancel_list, op, tasks>>

LEMMA AnswerKeeps ==
  ASSUME TInv, NEW n \in Contained, NEW x \in {"ok", "cancelled"}, Answer(n, x),
         tmp_list' \subseteq tmp_list, clist' \subseteq clist
  PROVE  /\ answers' \in [Ids -> Seq({"ok", "cancelled"})]
         /\ MutexInv' /\ CallInv' /\ Indexed' /\ Once'
<1>1. n \in Posted /\ n \in Ids
  <2>1. n \in Posted
    BY DEF Contained, TInv, TypeOK
  <2> QED BY <2>1, TaskFields DEF TInv
<1>2. answers[n] = <<>> /\ answers \in [Ids -> Seq({"ok", "cancelled"})]
  BY <1>1 DEF TInv, Once, TypeOK
<1>3. Append(answers[n], x) \in Seq({"ok", "cancelled"}) /\ Len(Append(answers[n], x)) = 1
  BY <1>2
<1>4. answers' \in [Ids -> Seq({"ok", "cancelled"})]
  BY <1>2, <1>3 DEF Answer
<1>5. /\ answers'[n] = Append(answers[n], x)
      /\ \A m \in Ids : m # n => answers'[m] = answers[m]
  BY <1>1, <1>2 DEF Answer
<1>6. MutexInv' /\ Indexed'
  BY DEF Answer, TInv, MutexInv, Indexed
<1>7. CallInv'
  <2> SUFFICES ASSUME NEW c \in Callers
               PROVE  /\ op[c].pc \in {"post", "insert", "cancel"} => op[c].sid \in Sids
                      /\ Calling(c) =>
                           /\ op[c].id \in Posted
                           /\ tasks[op[c].id].sid = op[c].sid
                           /\ op[c].id \notin Contained'
                           /\ answers'[op[c].id] = <<>>
                           /\ \A d \in Callers : d # c /\ Calling(d) => op[d].id # op[c].id
                      /\ op[c].pc = "insert" => \A k \in waiting : tasks[k].sid # op[c].sid
    BY DEF CallInv, Calling, Posted, Answer
  <2>1. Calling(c) => op[c].id \in Posted /\ op[c].id # n /\ op[c].id \in Ids
    BY TaskFields DEF TInv, CallInv
  <2> QED BY <1>5, <2>1 DEF Answer, TInv, CallInv
<1>8. Once'
  <2> SUFFICES ASSUME NEW k \in Ids
               PROVE  /\ Len(answers'[k]) <= 1
                      /\ k \in Contained' => answers'[k] = <<>>
                      /\ k \in waiting => k \notin cancel_list \cup tmp_list' \cup clist'
                      /\ k \in cancel_list => k \notin tmp_list' \cup clist'
                      /\ k \in tmp_list' => k \notin clist'
                      /\ k \notin Posted => answers'[k] = <<>>
    BY DEF Once, Answer, Posted
  <2>1. CASE k = n
    BY <1>1, <1>3, <1>5, <2>1 DEF Answer, TInv, Once
  <2>2. CASE k # n
    BY <1>5, <2>2 DEF Answer, TInv, Once
  <2> QED BY <2>1, <2>2
<1> QED BY <1>4, <1>6, <1>7, <1>8

LEMMA TaskCallKeeps ==
  ASSUME TInv, TaskCall, UNCHANGED taskFrame
  PROVE  TInv'
<1>1. /\ UNCHANGED <<now, mutex, sid_map, waiting, cancel_list, event, run_event, cancel_event,
                     run, exit, upc, until, cpc, clist, op, tasks>>
      /\ tpc' \in {"check", "callback"}
      /\ tmp_time' \in {tmp_time, None}
  BY DEF TaskCall, taskFrame, flagVars, cancelVars, callVars
<1>2. CASE UNCHANGED <<tmp_list, answers>>
  <2>1. UNCHANGED heldVars
    BY <1>1, <1>2 DEF heldVars
  <2>2. TypeOK'
    BY <1>1, <1>2 DEF TInv, TypeOK, Posted
  <2> QED BY <2>1, <2>2, SameHeld DEF TInv
<1>3. CASE \E n \in tmp_list : /\ tmp_list' = tmp_list \ {n}
                               /\ answers' = [answers EXCEPT ![n] = Append(@, "ok")]
  <2>1. PICK n \in tmp_list : /\ tmp_list' = tmp_list \ {n}
                              /\ answers' = [answers EXCEPT ![n] = Append(@, "ok")]
    BY <1>3
  <2>2. n \in Contained /\ n \in Ids
    BY TaskFields DEF Contained, TInv, TypeOK
  <2>3. n \notin waiting /\ n \notin cancel_list /\ n \notin clist
    BY <2>1, <2>2 DEF TInv, Once
  <2>4. Contained' = Contained \ {n}
    BY <1>1, <2>1, <2>3 DEF Contained
  <2>5. Answer(n, "ok")
    BY <1>1, <2>1, <2>4 DEF Answer
  <2>6. /\ answers' \in [Ids -> Seq({"ok", "cancelled"})]
        /\ MutexInv' /\ CallInv' /\ Indexed' /\ Once'
    BY <1>1, <2>1, <2>2, <2>5, AnswerKeeps
  <2>7. TypeOK'
    BY <1>1, <2>1, <2>6 DEF TInv, TypeOK, Posted
  <2> QED BY <2>6, <2>7 DEF TInv
<1> QED BY <1>2, <1>3 DEF TaskCall

LEMMA CancelCallKeeps ==
  ASSUME TInv, CancelCall, UNCHANGED cancelFrame
  PROVE  TInv'
<1>1. /\ UNCHANGED <<now, mutex, sid_map, waiting, cancel_list, event, run_event, cancel_event,
                     run, exit, upc, tpc, tmp_time, tmp_list, until, op, tasks>>
      /\ cpc' \in {cpc, "check"}
  BY DEF CancelCall, cancelFrame, flagVars, taskVars, callVars
<1>2. CASE UNCHANGED <<clist, answers>>
  <2>1. UNCHANGED heldVars
    BY <1>1, <1>2 DEF heldVars
  <2>2. TypeOK'
    BY <1>1, <1>2 DEF TInv, TypeOK, Posted
  <2> QED BY <2>1, <2>2, SameHeld DEF TInv
<1>3. CASE \E n \in clist : /\ clist' = clist \ {n}
                            /\ answers' = [answers EXCEPT ![n] = Append(@, "cancelled")]
  <2>1. PICK n \in clist : /\ clist' = clist \ {n}
                           /\ answers' = [answers EXCEPT ![n] = Append(@, "cancelled")]
    BY <1>3
  <2>2. n \in Contained /\ n \in Ids
    BY TaskFields DEF Contained, TInv, TypeOK
  <2>3. n \notin waiting /\ n \notin cancel_list /\ n \notin tmp_list
    BY <2>1, <2>2 DEF TInv, Once
  <2>4. Contained' = Contained \ {n}
    BY <1>1, <2>1, <2>3 DEF Contained
  <2>5. Answer(n, "cancelled")
    BY <1>1, <2>1, <2>4 DEF Answer
  <2>6. /\ answers' \in [Ids -> Seq({"ok", "cancelled"})]
        /\ MutexInv' /\ CallInv' /\ Indexed' /\ Once'
    BY <1>1, <2>1, <2>2, <2>5, AnswerKeeps
  <2>7. TypeOK'
    BY <1>1, <2>1, <2>6 DEF TInv, TypeOK, Posted
  <2> QED BY <2>6, <2>7 DEF TInv
<1> QED BY <1>2, <1>3 DEF CancelCall
-----------------------------------------------------------------------------
LEMMA TimerNext == TInv /\ [Next]_vars => TInv'
<1> SUFFICES ASSUME TInv, [Next]_vars PROVE TInv'
  OBVIOUS
<1>1. ASSUME NEW c \in Callers, NEW s \in Sids, Cancel(c, s), UNCHANGED callerFrame
      PROVE  TInv'
  BY <1>1, CancelKeeps
<1>2. ASSUME NEW c \in Callers, NEW s \in Sids, NEW ms \in Delays, Wait(c, s, ms),
             UNCHANGED callerFrame
      PROVE  TInv'
  BY <1>2, WaitKeeps
<1>3. ASSUME NEW c \in Callers, CallerStep(c) PROVE TInv'
  BY <1>3, PostKeeps, InsertKeeps, DoCancelKeeps, SignalKeeps DEF CallerStep
<1>4. CASE TaskStep
  BY <1>4, TaskQuiet, TaskGrabKeeps, TaskCallKeeps DEF TaskStep
<1>5. CASE CancelStep
  BY <1>5, CancelQuiet, CancelGrabKeeps, CancelCallKeeps DEF CancelStep
<1>6. CASE Uninit /\ UNCHANGED uninitFrame
  BY <1>6, FlagsQuiet
<1>7. CASE UninitStep
  BY <1>7, UninitClearKeeps, FlagsQuiet DEF UninitStep
<1>8. CASE Tick \/ UNCHANGED vars
  BY <1>8, FlagsQuiet
<1> QED BY <1>1, <1>2, <1>3, <1>4, <1>5, <1>6, <1>7, <1>8 DEF Next

\* TInv holds in every reachable state.
LEMMA TimerInvariant == Spec => []TInv
<1> QED BY TimerInit, TimerNext, PTL DEF Spec

\* The variables of timer_impl.hpp keep their types, whatever the delays.
THEOREM TimerTypes == Spec => []TypeOK
<1>1. TInv => TypeOK
  BY DEF TInv
<1> QED BY <1>1, TimerInvariant, PTL

\* sid_map_ and time_wait_map_ agree: timer_impl.hpp:200-252.
THEOREM MapsAgree == Spec => []Indexed
<1>1. TInv => Indexed
  BY DEF TInv
<1> QED BY <1>1, TimerInvariant, PTL

\* A task in one place of four: the cardinality that AtMostOnce counts.
LEMMA OnePlace ==
  ASSUME NEW I, I \subseteq 1 .. 4, \A i, j \in I : i = j
  PROVE  Cardinality(I) \in {0, 1} /\ (I = {} => Cardinality(I) = 0)
<1>1. CASE I = {}
  BY <1>1, FS_EmptySet
<1>2. CASE I # {}
  <2>1. PICK i \in I : I = {i}
    BY <1>2
  <2> QED BY <1>2, <2>1, FS_Singleton
<1> QED BY <1>1, <1>2

\* Each call of wait is answered at most once, by one thread: timer_impl.hpp:224-326.
THEOREM AnsweredOnce == Spec => []AtMostOnce
<1>1. ASSUME TInv PROVE AtMostOnce
  <2> SUFFICES ASSUME NEW n \in Posted
               PROVE  Len(answers[n])
                        + Cardinality({i \in 1 .. 4 :
                                         n \in <<waiting, cancel_list, tmp_list, clist>>[i]}) <= 1
    BY DEF AtMostOnce
  <2> DEFINE place == <<waiting, cancel_list, tmp_list, clist>>
             I == {i \in 1 .. 4 : n \in place[i]}
  <2>1. n \in Ids /\ answers[n] \in Seq({"ok", "cancelled"}) /\ Len(answers[n]) \in Nat
    BY <1>1, TaskFields DEF TInv, TypeOK
  <2>2. place[1] = waiting /\ place[2] = cancel_list /\ place[3] = tmp_list /\ place[4] = clist
    OBVIOUS
  <2>3. 1 .. 4 = {1, 2, 3, 4}
    OBVIOUS
  <2> HIDE DEF place
  <2>4. \A i, j \in I : i = j
    BY <1>1, <2>1, <2>2, <2>3 DEF TInv, Once
  <2>5. Cardinality(I) \in {0, 1} /\ (I = {} => Cardinality(I) = 0)
    BY <2>4, OnePlace
  <2>6. CASE I = {}
    BY <1>1, <2>1, <2>5, <2>6 DEF TInv, Once, place
  <2>7. CASE I # {}
    <3>1. n \in Contained
      BY <2>2, <2>3, <2>7 DEF Contained
    <3>2. Len(answers[n]) = 0
      BY <1>1, <2>1, <3>1 DEF TInv, Once
    <3> QED BY <2>5, <3>2 DEF place
  <2> QED BY <2>6, <2>7
<1> QED BY <1>1, TimerInvariant, PTL

\* cancel leaves no waiting task of its timer: timer_impl.hpp:224-249.
THEOREM CancelLeavesNone == Spec => CancelTakes
<1>1. ASSUME TInv, [Next]_vars, NEW c \in Callers, op[c].pc = "cancel", op'[c].pc = "signal"
      PROVE  \A n \in waiting' : tasks[n].sid # op[c].sid
  <2>1. op \in [Callers -> OpType]
    BY <1>1 DEF TInv, TypeOK, OpType
  <2>2. ASSUME NEW d \in Callers, NEW o, SetOp(d, o)
        PROVE  d = c /\ o.pc = "signal"
    BY <1>1, <2>1, <2>2 DEF SetOp
  <2>3. op' # op
    BY <1>1
  <2>4. ASSUME NEW d \in Callers, NEW s \in Sids, Cancel(d, s) \/ \E ms \in Delays : Wait(d, s, ms)
        PROVE  FALSE
    BY <1>1, <2>2, <2>4 DEF Cancel, Wait, MayCall
  <2>5. ~TaskStep /\ ~CancelStep
    BY <2>3 DEF TaskStep, CancelStep, taskFrame, cancelFrame, callVars
  <2>6. ~(Uninit /\ UNCHANGED uninitFrame) /\ ~UninitStep /\ ~Tick /\ ~UNCHANGED vars
    BY <2>3 DEF UninitStep, uninitFrame, Tick, vars, callVars
  <2>7. PICK d \in Callers : CallerStep(d)
    BY <1>1, <2>4, <2>5, <2>6 DEF Next
  <2>8. ~Insert(d) /\ ~Signal(d) /\ ~Post(d)
    <3>1. ~Insert(d) /\ ~Signal(d)
      BY <1>1, <2>2 DEF Insert, Signal
    <3>2. ~Post(d)
      BY <1>1, <2>2 DEF Post
    <3> QED BY <3>1, <3>2
  <2>9. DoCancel(d)
    BY <2>7, <2>8 DEF CallerStep
  <2>10. d = c /\ CancelTask(op[c].sid) /\ tasks' = tasks
    BY <2>2, <2>9 DEF DoCancel, NoOp
  <2>11. op[c].sid \in Sids
    BY <1>1 DEF TInv, CallInv
  <2>12. PICK M : Taken(op[c].sid, M)
    BY <1>1, <2>10, <2>11, CancelTaskTakes
  <2> QED BY <2>10, <2>12 DEF Taken
<1>2. TInv /\ [Next]_vars =>
        [\A c \in Callers : op[c].pc = "cancel" /\ op'[c].pc = "signal" =>
           \A n \in waiting' : tasks[n].sid # op[c].sid]_vars
  BY <1>1
<1> QED BY <1>2, TimerInvariant, PTL DEF Spec, CancelTakes
-----------------------------------------------------------------------------
(* uninit.                                                                 *)

\* Once uninit has returned both threads have ended.
UninitInv == upc = "returned" => tpc = "done" /\ cpc = "done"

LEMMA UninitNext == UninitInv /\ [Next]_vars => UninitInv'
<1> SUFFICES ASSUME UninitInv, [Next]_vars PROVE UninitInv'
  OBVIOUS
<1>1. CASE \E c \in Callers, s \in Sids :
             (Cancel(c, s) \/ \E ms \in Delays : Wait(c, s, ms)) /\ UNCHANGED callerFrame
  BY <1>1 DEF callerFrame, flagVars, taskVars, cancelVars, UninitInv
<1>2. CASE \E c \in Callers : CallerStep(c)
  BY <1>2 DEF CallerStep, callerFrame, flagVars, taskVars, cancelVars, UninitInv
<1>3. CASE TaskStep
  BY <1>3 DEF TaskStep, TaskHead, TaskWoken, TaskTimeout, TaskGrab, TaskCall, TaskReturn,
              TaskCheck, TaskUnpark, taskFrame, flagVars, cancelVars, UninitInv
<1>4. CASE CancelStep
  BY <1>4 DEF CancelStep, CancelGrab, CancelCall, CancelCheck, CancelUnpark, cancelFrame,
              flagVars, taskVars, UninitInv
<1>5. CASE Uninit \/ UninitStep
  BY <1>5 DEF Uninit, UninitStep, UninitClear, UninitSet, UninitJoin, JoinedBoth, uninitFrame,
              taskVars, cancelVars, UninitInv
<1>6. CASE Tick \/ UNCHANGED vars
  BY <1>6 DEF Tick, vars, flagVars, taskVars, cancelVars, UninitInv
<1> QED BY <1>1, <1>2, <1>3, <1>4, <1>5, <1>6 DEF Next

\* After uninit no callback is made: timer_impl.hpp:184-185.
THEOREM UninitSilences == Spec => SilentAfterUninit
<1>1. Init => UninitInv
  BY DEF Init, UninitInv
<1>2. ASSUME UninitInv, [Next]_vars, upc = "returned"
      PROVE  UNCHANGED answers
  <2>1. tpc = "done" /\ cpc = "done"
    BY <1>2 DEF UninitInv
  <2>2. CASE \E c \in Callers, s \in Sids :
               (Cancel(c, s) \/ \E ms \in Delays : Wait(c, s, ms)) /\ UNCHANGED callerFrame
    BY <2>2 DEF callerFrame
  <2>3. CASE (\E c \in Callers : CallerStep(c)) \/ UninitStep \/ Tick \/ UNCHANGED vars
    BY <2>3 DEF CallerStep, callerFrame, UninitStep, uninitFrame, Tick, vars
  <2>4. CASE TaskStep
    BY <2>1, <2>4 DEF TaskStep, TaskHead, TaskWoken, TaskTimeout, TaskGrab, TaskCall, TaskReturn,
                      TaskCheck, TaskUnpark
  <2>5. CASE CancelStep
    BY <2>1, <2>5 DEF CancelStep, CancelGrab, CancelCall, CancelCheck, CancelUnpark
  <2>6. CASE Uninit
    BY <1>2, <2>6 DEF Uninit
  <2> QED BY <1>2, <2>2, <2>3, <2>4, <2>5, <2>6 DEF Next
<1>3. UninitInv /\ [Next]_vars => [upc = "returned" => UNCHANGED answers]_vars
  BY <1>2
<1> QED BY <1>1, <1>3, UninitNext, PTL DEF Spec, SilentAfterUninit
-----------------------------------------------------------------------------
(* Deadlines.                                                              *)

\* What was taken from time_wait_map_ as due, or answered as due, is.
DueTask(n) == n \in Posted /\ tasks[n].timeout <= now

\* The task thread sleeps at least until its key.
DueInv ==
  /\ tpc = "wait" => tmp_time \in Times /\ tmp_time <= until
  /\ tpc = "grab" => tmp_time \in Times /\ tmp_time <= now
  /\ \A n \in tmp_list : DueTask(n)
  /\ \A n \in Ids : \A i \in DOMAIN answers[n] : answers[n][i] = "ok" => DueTask(n)

\* A task that is due stays so: the clock and the list of tasks only grow.
LEMMA DueStays ==
  ASSUME TInv, TInv', [Next]_vars
  PROVE  now <= now' /\ \A n \in Posted : DueTask(n) => DueTask(n)'
<1>1. now \in Nat /\ now' \in Nat
  BY BoundAssumption DEF TInv, TypeOK, Times
<1>2. now <= now'
  <2>1. now' = now \/ now' = now + 1
    BY DEF Next, callerFrame, CallerStep, TaskStep, taskFrame, CancelStep, cancelFrame, UninitStep,
           uninitFrame, Tick, vars
  <2> QED BY <1>1, <2>1
<1>3. tasks' = tasks \/ \E t \in Tasks : tasks' = Append(tasks, t)
  <2>1. ASSUME NEW c \in Callers, NEW s \in Sids, NEW ms \in Delays, Wait(c, s, ms)
        PROVE  \E t \in Tasks : tasks' = Append(tasks, t)
    <3>1. now + ms \in Times
      BY <1>1, <2>1, BoundAssumption DEF Wait, Times
    <3>2. [sid |-> s, timeout |-> now + ms] \in Tasks
      BY <3>1 DEF Tasks
    <3> QED BY <2>1, <3>2 DEF Wait
  <2>2. ASSUME NEW c \in Callers, CallerStep(c) PROVE tasks' = tasks
    BY <2>2 DEF CallerStep, Post, Insert, DoCancel, Signal
  <2>3. ASSUME NEW c \in Callers, NEW s \in Sids, Cancel(c, s) PROVE tasks' = tasks
    BY <2>3 DEF Cancel
  <2>4. TaskStep \/ CancelStep \/ UninitStep \/ (Uninit /\ UNCHANGED uninitFrame) \/ Tick
          \/ UNCHANGED vars => tasks' = tasks
    BY DEF TaskStep, taskFrame, CancelStep, cancelFrame, UninitStep, uninitFrame, Tick, vars,
           callVars
  <2> QED BY <2>1, <2>2, <2>3, <2>4 DEF Next
<1>4. \A n \in Posted : n \in Posted' /\ tasks'[n] = tasks[n]
  <2>1. tasks \in Seq(Tasks) /\ Len(tasks) \in Nat
    BY DEF TInv, TypeOK
  <2>2. CASE tasks' = tasks
    BY <2>2 DEF Posted
  <2>3. CASE \E t \in Tasks : tasks' = Append(tasks, t)
    BY <2>1, <2>3, AppendProperties DEF Posted
  <2> QED BY <1>3, <2>2, <2>3
<1>5. \A n \in Posted : tasks[n].timeout \in Nat
  BY TaskFields, BoundAssumption DEF TInv, Times
<1> QED BY <1>1, <1>2, <1>4, <1>5 DEF DueTask

\* A sleep for the key t that is no longer than an int can say ends no earlier.
LEMMA DiffReaches ==
  ASSUME MaxTime <= IntMax, now \in Times, NEW t \in Times
  PROVE  t <= now + Diff(t)
<1>1. now \in Nat /\ t \in Nat /\ now <= IntMax /\ t <= IntMax /\ IntMax \in Nat
  BY BoundAssumption DEF Times
<1>2. ToInt(t - now) = t - now
  BY <1>1, ToIntExact
<1> QED BY <1>1, <1>2 DEF Diff

LEMMA DueNext ==
  ASSUME MaxTime <= IntMax, TInv, TInv', DueInv, [Next]_vars
  PROVE  DueInv'
<1>1. now <= now' /\ \A n \in Posted : DueTask(n) => DueTask(n)'
  BY DueStays
<1>2. now \in Times /\ now' \in Times /\ now \in Nat /\ now' \in Nat
  BY BoundAssumption DEF TInv, TypeOK, Times
<1>3. /\ \A n \in tmp_list : DueTask(n)'
      /\ \A n \in Ids : \A i \in DOMAIN answers[n] : answers[n][i] = "ok" => DueTask(n)'
  BY <1>1 DEF DueInv, DueTask
<1>4. CASE UNCHANGED <<taskVars, answers>>
  <2>1. UNCHANGED <<tpc, tmp_time, tmp_list, until, answers>>
    BY <1>4 DEF taskVars
  <2>2. tpc = "grab" => tmp_time <= now'
    BY <1>1, <1>2, BoundAssumption DEF DueInv, Times
  <2> QED BY <1>3, <2>1, <2>2 DEF DueInv
<1>5. CASE TaskStep
  <2>1. UNCHANGED <<now, tasks>>
    BY <1>5 DEF TaskStep, taskFrame, callVars
  <2>2. CASE TaskHead
    <3>1. tmp_list' = tmp_list /\ answers' = answers
      BY <2>2 DEF TaskHead
    <3>2. CASE \E t \in Keys : tmp_time' = t /\ until' = now + Diff(t) /\ tpc' = "wait"
      <4>1. PICK t \in Keys : tmp_time' = t /\ until' = now + Diff(t) /\ tpc' = "wait"
        BY <3>2
      <4>2. t \in Times
        BY KeysAreTimes DEF TInv
      <4> QED BY <1>2, <1>3, <3>1, <4>1, <4>2, DiffReaches DEF DueInv
    <3>3. CASE tpc' \in {"done", "check"}
      BY <1>3, <3>1, <3>3 DEF DueInv
    <3> QED BY <2>2, <3>2, <3>3 DEF TaskHead
  <2>3. CASE TaskTimeout
    <3>1. /\ tpc = "wait" /\ now >= until /\ tpc' = "grab"
          /\ UNCHANGED <<tmp_time, tmp_list, answers>>
      BY <2>3 DEF TaskTimeout
    <3>2. tmp_time \in Times /\ tmp_time <= now
      BY <1>2, <3>1, BoundAssumption DEF DueInv, TInv, TypeOK, Times
    <3> QED BY <1>3, <2>1, <3>1, <3>2 DEF DueInv
  <2>4. CASE TaskGrab
    <3>1. /\ tpc = "grab" /\ tpc' = "call" /\ answers' = answers
          /\ tmp_list' = {n \in waiting : tasks[n].timeout = tmp_time}
      BY <2>4 DEF TaskGrab
    <3>2. \A n \in tmp_list' : DueTask(n)
      BY <3>1 DEF DueInv, DueTask, TInv, TypeOK
    <3> QED BY <1>1, <1>3, <3>1, <3>2 DEF DueInv, DueTask
  <2>5. CASE TaskCall
    <3>1. tpc' \notin {"wait", "grab"} /\ tmp_list' \subseteq tmp_list
      BY <2>5 DEF TaskCall
    <3>2. \A n \in Ids : \A i \in DOMAIN answers'[n] : answers'[n][i] = "ok" => DueTask(n)'
      <4>1. CASE answers' = answers
        BY <1>3, <4>1
      <4>2. CASE \E m \in tmp_list : answers' = [answers EXCEPT ![m] = Append(@, "ok")]
        <5>1. PICK m \in tmp_list : answers' = [answers EXCEPT ![m] = Append(@, "ok")]
          BY <4>2
        <5>2. DueTask(m)'
          BY <1>3
        <5>3. \A n \in Ids : n # m => answers'[n] = answers[n]
          BY <5>1 DEF TInv, TypeOK
        <5> QED BY <1>3, <5>2, <5>3
      <4> QED BY <2>5, <4>1, <4>2 DEF TaskCall
    <3> QED BY <1>3, <3>1, <3>2 DEF DueInv
  <2>6. CASE TaskWoken \/ TaskReturn \/ TaskCheck \/ TaskUnpark
    <3>1. tpc' \notin {"wait", "grab"} /\ tmp_list' = tmp_list /\ answers' = answers
      BY <2>6 DEF TaskWoken, TaskReturn, TaskCheck, TaskUnpark
    <3> QED BY <1>3, <3>1 DEF DueInv
  <2> QED BY <1>5, <2>2, <2>3, <2>4, <2>5, <2>6 DEF TaskStep
<1>6. CASE CancelStep
  <2>1. UNCHANGED <<now, tpc, tmp_time, tmp_list, until, tasks>>
    BY <1>6 DEF CancelStep, cancelFrame, taskVars, callVars
  <2>2. \A n \in Ids : \A i \in DOMAIN answers'[n] : answers'[n][i] = "ok" => DueTask(n)'
    <3>1. CASE answers' = answers
      BY <1>3, <3>1
    <3>2. CASE \E m \in clist : answers' = [answers EXCEPT ![m] = Append(@, "cancelled")]
      <4>1. PICK m \in clist : answers' = [answers EXCEPT ![m] = Append(@, "cancelled")]
        BY <3>2
      <4>2. m \in Ids /\ answers[m] = <<>>
        BY TaskFields DEF TInv, TypeOK, Once, Contained
      <4>3. answers'[m] = <<"cancelled">> /\ \A n \in Ids : n # m => answers'[n] = answers[n]
        BY <4>1, <4>2 DEF TInv, TypeOK
      <4>4. \A i \in DOMAIN <<"cancelled">> : <<"cancelled">>[i] # "ok"
        OBVIOUS
      <4> QED BY <1>3, <4>3, <4>4
    <3>3. answers' = answers
            \/ \E m \in clist : answers' = [answers EXCEPT ![m] = Append(@, "cancelled")]
      BY <1>6 DEF CancelStep, CancelGrab, CancelCall, CancelCheck, CancelUnpark
    <3> QED BY <3>1, <3>2, <3>3
  <2> QED BY <1>3, <2>1, <2>2 DEF DueInv
<1>7. TaskStep \/ CancelStep \/ UNCHANGED <<taskVars, answers>>
  BY DEF Next, CallerStep, callerFrame, UninitStep, uninitFrame, Tick, vars
<1> QED BY <1>4, <1>5, <1>6, <1>7

\* With times that an int can hold no callback says TIE_OK before the
\* deadline: timer_impl.hpp:270-288.
THEOREM OkIsDue == ASSUME MaxTime <= IntMax PROVE Spec => []NeverEarly
<1>1. Init => DueInv
  BY DEF Init, DueInv
<1>2. TInv /\ TInv' /\ DueInv /\ [Next]_vars => DueInv'
  BY DueNext
<1>3. TInv /\ DueInv => NeverEarly
  <2> SUFFICES ASSUME TInv, DueInv, NEW n \in Posted,
                      n \in tmp_list \/ \E i \in DOMAIN answers[n] : answers[n][i] = "ok"
               PROVE  tasks[n].timeout <= now
    BY DEF NeverEarly
  <2>1. n \in Ids
    BY TaskFields DEF TInv
  <2> QED BY <2>1 DEF DueInv, DueTask
<1> QED BY <1>1, <1>2, <1>3, TimerInvariant, PTL DEF Spec
-----------------------------------------------------------------------------
(* The sleep of the task thread, when no task is cancelled.                *)

\* Without cancel a call of wait finds every earlier task of its timer answered.
SoloInv ==
  \A c \in Callers : Calling(c) =>
    \A n \in Posted : n # op[c].id /\ tasks[n].sid = op[c].sid => answers[n] # <<>>

\* Nothing waits, and nothing will, once uninit has been in the lock.
ExitInv == exit => waiting = {} /\ \A c \in Callers : op[c].pc # "insert"

\* The key slept for is the first, unless somebody has said otherwise.
SleepInv == tpc = "wait" => event \/ exit \/ IsFirst(tmp_time)

\* i_cancel takes nothing in a call of wait, and cancel is not called.
StillInv == SoloInv /\ ExitInv /\ SleepInv /\ \A c \in Callers : op[c].pc # "cancel"

LEMMA StillInit == Init => StillInv
BY DEF Init, StillInv, SoloInv, ExitInv, SleepInv, Calling, NoOp

\* The calls in progress, after one more of them or one fewer.
LEMMA SoloNext ==
  ASSUME ~MayCancel, TInv, TInv', StillInv, [Next]_vars
  PROVE  SoloInv' /\ \A c \in Callers : op'[c].pc # "cancel"
<1>1. op \in [Callers -> OpType] /\ answers \in [Ids -> Seq({"ok", "cancelled"})]
  BY DEF TInv, TypeOK, OpType
<1>2. \A n \in Posted : n \in Ids
  BY TaskFields DEF TInv
<1>3. CASE op' = op /\ tasks' = tasks
  <2>1. \A n \in Posted : answers[n] # <<>> => answers'[n] # <<>>
    <3>1. CASE answers' = answers
      BY <3>1
    <3>2. ASSUME NEW x \in {"ok", "cancelled"},
                 \E m \in tmp_list \cup clist : answers' = [answers EXCEPT ![m] = Append(@, x)]
          PROVE  \A n \in Posted : answers[n] # <<>> => answers'[n] # <<>>
      <4>1. PICK m \in tmp_list \cup clist : answers' = [answers EXCEPT ![m] = Append(@, x)]
        BY <3>2
      <4>2. m \in Ids /\ answers[m] = <<>>
        BY TaskFields DEF TInv, TypeOK, Once, Contained
      <4>3. \A n \in Ids : n # m => answers'[n] = answers[n]
        BY <1>1, <4>1
      <4> QED BY <1>2, <4>2, <4>3
    <3>3. \/ answers' = answers
          \/ \E x \in {"ok", "cancelled"} : \E m \in tmp_list \cup clist :
               answers' = [answers EXCEPT ![m] = Append(@, x)]
      BY DEF Next, callerFrame, CallerStep, TaskStep, TaskHead, TaskWoken, TaskTimeout, TaskGrab,
             TaskCall, TaskReturn, TaskCheck, TaskUnpark, CancelStep, CancelGrab, CancelCall,
             CancelCheck, CancelUnpark, UninitStep, uninitFrame, Tick, vars
    <3> QED BY <3>1, <3>2, <3>3
  <2> QED BY <1>3, <2>1 DEF StillInv, SoloInv, Calling, Posted
<1>4. ASSUME NEW c \in Callers, NEW s \in Sids, NEW ms \in Delays, Wait(c, s, ms),
             UNCHANGED callerFrame
      PROVE  SoloInv' /\ \A d \in Callers : op'[d].pc # "cancel"
  <2> DEFINE L == Len(tasks) + 1
             t == [sid |-> s, timeout |-> now + ms]
             o == [pc |-> "post", id |-> L, sid |-> s]
  <2>1. tasks \in Seq(Tasks) /\ Len(tasks) \in Nat /\ L \notin Posted /\ now + ms \in Times
    <3>1. tasks \in Seq(Tasks) /\ now \in Times /\ now + ms <= MaxTime
      BY <1>4 DEF Wait, TInv, TypeOK
    <3>2. Len(tasks) \in Nat /\ now + ms \in Times
      BY <3>1, BoundAssumption DEF Times
    <3> QED BY <3>1, <3>2 DEF Posted
  <2>2. t \in Tasks
    BY <2>1 DEF Tasks
  <2>3. tasks' = Append(tasks, t) /\ answers' = answers /\ SetOp(c, o)
    BY <1>4 DEF Wait, callerFrame
  <2>4. /\ tasks'[L] = t /\ Posted' = Posted \cup {L}
        /\ \A n \in Posted : tasks'[n] = tasks[n]
    BY <2>1, <2>2, <2>3, AppendProperties DEF Posted
  <2>5. op'[c] = o /\ \A d \in Callers : d # c => op'[d] = op[d]
    BY <1>1, <2>3 DEF SetOp
  <2>6. \A n \in Posted : tasks[n].sid = s => answers[n] # <<>>
    BY <1>4 DEF Wait, Posted
  <2>7. \A d \in Callers : Calling(d) =>
          op[d].id \in Posted /\ op[d].sid # s /\ tasks[op[d].id].sid = op[d].sid
    BY <2>6 DEF TInv, CallInv
  <2> HIDE DEF L
  <2>8. ASSUME NEW d \in Callers, Calling(d)', NEW n \in Posted', n # op'[d].id,
               tasks'[n].sid = op'[d].sid
        PROVE  answers'[n] # <<>>
    <3>1. CASE d = c
      <4>1. op'[d].id = L /\ op'[d].sid = s
        BY <2>5, <3>1
      <4>2. n \in Posted /\ tasks[n].sid = s
        BY <2>4, <2>8, <4>1
      <4> QED BY <2>3, <2>6, <4>2
    <3>2. CASE d # c
      <4>1. op'[d] = op[d] /\ Calling(d)
        BY <2>5, <2>8, <3>2 DEF Calling
      <4>2. n # L
        BY <2>4, <2>7, <2>8, <4>1
      <4> QED BY <2>3, <2>4, <2>8, <4>1, <4>2 DEF StillInv, SoloInv
    <3> QED BY <3>1, <3>2
  <2>9. SoloInv'
    BY <2>8 DEF SoloInv
  <2> QED BY <2>5, <2>9 DEF StillInv
<1>5. ASSUME NEW c \in Callers, CallerStep(c)
      PROVE  SoloInv' /\ \A d \in Callers : op'[d].pc # "cancel"
  <2>1. UNCHANGED <<tasks, answers>>
    BY <1>5 DEF CallerStep, Post, Insert, DoCancel, Signal, callerFrame
  <2>2. PICK o : SetOp(c, o) /\ o.pc # "cancel"
                   /\ (o.pc \in {"post", "insert"} => Calling(c) /\ o.id = op[c].id
                                                        /\ o.sid = op[c].sid)
    <3>1. CASE Post(c)
      <4>1. op[c].pc = "post" /\ op[c] \in OpType
        BY <1>1, <3>1 DEF Post
      <4> DEFINE o == [op[c] EXCEPT !.pc = "insert"]
      <4>2. o.pc = "insert" /\ o.id = op[c].id /\ o.sid = op[c].sid /\ NoOp.pc = "idle"
        BY <4>1 DEF OpType, NoOp
      <4>3. SetOp(c, NoOp) \/ SetOp(c, o)
        BY <3>1 DEF Post
      <4> HIDE DEF o
      <4> QED BY <4>1, <4>2, <4>3 DEF Calling
    <3>2. CASE Insert(c) \/ Signal(c) \/ DoCancel(c)
      BY <3>2 DEF Insert, Signal, DoCancel, NoOp, Signalling
    <3> QED BY <1>5, <3>1, <3>2 DEF CallerStep
  <2>3. op'[c] = o /\ \A d \in Callers : d # c => op'[d] = op[d]
    BY <1>1, <2>2 DEF SetOp
  <2>4. \A d \in Callers : Calling(d)' => Calling(d) /\ op'[d].id = op[d].id
                                            /\ op'[d].sid = op[d].sid
    BY <2>2, <2>3 DEF Calling
  <2>5. SoloInv'
    BY <2>1, <2>4 DEF StillInv, SoloInv, Posted
  <2> QED BY <2>2, <2>3, <2>5 DEF StillInv
<1>6. ASSUME NEW c \in Callers, NEW s \in Sids, Cancel(c, s) PROVE FALSE
  BY <1>6 DEF Cancel
<1>7. TaskStep \/ CancelStep \/ UninitStep \/ (Uninit /\ UNCHANGED uninitFrame) \/ Tick
        \/ UNCHANGED vars => op' = op /\ tasks' = tasks
  BY DEF TaskStep, taskFrame, CancelStep, cancelFrame, UninitStep, uninitFrame, Tick, vars, callVars
<1>8. op' = op => \A c \in Callers : op'[c].pc # "cancel"
  BY DEF StillInv
<1> QED BY <1>3, <1>4, <1>5, <1>6, <1>7, <1>8 DEF Next

\* A call of wait changes time_wait_map_ only by its own task.
LEMMA PostTakesNothing ==
  ASSUME TInv, StillInv, NEW c \in Callers, Post(c)
  PROVE  waiting' = waiting /\ cancel_list' = cancel_list
<1>1. op[c].sid \in Sids /\ Calling(c) /\ op[c].id \notin Contained
  BY DEF Post, Calling, TInv, CallInv
<1>2. Victims(op[c].sid) = {}
  <2> SUFFICES ASSUME NEW n \in Victims(op[c].sid) PROVE FALSE
    OBVIOUS
  <2>1. n \in waiting /\ n \in Posted /\ n # op[c].id /\ tasks[n].sid = op[c].sid /\ n \in Ids
    BY <1>1, TaskFields DEF Victims, Contained, TInv, TypeOK
  <2>2. answers[n] = <<>>
    BY <2>1 DEF TInv, Once, Contained
  <2> QED BY <1>1, <2>1, <2>2 DEF StillInv, SoloInv
<1> QED BY <1>2 DEF Post, mapVars, CancelPending, CancelTask

LEMMA ExitNext ==
  ASSUME ~MayCancel, TInv, StillInv, [Next]_vars
  PROVE  ExitInv'
<1>1. op \in [Callers -> OpType]
  BY DEF TInv, TypeOK, OpType
<1>2. ASSUME NEW c \in Callers, NEW o, SetOp(c, o), o.pc # "insert" \/ ~exit,
             UNCHANGED <<waiting, exit>>
      PROVE  ExitInv'
  <2>1. op'[c] = o /\ \A d \in Callers : d # c => op'[d] = op[d]
    BY <1>1, <1>2 DEF SetOp
  <2> QED BY <1>2, <2>1 DEF StillInv, ExitInv
<1>3. ASSUME NEW c \in Callers, Post(c), UNCHANGED callerFrame PROVE ExitInv'
  <2>1. waiting' = waiting /\ exit' = exit
    BY <1>3, PostTakesNothing DEF callerFrame, flagVars
  <2>2. SetOp(c, NoOp) \/ (~exit /\ SetOp(c, [op[c] EXCEPT !.pc = "insert"]))
    BY <1>3 DEF Post
  <2> QED BY <1>2, <2>1, <2>2 DEF NoOp
<1>4. ASSUME NEW c \in Callers, Insert(c), UNCHANGED callerFrame PROVE ExitInv'
  BY <1>4 DEF Insert, callerFrame, flagVars, StillInv, ExitInv
<1>5. ASSUME NEW c \in Callers, DoCancel(c) PROVE FALSE
  BY <1>5 DEF DoCancel, StillInv
<1>6. ASSUME NEW c \in Callers, Signal(c), UNCHANGED callerFrame PROVE ExitInv'
  BY <1>2, <1>6 DEF Signal, NoOp, mapVars, callerFrame, flagVars
<1>7. ASSUME NEW c \in Callers, NEW s \in Sids,
             Cancel(c, s) \/ \E ms \in Delays : Wait(c, s, ms), UNCHANGED callerFrame
      PROVE  ExitInv'
  BY <1>2, <1>7 DEF Cancel, Wait, mapVars, callerFrame, flagVars
<1>8. CASE TaskStep
  <2>1. UNCHANGED <<op, exit>> /\ waiting' \subseteq waiting
    BY <1>8 DEF TaskStep, TaskHead, TaskWoken, TaskTimeout, TaskGrab, EraseDue, TaskCall,
                TaskReturn, TaskCheck, TaskUnpark, taskFrame, callVars, flagVars
  <2> QED BY <2>1 DEF StillInv, ExitInv
<1>9. CASE UninitClear /\ UNCHANGED uninitFrame
  <2>1. waiting' = {} /\ op' = op /\ mutex = None
    BY <1>9 DEF UninitClear, uninitFrame, callVars
  <2>2. \A c \in Callers : op[c].pc # "insert"
    BY <2>1, NameAssumption DEF TInv, MutexInv
  <2> QED BY <2>1, <2>2 DEF ExitInv
<1>10. CASE \/ CancelStep
            \/ (Uninit \/ UninitSet \/ UninitJoin) /\ UNCHANGED uninitFrame
            \/ Tick
            \/ UNCHANGED vars
  <2>1. UNCHANGED <<op, exit, waiting>>
    BY <1>10 DEF CancelStep, cancelFrame, Uninit, UninitSet, UninitJoin, uninitFrame, Tick, vars,
                 callVars, flagVars, mapVars
  <2> QED BY <2>1 DEF StillInv, ExitInv
<1> QED BY <1>3, <1>4, <1>5, <1>6, <1>7, <1>8, <1>9, <1>10 DEF Next, CallerStep, UninitStep

\* A step that leaves the map, the key and the event alone keeps the sleep right.
LEMMA SleepSame ==
  ASSUME TInv, SleepInv, UNCHANGED <<waiting, tmp_time>>,
         tpc' = "wait" => tpc = "wait", event => event', exit => exit',
         \A n \in Posted : tasks'[n] = tasks[n]
  PROVE  SleepInv'
<1>1. waiting \subseteq Posted
  BY DEF TInv, TypeOK
<1>2. Keys' = Keys
  BY <1>1 DEF Keys
<1> QED BY <1>2 DEF SleepInv, IsFirst

LEMMA SleepNext ==
  ASSUME ~MayCancel, TInv, StillInv, [Next]_vars
  PROVE  SleepInv'
<1>1. CASE /\ UNCHANGED <<tasks, waiting, tmp_time, tpc>>
           /\ event => event'
           /\ exit => exit'
  BY <1>1, SleepSame DEF StillInv
<1>2. ASSUME NEW c \in Callers, NEW s \in Sids, NEW ms \in Delays, Wait(c, s, ms),
             UNCHANGED callerFrame
      PROVE  SleepInv'
  <2>1. UNCHANGED <<waiting, tmp_time, tpc, event, exit>>
    BY <1>2 DEF Wait, callerFrame, mapVars, taskVars, flagVars
  <2>2. \A n \in Posted : tasks'[n] = tasks[n]
    <3>1. tasks \in Seq(Tasks) /\ now + ms \in Times
      BY <1>2, BoundAssumption DEF Wait, TInv, TypeOK, Times
    <3>2. [sid |-> s, timeout |-> now + ms] \in Tasks
      BY <3>1 DEF Tasks
    <3> QED BY <1>2, <3>1, <3>2, AppendProperties DEF Wait, Posted
  <2> QED BY <2>1, <2>2, SleepSame DEF StillInv
<1>3. ASSUME NEW c \in Callers, Post(c), UNCHANGED callerFrame PROVE SleepInv'
  <2>1. UNCHANGED <<waiting, tmp_time, tpc, event, exit, tasks>>
    BY <1>3, PostTakesNothing DEF Post, callerFrame, taskVars, flagVars
  <2> QED BY <1>1, <2>1
<1>4. ASSUME NEW c \in Callers, Insert(c), UNCHANGED callerFrame PROVE SleepInv'
  <2> DEFINE n == op[c].id
             t == tasks[n].timeout
  <2>1. /\ waiting' = waiting \cup {n} /\ event' = (event \/ Sooner(t))
        /\ UNCHANGED <<tmp_time, tpc, tasks>>
    BY <1>4 DEF Insert, callerFrame, taskVars
  <2>2. n \in Posted /\ ~exit
    BY <1>4 DEF Insert, TInv, CallInv, Calling, StillInv, ExitInv
  <2>3. Keys' = Keys \cup {t}
    BY <2>1 DEF Keys
  <2>4. t \in Times /\ Keys \subseteq Times
    BY <2>2, TaskFields, KeysAreTimes DEF TInv
  <2> HIDE DEF t, n
  <2>5. CASE tpc = "wait" /\ ~event' /\ IsFirst(tmp_time)
    <3>1. tmp_time \in Keys /\ \A u \in Keys : tmp_time <= u
      BY <2>5 DEF IsFirst
    <3>2. ~Sooner(t)
      BY <2>1, <2>5
    <3>3. ~(t < tmp_time)
      BY <2>5, <3>1, <3>2 DEF Sooner
    <3>4. tmp_time <= t
      BY <2>4, <3>1, <3>3, BoundAssumption DEF Times
    <3> QED BY <2>1, <2>3, <3>1, <3>4 DEF SleepInv, IsFirst
  <2>6. CASE tpc # "wait" \/ event'
    BY <2>1, <2>6 DEF SleepInv
  <2>7. event => event'
    BY <2>1
  <2> QED BY <2>2, <2>5, <2>6, <2>7 DEF StillInv, SleepInv
<1>5. ASSUME NEW c \in Callers, Signal(c) \/ DoCancel(c), UNCHANGED callerFrame PROVE SleepInv'
  <2>1. UNCHANGED <<tasks, waiting, tmp_time, tpc, event, exit>>
    BY <1>5 DEF Signal, DoCancel, StillInv, mapVars, callerFrame, taskVars, flagVars
  <2> QED BY <1>1, <2>1
<1>6. CASE TaskStep
  <2>1. UNCHANGED <<tasks, exit>>
    BY <1>6 DEF TaskStep, taskFrame, callVars, flagVars
  <2>2. CASE TaskHead
    <3>1. waiting' = waiting
      BY <2>2 DEF TaskHead
    <3>2. CASE \E t \in Keys : IsFirst(t) /\ tmp_time' = t
      BY <2>1, <3>1, <3>2 DEF SleepInv, IsFirst, Keys
    <3>3. CASE tpc' # "wait"
      BY <3>3 DEF SleepInv
    <3> QED BY <2>2, <3>2, <3>3 DEF TaskHead
  <2>3. CASE ~TaskHead
    BY <1>6, <2>3 DEF TaskStep, TaskWoken, TaskTimeout, TaskGrab, TaskCall, TaskReturn, TaskCheck,
                      TaskUnpark, SleepInv
  <2> QED BY <2>2, <2>3
<1>7. CASE UninitClear /\ UNCHANGED uninitFrame
  BY <1>7 DEF UninitClear, SleepInv
<1>8. CASE \/ CancelStep
           \/ (Uninit \/ UninitSet \/ UninitJoin) /\ UNCHANGED uninitFrame
           \/ Tick
           \/ UNCHANGED vars
  <2>1. /\ UNCHANGED <<tasks, waiting, tmp_time, tpc>>
        /\ event => event'
        /\ exit => exit'
    BY <1>8 DEF CancelStep, cancelFrame, Uninit, UninitSet, SetAll, UninitJoin, uninitFrame, Tick,
                vars, callVars, flagVars, mapVars, taskVars, eventVars
  <2> QED BY <1>1, <2>1
<1>9. ASSUME NEW c \in Callers, NEW s \in Sids, Cancel(c, s) PROVE FALSE
  BY <1>9 DEF Cancel
<1> QED BY <1>2, <1>3, <1>4, <1>5, <1>6, <1>7, <1>8, <1>9 DEF Next, CallerStep, UninitStep

\* When nobody cancels, the task thread never sleeps past a deadline without
\* its event set: timer_impl.hpp:207-218.  With cancel it may (run timer_late).
THEOREM SleepsRight == ASSUME ~MayCancel PROVE Spec => []NoOversleep
<1>1. TInv /\ TInv' /\ StillInv /\ [Next]_vars => StillInv'
  BY SoloNext, ExitNext, SleepNext DEF StillInv
<1>2. TInv /\ StillInv => NoOversleep
  <2> SUFFICES ASSUME TInv, StillInv, tpc = "wait", NEW t \in Keys, t < tmp_time, ~event
               PROVE  FALSE
    BY DEF NoOversleep
  <2>1. Keys \subseteq Times
    BY KeysAreTimes DEF TInv
  <2>2. CASE exit
    BY <2>2 DEF StillInv, ExitInv, Keys
  <2>3. CASE IsFirst(tmp_time)
    BY <2>1, <2>3, BoundAssumption DEF IsFirst, Times
  <2> QED BY <2>2, <2>3 DEF StillInv, SleepInv
<1> QED BY <1>1, <1>2, StillInit, TimerInvariant, PTL DEF Spec
-----------------------------------------------------------------------------
(* How late a callback may be, when no task is cancelled and time passes   *)
(* only while every thread is blocked.                                     *)

\* Nobody holds a task that is late: not time_wait_map_, not a call of wait.
InTime ==
  /\ \A n \in waiting : now <= tasks[n].timeout
  /\ \A c \in Callers : Calling(c) => now <= tasks[op[c].id].timeout

\* The sleep ends by the key it is for.
WakesInTime == tpc = "wait" => tmp_time \in Times /\ until <= tmp_time

\* Who waits for run_event_ while a task is in the map will be told.
WillBeTold ==
  tpc = "park" => run_event \/ waiting = {} \/ \E c \in Callers : op[c].pc = "signal"

\* The task thread ends for uninit only, which empties the map before it joins.
EndsForUninit ==
  /\ upc = "no" => run
  /\ tpc = "done" => ~run
  /\ upc \in {"set", "join", "returned"} => exit

TimeInv == InTime /\ WakesInTime /\ WillBeTold /\ EndsForUninit

LEMMA TimeInit == Init => TimeInv
BY DEF Init, TimeInv, InTime, WakesInTime, WillBeTold, EndsForUninit, Calling, NoOp

\* A deadline that is not past is not slept over, however far away it is: what
\* an int cannot hold makes the sleep shorter.
LEMMA DiffWithin ==
  ASSUME NEW t \in Int, now \in Int, now <= t
  PROVE  now + Diff(t) <= t
<1> DEFINE x == t - now
           w == IntMax + 1
<1>1. x \in Nat /\ w \in Nat /\ 2 * w > 0
  BY BoundAssumption
<1>2. ToInt(x) <= x
  <2>1. ToInt(x) = ((x + w) % (2 * w)) - w
    BY BoundAssumption DEF ToInt
  <2> DEFINE y == x + w
             m == 2 * w
  <2>2. y \in Nat /\ m \in Nat /\ m > 0
    BY <1>1
  <2> HIDE DEF x, w, y, m
  <2>3. y % m <= y
    BY <2>2
  <2> QED BY <1>1, <2>1, <2>2, <2>3 DEF y, m
<1>3. x \in Int /\ ToInt(x) \in Int
  BY <1>1, ToIntBounds
<1> QED BY <1>1, <1>2, <1>3 DEF Diff

LEMMA EndsNext ==
  ASSUME EndsForUninit, [Next]_vars
  PROVE  EndsForUninit'
<1>1. CASE UNCHANGED <<run, exit, upc, tpc>>
  BY <1>1 DEF EndsForUninit
<1>2. CASE TaskStep
  BY <1>2 DEF TaskStep, TaskHead, TaskWoken, TaskTimeout, TaskGrab, TaskCall, TaskReturn,
              TaskCheck, TaskUnpark, taskFrame, flagVars, EndsForUninit
<1>3. CASE (Uninit \/ UninitClear \/ UninitSet \/ UninitJoin) /\ UNCHANGED uninitFrame
  BY <1>3 DEF Uninit, UninitClear, UninitSet, UninitJoin, uninitFrame, taskVars, EndsForUninit
<1>4. [Next]_vars => \/ UNCHANGED <<run, exit, upc, tpc>>
                     \/ TaskStep
                     \/ (Uninit \/ UninitClear \/ UninitSet \/ UninitJoin) /\ UNCHANGED uninitFrame
  BY DEF Next, callerFrame, CallerStep, CancelStep, cancelFrame, UninitStep, Tick, vars, flagVars,
         taskVars
<1> QED BY <1>1, <1>2, <1>3, <1>4

LEMMA WakesNext ==
  ASSUME TInv, InTime, WakesInTime, [Next]_vars
  PROVE  WakesInTime'
<1>1. CASE UNCHANGED taskVars
  BY <1>1 DEF taskVars, WakesInTime
<1>2. CASE TaskHead /\ UNCHANGED taskFrame
  <2>1. CASE \E t \in Keys : tmp_time' = t /\ until' = now + Diff(t)
    <3>1. PICK n \in waiting : /\ tmp_time' = tasks[n].timeout
                               /\ until' = now + Diff(tasks[n].timeout)
      BY <2>1 DEF Keys
    <3>2. n \in Posted /\ now \in Int
      BY BoundAssumption DEF TInv, TypeOK, Times
    <3>3. tasks[n].timeout \in Times /\ tasks[n].timeout \in Int /\ now <= tasks[n].timeout
      BY <3>2, TaskFields, BoundAssumption DEF TInv, Times, InTime
    <3> QED BY <3>1, <3>2, <3>3, DiffWithin DEF WakesInTime
  <2>2. CASE tpc' # "wait"
    BY <2>2 DEF WakesInTime
  <2> QED BY <1>2, <2>1, <2>2 DEF TaskHead
<1>3. CASE TaskStep /\ ~TaskHead
  BY <1>3 DEF TaskStep, TaskWoken, TaskTimeout, TaskGrab, TaskCall, TaskReturn, TaskCheck,
              TaskUnpark, WakesInTime
<1>4. [Next]_vars => UNCHANGED taskVars \/ TaskStep
  BY DEF Next, callerFrame, CallerStep, CancelStep, cancelFrame, UninitStep, uninitFrame, Tick, vars
<1> QED BY <1>1, <1>2, <1>3, <1>4 DEF TaskStep

LEMMA ToldNext ==
  ASSUME ~MayCancel, TInv, StillInv, WillBeTold, [Next]_vars
  PROVE  WillBeTold'
<1>1. op \in [Callers -> OpType]
  BY DEF TInv, TypeOK, OpType
<1>2. CASE /\ tpc' = tpc /\ (run_event => run_event') /\ (waiting = {} => waiting' = {})
           /\ \A c \in Callers : op[c].pc = "signal" => op'[c].pc = "signal"
  BY <1>2 DEF WillBeTold
<1>3. ASSUME NEW c \in Callers, NEW o, SetOp(c, o), op[c].pc # "signal",
             UNCHANGED <<tpc, waiting>>, run_event => run_event'
      PROVE  WillBeTold'
  <2>1. \A d \in Callers : d # c => op'[d] = op[d]
    BY <1>1, <1>3 DEF SetOp
  <2> QED BY <1>2, <1>3, <2>1
<1>4. ASSUME NEW c \in Callers, NEW s \in Sids,
             Cancel(c, s) \/ \E ms \in Delays : Wait(c, s, ms), UNCHANGED callerFrame
      PROVE  WillBeTold'
  <2>1. UNCHANGED <<tpc, waiting, run_event>> /\ op[c].pc = "idle"
    BY <1>4 DEF Cancel, Wait, MayCall, mapVars, eventVars, callerFrame, taskVars
  <2>2. \E o : SetOp(c, o)
    BY <1>4 DEF Cancel, Wait
  <2> QED BY <1>3, <2>1, <2>2
<1>5. ASSUME NEW c \in Callers, Post(c), UNCHANGED callerFrame PROVE WillBeTold'
  <2>1. /\ UNCHANGED <<tpc, waiting>> /\ op[c].pc = "post"
        /\ \E o : SetOp(c, o)
    BY <1>5, PostTakesNothing DEF Post, callerFrame, taskVars
  <2>2. run_event => run_event'
    BY <1>5 DEF Post, CancelPending
  <2> QED BY <1>3, <2>1, <2>2
<1>6. ASSUME NEW c \in Callers, Insert(c), UNCHANGED callerFrame PROVE WillBeTold'
  <2>1. op'[c] = Signalling
    BY <1>1, <1>6 DEF Insert, SetOp
  <2> QED BY <2>1 DEF Signalling, WillBeTold
<1>7. ASSUME NEW c \in Callers, Signal(c) PROVE WillBeTold'
  BY <1>7 DEF Signal, SetRunEvent, WillBeTold
<1>8. ASSUME NEW c \in Callers, DoCancel(c) PROVE FALSE
  BY <1>8 DEF DoCancel, StillInv
<1>9. CASE TaskStep
  <2>1. op' = op
    BY <1>9 DEF TaskStep, taskFrame, callVars
  <2>2. CASE TaskCheck
    BY <2>2 DEF TaskCheck, WillBeTold
  <2>3. CASE ~TaskCheck
    BY <1>9, <2>3 DEF TaskStep, TaskHead, TaskWoken, TaskTimeout, TaskGrab, TaskCall, TaskReturn,
                      TaskUnpark, WillBeTold
  <2> QED BY <2>2, <2>3
<1>10. CASE \/ CancelStep
            \/ (Uninit \/ UninitClear \/ UninitSet \/ UninitJoin) /\ UNCHANGED uninitFrame
            \/ Tick
            \/ UNCHANGED vars
  <2>1. /\ op' = op /\ tpc' = tpc
        /\ run_event => run_event'
        /\ waiting = {} => waiting' = {}
    BY <1>10 DEF CancelStep, cancelFrame, Uninit, UninitClear, UninitSet, SetAll, UninitJoin,
                 uninitFrame, Tick, vars, callVars, flagVars, mapVars, taskVars, eventVars
  <2> QED BY <1>2, <2>1
<1> QED BY <1>4, <1>5, <1>6, <1>7, <1>8, <1>9, <1>10 DEF Next, CallerStep, UninitStep

\* Time does not pass the deadline of a task that waits: the task thread is not
\* parked, and what it sleeps for is the first key.
LEMMA TickInTime ==
  ASSUME Urgent, TInv, StillInv, TimeInv, Tick
  PROVE  InTime'
<1>1. /\ Blocked /\ now' = now + 1
      /\ UNCHANGED <<op, tasks, waiting>>
  BY DEF Tick, mapVars, callVars
<1>2. \A c \in Callers : op[c].pc = "idle"
  BY <1>1 DEF Blocked
<1>3. ASSUME NEW n \in waiting PROVE now + 1 <= tasks[n].timeout
  <2>1. ~exit
    BY DEF StillInv, ExitInv
  <2>2. upc = "no" /\ tpc # "done"
    BY <1>1, <2>1 DEF Blocked, TimeInv, EndsForUninit
  <2>3. ~(tpc = "park" /\ ~run_event)
    BY <1>2 DEF TimeInv, WillBeTold
  <2>4. tpc = "wait" /\ ~event /\ now < until
    BY <1>1, <2>2, <2>3 DEF Blocked
  <2>5. /\ tmp_time \in Times /\ until <= tmp_time
        /\ IsFirst(tmp_time)
    BY <2>1, <2>4 DEF TimeInv, WakesInTime, StillInv, SleepInv
  <2>6. tmp_time <= tasks[n].timeout
    BY <2>5 DEF IsFirst, Keys
  <2>7. n \in Posted /\ now \in Int /\ until \in Int /\ tmp_time \in Int
    BY <2>5, BoundAssumption DEF TInv, TypeOK, Times
  <2>8. tasks[n].timeout \in Int
    BY <2>7, TaskFields, BoundAssumption DEF TInv, Times
  <2> QED BY <2>4, <2>5, <2>6, <2>7, <2>8
<1> QED BY <1>1, <1>2, <1>3 DEF InTime, Calling

LEMMA InTimeNext ==
  ASSUME ~MayCancel, Urgent, TInv, StillInv, TimeInv, [Next]_vars
  PROVE  InTime'
<1>1. op \in [Callers -> OpType] /\ waiting \subseteq Posted /\ InTime
  BY DEF TInv, TypeOK, OpType, TimeInv
<1>2. CASE /\ UNCHANGED <<now, tasks>> /\ waiting' \subseteq waiting
           /\ \A c \in Callers : Calling(c)' => Calling(c) /\ op'[c].id = op[c].id
  BY <1>1, <1>2 DEF InTime
<1>3. ASSUME NEW c \in Callers, NEW s \in Sids, NEW ms \in Delays, Wait(c, s, ms),
             UNCHANGED callerFrame
      PROVE  InTime'
  <2> DEFINE L == Len(tasks) + 1
             t == [sid |-> s, timeout |-> now + ms]
  <2>1. /\ tasks \in Seq(Tasks) /\ Len(tasks) \in Nat /\ L \notin Posted
        /\ now + ms \in Times /\ now <= now + ms
    <3>1. tasks \in Seq(Tasks) /\ now \in Times /\ now + ms <= MaxTime
      BY <1>3 DEF Wait, TInv, TypeOK
    <3>2. Len(tasks) \in Nat /\ now + ms \in Times /\ now <= now + ms
      BY <3>1, BoundAssumption DEF Times
    <3> QED BY <3>1, <3>2 DEF Posted
  <2>2. t \in Tasks
    BY <2>1 DEF Tasks
  <2>3. /\ tasks' = Append(tasks, t) /\ SetOp(c, [pc |-> "post", id |-> L, sid |-> s])
        /\ UNCHANGED <<now, waiting>>
    BY <1>3 DEF Wait, mapVars, callerFrame
  <2>4. tasks'[L] = t /\ \A n \in Posted : tasks'[n] = tasks[n]
    BY <2>1, <2>2, <2>3, AppendProperties DEF Posted
  <2> HIDE DEF L
  <2>5. op'[c].id = L /\ \A d \in Callers : d # c => op'[d] = op[d]
    BY <1>1, <2>3 DEF SetOp
  <2>6. ASSUME NEW d \in Callers, Calling(d)' PROVE now <= tasks'[op'[d].id].timeout
    <3>1. CASE d = c
      BY <2>1, <2>4, <2>5, <3>1
    <3>2. CASE d # c
      <4>1. op'[d] = op[d] /\ Calling(d)
        BY <2>5, <2>6, <3>2 DEF Calling
      <4>2. op[d].id \in Posted
        BY <4>1 DEF TInv, CallInv
      <4> QED BY <1>1, <2>4, <4>1, <4>2 DEF InTime
    <3> QED BY <3>1, <3>2
  <2> QED BY <1>1, <2>3, <2>4, <2>6 DEF InTime
<1>4. ASSUME NEW c \in Callers, Post(c), UNCHANGED callerFrame PROVE InTime'
  <2>1. UNCHANGED <<now, tasks, waiting>> /\ op[c].pc = "post"
    BY <1>4, PostTakesNothing DEF Post, callerFrame
  <2>2. op'[c] = NoOp \/ op'[c] = [op[c] EXCEPT !.pc = "insert"]
    BY <1>1, <1>4 DEF Post, SetOp
  <2>3. \A d \in Callers : d # c => op'[d] = op[d]
    BY <1>1, <1>4 DEF Post, SetOp
  <2>4. \A d \in Callers : Calling(d)' => Calling(d) /\ op'[d].id = op[d].id
    <3>1. Calling(c)' => Calling(c) /\ op'[c].id = op[c].id
      BY <1>1, <2>1, <2>2 DEF Calling, NoOp, OpType
    <3> QED BY <2>3, <3>1 DEF Calling
  <2> QED BY <1>2, <2>1, <2>4
<1>5. ASSUME NEW c \in Callers, Insert(c), UNCHANGED callerFrame PROVE InTime'
  <2>1. /\ UNCHANGED <<now, tasks>> /\ op[c].pc = "insert"
        /\ waiting' = waiting \cup {op[c].id}
        /\ SetOp(c, Signalling)
    BY <1>5 DEF Insert, callerFrame
  <2>2. op'[c] = Signalling /\ \A d \in Callers : d # c => op'[d] = op[d]
    BY <1>1, <2>1 DEF SetOp
  <2>3. now <= tasks[op[c].id].timeout
    BY <1>1, <2>1 DEF InTime, Calling
  <2> QED BY <1>1, <2>1, <2>2, <2>3 DEF InTime, Calling, Signalling
<1>6. ASSUME NEW c \in Callers, DoCancel(c) PROVE FALSE
  BY <1>6 DEF DoCancel, StillInv
<1>7. ASSUME NEW c \in Callers, Signal(c), UNCHANGED callerFrame PROVE InTime'
  <2>1. UNCHANGED <<now, tasks, waiting>> /\ SetOp(c, NoOp)
    BY <1>7 DEF Signal, mapVars, callerFrame
  <2>2. op'[c] = NoOp /\ \A d \in Callers : d # c => op'[d] = op[d]
    BY <1>1, <2>1 DEF SetOp
  <2> QED BY <1>2, <2>1, <2>2 DEF Calling, NoOp
<1>8. ASSUME NEW c \in Callers, NEW s \in Sids, Cancel(c, s) PROVE FALSE
  BY <1>8 DEF Cancel
<1>9. CASE TaskStep
  <2>1. UNCHANGED <<now, op, tasks>> /\ waiting' \subseteq waiting
    BY <1>9 DEF TaskStep, TaskHead, TaskWoken, TaskTimeout, TaskGrab, EraseDue, TaskCall,
                TaskReturn, TaskCheck, TaskUnpark, taskFrame, callVars
  <2> QED BY <1>2, <2>1 DEF Calling
<1>10. CASE \/ CancelStep
            \/ (Uninit \/ UninitClear \/ UninitSet \/ UninitJoin) /\ UNCHANGED uninitFrame
            \/ UNCHANGED vars
  <2>1. UNCHANGED <<now, op, tasks>> /\ waiting' \subseteq waiting
    BY <1>10 DEF CancelStep, cancelFrame, Uninit, UninitClear, UninitSet, UninitJoin, uninitFrame,
                 vars, callVars, mapVars
  <2> QED BY <1>2, <2>1 DEF Calling
<1> QED BY <1>3, <1>4, <1>5, <1>6, <1>7, <1>8, <1>9, <1>10, TickInTime
        DEF Next, CallerStep, UninitStep

LEMMA TimelyNow ==
  ASSUME TInv, InTime
  PROVE  Timely
<1> SUFFICES ASSUME NEW n \in waiting PROVE now <= tasks[n].timeout + Slack
  BY DEF Timely
<1>1. n \in Posted /\ now \in Int /\ Slack \in Nat
  BY BoundAssumption DEF TInv, TypeOK, Times
<1>2. tasks[n].timeout \in Int
  BY <1>1, TaskFields, BoundAssumption DEF TInv, Times
<1> QED BY <1>1, <1>2 DEF InTime

\* When nobody cancels and no thread is slow, no callback is late at all, for
\* any delays, whatever an int holds, and with uninit at any moment: no wake-up
\* is lost between the unlocked look at time_wait_map_ and the two events
\* (timer_impl.hpp:200-297).  With cancel it may be (run timer_late).
THEOREM OnTime == ASSUME ~MayCancel, Urgent PROVE Spec => []Timely
<1>1. TInv /\ TInv' /\ StillInv /\ [Next]_vars => StillInv'
  BY SoloNext, ExitNext, SleepNext DEF StillInv
<1>2. TInv /\ StillInv /\ TimeInv /\ [Next]_vars => TimeInv'
  BY InTimeNext, WakesNext, ToldNext, EndsNext DEF TimeInv
<1>3. TInv /\ TimeInv => Timely
  BY TimelyNow DEF TimeInv
<1> QED BY <1>1, <1>2, <1>3, StillInit, TimeInit, TimerInvariant, PTL DEF Spec
=============================================================================
