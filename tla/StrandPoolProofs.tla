-------------------------- MODULE StrandPoolProofs --------------------------
(***************************************************************************)
(* Theorems about StrandPool, for every number of workers, strands, outside *)
(* threads and posts, whether or not stop is called.                       *)
(*                                                                         *)
(* Safe is what every step preserves whatever the lists hold: the types,    *)
(* who is inside post_call, what a call has found so far, and how far stop  *)
(* has come.  Ordered adds what the lists hold.                            *)
(***************************************************************************)
EXTENDS StrandPool, TLAPS, SequenceTheorems, FiniteSetTheorems

-----------------------------------------------------------------------------
\* Only the holder of mtx_ is inside post_call.
MutexInv == \A c \in Callers : call[c].pc # "idle" => mtx = c

\* What a call has established about its strand and worker so far.
CallInv ==
  \A c \in Callers :
    /\ call[c].pc # "idle" => call[c].strand \in Strands
    /\ call[c].pc \in {"busy", "push", "signal"} =>
         /\ call[c].worker \in Workers
         /\ strand_proc_list[call[c].strand] = call[c].worker
    /\ call[c].pc = "scan" =>
         /\ strand_proc_list[call[c].strand] = None
         /\ call[c].i > 1 => call[c].worker \in Workers
    /\ call[c].pc \in {"busy", "scan", "push"} =>
         posted[call[c].strand] < MaxPosts

RunInv == \A w \in Workers : wpc[w] = "run" => fo[w] \in Tasks

\* stop joins the threads one after another.
StopInv ==
  /\ stopping.pc = "join" => stopping.i \in Workers
  /\ stopping.pc = "returned" => stopping.i \notin Workers
  /\ \A w \in Workers : w < stopping.i => wpc[w] = "exited"

Safe == TypeOK /\ MutexInv /\ CallInv /\ RunInv /\ StopInv

\* A function object and what it is made of.
LEMMA TaskFields ==
  ASSUME NEW t \in Tasks
  PROVE  t.strand \in Strands /\ t.num \in 1 .. MaxPosts
BY DEF Tasks

\* Init establishes Safe.
LEMMA SafeInit == Init => Safe
BY CountAssumption
   DEF Init, Safe, TypeOK, MutexInv, CallInv, RunInv, StopInv, Idle, StopIdle,
       Workers, Callers, Calls

\* The loop of a worker preserves Safe.
LEMMA SafeWorker ==
  ASSUME Safe, NEW w \in Workers, WorkerStep(w)
  PROVE  Safe'
<1> USE DEF Safe, callVars, stopVars
<1>1. CASE Loop(w)
  <2>1. TypeOK'
    BY <1>1 DEF Loop, TypeOK
  <2>2. MutexInv' /\ CallInv'
    BY <1>1 DEF Loop, MutexInv, CallInv
  <2>3. RunInv' /\ StopInv'
    BY <1>1 DEF Loop, TypeOK, RunInv, StopInv
  <2> QED BY <2>1, <2>2, <2>3
<1>2. CASE Take(w)
  <2>1. /\ fo_list' \in [Workers -> Seq(Tasks)]
        /\ fo' \in [Workers -> Tasks \cup {None}]
        /\ list_size' \in [Workers -> Nat]
        /\ fo_list[w] # <<>> => fo'[w] \in Tasks
    <3>1. CASE fo_list[w] = <<>>
      <4>1. /\ fo_list' = fo_list
            /\ fo' = [fo EXCEPT ![w] = None]
            /\ list_size' = [list_size EXCEPT ![w] = 0]
        BY <1>2, <3>1 DEF Take
      <4> QED BY <3>1, <4>1 DEF TypeOK
    <3>2. CASE fo_list[w] # <<>>
      <4>1. /\ Head(fo_list[w]) \in Tasks
            /\ Tail(fo_list[w]) \in Seq(Tasks)
            /\ Len(fo_list[w]) - 1 \in Nat
        BY <3>2 DEF TypeOK
      <4>2. /\ fo_list' = [fo_list EXCEPT ![w] = Tail(fo_list[w])]
            /\ fo' = [fo EXCEPT ![w] = Head(fo_list[w])]
            /\ list_size' = [list_size EXCEPT ![w] = Len(fo_list[w]) - 1]
        BY <1>2, <3>2 DEF Take, Front, SizeAfterPop
      <4> QED BY <4>1, <4>2 DEF TypeOK
    <3> QED BY <3>1, <3>2
  <2>2. wpc' = [wpc EXCEPT ![w] = IF fo_list[w] = <<>> THEN "wait" ELSE "run"]
        /\ UNCHANGED <<evt, done, callVars, stopVars>>
        /\ wpc[w] = "take"
    BY <1>2 DEF Take
  <2>3. TypeOK'
    BY <2>1, <2>2 DEF TypeOK
  <2>4. MutexInv' /\ CallInv'
    BY <2>2 DEF MutexInv, CallInv
  <2>5. RunInv'
    <3>1. \A v \in Workers \ {w} : fo'[v] = fo[v] /\ wpc'[v] = wpc[v]
      BY <1>2 DEF Take, TypeOK
    <3> QED BY <2>1, <2>2, <3>1 DEF RunInv, TypeOK
  <2>6. StopInv'
    BY <2>2 DEF StopInv, TypeOK
  <2> QED BY <2>3, <2>4, <2>5, <2>6
<1>3. CASE Finish(w)
  <2>1. TypeOK'
    <3>1. fo[w] \in Tasks
      BY <1>3 DEF Finish, RunInv
    <3> QED
      BY <1>3, <3>1, TaskFields DEF Finish, TypeOK, ParkOrLoop
  <2>2. MutexInv' /\ CallInv'
    BY <1>3 DEF Finish, MutexInv, CallInv
  <2>3. RunInv' /\ StopInv'
    BY <1>3 DEF Finish, TypeOK, RunInv, StopInv, ParkOrLoop
  <2> QED BY <2>1, <2>2, <2>3
<1>4. CASE Wait(w)
  <2>1. TypeOK'
    BY <1>4 DEF Wait, TypeOK
  <2>2. MutexInv' /\ CallInv'
    BY <1>4 DEF Wait, MutexInv, CallInv
  <2>3. RunInv' /\ StopInv'
    BY <1>4 DEF Wait, TypeOK, RunInv, StopInv
  <2> QED BY <2>1, <2>2, <2>3
<1> QED BY <1>1, <1>2, <1>3, <1>4 DEF WorkerStep

\* One round of the scan notes a worker, or is undefined.
LEMMA ScanResult ==
  ASSUME Safe, NEW c \in Callers, ScanWorker(c)
  PROVE  \E r \in Calls :
           /\ call' = [call EXCEPT ![c] = r]
           /\ r.strand = call[c].strand
           /\ \/ r.pc = "undefined"
              \/ r.pc = "scan" /\ r.i > 1 /\ r.worker \in Workers
<1> USE CountAssumption, NoneAssumption DEF Safe, workerVars, stopVars
<1>a. call[c] \in Calls /\ WorkerCount \in Nat
  BY DEF TypeOK
<1>b. /\ call[c].pc = "scan" /\ call[c].i \in Workers
      /\ UNCHANGED <<strand_proc_list, mtx, posted, workerVars, stopVars>>
  BY DEF ScanWorker
<1> DEFINE size == Len(fo_list[call[c].i])
<1>c. size \in Nat
  BY <1>b DEF TypeOK
<1> HIDE DEF size
<1>1. CASE stopping.pc = "returned"
  <2> DEFINE r == [call[c] EXCEPT !.pc = "undefined"]
  <2>1. call' = [call EXCEPT ![c] = r]
    BY <1>1 DEF ScanWorker, Goto, TypeOK
  <2>2. r \in Calls /\ r.strand = call[c].strand /\ r.pc = "undefined"
    BY <1>a DEF Calls
  <2> QED BY <2>1, <2>2
<1>2. CASE stopping.pc # "returned" /\ (call[c].worker = None
                                        \/ TakesOver(size, call[c].smallest))
  <2> DEFINE r == [pc |-> "scan", strand |-> call[c].strand,
                   worker |-> call[c].i, smallest |-> size,
                   i |-> call[c].i + 1]
  <2>1. call' = [call EXCEPT ![c] = r]
    BY <1>2 DEF ScanWorker, size, TypeOK
  <2>2. r \in Calls /\ r.strand = call[c].strand /\ r.pc = "scan"
        /\ r.i > 1 /\ r.worker \in Workers
    BY <1>a, <1>b, <1>c DEF Calls, Workers
  <2> QED BY <2>1, <2>2
<1>3. CASE stopping.pc # "returned" /\ ~(call[c].worker = None
                                         \/ TakesOver(size, call[c].smallest))
  <2> DEFINE r == [call[c] EXCEPT !.i = call[c].i + 1]
  <2>1. call' = [call EXCEPT ![c] = r]
    BY <1>3 DEF ScanWorker, size, TypeOK
  <2>2. r \in Calls /\ r.strand = call[c].strand /\ r.pc = "scan"
        /\ r.i > 1 /\ r.worker \in Workers
    BY <1>a, <1>b, <1>3 DEF Calls, Workers
  <2> QED BY <2>1, <2>2
<1> QED BY <1>1, <1>2, <1>3

\* post_call preserves Safe.
LEMMA SafeCall ==
  ASSUME Safe, NEW c \in Callers,
         CallStep(c) \/ \E s \in Strands : PostCall(c, s)
  PROVE  Safe'
<1> USE CountAssumption, NoneAssumption DEF Safe, workerVars, stopVars
<1>0. call[c] \in Calls /\ WorkerCount \in Nat
  BY DEF TypeOK
<1>1. ASSUME NEW s \in Strands, PostCall(c, s) PROVE Safe'
  <2> DEFINE r == [pc |-> IF strand_proc_list[s] = None THEN "scan" ELSE "busy",
                   strand |-> s, worker |-> strand_proc_list[s],
                   smallest |-> 0, i |-> 1]
  <2>1. /\ call' = [call EXCEPT ![c] = r]
        /\ mtx = None /\ mtx' = c /\ posted[s] < MaxPosts
        /\ UNCHANGED <<strand_proc_list, posted, workerVars, stopVars>>
    BY <1>1 DEF PostCall
  <2>2. r \in Calls
    BY DEF Calls, TypeOK
  <2> HIDE DEF r
  <2>3. TypeOK'
    BY <2>1, <2>2 DEF TypeOK
  <2>4. MutexInv'
    BY <2>1, <2>2 DEF MutexInv, TypeOK
  <2>5. CallInv'
    BY <2>1, <2>2 DEF CallInv, TypeOK, r
  <2>6. RunInv' /\ StopInv'
    BY <2>1 DEF RunInv, StopInv
  <2> QED BY <2>3, <2>4, <2>5, <2>6
<1>2. CASE CheckBusy(c)
  <2> DEFINE r == [call[c] EXCEPT !.pc = "push"]
  <2>1. /\ \/ call' = [call EXCEPT ![c] = Idle] /\ mtx' = None
           \/ call' = [call EXCEPT ![c] = r] /\ mtx' = mtx
        /\ call[c].pc = "busy"
        /\ UNCHANGED <<strand_proc_list, posted, workerVars, stopVars>>
    BY <1>2 DEF CheckBusy, Goto, TypeOK
  <2>2. /\ Idle \in Calls /\ Idle.pc = "idle"
        /\ r \in Calls /\ r.pc = "push"
        /\ r.strand = call[c].strand /\ r.worker = call[c].worker
    BY <1>0 DEF Idle, Calls
  <2>3. \A d \in Callers \ {c} : call[d].pc = "idle"
    BY <2>1 DEF MutexInv
  <2> HIDE DEF r
  <2>4. TypeOK'
    <3>1. call' \in [Callers -> Calls]
      BY <2>1, <2>2 DEF TypeOK
    <3>2. mtx' \in Callers \cup {None}
      BY <2>1 DEF TypeOK
    <3> QED BY <2>1, <3>1, <3>2 DEF TypeOK
  <2>5. MutexInv'
    BY <2>1, <2>2, <2>3 DEF MutexInv, TypeOK
  <2>6. CallInv'
    <3>1. \A d \in Callers \ {c} : call'[d].pc = "idle"
      BY <2>1, <2>3 DEF TypeOK
    <3>2. \/ call'[c].pc = "idle"
          \/ /\ call'[c].pc = "push" /\ call'[c].strand = call[c].strand
             /\ call'[c].worker = call[c].worker
      BY <2>1, <2>2 DEF TypeOK
    <3>3. /\ call[c].strand \in Strands /\ call[c].worker \in Workers
          /\ strand_proc_list[call[c].strand] = call[c].worker
          /\ posted[call[c].strand] < MaxPosts
      BY <2>1 DEF CallInv
    <3> QED BY <2>1, <3>1, <3>2, <3>3 DEF CallInv
  <2>7. RunInv' /\ StopInv'
    BY <2>1 DEF RunInv, StopInv
  <2> QED BY <2>4, <2>5, <2>6, <2>7
<1>3. CASE ScanWorker(c)
  <2>1. /\ call[c].pc = "scan" /\ call[c].i \in Workers
        /\ UNCHANGED <<strand_proc_list, mtx, posted, workerVars, stopVars>>
    BY <1>3 DEF ScanWorker
  <2>3. \E r \in Calls :
          /\ call' = [call EXCEPT ![c] = r]
          /\ r.strand = call[c].strand
          /\ \/ r.pc = "undefined"
             \/ r.pc = "scan" /\ r.i > 1 /\ r.worker \in Workers
    BY <1>3, ScanResult
  <2>4. TypeOK'
    BY <2>1, <2>3 DEF TypeOK
  <2>5. MutexInv'
    BY <2>1, <2>3 DEF MutexInv, TypeOK
  <2>6. CallInv'
    BY <2>1, <2>3 DEF CallInv, TypeOK
  <2>7. RunInv' /\ StopInv'
    BY <2>1 DEF RunInv, StopInv
  <2> QED BY <2>4, <2>5, <2>6, <2>7
<1>4. CASE BindStrand(c)
  <2> DEFINE s == call[c].strand
             w == call[c].worker
             r == [call[c] EXCEPT !.pc = "push"]
  <2>1. /\ call[c].pc = "scan" /\ call[c].i \notin Workers
        /\ strand_proc_list' = [strand_proc_list EXCEPT ![s] = w]
        /\ call' = [call EXCEPT ![c] = r]
        /\ UNCHANGED <<mtx, posted, workerVars, stopVars>>
    BY <1>4 DEF BindStrand, Bind, Goto, TypeOK
  <2>2. call[c].i > 1 /\ w \in Workers /\ s \in Strands
    BY <1>0, <2>1 DEF CallInv, Calls, Workers
  <2>3. /\ r \in Calls /\ r.pc = "push" /\ r.strand = s /\ r.worker = w
    BY <1>0 DEF Calls
  <2>4. \A d \in Callers \ {c} : call[d].pc = "idle"
    BY <2>1 DEF MutexInv
  <2> HIDE DEF r, s, w
  <2>5. TypeOK'
    BY <2>1, <2>2, <2>3 DEF TypeOK
  <2>6. MutexInv'
    BY <2>1, <2>3 DEF MutexInv, TypeOK
  <2>7. CallInv'
    <3>1. posted[s] < MaxPosts
      BY <2>1 DEF CallInv, s
    <3> QED BY <2>1, <2>2, <2>3, <2>4, <3>1 DEF CallInv, TypeOK
  <2>8. RunInv' /\ StopInv'
    BY <2>1 DEF RunInv, StopInv
  <2> QED BY <2>5, <2>6, <2>7, <2>8
<1>5. CASE Push(c)
  <2> DEFINE s == call[c].strand
             w == call[c].worker
             t == [strand |-> s, num |-> posted[s] + 1]
             r == [call[c] EXCEPT !.pc = "signal"]
  <2>1. /\ call[c].pc = "push"
        /\ fo_list' = [fo_list EXCEPT ![w] = Append(fo_list[w], t)]
        /\ posted' = [posted EXCEPT ![s] = posted[s] + 1]
        /\ call' = [call EXCEPT ![c] = r]
        /\ UNCHANGED <<evt, wpc, fo, list_size, done, strand_proc_list, mtx, stopVars>>
    BY <1>5 DEF Push, Goto, TypeOK
  <2>2. s \in Strands /\ w \in Workers /\ strand_proc_list[s] = w
        /\ posted[s] + 1 \in 1 .. MaxPosts
    BY <2>1, SMTT(30) DEF CallInv, TypeOK
  <2>3. t \in Tasks
    BY <2>2 DEF Tasks
  <2>4. Append(fo_list[w], t) \in Seq(Tasks)
    BY <2>2, <2>3 DEF TypeOK
  <2>5. /\ r \in Calls /\ r.pc = "signal" /\ r.strand = s /\ r.worker = w
    BY <1>0 DEF Calls
  <2>6. \A d \in Callers \ {c} : call[d].pc = "idle"
    BY <2>1 DEF MutexInv
  <2> HIDE DEF r, s, w, t
  <2>7. TypeOK'
    BY <2>1, <2>2, <2>4, <2>5 DEF TypeOK
  <2>8. MutexInv'
    BY <2>1, <2>5 DEF MutexInv, TypeOK
  <2>9. CallInv'
    BY <2>1, <2>2, <2>5, <2>6 DEF CallInv, TypeOK
  <2>10. RunInv' /\ StopInv'
    BY <2>1 DEF RunInv, StopInv
  <2> QED BY <2>7, <2>8, <2>9, <2>10
<1>6. CASE Signal(c)
  <2>1. /\ call[c].pc = "signal" /\ mtx' = None
        /\ evt' = [evt EXCEPT ![call[c].worker] = TRUE]
        /\ call' = [call EXCEPT ![c] = Idle]
        /\ UNCHANGED <<fo_list, wpc, fo, list_size, done,
                       strand_proc_list, posted, stopVars>>
    BY <1>6 DEF Signal, SetEvent
  <2>2. Idle \in Calls /\ Idle.pc = "idle"
    BY DEF Idle, Calls
  <2>3. TypeOK'
    BY <2>1, <2>2 DEF TypeOK
  <2>4. MutexInv'
    BY <2>1, <2>2 DEF MutexInv, TypeOK
  <2>5. CallInv'
    BY <2>1, <2>2 DEF CallInv, TypeOK
  <2>6. RunInv' /\ StopInv'
    BY <2>1 DEF RunInv, StopInv
  <2> QED BY <2>3, <2>4, <2>5, <2>6
<1> QED BY <1>1, <1>2, <1>3, <1>4, <1>5, <1>6 DEF CallStep

\* stop preserves Safe.
LEMMA SafeStop ==
  ASSUME Safe, StopCall \/ StopStep
  PROVE  Safe'
<1> USE CountAssumption DEF Safe, workerVars, callVars
<1>1. CASE StopCall
  BY <1>1 DEF StopCall, TypeOK, MutexInv, CallInv, RunInv, StopInv
<1>2. CASE StopWorker
  BY <1>2 DEF StopWorker, TypeOK, MutexInv, CallInv, RunInv, StopInv
<1>3. CASE StopJoin
  <2>1. /\ stopping.pc = "join" /\ wpc[stopping.i] = "exited"
        /\ stopping' = [pc |-> "each", i |-> stopping.i + 1]
        /\ UNCHANGED <<alive, workerVars, callVars>>
        /\ stopping.i \in Workers
    BY <1>3 DEF StopJoin, Joined, StopInv
  <2>2. stopping'.pc = "each" /\ stopping'.i = stopping.i + 1
        /\ stopping.i + 1 \in 1 .. WorkerCount + 1
    BY <2>1 DEF Workers
  <2>3. TypeOK'
    BY <2>1, <2>2 DEF TypeOK
  <2>4. MutexInv' /\ CallInv' /\ RunInv'
    BY <2>1 DEF MutexInv, CallInv, RunInv
  <2>5. StopInv'
    BY <2>1, <2>2 DEF StopInv, Workers
  <2> QED BY <2>3, <2>4, <2>5
<1>4. CASE StopClear
  BY <1>4 DEF StopClear, TypeOK, MutexInv, CallInv, RunInv, StopInv
<1> QED BY <1>1, <1>2, <1>3, <1>4 DEF StopStep

LEMMA SafeNext ==
  ASSUME Safe, [Next]_vars
  PROVE  Safe'
<1>1. CASE UNCHANGED vars
  BY <1>1 DEF Safe, TypeOK, MutexInv, CallInv, RunInv, StopInv,
              vars, workerVars, callVars, stopVars
<1>2. CASE Next
  BY <1>1, <1>2, SafeWorker, SafeCall, SafeStop DEF Next, Resting
<1> QED BY <1>1, <1>2

\* The types, and the phases of post_call and stop, hold throughout.
THEOREM Safety == Spec => []Safe
<1>1. Init => Safe
  BY SafeInit
<1>2. Safe /\ [Next]_vars => Safe'
  BY SafeNext
<1> QED BY <1>1, <1>2, PTL DEF Spec

\* Type correctness.
THEOREM TypeCorrect == Spec => []TypeOK
BY Safety, PTL DEF Safe

\* Once thread_pool_t::stop has returned, every worker thread has ended: no
\* function object runs any more (thread_pool.hpp:138-148).
THEOREM StopEnds == Spec => []StoppedMeansQuiet
<1>1. Safe => StoppedMeansQuiet
  BY CountAssumption DEF Safe, StopInv, StoppedMeansQuiet, TypeOK, Workers
<1> QED BY Safety, <1>1, PTL
-----------------------------------------------------------------------------
(* No wake-up is lost.                                                     *)

\* NoLostWakeup is preserved by every step: it follows the steps of the
\* worker from its last look at the list to event_wait.
LEMMA WakeupNext ==
  ASSUME Safe, NoLostWakeup, [Next]_vars
  PROVE  NoLostWakeup'
<1> USE DEF Safe, TypeOK
<1> SUFFICES ASSUME NEW v \in Workers,
                    Parking(v)', fo_list'[v] # <<>>
             PROVE  \/ evt'[v]
                    \/ \E d \in Callers : call'[d].pc = "signal" /\ call'[d].worker = v
  BY DEF NoLostWakeup
<1> DEFINE Woken == \/ evt[v]
                    \/ \E d \in Callers : call[d].pc = "signal" /\ call[d].worker = v
<1>1. Parking(v) /\ fo_list[v] # <<>> => Woken
  BY DEF NoLostWakeup
<1> HIDE DEF Woken
<1>2. ASSUME UNCHANGED <<fo_list, evt, wpc, list_size, call>>
      PROVE  evt'[v] \/ \E d \in Callers : call'[d].pc = "signal" /\ call'[d].worker = v
  BY <1>1, <1>2 DEF Parking, Woken
<1>3. ASSUME NEW w \in Workers, Loop(w)
      PROVE  evt'[v] \/ \E d \in Callers : call'[d].pc = "signal" /\ call'[d].worker = v
  BY <1>1, <1>3 DEF Loop, Parking, Woken, callVars
<1>4. ASSUME NEW w \in Workers, Take(w)
      PROVE  evt'[v] \/ \E d \in Callers : call'[d].pc = "signal" /\ call'[d].worker = v
  <2>1. CASE v # w
    BY <1>1, <1>4, <2>1 DEF Take, Parking, Woken, callVars
  <2>2. CASE v = w
    <3>1. fo_list[w] # <<>>
      BY <1>4, <2>2 DEF Take
    <3>2. fo_list'[w] = Tail(fo_list[w]) /\ wpc'[w] = "run"
          /\ list_size'[w] = Len(fo_list[w]) - 1
      BY <1>4, <3>1 DEF Take, SizeAfterPop
    <3>3. Len(fo_list[w]) = 1
      BY <2>2, <3>2 DEF Parking
    <3>4. Tail(fo_list[w]) \in Seq(Tasks) /\ Len(Tail(fo_list[w])) = 0
      BY <3>1, <3>3
    <3>5. fo_list'[w] = <<>>
      BY <3>2, <3>4, EmptySeq
    <3> QED BY <2>2, <3>5
  <2> QED BY <2>1, <2>2
<1>5. ASSUME NEW w \in Workers, Finish(w)
      PROVE  evt'[v] \/ \E d \in Callers : call'[d].pc = "signal" /\ call'[d].worker = v
  BY <1>1, <1>5 DEF Finish, ParkOrLoop, Parking, Woken, callVars
<1>6. ASSUME NEW w \in Workers, Wait(w)
      PROVE  evt'[v] \/ \E d \in Callers : call'[d].pc = "signal" /\ call'[d].worker = v
  BY <1>1, <1>6 DEF Wait, Parking, Woken, callVars
<1>7. ASSUME NEW c \in Callers, CallStep(c) \/ \E s \in Strands : PostCall(c, s)
      PROVE  evt'[v] \/ \E d \in Callers : call'[d].pc = "signal" /\ call'[d].worker = v
  <2>1. CASE Push(c)
    <3>1. CASE v = call[c].worker
      BY <2>1, <3>1 DEF Push, Goto
    <3>2. CASE v # call[c].worker
      BY <1>1, <2>1, <3>2 DEF Push, Goto, Parking, Woken
    <3> QED BY <3>1, <3>2
  <2>2. CASE Signal(c)
    <3>1. CASE v = call[c].worker
      BY <2>2, <3>1 DEF Signal, SetEvent
    <3>2. CASE v # call[c].worker
      BY <1>1, <2>2, <3>2 DEF Signal, SetEvent, Parking, Woken
    <3> QED BY <3>1, <3>2
  <2>3. CASE CheckBusy(c) \/ ScanWorker(c) \/ BindStrand(c)
             \/ \E s \in Strands : PostCall(c, s)
    <3>1. UNCHANGED workerVars /\ call[c].pc # "signal"
          /\ \A d \in Callers \ {c} : call'[d] = call[d]
      BY <2>3 DEF CheckBusy, ScanWorker, BindStrand, PostCall, MayCall, Goto
    <3> QED BY <1>1, <3>1 DEF Parking, Woken, workerVars
  <2> QED BY <1>7, <2>1, <2>2, <2>3 DEF CallStep
<1> QED
  BY <1>2, <1>3, <1>4, <1>5, <1>6, <1>7
     DEF Next, WorkerStep, StopCall, StopStep, StopWorker, StopJoin, StopClear,
         Resting, vars, workerVars, callVars

\* A worker never sleeps over a function object that nobody is about to wake
\* it for (thread_pool.hpp:62-65, 77-83).
THEOREM WakeupKept == Spec => []NoLostWakeup
<1>1. Init => NoLostWakeup
  BY DEF Init, NoLostWakeup, Parking
<1>2. Safe /\ NoLostWakeup /\ [Next]_vars => NoLostWakeup'
  BY WakeupNext
<1> QED BY <1>1, <1>2, Safety, PTL DEF Spec
-----------------------------------------------------------------------------
(* The length of a list.                                                   *)

\* A caller that is about to post has found room.
Room ==
  \A c \in Callers : call[c].pc = "push" =>
    Len(fo_list[call[c].worker]) < MaxTaskSize + Cardinality(BoundTo(call[c].worker))

LEMMA BoundToFinite ==
  ASSUME NEW w
  PROVE  IsFiniteSet(BoundTo(w)) /\ Cardinality(BoundTo(w)) \in Nat
<1>1. BoundTo(w) \subseteq Strands
  BY DEF BoundTo
<1> QED BY <1>1, FS_Subset, FS_CardinalityType, CountAssumption

LEMMA LenIsNat ==
  ASSUME Safe, NEW w \in Workers
  PROVE  Len(fo_list[w]) \in Nat
BY LenProperties DEF Safe, TypeOK

\* Steps that neither lengthen a list nor change a binding or a caller's
\* finding keep the bound.
LEMMA QueueSame ==
  ASSUME Safe, QueueBound, Room, UNCHANGED strand_proc_list,
         \A w \in Workers : Len(fo_list'[w]) \in Nat
                            /\ Len(fo_list'[w]) <= Len(fo_list[w]),
         \A c \in Callers : call'[c].pc = "push" =>
           call[c].pc = "push" /\ call'[c].worker = call[c].worker
  PROVE  QueueBound' /\ Room'
<1>1. \A w : BoundTo(w)' = BoundTo(w)
  BY DEF BoundTo
<1>2. \A w \in Workers : Cardinality(BoundTo(w)) \in Nat /\ Len(fo_list[w]) \in Nat
  BY BoundToFinite, LenIsNat
<1>3. QueueBound'
  <2> SUFFICES ASSUME NEW w \in Workers
               PROVE  Len(fo_list'[w]) <= MaxTaskSize + Cardinality(BoundTo(w)')
    BY DEF QueueBound
  <2>1. Len(fo_list'[w]) \in Nat /\ Len(fo_list'[w]) <= Len(fo_list[w])
    OBVIOUS
  <2>2. Len(fo_list[w]) <= MaxTaskSize + Cardinality(BoundTo(w))
    BY DEF QueueBound
  <2>3. Cardinality(BoundTo(w)') = Cardinality(BoundTo(w))
    BY <1>1
  <2>4. MaxTaskSize \in Nat
    BY CountAssumption
  <2> QED BY <1>2, <2>1, <2>2, <2>3, <2>4
<1>4. Room'
  <2> SUFFICES ASSUME NEW c \in Callers, call'[c].pc = "push"
               PROVE  Len(fo_list'[call[c].worker])
                        < MaxTaskSize + Cardinality(BoundTo(call[c].worker))
    BY DEF Room, BoundTo
  <2>1. call[c].worker \in Workers
    BY DEF Safe, CallInv
  <2> QED BY <2>1, <1>2, CountAssumption DEF Room
<1> QED BY <1>3, <1>4

LEMMA QueueNext ==
  ASSUME Safe, QueueBound, Room, [Next]_vars
  PROVE  QueueBound' /\ Room'
<1> USE CountAssumption
<1>0. \A w \in Workers : Cardinality(BoundTo(w)) \in Nat /\ Len(fo_list[w]) \in Nat
  BY BoundToFinite, LenIsNat
<1>1. ASSUME UNCHANGED <<fo_list, strand_proc_list>>,
             \A c \in Callers : call'[c].pc = "push" => call'[c] = call[c]
      PROVE  QueueBound' /\ Room'
  BY <1>0, <1>1, QueueSame
<1>2. ASSUME NEW w \in Workers, Take(w) PROVE QueueBound' /\ Room'
  <2>1. CASE fo_list[w] = <<>>
    BY <1>1, <1>2, <2>1 DEF Take, callVars
  <2>2. CASE fo_list[w] # <<>>
    <3>1. fo_list' = [fo_list EXCEPT ![w] = Tail(fo_list[w])]
          /\ UNCHANGED <<strand_proc_list, call>>
      BY <1>2, <2>2 DEF Take, callVars
    <3>2. Len(Tail(fo_list[w])) \in Nat /\ Len(Tail(fo_list[w])) <= Len(fo_list[w])
      BY <1>0, <2>2, HeadTailProperties, EmptySeq DEF Safe, TypeOK
    <3>3. \A v \in Workers : Len(fo_list'[v]) \in Nat
                             /\ Len(fo_list'[v]) <= Len(fo_list[v])
      BY <1>0, <3>1, <3>2 DEF Safe, TypeOK
    <3> QED BY <3>1, <3>3, QueueSame
  <2> QED BY <2>1, <2>2
<1>3. ASSUME NEW c \in Callers, CheckBusy(c) PROVE QueueBound' /\ Room'
  <2>1. /\ call[c].pc = "busy"
        /\ UNCHANGED <<fo_list, strand_proc_list>>
        /\ \A d \in Callers \ {c} : call'[d] = call[d]
        /\ call'[c].worker = call[c].worker \/ call'[c].pc = "idle"
        /\ call'[c].pc = "push" => Len(fo_list[call[c].worker]) <= MaxTaskSize
    <3>1. CASE IsBusy(call[c].worker)
      BY <1>3, <3>1 DEF CheckBusy, Idle, workerVars, Safe, TypeOK
    <3>2. CASE ~IsBusy(call[c].worker)
      <4>1. call[c].worker \in Workers
        BY <1>3 DEF CheckBusy, Safe, CallInv
      <4>2. Len(fo_list[call[c].worker]) <= MaxTaskSize
        BY <3>2, <4>1, <1>0 DEF IsBusy
      <4> QED BY <1>3, <3>2, <4>2 DEF CheckBusy, Goto, workerVars, Safe, TypeOK, Calls
    <3> QED BY <3>1, <3>2
  <2>2. call[c].worker \in Workers /\ call[c].strand \in BoundTo(call[c].worker)
    BY <2>1 DEF Safe, CallInv, BoundTo
  <2>3. Cardinality(BoundTo(call[c].worker)) \in Nat \ {0}
    BY <2>2, BoundToFinite, FS_EmptySet
  <2>4. \A w : BoundTo(w)' = BoundTo(w)
    BY <2>1 DEF BoundTo
  <2>5. QueueBound'
    BY <2>1, <2>4 DEF QueueBound
  <2>6. ASSUME NEW d \in Callers, call'[d].pc = "push"
        PROVE  Len(fo_list'[call'[d].worker])
                 < MaxTaskSize + Cardinality(BoundTo(call'[d].worker))
    BY <2>1, <2>2, <2>3, <2>6, <1>0 DEF Room
  <2>7. Room'
    BY <2>4, <2>6, <2>1 DEF Room, BoundTo
  <2> QED BY <2>5, <2>7
<1>4. ASSUME NEW c \in Callers, BindStrand(c) PROVE QueueBound' /\ Room'
  <2>1. PICK s \in Strands, w \in Workers :
          /\ s = call[c].strand /\ w = call[c].worker
          /\ strand_proc_list[s] = None
          /\ strand_proc_list' = [strand_proc_list EXCEPT ![s] = w]
          /\ call'[c].worker = w
          /\ UNCHANGED fo_list
          /\ \A d \in Callers \ {c} : call'[d].pc = "idle"
    <3>1. call[c].i > 1 /\ call[c].pc = "scan" /\ call[c].worker \in Workers
      BY <1>4 DEF BindStrand, Safe, CallInv, TypeOK, Calls, Workers
    <3>2. \A d \in Callers \ {c} : call[d].pc = "idle"
      BY <3>1 DEF Safe, MutexInv
    <3>3. call'[c].worker = call[c].worker
          /\ \A d \in Callers \ {c} : call'[d] = call[d]
      BY <1>4 DEF BindStrand, Goto, Safe, TypeOK, Calls
    <3> QED BY <1>4, <3>1, <3>2, <3>3 DEF BindStrand, Bind, workerVars, Safe, CallInv
  <2>2. None \notin Workers
    BY NoneAssumption DEF Callers
  <2>3. BoundTo(w)' = BoundTo(w) \cup {s} /\ s \notin BoundTo(w)
    BY <2>1, <2>2 DEF BoundTo, Safe, TypeOK
  <2>4. \A v \in Workers \ {w} : BoundTo(v)' = BoundTo(v)
    BY <2>1, <2>2 DEF BoundTo, Safe, TypeOK
  <2>5. Cardinality(BoundTo(w)') = Cardinality(BoundTo(w)) + 1
    BY <2>3, BoundToFinite, FS_AddElement
  <2>6. QueueBound'
    <3> SUFFICES ASSUME NEW v \in Workers
                 PROVE  Len(fo_list'[v]) <= MaxTaskSize + Cardinality(BoundTo(v)')
      BY DEF QueueBound
    <3>1. Len(fo_list[v]) <= MaxTaskSize + Cardinality(BoundTo(v))
      BY DEF QueueBound
    <3>2. CASE v = w
      BY <3>1, <3>2, <1>0, <2>1, <2>5
    <3>3. CASE v # w
      BY <3>1, <3>3, <2>1, <2>4
    <3> QED BY <3>2, <3>3
  <2>7. Room'
    <3> SUFFICES ASSUME NEW d \in Callers, call'[d].pc = "push"
                 PROVE  (Len(fo_list[call[d].worker])
                           < MaxTaskSize + Cardinality(BoundTo(call[d].worker)))'
      BY DEF Room
    <3>1. d = c /\ call'[d].worker = w
      BY <2>1
    <3>2. Len(fo_list[w]) < MaxTaskSize + Cardinality(BoundTo(w)')
      BY <1>0, <2>5 DEF QueueBound
    <3> QED BY <3>1, <3>2, <2>1 DEF BoundTo
  <2> QED BY <2>6, <2>7
<1>5. ASSUME NEW c \in Callers, Push(c) PROVE QueueBound' /\ Room'
  <2>1. PICK w \in Workers, t \in Tasks :
          /\ w = call[c].worker /\ call[c].pc = "push"
          /\ fo_list' = [fo_list EXCEPT ![w] = Append(fo_list[w], t)]
          /\ UNCHANGED strand_proc_list
    <3>1. [strand |-> call[c].strand, num |-> posted[call[c].strand] + 1] \in Tasks
      <4>1. call[c].strand \in Strands /\ posted[call[c].strand] + 1 \in 1 .. MaxPosts
        BY <1>5, CountAssumption, SMTT(30) DEF Push, Safe, CallInv, TypeOK
      <4> QED BY <4>1 DEF Tasks
    <3> QED BY <1>5, <3>1 DEF Push, Safe, CallInv
  <2>2. \A d \in Callers : call'[d].pc # "push"
    <3>1. \A d \in Callers \ {c} : call[d].pc = "idle"
      BY <2>1 DEF Safe, MutexInv
    <3> QED BY <1>5, <3>1 DEF Push, Goto, Safe, TypeOK, Calls
  <2>3. fo_list'[w] = Append(fo_list[w], t) /\ Len(fo_list'[w]) = Len(fo_list[w]) + 1
        /\ \A v \in Workers \ {w} : fo_list'[v] = fo_list[v]
    BY <2>1, AppendProperties DEF Safe, TypeOK
  <2>4. \A v : BoundTo(v)' = BoundTo(v)
    BY <2>1 DEF BoundTo
  <2>5. QueueBound'
    <3> SUFFICES ASSUME NEW v \in Workers
                 PROVE  Len(fo_list'[v]) <= MaxTaskSize + Cardinality(BoundTo(v)')
      BY DEF QueueBound
    <3>1. CASE v = w
      BY <3>1, <1>0, <2>1, <2>3, <2>4 DEF Room
    <3>2. CASE v # w
      BY <3>2, <2>3, <2>4 DEF QueueBound
    <3> QED BY <3>1, <3>2
  <2>6. Room'
    BY <2>2 DEF Room
  <2> QED BY <2>5, <2>6
<1>6. ASSUME NEW w \in Workers, Loop(w) \/ Finish(w) \/ Wait(w)
      PROVE  QueueBound' /\ Room'
  BY <1>1, <1>6 DEF Loop, Finish, Wait, callVars
<1>7. ASSUME NEW c \in Callers, ScanWorker(c) PROVE QueueBound' /\ Room'
  <2>1. /\ call[c].pc = "scan" /\ UNCHANGED <<fo_list, strand_proc_list>>
        /\ \A d \in Callers \ {c} : call'[d] = call[d]
        /\ call'[c].pc # "push"
    <3>1. call[c].pc = "scan" /\ UNCHANGED <<fo_list, strand_proc_list>>
      BY <1>7 DEF ScanWorker, workerVars
    <3>2. PICK r \in Calls :
            call' = [call EXCEPT ![c] = r] /\ r.pc \in {"undefined", "scan"}
      BY <1>7, ScanResult
    <3>3. call'[c] = r /\ \A d \in Callers \ {c} : call'[d] = call[d]
      BY <3>2 DEF Safe, TypeOK
    <3> QED BY <3>1, <3>2, <3>3
  <2> QED BY <2>1, <1>1
<1>8. ASSUME NEW c \in Callers, NEW s \in Strands, PostCall(c, s)
      PROVE  QueueBound' /\ Room'
  BY <1>1, <1>8 DEF PostCall, workerVars, Safe, TypeOK
<1>9. ASSUME NEW c \in Callers, Signal(c) PROVE QueueBound' /\ Room'
  BY <1>1, <1>9 DEF Signal, Idle, Safe, TypeOK
<1>10. ASSUME StopCall \/ StopStep \/ UNCHANGED vars PROVE QueueBound' /\ Room'
  BY <1>1, <1>10
     DEF StopCall, StopStep, StopWorker, StopJoin, StopClear, vars, workerVars, callVars
<1> QED
  BY <1>2, <1>3, <1>4, <1>5, <1>6, <1>7, <1>8, <1>9, <1>10
     DEF Next, WorkerStep, CallStep, Resting

\* MAX_TASK_SIZE bounds every list up to the first posts of its strands
\* (thread_pool.hpp:85-88, 157-170).
THEOREM QueueBounded == Spec => []QueueBound
<1>1. Init => QueueBound /\ Room
  <2> SUFFICES ASSUME Init PROVE QueueBound /\ Room
    OBVIOUS
  <2>1. Room
    BY DEF Init, Room, Idle
  <2>2. \A w \in Workers : Len(fo_list[w]) = 0
    BY DEF Init
  <2>3. QueueBound
    BY <2>2, BoundToFinite, CountAssumption DEF QueueBound
  <2> QED BY <2>1, <2>3
<1>2. Safe /\ (QueueBound /\ Room) /\ [Next]_vars => (QueueBound /\ Room)'
  BY QueueNext
<1> QED BY <1>1, <1>2, Safety, PTL DEF Spec
-----------------------------------------------------------------------------
(* The promise of post_call: StrandPool implements SerialExecutor.         *)
(*                                                                         *)
(* The promise rests on what the lists hold.  Every function object of a   *)
(* strand is with the worker the strand is bound to (Routed); the numbers  *)
(* of a strand increase along the list (Increasing) and are exactly those  *)
(* accepted and not yet begun (Between, Complete).  So the function object *)
(* at the front is the next of its strand, and nobody else runs one.       *)


\* Positions in the list of w.
Places(w) == 1 .. Len(fo_list[w])

\* The last function object of s that worker w has begun, if s is bound to w.
Begun(w, s) == IF wpc[w] = "run" /\ fo[w].strand = s THEN fo[w].num ELSE done[s]

Routed ==
  \A w \in Workers :
    /\ \A k \in Places(w) : strand_proc_list[fo_list[w][k].strand] = w
    /\ wpc[w] = "run" => strand_proc_list[fo[w].strand] = w

RunsNext ==
  \A w \in Workers : wpc[w] = "run" => fo[w].num = done[fo[w].strand] + 1

Increasing ==
  \A w \in Workers : \A j, k \in Places(w) :
    j < k /\ fo_list[w][j].strand = fo_list[w][k].strand =>
      fo_list[w][j].num < fo_list[w][k].num

Between ==
  \A w \in Workers : \A k \in Places(w) :
    /\ Begun(w, fo_list[w][k].strand) < fo_list[w][k].num
    /\ fo_list[w][k].num <= posted[fo_list[w][k].strand]

Complete ==
  \A s \in Strands : \A w \in Workers :
    strand_proc_list[s] = w =>
      \A n \in Nat : Begun(w, s) < n /\ n <= posted[s] =>
        \E k \in Places(w) : fo_list[w][k].strand = s /\ fo_list[w][k].num = n

\* What has begun was accepted.
Accepted ==
  /\ \A s \in Strands : done[s] <= posted[s]
  /\ \A w \in Workers : wpc[w] = "run" => fo[w].num <= posted[fo[w].strand]

\* A strand that is bound to no worker has nothing to run.
Unbound == \A s \in Strands : strand_proc_list[s] = None => posted[s] = done[s]

Ordered ==
  Routed /\ RunsNext /\ Increasing /\ Between /\ Complete /\ Accepted /\ Unbound

LEMMA OrderedInit == Init => Ordered
BY NoneAssumption
   DEF Init, Ordered, Routed, RunsNext, Increasing, Between, Complete,
       Accepted, Unbound, Places, Begun, Callers

\* What is in a list is a function object, with a strand and a number.
LEMMA ListedTask ==
  ASSUME Safe, NEW w \in Workers, NEW k \in Places(w)
  PROVE  /\ fo_list[w][k] \in Tasks
         /\ fo_list[w][k].strand \in Strands
         /\ fo_list[w][k].num \in Nat
<1>1. fo_list[w][k] \in Tasks
  BY DEF Safe, TypeOK, Places
<1> QED BY <1>1, TaskFields, CountAssumption

\* The function object at the front of a list is the next of its strand.
LEMMA FrontIsNext ==
  ASSUME Safe, Ordered, NEW w \in Workers, wpc[w] # "run", fo_list[w] # <<>>
  PROVE  /\ Head(fo_list[w]) = fo_list[w][1]
         /\ 1 \in Places(w)
         /\ fo_list[w][1].num = done[fo_list[w][1].strand] + 1
<1>1. /\ Head(fo_list[w]) = fo_list[w][1] /\ Len(fo_list[w]) \in Nat \ {0}
      /\ 1 \in Places(w)
  BY EmptySeq DEF Safe, TypeOK, Places
<1> DEFINE s == fo_list[w][1].strand
           n == fo_list[w][1].num
<1>2. s \in Strands /\ n \in Nat /\ done[s] \in Nat /\ posted[s] \in Nat
  BY <1>1, ListedTask, CountAssumption DEF Safe, TypeOK
<1>3. done[s] < n /\ n <= posted[s] /\ strand_proc_list[s] = w /\ Begun(w, s) = done[s]
  BY <1>1 DEF Ordered, Between, Routed, Begun
<1>4. PICK k \in Places(w) : fo_list[w][k].strand = s
                             /\ fo_list[w][k].num = done[s] + 1
  <2>1. done[s] + 1 \in Nat /\ done[s] < done[s] + 1 /\ done[s] + 1 <= posted[s]
    BY <1>2, <1>3
  <2> QED BY <1>2, <1>3, <2>1 DEF Ordered, Complete
<1>5. CASE k = 1
  BY <1>1, <1>4, <1>5
<1>6. CASE k # 1
  <2>1. 1 < k
    BY <1>1, <1>6 DEF Places
  <2>2. n < done[s] + 1
    BY <1>1, <1>4, <2>1 DEF Ordered, Increasing
  <2> QED BY <1>2, <1>3, <2>2
<1> QED BY <1>5, <1>6

\* Steps that touch neither the lists nor what runs preserve Ordered.
LEMMA OrderedSame ==
  ASSUME Ordered,
         UNCHANGED <<fo_list, fo, strand_proc_list, posted, done>>,
         \A w \in Workers : wpc'[w] = "run" <=> wpc[w] = "run"
  PROVE  Ordered'
<1>1. \A w \in Workers : Places(w)' = Places(w)
  BY DEF Places
<1>2. \A w \in Workers, s \in Strands : Begun(w, s)' = Begun(w, s)
  BY DEF Begun
<1>3. \A w \in Workers : \A k \in Places(w) :
        Begun(w, fo_list[w][k].strand)' = Begun(w, fo_list[w][k].strand)
  BY DEF Begun
<1>4. Routed' /\ RunsNext' /\ Increasing' /\ Accepted' /\ Unbound'
  BY <1>1 DEF Ordered, Routed, RunsNext, Increasing, Accepted, Unbound
<1>5. Between'
  BY <1>1, <1>3 DEF Ordered, Between
<1>6. Complete'
  BY <1>1, <1>2 DEF Ordered, Complete
<1> QED BY <1>4, <1>5, <1>6 DEF Ordered

\* Taking the front of a list preserves Ordered.
LEMMA OrderedTake ==
  ASSUME Safe, Ordered, NEW w \in Workers, Take(w), fo_list[w] # <<>>
  PROVE  Ordered'
<1> DEFINE L == fo_list[w]
           t == fo_list[w][1]
<1>1. /\ L \in Seq(Tasks) /\ L # <<>> /\ wpc[w] = "take"
      /\ Head(L) = t /\ 1 \in Places(w) /\ t.num = done[t.strand] + 1
  BY FrontIsNext DEF Safe, TypeOK, Take
<1>2. t \in Tasks /\ t.strand \in Strands /\ t.num \in Nat
  BY <1>1, ListedTask
<1>3. /\ fo_list' = [fo_list EXCEPT ![w] = Tail(L)]
      /\ fo' = [fo EXCEPT ![w] = t]
      /\ wpc' = [wpc EXCEPT ![w] = "run"]
      /\ UNCHANGED <<strand_proc_list, posted, done>>
  BY <1>1 DEF Take, Front, callVars
<1>4. /\ Tail(L) \in Seq(Tasks) /\ Len(Tail(L)) = Len(L) - 1
      /\ Len(L) \in Nat \ {0}
      /\ \A k \in 1 .. Len(L) - 1 : Tail(L)[k] = L[k + 1]
  BY <1>1, HeadTailProperties, EmptySeq
<1> HIDE DEF L, t
<1>5. /\ fo_list'[w] = Tail(L) /\ fo'[w] = t /\ wpc'[w] = "run"
      /\ \A v \in Workers \ {w} : fo_list'[v] = fo_list[v] /\ fo'[v] = fo[v]
                                  /\ wpc'[v] = wpc[v]
  BY <1>3 DEF Safe, TypeOK
<1>6. /\ Places(w)' = 1 .. Len(L) - 1
      /\ \A k \in Places(w)' : k \in Places(w) /\ k + 1 \in Places(w)
                               /\ fo_list'[w][k] = L[k + 1]
      /\ \A v \in Workers \ {w} : Places(v)' = Places(v)
  BY <1>4, <1>5 DEF Places, L
<1>7. Accepted'
  <2>1. t.num <= posted[t.strand]
    BY <1>1 DEF Ordered, Between, L, t
  <2> QED BY <2>1, <1>3, <1>5 DEF Ordered, Accepted
<1>8. Routed'
  <2> SUFFICES ASSUME NEW v \in Workers
               PROVE  /\ \A k \in Places(v)' : strand_proc_list[fo_list'[v][k].strand] = v
                      /\ wpc'[v] = "run" => strand_proc_list[fo'[v].strand] = v
    BY <1>3 DEF Routed
  <2>1. CASE v # w
    BY <2>1, <1>5, <1>6 DEF Ordered, Routed
  <2>2. CASE v = w
    BY <2>2, <1>1, <1>5, <1>6 DEF Ordered, Routed, L, t
  <2> QED BY <2>1, <2>2
<1>9. RunsNext'
  BY <1>1, <1>3, <1>5 DEF Ordered, RunsNext
<1>10. Increasing'
  <2> SUFFICES ASSUME NEW v \in Workers, NEW j \in Places(v)', NEW k \in Places(v)',
                      j < k, fo_list'[v][j].strand = fo_list'[v][k].strand
               PROVE  fo_list'[v][j].num < fo_list'[v][k].num
    BY DEF Increasing
  <2>1. CASE v # w
    BY <2>1, <1>5, <1>6 DEF Ordered, Increasing
  <2>2. CASE v = w
    <3>1. j + 1 < k + 1
      BY <2>2, <1>6, <1>4
    <3> QED BY <2>2, <3>1, <1>6 DEF Ordered, Increasing, L
  <2> QED BY <2>1, <2>2
<1>11. Between'
  <2> SUFFICES ASSUME NEW v \in Workers, NEW k \in Places(v)'
               PROVE  (/\ Begun(v, fo_list[v][k].strand) < fo_list[v][k].num
                       /\ fo_list[v][k].num <= posted[fo_list[v][k].strand])'
    BY DEF Between
  <2>1. CASE v # w
    BY <2>1, <1>3, <1>5, <1>6 DEF Ordered, Between, Begun
  <2>2. CASE v = w
    <3>1. fo_list'[w][k] = L[k + 1] /\ k + 1 \in Places(w) /\ 1 < k + 1
      BY <2>2, <1>4, <1>6
    <3>2. Begun(w, L[k + 1].strand) < L[k + 1].num
          /\ L[k + 1].num <= posted[L[k + 1].strand]
      BY <3>1 DEF Ordered, Between, L
    <3>3. L[k + 1].strand = t.strand => t.num < L[k + 1].num
      BY <3>1, <1>1 DEF Ordered, Increasing, L, t
    <3>4. Begun(w, L[k + 1].strand) = done[L[k + 1].strand]
      BY <1>1 DEF Begun
    <3> QED BY <2>2, <3>1, <3>2, <3>3, <3>4, <1>3, <1>5 DEF Begun
  <2> QED BY <2>1, <2>2
<1>12. Complete'
  <2> SUFFICES ASSUME NEW s \in Strands, NEW v \in Workers, strand_proc_list'[s] = v,
                      NEW n \in Nat, Begun(v, s)' < n, n <= posted'[s]
               PROVE  \E k \in Places(v)' : fo_list'[v][k].strand = s
                                            /\ fo_list'[v][k].num = n
    BY DEF Complete
  <2>1. CASE v # w
    BY <2>1, <1>3, <1>5, <1>6 DEF Ordered, Complete, Begun
  <2>2. CASE v = w
    <3>0. (IF t.strand = s THEN t.num ELSE done[s]) < n /\ n <= posted[s]
      BY <2>2, <1>3, <1>5 DEF Begun
    <3>1. Begun(w, s) < n /\ n <= posted[s]
      BY <3>0, <1>1, <1>2 DEF Safe, TypeOK, Begun
    <3>2. PICK k \in Places(w) : L[k].strand = s /\ L[k].num = n
      BY <2>2, <3>1, <1>3 DEF Ordered, Complete, L
    <3>3. k # 1
      BY <3>0, <3>2, <1>2 DEF L, t
    <3>4. k - 1 \in Places(w)' /\ (k - 1) + 1 = k
      BY <3>3, <1>4, <1>6 DEF Places, L
    <3> QED BY <2>2, <3>2, <3>4, <1>6
  <2> QED BY <2>1, <2>2
<1>13. Unbound'
  BY <1>3 DEF Ordered, Unbound
<1> QED BY <1>7, <1>8, <1>9, <1>10, <1>11, <1>12, <1>13 DEF Ordered

\* The return of a function object preserves Ordered.
LEMMA OrderedFinish ==
  ASSUME Safe, Ordered, NEW w \in Workers, Finish(w)
  PROVE  Ordered'
<1> DEFINE s0 == fo[w].strand
<1>1. /\ wpc[w] = "run" /\ fo[w] \in Tasks /\ s0 \in Strands /\ fo[w].num \in Nat
      /\ strand_proc_list[s0] = w
  BY TaskFields, CountAssumption DEF Finish, Safe, RunInv, Ordered, Routed
<1>2. /\ done' = [done EXCEPT ![s0] = fo[w].num]
      /\ wpc'[w] # "run" /\ \A v \in Workers \ {w} : wpc'[v] = wpc[v]
      /\ UNCHANGED <<fo_list, fo, strand_proc_list, posted>>
  BY DEF Finish, ParkOrLoop, callVars, Safe, TypeOK
<1> HIDE DEF s0
<1>3. /\ done'[s0] = fo[w].num
      /\ \A s \in Strands \ {s0} : done'[s] = done[s]
  BY <1>1, <1>2 DEF Safe, TypeOK
<1>4. \A v \in Workers : Places(v)' = Places(v)
  BY <1>2 DEF Places
<1>5. \A v \in Workers, s \in Strands :
        strand_proc_list[s] = v => Begun(v, s)' = Begun(v, s)
  BY <1>1, <1>2, <1>3 DEF Begun, s0
<1>6. Routed' /\ Increasing'
  BY <1>2, <1>4 DEF Ordered, Routed, Increasing
<1>7. RunsNext'
  <2> SUFFICES ASSUME NEW v \in Workers, wpc'[v] = "run"
               PROVE  fo[v].num = done'[fo[v].strand] + 1
    BY <1>2 DEF RunsNext
  <2>1. v # w /\ wpc[v] = "run"
    BY <1>2
  <2>2. fo[v].strand # s0 /\ fo[v].strand \in Strands
    BY <2>1, <1>1, TaskFields DEF Ordered, Routed, Safe, RunInv
  <2> QED BY <2>1, <2>2, <1>3 DEF Ordered, RunsNext
<1>8. Between'
  <2> SUFFICES ASSUME NEW v \in Workers, NEW k \in Places(v)'
               PROVE  (/\ Begun(v, fo_list[v][k].strand) < fo_list[v][k].num
                       /\ fo_list[v][k].num <= posted[fo_list[v][k].strand])'
    BY DEF Between
  <2>1. k \in Places(v)
    BY <1>4
  <2>2. fo_list[v][k].strand \in Strands /\ strand_proc_list[fo_list[v][k].strand] = v
    BY <2>1, ListedTask DEF Ordered, Routed
  <2>3. /\ Begun(v, fo_list[v][k].strand) < fo_list[v][k].num
        /\ fo_list[v][k].num <= posted[fo_list[v][k].strand]
    BY <2>1 DEF Ordered, Between
  <2>4. CASE fo_list[v][k].strand = s0
    BY <2>2, <2>3, <2>4, <1>1, <1>2, <1>3 DEF Begun, s0
  <2>5. CASE fo_list[v][k].strand # s0
    BY <2>2, <2>3, <2>5, <1>1, <1>2, <1>3 DEF Begun, s0
  <2> QED BY <2>4, <2>5
<1>9. Complete'
  BY <1>2, <1>4, <1>5 DEF Ordered, Complete
<1>10. Accepted'
  BY <1>1, <1>2, <1>3 DEF Ordered, Accepted, s0
<1>11. Unbound'
  BY <1>1, <1>2, <1>3, NoneAssumption DEF Ordered, Unbound, Callers
<1> QED BY <1>6, <1>7, <1>8, <1>9, <1>10, <1>11 DEF Ordered

\* The binding of a strand preserves Ordered.
LEMMA OrderedBind ==
  ASSUME Safe, Ordered, NEW c \in Callers, BindStrand(c)
  PROVE  Ordered'
<1> DEFINE s0 == call[c].strand
           w0 == call[c].worker
<1>1. /\ s0 \in Strands /\ strand_proc_list[s0] = None
      /\ strand_proc_list' = [strand_proc_list EXCEPT ![s0] = w0]
      /\ UNCHANGED <<posted, workerVars>>
  BY DEF BindStrand, Bind, Safe, CallInv
<1> HIDE DEF s0, w0
<1>2. /\ \A v \in Workers : Places(v)' = Places(v)
      /\ \A v \in Workers : \A s : Begun(v, s)' = Begun(v, s)
  BY <1>1 DEF Places, Begun, workerVars
<1>3. strand_proc_list'[s0] = w0
      /\ \A s \in Strands \ {s0} : strand_proc_list'[s] = strand_proc_list[s]
  BY <1>1 DEF Safe, TypeOK
<1>4. None \notin Workers
  BY NoneAssumption DEF Callers
<1>5. Routed'
  <2>1. ASSUME NEW v \in Workers, NEW k \in Places(v)
        PROVE  strand_proc_list'[fo_list[v][k].strand] = v
    BY ListedTask, <1>1, <1>3, <1>4 DEF Ordered, Routed
  <2>2. ASSUME NEW v \in Workers, wpc[v] = "run"
        PROVE  strand_proc_list'[fo[v].strand] = v
    BY <2>2, TaskFields, <1>1, <1>3, <1>4 DEF Ordered, Routed, Safe, RunInv
  <2> QED BY <2>1, <2>2, <1>1, <1>2 DEF Routed, workerVars
<1>6. RunsNext' /\ Increasing' /\ Between'
  BY <1>1, <1>2 DEF Ordered, RunsNext, Increasing, Between, Begun, workerVars
<1>7. Complete'
  <2> SUFFICES ASSUME NEW s \in Strands, NEW v \in Workers, strand_proc_list'[s] = v,
                      NEW n \in Nat, Begun(v, s) < n, n <= posted[s]
               PROVE  \E k \in Places(v) : fo_list[v][k].strand = s
                                           /\ fo_list[v][k].num = n
    BY <1>1, <1>2 DEF Complete, workerVars
  <2>1. CASE s # s0
    BY <2>1, <1>3 DEF Ordered, Complete
  <2>2. CASE s = s0
    <3>1. ~(wpc[v] = "run" /\ fo[v].strand = s0)
      BY <1>1, <1>4 DEF Ordered, Routed
    <3>2. Begun(v, s) = done[s] /\ posted[s] = done[s]
      BY <2>2, <3>1, <1>1 DEF Begun, Ordered, Unbound
    <3> QED BY <3>2 DEF Safe, TypeOK
  <2> QED BY <2>1, <2>2
<1>8. Accepted' /\ Unbound'
  BY <1>1, <1>3 DEF Ordered, Accepted, Unbound, workerVars
<1> QED BY <1>5, <1>6, <1>7, <1>8 DEF Ordered

\* push_back preserves Ordered.
LEMMA OrderedPush ==
  ASSUME Safe, Ordered, NEW c \in Callers, Push(c)
  PROVE  Ordered'
<1>1. PICK s0 \in Strands, w0 \in Workers, t \in Tasks :
        /\ t.strand = s0 /\ t.num = posted[s0] + 1
        /\ strand_proc_list[s0] = w0 /\ posted[s0] < MaxPosts
        /\ fo_list' = [fo_list EXCEPT ![w0] = Append(fo_list[w0], t)]
        /\ posted' = [posted EXCEPT ![s0] = posted[s0] + 1]
        /\ UNCHANGED <<wpc, fo, done, strand_proc_list>>
  <2> DEFINE s0 == call[c].strand
             w0 == call[c].worker
             t  == [strand |-> s0, num |-> posted[s0] + 1]
  <2>1. /\ s0 \in Strands /\ w0 \in Workers /\ strand_proc_list[s0] = w0
        /\ posted[s0] < MaxPosts
        /\ fo_list' = [fo_list EXCEPT ![w0] = Append(fo_list[w0], t)]
        /\ posted' = [posted EXCEPT ![s0] = posted[s0] + 1]
        /\ UNCHANGED <<wpc, fo, done, strand_proc_list>>
    BY DEF Push, Safe, CallInv
  <2>2. t.strand = s0 /\ t.num = posted[s0] + 1 /\ t \in Tasks
    BY <2>1, CountAssumption DEF Safe, TypeOK, Tasks
  <2> HIDE DEF s0, w0, t
  <2> QED BY <2>1, <2>2
<1>2. posted[s0] \in Nat
  BY CountAssumption DEF Safe, TypeOK
<1>3. PICK L \in Seq(Tasks) : L = fo_list[w0]
  BY DEF Safe, TypeOK
<1>4. /\ Len(Append(L, t)) = Len(L) + 1 /\ Len(L) \in Nat
      /\ \A k \in 1 .. Len(L) : Append(L, t)[k] = L[k]
      /\ Append(L, t)[Len(L) + 1] = t
  BY AppendProperties, LenProperties
<1>5. /\ fo_list'[w0] = Append(L, t)
      /\ \A v \in Workers \ {w0} : fo_list'[v] = fo_list[v]
      /\ posted'[s0] = posted[s0] + 1
      /\ \A s \in Strands \ {s0} : posted'[s] = posted[s]
  BY <1>1, <1>3 DEF Safe, TypeOK
<1>6. /\ Places(w0) = 1 .. Len(L) /\ Places(w0)' = 1 .. Len(L) + 1
      /\ \A v \in Workers \ {w0} : Places(v)' = Places(v)
  BY <1>3, <1>4, <1>5 DEF Places
<1>15. /\ \A k \in Places(w0) : k \in Places(w0)' /\ fo_list'[w0][k] = fo_list[w0][k]
       /\ fo_list'[w0][Len(L) + 1] = t /\ Len(L) + 1 \in Places(w0)'
       /\ \A k \in Places(w0)' : k \in Places(w0) \/ k = Len(L) + 1
  <2>1. \A k \in 1 .. Len(L) : Append(L, t)[k] = fo_list[w0][k]
    BY <1>3, <1>4
  <2> QED BY <1>4, <1>5, <1>6, <2>1
<1>7. Routed'
  <2> SUFFICES ASSUME NEW v \in Workers
               PROVE  /\ \A k \in Places(v)' : strand_proc_list[fo_list'[v][k].strand] = v
                      /\ wpc[v] = "run" => strand_proc_list[fo[v].strand] = v
    BY <1>1 DEF Routed
  <2>1. CASE v # w0
    BY <2>1, <1>5, <1>6, <1>15 DEF Ordered, Routed
  <2>2. CASE v = w0
    <3>1. \A k \in Places(w0) : strand_proc_list[fo_list'[w0][k].strand] = w0
      BY <1>15 DEF Ordered, Routed
    <3>2. strand_proc_list[fo_list'[w0][Len(L) + 1].strand] = w0
      BY <1>1, <1>15
    <3>3. wpc[w0] = "run" => strand_proc_list[fo[w0].strand] = w0
      BY DEF Ordered, Routed
    <3> QED BY <2>2, <3>1, <3>2, <3>3, <1>15
  <2> QED BY <2>1, <2>2
<1>8. RunsNext' /\ Unbound'
  BY <1>1, <1>5, NoneAssumption DEF Ordered, RunsNext, Unbound, Callers
<1>9. Accepted'
  <2>1. \A s \in Strands : posted[s] \in Nat /\ done[s] \in Nat /\ posted[s] <= posted'[s]
    <3>1. ASSUME NEW s \in Strands
          PROVE  posted[s] \in Nat /\ done[s] \in Nat
      BY CountAssumption DEF Safe, TypeOK
    <3>2. ASSUME NEW s \in Strands
          PROVE  posted[s] <= posted'[s]
      BY <3>1, <1>5
    <3> QED BY <3>1, <3>2
  <2>2. \A w \in Workers : wpc[w] = "run" => fo[w].strand \in Strands /\ fo[w].num \in Nat
    BY TaskFields, CountAssumption DEF Safe, RunInv
  <2>3. posted' \in [Strands -> Nat]
    BY <1>1, CountAssumption DEF Safe, TypeOK
  <2> QED BY <2>1, <2>2, <2>3, <1>1 DEF Ordered, Accepted
<1>10. \A v \in Workers : \A k \in Places(v) :
         fo_list[v][k].strand = s0 => fo_list[v][k].num < t.num
  BY <1>1, <1>2, ListedTask DEF Ordered, Between
<1>11. Increasing'
  <2> SUFFICES ASSUME NEW v \in Workers, NEW j \in Places(v)', NEW k \in Places(v)',
                      j < k, fo_list'[v][j].strand = fo_list'[v][k].strand
               PROVE  fo_list'[v][j].num < fo_list'[v][k].num
    BY DEF Increasing
  <2>1. CASE v # w0
    BY <2>1, <1>5, <1>6, <1>15 DEF Ordered, Increasing
  <2>2. CASE v = w0
    <3>1. j \in Places(w0)
      BY <2>2, <1>4, <1>6, <1>15
    <3>2. CASE k \in Places(w0)
      BY <2>2, <3>1, <3>2, <1>6, <1>15 DEF Ordered, Increasing
    <3>3. CASE k = Len(L) + 1
      <4>1. fo_list'[w0][k] = t /\ fo_list'[w0][j] = fo_list[w0][j]
        BY <3>1, <3>3, <1>15
      <4> QED BY <2>2, <3>1, <4>1, <1>1, <1>10
    <3> QED BY <2>2, <3>2, <3>3, <1>6, <1>15
  <2> QED BY <2>1, <2>2
<1>12. Begun(w0, s0) \in Nat /\ Begun(w0, s0) <= posted[s0]
  BY <1>1, TaskFields, CountAssumption
     DEF Begun, Ordered, Accepted, Safe, TypeOK, RunInv
<1>13. Between'
  <2> SUFFICES ASSUME NEW v \in Workers, NEW k \in Places(v)'
               PROVE  (/\ Begun(v, fo_list[v][k].strand) < fo_list[v][k].num
                       /\ fo_list[v][k].num <= posted[fo_list[v][k].strand])'
    BY DEF Between
  <2>1. CASE k \in Places(v) /\ fo_list'[v][k] = fo_list[v][k]
    <3>1. /\ Begun(v, fo_list[v][k].strand) < fo_list[v][k].num
          /\ fo_list[v][k].num <= posted[fo_list[v][k].strand]
          /\ fo_list[v][k].strand \in Strands /\ fo_list[v][k].num \in Nat
      BY <2>1, ListedTask DEF Ordered, Between
    <3>2. fo_list[v][k].num <= posted'[fo_list[v][k].strand]
      BY <3>1, <1>1, <1>2, <1>5, SMTT(30) DEF Safe, TypeOK
    <3> QED BY <2>1, <3>1, <3>2, <1>1 DEF Begun
  <2>2. CASE v = w0 /\ k = Len(L) + 1
    <3>1. fo_list'[v][k] = t
      BY <2>2, <1>6, <1>15
    <3>2. Begun(v, t.strand) < t.num /\ t.num <= posted'[t.strand]
      BY <2>2, <1>1, <1>2, <1>5, <1>12
    <3> QED BY <3>1, <3>2, <1>1 DEF Begun
  <2> QED BY <2>1, <2>2, <1>5, <1>6, <1>15
<1>14. Complete'
  <2> SUFFICES ASSUME NEW s \in Strands, NEW v \in Workers, strand_proc_list'[s] = v,
                      NEW n \in Nat, Begun(v, s)' < n, n <= posted'[s]
               PROVE  \E k \in Places(v)' : fo_list'[v][k].strand = s
                                            /\ fo_list'[v][k].num = n
    BY DEF Complete
  <2>1. Begun(v, s) < n
    BY <1>1 DEF Begun
  <2>2. CASE n <= posted[s]
    <3>1. PICK k \in Places(v) : fo_list[v][k].strand = s /\ fo_list[v][k].num = n
      BY <2>1, <2>2, <1>1 DEF Ordered, Complete
    <3> QED BY <3>1, <1>5, <1>6, <1>15
  <2>3. CASE ~(n <= posted[s])
    <3>1. s = s0 /\ n = posted[s0] + 1
      BY <2>3, <1>1, <1>2, <1>5 DEF Safe, TypeOK
    <3>2. v = w0
      BY <3>1, <1>1
    <3> QED BY <3>1, <3>2, <1>1, <1>2, <1>6, <1>15
  <2> QED BY <2>2, <2>3
<1> QED BY <1>7, <1>8, <1>9, <1>11, <1>13, <1>14 DEF Ordered

LEMMA OrderedNext ==
  ASSUME Safe, Ordered, [Next]_vars
  PROVE  Ordered'
<1>1. ASSUME UNCHANGED vars PROVE Ordered'
  BY <1>1, OrderedSame DEF vars, workerVars, callVars, stopVars
<1>2. ASSUME NEW w \in Workers, Loop(w) PROVE Ordered'
  BY <1>2, OrderedSame DEF Loop, callVars, Safe, TypeOK
<1>3. ASSUME NEW w \in Workers, Take(w) PROVE Ordered'
  <2>1. CASE fo_list[w] # <<>>
    BY <1>3, <2>1, OrderedTake
  <2>2. CASE fo_list[w] = <<>>
    <3>1. /\ fo' = [fo EXCEPT ![w] = None] /\ wpc' = [wpc EXCEPT ![w] = "wait"]
          /\ wpc[w] = "take"
          /\ UNCHANGED <<fo_list, strand_proc_list, posted, done>>
      BY <1>3, <2>2 DEF Take, callVars
    <3>2. \A v \in Workers : Places(v)' = Places(v)
      BY <3>1 DEF Places
    <3>3. \A v \in Workers : /\ wpc'[v] = "run" <=> wpc[v] = "run"
                             /\ wpc[v] = "run" => fo'[v] = fo[v]
      BY <3>1 DEF Safe, TypeOK
    <3>4. Routed' /\ RunsNext' /\ Increasing' /\ Accepted' /\ Unbound'
      BY <3>1, <3>2, <3>3
         DEF Ordered, Routed, RunsNext, Increasing, Accepted, Unbound
    <3>5. Between'
      BY <3>1, <3>2, <3>3 DEF Ordered, Between, Begun
    <3>6. Complete'
      BY <3>1, <3>2, <3>3 DEF Ordered, Complete, Begun
    <3> QED BY <3>4, <3>5, <3>6 DEF Ordered
  <2> QED BY <2>1, <2>2
<1>4. ASSUME NEW w \in Workers, Finish(w) PROVE Ordered'
  BY <1>4, OrderedFinish
<1>5. ASSUME NEW w \in Workers, Wait(w) PROVE Ordered'
  BY <1>5, OrderedSame DEF Wait, callVars, Safe, TypeOK
<1>6. ASSUME NEW c \in Callers, Push(c) PROVE Ordered'
  BY <1>6, OrderedPush
<1>7. ASSUME NEW c \in Callers, BindStrand(c) PROVE Ordered'
  BY <1>7, OrderedBind
<1>8. ASSUME NEW c \in Callers,
             \/ CheckBusy(c) \/ ScanWorker(c) \/ Signal(c)
             \/ \E s \in Strands : PostCall(c, s)
      PROVE  Ordered'
  BY <1>8, OrderedSame DEF CheckBusy, ScanWorker, Signal, PostCall, workerVars
<1>9. ASSUME StopCall \/ StopStep PROVE Ordered'
  BY <1>9, OrderedSame
     DEF StopCall, StopStep, StopWorker, StopJoin, StopClear, workerVars, callVars
<1> QED
  BY <1>1, <1>2, <1>3, <1>4, <1>5, <1>6, <1>7, <1>8, <1>9
     DEF Next, WorkerStep, CallStep, Resting

\* Function objects stay with their worker and in the order of posting.
THEOREM Order == Spec => []Ordered
<1>1. Safe /\ Ordered /\ [Next]_vars => Ordered'
  BY OrderedNext
<1> QED BY <1>1, OrderedInit, Safety, PTL DEF Spec

\* "Function objects under one strand are guaranteed to run serially"
\* (thread_pool.hpp:150-151), in the order in which they were posted.
THEOREM RunsSerially == Spec => []Serial
<1>1. Safe /\ Ordered => Serial
  BY DEF Safe, RunInv, Ordered, Routed, RunsNext, Serial, Running
<1> QED BY <1>1, Safety, Order, PTL
-----------------------------------------------------------------------------
(* The steps of the pool are steps of SerialExecutor, or none.             *)

\* running of SerialExecutor, per strand.
Nums(s) == {fo[w].num : w \in Running(s)}

\* A step that changes neither what runs nor the histories is a stutter.
LEMMA StutterStep ==
  ASSUME UNCHANGED <<posted, done>>,
         \A w \in Workers : /\ wpc'[w] = "run" <=> wpc[w] = "run"
                            /\ wpc[w] = "run" => fo'[w] = fo[w]
  PROVE  UNCHANGED SE!vars
<1>1. \A s \in Strands : Running(s)' = Running(s)
  BY DEF Running
<1>2. \A s \in Strands : \A w \in Running(s) : fo'[w].num = fo[w].num
  BY DEF Running
<1>3. \A s \in Strands : {fo'[w].num : w \in Running(s)'} = {fo[w].num : w \in Running(s)}
  BY <1>1, <1>2
<1> QED BY <1>3 DEF SE!vars

\* push_back accepts.
LEMMA PushAccepts ==
  ASSUME Safe, NEW c \in Callers, Push(c)
  PROVE  \E s \in Strands : SE!Accept(s)
<1>1. PICK s \in Strands : /\ s = call[c].strand
                           /\ posted[s] < MaxPosts
                           /\ posted' = [posted EXCEPT ![s] = posted[s] + 1]
                           /\ UNCHANGED <<wpc, fo, done>>
  BY DEF Push, Safe, CallInv
<1>2. UNCHANGED [r \in Strands |-> {fo[w].num : w \in Running(r)}]
  BY <1>1 DEF Running
<1> QED BY <1>1, <1>2 DEF SE!Accept

\* Taking the front of a list begins the next function object of its strand.
LEMMA TakeBegins ==
  ASSUME Safe, Ordered, NEW w \in Workers, Take(w), fo_list[w] # <<>>
  PROVE  \E s \in Strands : SE!Begin(s)
<1>1. PICK t \in Tasks : t = fo_list[w][1]
  BY FrontIsNext, ListedTask DEF Take
<1>2. PICK s \in Strands : s = t.strand
  BY TaskFields
<1>3. /\ t.num = done[s] + 1 /\ strand_proc_list[s] = w
      /\ done[s] < posted[s]
      /\ Head(fo_list[w]) = t /\ wpc[w] = "take"
  <2>1. wpc[w] = "take" /\ 1 \in Places(w) /\ Head(fo_list[w]) = t
        /\ t.num = done[s] + 1
    BY <1>1, <1>2, FrontIsNext DEF Take
  <2>2. Begun(w, s) < t.num /\ t.num <= posted[s] /\ strand_proc_list[s] = w
    BY <1>1, <1>2, <2>1 DEF Ordered, Between, Routed
  <2> QED BY <2>1, <2>2, CountAssumption DEF Safe, TypeOK
<1>4. /\ fo' = [fo EXCEPT ![w] = t] /\ wpc' = [wpc EXCEPT ![w] = "run"]
      /\ UNCHANGED <<posted, done>>
  BY <1>3 DEF Take, Front, callVars
<1>5. fo'[w] = t /\ wpc'[w] = "run"
      /\ \A v \in Workers \ {w} : fo'[v] = fo[v] /\ wpc'[v] = wpc[v]
  BY <1>4 DEF Safe, TypeOK
<1>6. Running(s) = {}
  BY <1>3 DEF Ordered, Routed, Running
<1>7. Running(s)' = {w}
  BY <1>2, <1>3, <1>5, <1>6 DEF Running
<1>8. \A r \in Strands \ {s} : Running(r)' = Running(r) /\ w \notin Running(r)
  BY <1>2, <1>3, <1>5 DEF Running
<1>9. /\ Nums(s) = {} /\ {fo'[v].num : v \in Running(s)'} = {done[s] + 1}
      /\ \A r \in Strands \ {s} : {fo'[v].num : v \in Running(r)'} = Nums(r)
  <2>1. Nums(s) = {}
    BY <1>6 DEF Nums
  <2>2. {fo'[v].num : v \in Running(s)'} = {done[s] + 1}
    BY <1>3, <1>5, <1>7
  <2>3. ASSUME NEW r \in Strands \ {s}
        PROVE  {fo'[v].num : v \in Running(r)'} = Nums(r)
    <3>1. \A v \in Running(r) : fo'[v] = fo[v]
      BY <1>5, <1>8 DEF Running
    <3> QED BY <3>1, <1>8 DEF Nums
  <2> QED BY <2>1, <2>2, <2>3
<1>10. [r \in Strands |-> {fo'[v].num : v \in Running(r)'}]
         = [[r \in Strands |-> Nums(r)] EXCEPT ![s] = {done[s] + 1}]
  BY <1>9
<1> QED BY <1>3, <1>4, <1>9, <1>10 DEF SE!Begin, Nums

\* The return of a function object ends it.
LEMMA FinishEnds ==
  ASSUME Safe, Ordered, NEW w \in Workers, Finish(w)
  PROVE  \E s \in Strands : SE!End(s)
<1>1. wpc[w] = "run" /\ fo[w] \in Tasks
  BY DEF Finish, Safe, RunInv
<1>2. PICK s \in Strands : s = fo[w].strand
  BY <1>1, TaskFields
<1>3. /\ done' = [done EXCEPT ![s] = done[s] + 1]
      /\ wpc'[w] # "run" /\ \A v \in Workers \ {w} : wpc'[v] = wpc[v]
      /\ UNCHANGED <<fo, posted>>
  BY <1>1, <1>2 DEF Finish, ParkOrLoop, callVars, Safe, TypeOK, Ordered, RunsNext
<1>4. strand_proc_list[s] = w
  BY <1>1, <1>2 DEF Ordered, Routed
<1>5. Running(s) = {w} /\ Running(s)' = {}
  BY <1>1, <1>2, <1>3, <1>4 DEF Running, Ordered, Routed
<1>6. \A r \in Strands \ {s} : Running(r)' = Running(r)
  BY <1>2, <1>3 DEF Running
<1>7. /\ Nums(s) # {} /\ {fo'[v].num : v \in Running(s)'} = {}
      /\ \A r \in Strands \ {s} : {fo'[v].num : v \in Running(r)'} = Nums(r)
  BY <1>3, <1>5, <1>6 DEF Nums
<1>8. [r \in Strands |-> {fo'[v].num : v \in Running(r)'}]
        = [[r \in Strands |-> Nums(r)] EXCEPT ![s] = {}]
  BY <1>7
<1> QED BY <1>3, <1>7, <1>8 DEF SE!End, Nums

LEMMA StepImplements ==
  ASSUME Safe, Ordered, [Next]_vars
  PROVE  [SE!Next]_(SE!vars)
<1>1. ASSUME UNCHANGED vars PROVE UNCHANGED SE!vars
  BY <1>1, StutterStep DEF vars, workerVars, callVars, stopVars
<1>2. ASSUME NEW w \in Workers, Loop(w) PROVE UNCHANGED SE!vars
  BY <1>2, StutterStep DEF Loop, callVars, Safe, TypeOK
<1>3. ASSUME NEW w \in Workers, Take(w)
      PROVE  UNCHANGED SE!vars \/ \E s \in Strands : SE!Begin(s)
  <2>1. CASE fo_list[w] # <<>>
    BY <1>3, <2>1, TakeBegins
  <2>2. CASE fo_list[w] = <<>>
    <3>1. /\ fo' = [fo EXCEPT ![w] = None] /\ wpc' = [wpc EXCEPT ![w] = "wait"]
          /\ wpc[w] = "take"
          /\ UNCHANGED <<posted, done>>
      BY <1>3, <2>2 DEF Take, callVars
    <3>2. \A v \in Workers : /\ wpc'[v] = "run" <=> wpc[v] = "run"
                             /\ wpc[v] = "run" => fo'[v] = fo[v]
      BY <3>1 DEF Safe, TypeOK
    <3> QED BY <3>1, <3>2, StutterStep
  <2> QED BY <2>1, <2>2
<1>4. ASSUME NEW w \in Workers, Finish(w) PROVE \E s \in Strands : SE!End(s)
  BY <1>4, FinishEnds
<1>5. ASSUME NEW w \in Workers, Wait(w) PROVE UNCHANGED SE!vars
  BY <1>5, StutterStep DEF Wait, callVars, Safe, TypeOK
<1>6. ASSUME NEW c \in Callers, Push(c) PROVE \E s \in Strands : SE!Accept(s)
  BY <1>6, PushAccepts
<1>7. ASSUME NEW c \in Callers,
             \/ CheckBusy(c) \/ ScanWorker(c) \/ BindStrand(c) \/ Signal(c)
             \/ \E s \in Strands : PostCall(c, s)
      PROVE  UNCHANGED SE!vars
  BY <1>7, StutterStep
     DEF CheckBusy, ScanWorker, BindStrand, Signal, PostCall, workerVars
<1>8. ASSUME StopCall \/ StopStep PROVE UNCHANGED SE!vars
  BY <1>8, StutterStep
     DEF StopCall, StopStep, StopWorker, StopJoin, StopClear, workerVars, callVars
<1> QED
  BY <1>1, <1>2, <1>3, <1>4, <1>5, <1>6, <1>7, <1>8
     DEF Next, WorkerStep, CallStep, Resting, SE!Next

\* The pool keeps the promise of post_call: it implements SerialExecutor, for
\* any number of workers, strands and callers (thread_pool.hpp:150-151).
THEOREM Implements == Spec => SerialExecution
<1>1. Init => SE!Init
  BY DEF Init, SE!Init, Running
<1>2. Safe /\ Ordered /\ [Next]_vars => [SE!Next]_(SE!vars)
  BY StepImplements
<1> QED BY <1>1, <1>2, Safety, Order, PTL DEF Spec, SE!Spec, SerialExecution
-----------------------------------------------------------------------------
(* What is left when the workers sleep.                                    *)

\* The worker sleeps on its event, and nobody is about to wake it.
Asleep(w) ==
  /\ wpc[w] = "wait"
  /\ ~evt[w]
  /\ \A c \in Callers : ~(call[c].pc = "signal" /\ call[c].worker = w)

LeavesNothing ==
  \A s \in Strands :
    (strand_proc_list[s] = None \/ Asleep(strand_proc_list[s]))
      => done[s] = posted[s]

\* A worker that sleeps (thread_pool.hpp:62-65) has run every function object
\* of each of its strands that post_call accepted: whatever the interleaving,
\* nothing is left in a list with no one to wake the worker, stop() or not.
THEOREM SleepsWhenServed == Spec => []LeavesNothing
<1>1. ASSUME Safe, Ordered, NoLostWakeup PROVE LeavesNothing
  <2> SUFFICES ASSUME NEW s \in Strands,
                      strand_proc_list[s] = None \/ Asleep(strand_proc_list[s])
               PROVE  done[s] = posted[s]
    BY DEF LeavesNothing
  <2>1. CASE strand_proc_list[s] = None
    BY <1>1, <2>1 DEF Ordered, Unbound
  <2>2. CASE strand_proc_list[s] # None
    <3>1. PICK w \in Workers : strand_proc_list[s] = w
      BY <1>1, <2>2 DEF Safe, TypeOK
    <3>2. Asleep(w)
      BY <2>2, <3>1
    <3>3. fo_list[w] = <<>>
      BY <1>1, <3>2 DEF Asleep, NoLostWakeup, Parking
    <3>4. Places(w) = {}
      BY <3>3 DEF Places
    <3>5. Begun(w, s) = done[s]
      BY <3>2 DEF Asleep, Begun
    <3>6. \A n \in Nat : ~(done[s] < n /\ n <= posted[s])
      BY <1>1, <3>1, <3>4, <3>5 DEF Ordered, Complete
    <3>7. done[s] \in Nat /\ posted[s] \in Nat /\ done[s] <= posted[s]
      BY <1>1, CountAssumption DEF Safe, TypeOK, Ordered, Accepted
    <3> QED BY <3>6, <3>7
  <2> QED BY <2>1, <2>2
<1> QED BY <1>1, Safety, Order, WakeupKept, PTL
=============================================================================
