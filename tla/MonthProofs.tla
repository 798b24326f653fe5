------------------------------ MODULE MonthProofs ------------------------------
(***************************************************************************)
(* Proofs about the monthly calibration for every set of libraries and     *)
(* processes, every limit, and any number of interruptions and commands.   *)
(***************************************************************************)
EXTENDS MonthlyScan, TLAPS

Busy(p) == proc[p].pc \in {"open", "walk", "record"}
Inside(p) == proc[p].pc \notin {"idle", "boot"}

(* MySQL keeps the advisory lock: one slice at a time.                     *)
Exclusive == \A p, q \in Procs : Inside(p) /\ Inside(q) => p = q

-----------------------------------------------------------------------------
(* Types, and what is there by the time it is used.                        *)

Proc == [pc : {"idle", "boot", "loop", "open", "walk", "record", "finish"},
         todo : SUBSET Libs, tasks : SUBSET Libs, lib : Libs \cup {None}, run : Recoveries \cup {None},
         walked : Nat, result : Results \cup {None}]
ProcOK(x, planned) ==
  /\ x \in Proc /\ x.todo \subseteq planned /\ x.tasks \subseteq planned
  /\ x.pc \in {"open", "walk", "record"} => x.lib \in planned /\ x.run \in Recoveries
  /\ x.pc = "record" <=> x.result # None
TaskOK(t) ==
  t \in Task /\ (t.status = "succeeded" => t.wait = "none") /\ (t.status = "running" => t.run # None)
Base ==
  /\ TypeOK /\ cut \subseteq {"lock", "open", "succeeded", "raise"} /\ breaks \in Nat
  /\ cycle.targets \subseteq Planned /\ (cycle.status = "none" => cycle.recovery = 0 /\ Planned = {})
  /\ proc \in [Procs -> Proc] /\ \A p \in Procs : ProcOK(proc[p], Planned)
  /\ \A l \in Planned : TaskOK(task[l])

LEMMA TaskSteps ==
  ASSUME NEW t, TaskOK(t)
  PROVE  /\ TaskOK(Interrupted(t)) /\ TaskOK(Reopened(t)) /\ TaskOK([t EXCEPT !.wait = "none"])
         /\ Interrupted(t).attempts = t.attempts /\ Interrupted(t).run = t.run
         /\ Interrupted(t).recovery = t.recovery /\ Interrupted(t).status # "running"
         /\ t.status # "running" => Interrupted(t) = t
         /\ t.status = "running" => Interrupted(t).status = "pending" /\ ~Interrupted(t).rate
         /\ t.status # "dead_letter" => Reopened(t) = t
         /\ t.status = "dead_letter" =>
              Reopened(t).status = "pending" /\ Reopened(t).attempts = 0 /\ Reopened(t).run = t.run
BY NoneFresh DEF TaskOK, Task, Interrupted, Reopened

LEMMA NewTaskOK ==
  ASSUME NEW r \in Recoveries
  PROVE  TaskOK(NewTask(r)) /\ NewTask(r) # None
<1>1. NewTask(r) \in Task
  BY DEF Task, NewTask
<1>2. QED
  BY <1>1, NoneFresh DEF TaskOK, NewTask

LEMMA OutcomeIs ==
  ASSUME NEW t, TaskOK(t), NEW id \in Recoveries, NEW result \in Results
  PROVE  /\ TaskOK(Outcome(t, id, result)) /\ Outcome(t, id, result).attempts = t.attempts
         /\ Outcome(t, id, result).run = id /\ Outcome(t, id, result).recovery = t.recovery
         /\ result = "succeeded" => Outcome(t, id, result).status = "succeeded"
         /\ result \in {"running", "daily"} => Outcome(t, id, result).status = "pending"
         /\ result \in {"rate", "budget", "error"} =>
              Outcome(t, id, result).status = IF t.attempts >= MaxAttempts THEN "dead_letter" ELSE "pending"
         /\ result # "rate" => ~Outcome(t, id, result).rate
BY NoneFresh DEF TaskOK, Task, Outcome, Results, Exhausted

(* What every step has to show: the tasks that are there stay there and    *)
(* are well-formed, and so are the places of the processes.                *)
LEMMA BaseIs ==
  ASSUME Base,
         cycle' \in [status : Ended \cup {"none", "running"}, recovery : Recoveries, targets : SUBSET Libs],
         cycle'.targets \subseteq Planned', cycle'.status # "none" \/ (cycle' = cycle /\ task' = task),
         task' \in [Libs -> Task \cup {None}], \A l \in Planned' : TaskOK(task'[l]),
         run' \in [Libs \X Recoveries -> Run], dayFull' \in BOOLEAN, lock' \in Procs \cup {None},
         proc' \in [Procs -> Proc], \A p \in Procs : ProcOK(proc'[p], Planned'),
         \A p \in Procs : "lock" \notin cut' /\ Inside(p)' => lock' = p,
         failures' \in [Libs -> Nat], cut' \subseteq {"lock", "open", "succeeded", "raise"}, breaks' \in Nat
  PROVE  Base'
BY DEF Base, TypeOK, Inside, Planned

LEMMA BaseInit == Init => Base
<1> SUFFICES ASSUME Init PROVE Base
  OBVIOUS
<1>1. Planned = {} /\ 0 \in Recoveries
  BY Sizes DEF Init, Planned, Recoveries
<1>2. \A p \in Procs : proc[p] = Idle
  BY DEF Init
<1>3. Idle \in Proc /\ ProcOK(Idle, {})
  BY NoneFresh DEF Idle, Proc, ProcOK
<1>4. proc \in [Procs -> Proc]
  BY <1>3 DEF Init
<1>5. run \in [Libs \X Recoveries -> Run]
  BY DEF Init, Run
<1>6. TypeOK
  BY <1>1, <1>2, <1>5 DEF Init, TypeOK, Idle
<1>7. QED
  BY <1>1, <1>2, <1>3, <1>4, <1>6 DEF Base, Init

(* A change of the task of one library.                                    *)
LEMMA OneTask ==
  ASSUME Base, NEW k \in Planned, NEW x, TaskOK(x), task' = [task EXCEPT ![k] = x]
  PROVE  /\ Planned' = Planned /\ task' \in [Libs -> Task \cup {None}]
         /\ \A l \in Planned' : TaskOK(task'[l])
<1>1. x \in Task /\ x # None /\ k \in Libs /\ task \in [Libs -> Task \cup {None}] /\ task[k] # None
  BY NoneFresh DEF TaskOK, Base, TypeOK, Planned
<1>2. \A l \in Libs : task'[l] = IF l = k THEN x ELSE task[l]
  BY <1>1
<1>3. Planned' = Planned
  BY <1>1, <1>2 DEF Planned
<1>4. QED
  BY <1>1, <1>2, <1>3 DEF Base, Planned

(* A change of the tasks of all libraries that opens some and closes none. *)
LEMMA AllTasks ==
  ASSUME Base, NEW f, NEW S \in SUBSET Libs, task' = [l \in Libs |-> f[l]],
         \A l \in Libs : IF l \in S THEN TaskOK(f[l])
                         ELSE (task[l] = None /\ f[l] = None) \/ (task[l] # None /\ TaskOK(f[l]))
  PROVE  /\ Planned' = Planned \cup S /\ task' \in [Libs -> Task \cup {None}]
         /\ \A l \in Planned' : TaskOK(task'[l])
<1>1. \A l \in Libs : task'[l] = f[l] /\ (TaskOK(f[l]) => f[l] \in Task /\ f[l] # None)
  BY NoneFresh DEF TaskOK
<1>2. QED
  BY <1>1 DEF Planned

LEMMA SameTasks ==
  ASSUME Base, NEW f, task' = [l \in Libs |-> f[l]],
         \A l \in Libs : (task[l] = None /\ f[l] = None) \/ (task[l] # None /\ TaskOK(f[l]))
  PROVE  /\ Planned' = Planned /\ task' \in [Libs -> Task \cup {None}]
         /\ \A l \in Planned' : TaskOK(task'[l])
<1>1. \A l \in Libs : task'[l] = f[l] /\ (TaskOK(f[l]) => f[l] \in Task /\ f[l] # None)
  BY NoneFresh DEF TaskOK
<1>2. QED
  BY <1>1 DEF Planned

(* A change of the place of one process.                                   *)
LEMMA OneProc ==
  ASSUME Base, NEW p \in Procs, NEW x, proc' = [proc EXCEPT ![p] = x], ProcOK(x, Planned'),
         Planned \subseteq Planned'
  PROVE  /\ proc' \in [Procs -> Proc] /\ \A q \in Procs : ProcOK(proc'[q], Planned')
         /\ proc'[p] = x /\ \A q \in Procs \ {p} : proc'[q] = proc[q]
<1>1. proc \in [Procs -> Proc] /\ x \in Proc
  BY DEF Base, ProcOK
<1>2. \A q \in Procs : proc'[q] = IF q = p THEN x ELSE proc[q]
  BY <1>1
<1>3. \A q \in Procs : ProcOK(proc[q], Planned) => ProcOK(proc[q], Planned')
  BY DEF ProcOK
<1>4. QED
  BY <1>1, <1>2, <1>3 DEF Base

LEMMA StillOK ==
  ASSUME NEW x, NEW S, NEW T, ProcOK(x, S), S \subseteq T
  PROVE  ProcOK(x, T)
BY DEF ProcOK

LEMMA IdleOK ==
  ASSUME NEW S, NEW pc \in {"idle", "boot"}
  PROVE  ProcOK(Idle, S) /\ ProcOK([Idle EXCEPT !.pc = pc], S)
BY NoneFresh DEF Idle, Proc, ProcOK

LEMMA BaseStep == Base /\ [Next]_vars => Base'
<1> SUFFICES ASSUME Base, [Next]_vars PROVE Base'
  OBVIOUS
<1> USE NoneFresh
<1>0. /\ TypeOK /\ task \in [Libs -> Task \cup {None}] /\ run \in [Libs \X Recoveries -> Run]
      /\ failures \in [Libs -> Nat] /\ breaks \in Nat /\ lock \in Procs \cup {None} /\ dayFull \in BOOLEAN
      /\ cycle \in [status : Ended \cup {"none", "running"}, recovery : Recoveries, targets : SUBSET Libs]
      /\ cut \subseteq {"lock", "open", "succeeded", "raise"} /\ cycle.targets \subseteq Planned
      /\ proc \in [Procs -> Proc] /\ (\A p \in Procs : ProcOK(proc[p], Planned))
      /\ (\A l \in Planned : TaskOK(task[l]) /\ l \in Libs)
      /\ (cycle.status = "none" => cycle.recovery = 0 /\ Planned = {})
  BY DEF Base, TypeOK, Planned
<1>L. \A p \in Procs : "lock" \notin cut /\ Inside(p) => lock = p
  BY <1>0 DEF TypeOK, Inside
<1>B. \A p \in Procs : Busy(p) => proc[p].lib \in Planned /\ proc[p].lib \in Libs /\ proc[p].run \in Recoveries
  BY <1>0 DEF Busy, ProcOK
<1>S. ASSUME UNCHANGED <<task, cycle>>
      PROVE  /\ Planned' = Planned /\ cycle'.targets \subseteq Planned'
             /\ cycle'.status # "none" \/ (cycle' = cycle /\ task' = task)
             /\ cycle' \in [status : Ended \cup {"none", "running"}, recovery : Recoveries, targets : SUBSET Libs]
             /\ task' \in [Libs -> Task \cup {None}] /\ \A l \in Planned' : TaskOK(task'[l])
  <2>1. Planned' = Planned
    BY <1>S DEF Planned
  <2>2. QED
    BY <1>0, <1>S, <2>1
<1>T. ASSUME UNCHANGED cycle, Planned' = Planned, Planned # {}
      PROVE  /\ cycle'.targets \subseteq Planned' /\ cycle'.status # "none"
             /\ cycle' \in [status : Ended \cup {"none", "running"}, recovery : Recoveries, targets : SUBSET Libs]
  BY <1>0, <1>T
<1>P. ASSUME NEW p \in Procs, NEW x, proc' = [proc EXCEPT ![p] = x], ProcOK(x, Planned'),
             Planned \subseteq Planned', lock' = p \/ (lock' = lock /\ (x.pc \in {"idle", "boot"} \/ Inside(p))),
             lock' = p => lock \in {p, None}, cut' = cut
      PROVE  /\ proc' \in [Procs -> Proc] /\ \A q \in Procs : ProcOK(proc'[q], Planned')
             /\ \A q \in Procs : "lock" \notin cut' /\ Inside(q)' => lock' = q
  <2>1. /\ proc' \in [Procs -> Proc] /\ \A q \in Procs : ProcOK(proc'[q], Planned')
        /\ proc'[p] = x /\ \A q \in Procs \ {p} : proc'[q] = proc[q]
    BY <1>P, OneProc
  <2>2. QED
    BY <2>1, <1>P, <1>L, NoneFresh DEF Inside
<1>X. ASSUME NEW p \in Procs, NEW x, proc' = [proc EXCEPT ![p] = x], ProcOK(x, Planned'),
             Planned \subseteq Planned', lock' = IF lock = p THEN None ELSE lock, x.pc \in {"idle", "boot"},
             cut \subseteq cut'
      PROVE  /\ proc' \in [Procs -> Proc] /\ \A q \in Procs : ProcOK(proc'[q], Planned')
             /\ \A q \in Procs : "lock" \notin cut' /\ Inside(q)' => lock' = q
             /\ lock' \in Procs \cup {None}
  <2>1. /\ proc' \in [Procs -> Proc] /\ \A q \in Procs : ProcOK(proc'[q], Planned')
        /\ proc'[p] = x /\ \A q \in Procs \ {p} : proc'[q] = proc[q]
    BY <1>X, OneProc
  <2>2. QED
    BY <2>1, <1>X, <1>L, <1>0 DEF Inside
<1>R. ASSUME NEW p \in Procs, Busy(p), NEW x \in Run, run' = [run EXCEPT ![Id(p)] = x]
      PROVE  run' \in [Libs \X Recoveries -> Run]
  BY <1>R, <1>B, <1>0 DEF Id
<1>Q. ASSUME UNCHANGED <<proc, lock, cut>>, Planned \subseteq Planned'
      PROVE  /\ proc' \in [Procs -> Proc] /\ \A q \in Procs : ProcOK(proc'[q], Planned')
             /\ \A q \in Procs : "lock" \notin cut' /\ Inside(q)' => lock' = q
  BY <1>Q, <1>0, <1>L DEF Inside, ProcOK
<1>F. ASSUME NEW p \in Procs, Busy(p), failures' = [failures EXCEPT ![proc[p].lib] = @ + 1]
      PROVE  failures' \in [Libs -> Nat]
  BY <1>F, <1>0, <1>B
<1>1. ASSUME NEW p \in Procs, NEW targets \in Scopes, Plan(p, targets) PROVE Base'
  <2> DEFINE x == [Idle EXCEPT !.pc = "loop", !.todo = targets, !.tasks = targets]
  <2>0. targets \in SUBSET Libs /\ Planned = {} /\ 0 \in Recoveries /\ cycle.recovery = 0
    BY <1>1, <1>0, Scope, Sizes DEF Plan, Recoveries
  <2>1. task' = [l \in Libs |-> IF l \in targets THEN NewTask(0) ELSE None]
    BY <1>1 DEF Plan
  <2>2. \A l \in Libs : IF l \in targets THEN TaskOK(IF l \in targets THEN NewTask(0) ELSE None)
                        ELSE task[l] = None /\ (IF l \in targets THEN NewTask(0) ELSE None) = None
    BY <2>0, NewTaskOK DEF Planned
  <2> DEFINE f == [l \in Libs |-> IF l \in targets THEN NewTask(0) ELSE None]
  <2>3. /\ Planned' = Planned \cup targets /\ task' \in [Libs -> Task \cup {None}]
        /\ \A l \in Planned' : TaskOK(task'[l])
    <3>1. task' = [l \in Libs |-> f[l]]
      BY <2>1
    <3>2. \A l \in Libs : IF l \in targets THEN TaskOK(f[l])
                          ELSE (task[l] = None /\ f[l] = None) \/ (task[l] # None /\ TaskOK(f[l]))
      BY <2>2
    <3> HIDE DEF f
    <3>3. QED
      BY <3>1, <3>2, <2>0, AllTasks
  <2>4. x \in Proc /\ ProcOK(x, targets) /\ proc' = [proc EXCEPT ![p] = x] /\ lock' = p /\ lock = None
    BY <1>1, <2>0 DEF Plan, Idle, Proc, ProcOK
  <2> HIDE DEF x
  <2>5. ProcOK(x, Planned') /\ cut' = cut
    BY <1>1, <2>3, <2>4, StillOK DEF Plan
  <2>6. /\ proc' \in [Procs -> Proc] /\ \A q \in Procs : ProcOK(proc'[q], Planned')
        /\ \A q \in Procs : "lock" \notin cut' /\ Inside(q)' => lock' = q
    BY <2>3, <2>4, <2>5, <1>P
  <2>7. cycle' \in [status : Ended \cup {"none", "running"}, recovery : Recoveries, targets : SUBSET Libs]
        /\ cycle'.targets \subseteq Planned' /\ cycle'.status # "none"
    BY <1>1, <1>0, <2>0, <2>3 DEF Plan
  <2>8. UNCHANGED <<run, dayFull, failures, cut, breaks>> /\ lock' \in Procs \cup {None}
    BY <1>1 DEF Plan
  <2>9. QED
    BY <2>3, <2>6, <2>7, <2>8, <1>0, BaseIs
<1>2. ASSUME NEW p \in Procs, Begin(p) PROVE Base'
  <2> DEFINE f == [l \in Libs |-> IF l \in Current THEN Interrupted(task[l]) ELSE task[l]]
             ready == {l \in Current : f[l].status = "pending" /\ f[l].wait = "none"}
             x == [Idle EXCEPT !.pc = "loop", !.todo = ready, !.tasks = Current]
  <2>1. Current \subseteq Planned /\ Current \subseteq Libs /\ ready \subseteq Current
    BY DEF Current, Planned
  <2>2. task' = f
    BY <1>2 DEF Begin
  <2>3. \A l \in Libs : (task[l] = None /\ f[l] = None) \/ (task[l] # None /\ TaskOK(f[l]))
    BY <1>0, <2>1, TaskSteps DEF Planned
  <2>4. /\ Planned' = Planned /\ task' \in [Libs -> Task \cup {None}] /\ \A l \in Planned' : TaskOK(task'[l])
    <3>1. task' = [l \in Libs |-> f[l]]
      BY <2>2
    <3> HIDE DEF f
    <3>2. QED
      BY <3>1, <2>3, SameTasks
  <2>5. cycle' = cycle /\ cycle'.status # "none" /\ lock = None /\ UNCHANGED <<run, dayFull, failures, cut, breaks>>
    BY <1>2 DEF Begin
  <2>6. (UNCHANGED <<proc, lock>>) \/ (proc' = [proc EXCEPT ![p] = x] /\ lock' = p)
    BY <1>2 DEF Begin
  <2>7. x \in Proc /\ ProcOK(x, Planned)
    BY <2>1 DEF Idle, Proc, ProcOK
  <2> HIDE DEF x, f, ready
  <2>8. /\ proc' \in [Procs -> Proc] /\ \A q \in Procs : ProcOK(proc'[q], Planned')
        /\ \A q \in Procs : "lock" \notin cut' /\ Inside(q)' => lock' = q
    <3>1. CASE UNCHANGED <<proc, lock>>
      BY <3>1, <2>4, <2>5, <1>Q
    <3>2. CASE proc' = [proc EXCEPT ![p] = x] /\ lock' = p
      BY <3>2, <2>4, <2>5, <2>7, <1>P
    <3>3. QED
      BY <3>1, <3>2, <2>6
  <2>9. lock' \in Procs \cup {None}
    BY <2>6, <1>0
  <2>10. QED
    BY <2>4, <2>5, <2>8, <2>9, <1>0, BaseIs
<1>3. ASSUME NEW p \in Procs, NEW l \in Libs, Reserve(p, l) PROVE Base'
  <2> DEFINE x == [proc[p] EXCEPT !.pc = "open", !.lib = l, !.run = task'[l].run, !.todo = @ \ {l}]
  <2>1. l \in Planned /\ TaskOK(task[l]) /\ proc[p].pc = "loop" /\ cycle.recovery \in Recoveries
    BY <1>3, <1>0 DEF Reserve, ProcOK
  <2>2. TaskOK(Reserved(l)) /\ Reserved(l).run \in Recoveries
    <3> DEFINE n == IF Continues(l) THEN task[l].attempts ELSE task[l].attempts + 1
    <3>1. n \in Nat /\ task[l] \in Task
      BY <2>1 DEF TaskOK, Task
    <3>2. Reserved(l) = [task[l] EXCEPT !.status = "running", !.attempts = n,
                                        !.run = IF task[l].run = None THEN cycle.recovery ELSE task[l].run]
      BY <3>1 DEF Reserved, Task
    <3> HIDE DEF n
    <3>3. QED
      BY ZenonT(30), <3>1, <3>2, <2>1 DEF TaskOK, Task
  <2>3. task' = [task EXCEPT ![l] = Reserved(l)] /\ cycle' = cycle
        /\ UNCHANGED <<run, dayFull, lock, failures, cut, breaks>>
    BY <1>3 DEF Reserve
  <2>4. Planned' = Planned /\ task' \in [Libs -> Task \cup {None}] /\ \A k \in Planned' : TaskOK(task'[k])
    BY <2>1, <2>2, <2>3, OneTask
  <2>5. proc' = [proc EXCEPT ![p] = x]
    BY <1>3, <1>0 DEF Reserve, Proc
  <2>6. ProcOK(x, Planned) /\ Inside(p)
    <3>1. task'[l].run \in Recoveries
      BY <2>2, <2>3, <1>0
    <3>2. ProcOK(proc[p], Planned) /\ proc[p] \in Proc /\ l \in Libs \cup {None}
      BY <1>0, <2>1
    <3>3. QED
      BY <2>1, <3>1, <3>2 DEF ProcOK, Proc, Inside
  <2> HIDE DEF x
  <2>7. /\ proc' \in [Procs -> Proc] /\ \A q \in Procs : ProcOK(proc'[q], Planned')
        /\ \A q \in Procs : "lock" \notin cut' /\ Inside(q)' => lock' = q
    <3>0. lock' = p => lock \in {p, None}
      BY <2>3
    <3>1. QED
      BY <2>3, <2>4, <2>5, <2>6, <1>P, <3>0
  <2>8. QED
    BY <2>1, <2>3, <2>4, <2>7, <1>0, <1>T, BaseIs
<1>4. ASSUME NEW p \in Procs, Busy(p), NEW x, ProcOK(x, Planned), proc' = [proc EXCEPT ![p] = x],
             UNCHANGED <<cycle, task, lock>>, cut' = cut,
             run' \in [Libs \X Recoveries -> Run], dayFull' \in BOOLEAN, failures' \in [Libs -> Nat], breaks' \in Nat
      PROVE  Base'
  <2>1. /\ Planned' = Planned /\ cycle'.targets \subseteq Planned'
        /\ cycle'.status # "none" \/ (cycle' = cycle /\ task' = task)
        /\ cycle' \in [status : Ended \cup {"none", "running"}, recovery : Recoveries, targets : SUBSET Libs]
        /\ task' \in [Libs -> Task \cup {None}] /\ \A l \in Planned' : TaskOK(task'[l])
    BY <1>4, <1>S
  <2>2. /\ proc' \in [Procs -> Proc] /\ \A q \in Procs : ProcOK(proc'[q], Planned')
        /\ \A q \in Procs : "lock" \notin cut' /\ Inside(q)' => lock' = q
    <3>1. Inside(p) /\ (lock' = p => lock \in {p, None}) /\ lock' = lock
      BY <1>4 DEF Busy, Inside
    <3>2. ProcOK(x, Planned') /\ Planned \subseteq Planned'
      BY <1>4, <2>1
    <3>3. QED
      BY <1>4, <3>1, <3>2, <1>P
  <2>3. lock' \in Procs \cup {None} /\ cut' \subseteq {"lock", "open", "succeeded", "raise"}
    BY <1>0, <1>4
  <2>4. QED
    BY <2>1, <2>2, <2>3, <1>4, BaseIs
<1>M. ASSUME NEW p \in Procs, Busy(p), NEW pc \in {"open", "walk", "record"}, NEW r \in Results \cup {None},
             pc = "record" <=> r # None
      PROVE  ProcOK([proc[p] EXCEPT !.pc = pc, !.result = r], Planned)
  BY ZenonT(30), <1>M, <1>0 DEF ProcOK, Proc, Busy
<1>5. ASSUME NEW p \in Procs, Open(p) PROVE Base'
  <2>1. Busy(p) /\ proc[p].pc = "open" /\ proc[p].result = None
    BY <1>5, <1>0 DEF Open, Busy, ProcOK
  <2>2. UNCHANGED <<cycle, task, lock, dayFull, failures, breaks>> /\ cut' = cut
    BY <1>5 DEF Open
  <2>3. CASE run[Id(p)].status = "succeeded"
    <3> DEFINE x == [proc[p] EXCEPT !.pc = "record", !.result = "succeeded"]
    <3>1. ProcOK(x, Planned)
      BY <2>1, <1>M, NoneFresh DEF Results
    <3>2. proc' = [proc EXCEPT ![p] = x] /\ run' = run
      BY <1>5, <2>3, <1>0 DEF Open, Proc
    <3> HIDE DEF x
    <3>3. QED
      BY <2>1, <2>2, <3>1, <3>2, <1>0, <1>4
  <2>4. CASE run[Id(p)].status # "succeeded"
    <3> DEFINE x == [proc[p] EXCEPT !.pc = "walk"]
               y == [run[Id(p)] EXCEPT !.status = "running"]
    <3>1. ProcOK(x, Planned)
      BY <2>1, <1>0 DEF ProcOK, Proc
    <3>2. proc' = [proc EXCEPT ![p] = x] /\ run' = [run EXCEPT ![Id(p)] = y]
      BY <1>5, <2>4, <1>0 DEF Open, Go
    <3>3. y \in Run
      <4>1. run[Id(p)] \in Run
        BY <2>1, <1>0, <1>B DEF Id
      <4>2. QED
        BY <4>1 DEF Run
    <3>4. run' \in [Libs \X Recoveries -> Run]
      <4> HIDE DEF y
      <4>1. QED
        BY <3>2, <3>3, <2>1, <1>R
    <3> HIDE DEF x
    <3>5. QED
      BY <2>1, <2>2, <3>1, <3>2, <3>4, <1>0, <1>4
  <2>5. QED
    BY <2>3, <2>4
<1>6. ASSUME NEW p \in Procs, SetUp(p) PROVE Base'
  <2> DEFINE y == [run[Id(p)] EXCEPT !.began = cycle.recovery]
  <2>1. Busy(p) /\ UNCHANGED <<cycle, task, lock, proc, dayFull, failures, breaks>> /\ cut' = cut
    BY <1>6 DEF SetUp, Busy
  <2>2. run' = [run EXCEPT ![Id(p)] = y]
    BY <1>6 DEF SetUp
  <2>3. y \in Run
    BY <2>1, <1>0, <1>B DEF Id, Run
  <2> HIDE DEF y
  <2>4. run' \in [Libs \X Recoveries -> Run]
    BY <2>1, <2>2, <2>3, <1>R
  <2>5. proc' = [proc EXCEPT ![p] = proc[p]] /\ ProcOK(proc[p], Planned)
    BY <2>1, <1>0
  <2>6. QED
    BY <2>1, <2>4, <2>5, <1>0, <1>4
<1>7. ASSUME NEW p \in Procs, NEW status \in {"running", "paused", "failed", "succeeded"},
             NEW r \in Results, Result(p, status, r), UNCHANGED <<cycle, task, lock>>, cut' = cut,
             dayFull' \in BOOLEAN, failures' \in [Libs -> Nat], breaks' \in Nat
      PROVE  Base'
  <2> DEFINE y == [run[Id(p)] EXCEPT !.status = status]
             x == [proc[p] EXCEPT !.pc = "record", !.result = r]
  <2>1. Busy(p) /\ proc[p].pc = "walk"
    BY <1>7 DEF Result, Busy
  <2>2. run' = [run EXCEPT ![Id(p)] = y] /\ proc' = [proc EXCEPT ![p] = x]
    BY <1>7, <1>0 DEF Result, Proc
  <2>3. y \in Run
    BY SMTT(20), ZenonT(30), <2>1, <1>0, <1>B DEF Id, Run
  <2>4. ProcOK(x, Planned)
    BY <2>1, <1>M, NoneFresh
  <2>5. run' \in [Libs \X Recoveries -> Run]
    <3> HIDE DEF y
    <3>1. QED
      BY <2>1, <2>2, <2>3, <1>R
  <2> HIDE DEF x, y
  <2>6. QED
    BY <2>1, <2>2, <2>4, <2>5, <1>7, <1>4
<1>8. ASSUME NEW p \in Procs, Succeed(p) PROVE Base'
  <2>1. Result(p, "succeeded", "succeeded") /\ UNCHANGED <<cycle, task, dayFull, lock, failures, cut, breaks>>
    BY <1>8 DEF Succeed
  <2>2. QED
    BY <2>1, <1>7, <1>0 DEF Results
<1>9. ASSUME NEW p \in Procs, Partial(p) PROVE Base'
  <2>1. Result(p, "running", "running") /\ UNCHANGED <<cycle, task, dayFull, lock, failures, cut>>
        /\ breaks' = breaks + 1
    BY <1>9 DEF Partial
  <2>2. QED
    BY <2>1, <1>7, <1>0 DEF Results
<1>10. ASSUME NEW p \in Procs, Pause(p) PROVE Base'
  <2>1. Result(p, "paused", "daily") /\ UNCHANGED <<cycle, task, lock, failures, cut>>
        /\ breaks' = breaks + 1 /\ dayFull' = TRUE
    BY <1>10 DEF Pause
  <2>2. QED
    BY <2>1, <1>7, <1>0 DEF Results
<1>11. ASSUME NEW p \in Procs, NEW code \in {"rate", "budget", "error"}, FailWalk(p, code) PROVE Base'
  <2>1. Result(p, "failed", code) /\ UNCHANGED <<cycle, task, lock, dayFull, cut, breaks>> /\ Busy(p)
        /\ failures' = [failures EXCEPT ![proc[p].lib] = @ + 1] /\ code \in Results
    BY <1>11 DEF FailWalk, Result, Busy, Results
  <2>2. failures' \in [Libs -> Nat]
    BY <2>1, <1>F
  <2>3. QED
    BY <2>1, <2>2, <1>7, <1>0
<1>12. ASSUME NEW p \in Procs, Raise(p) PROVE Base'
  <2> DEFINE x == [proc[p] EXCEPT !.pc = "record", !.result = "error"]
  <2>1. Busy(p) /\ UNCHANGED <<cycle, task, run, dayFull, lock>> /\ breaks' = breaks + 1
        /\ cut' = cut \cup {"raise"} /\ failures' = [failures EXCEPT ![proc[p].lib] = @ + 1]
    BY <1>12 DEF Raise, Busy
  <2>2. proc' = [proc EXCEPT ![p] = x]
    BY <1>12, <1>0 DEF Raise, Proc
  <2>3. ProcOK(x, Planned)
    BY <2>1, <1>M, NoneFresh DEF Results
  <2>4. failures' \in [Libs -> Nat]
    BY <2>1, <1>F
  <2> HIDE DEF x
  <2>5. Planned' = Planned
    BY <2>1 DEF Planned
  <2>6. /\ proc' \in [Procs -> Proc] /\ \A q \in Procs : ProcOK(proc'[q], Planned')
        /\ proc'[p] = x /\ \A q \in Procs \ {p} : proc'[q] = proc[q]
    BY <2>2, <2>3, <2>5, OneProc
  <2>7. \A q \in Procs : "lock" \notin cut' /\ Inside(q)' => lock' = q
    BY <2>1, <2>6, <1>L DEF Inside, Busy
  <2>8. QED
    <3>1. /\ cycle'.targets \subseteq Planned'
          /\ cycle'.status # "none" \/ (cycle' = cycle /\ task' = task)
          /\ cycle' \in [status : Ended \cup {"none", "running"}, recovery : Recoveries, targets : SUBSET Libs]
          /\ task' \in [Libs -> Task \cup {None}] /\ \A l \in Planned' : TaskOK(task'[l])
      BY <2>1, <1>S
    <3>2. cut' \subseteq {"lock", "open", "succeeded", "raise"} /\ run' \in [Libs \X Recoveries -> Run]
          /\ dayFull' \in BOOLEAN /\ lock' \in Procs \cup {None} /\ breaks' \in Nat
      BY <2>1, <1>0
    <3>3. QED
      BY <3>1, <3>2, <2>4, <2>6, <2>7, BaseIs
<1>13. ASSUME NEW p \in Procs, Record(p) PROVE Base'
  <2> DEFINE k == proc[p].lib
             walked == proc[p].walked + 1
             t == Outcome(task[k], proc[p].run, proc[p].result)
             pc == IF Stops(proc[p].result, walked) \/ cycle'.status # "running" THEN "finish" ELSE "loop"
             x == [proc[p] EXCEPT !.pc = pc, !.walked = walked, !.lib = None, !.run = None, !.result = None]
  <2>1. Busy(p) /\ proc[p].pc = "record" /\ proc[p].result \in Results /\ proc[p].run \in Recoveries
        /\ k \in Planned /\ TaskOK(task[k])
    BY <1>13, <1>0, <1>B DEF Record, Busy, ProcOK, Proc
  <2>2. TaskOK(t)
    BY <2>1, OutcomeIs
  <2>3. task' = [task EXCEPT ![k] = t] /\ UNCHANGED <<run, dayFull, lock, failures, cut, breaks>>
        /\ cycle' = [cycle EXCEPT !.status = IF proc[p].result = "budget" THEN "budget_exhausted" ELSE @]
    BY <1>13 DEF Record
  <2>4. proc' = [proc EXCEPT ![p] = x]
    BY <1>13, <1>0 DEF Record, Proc
  <2>5. ProcOK(x, Planned)
    <3>1. proc[p] \in Proc /\ ProcOK(proc[p], Planned) /\ walked \in Nat /\ pc \in {"finish", "loop"}
      BY <1>0 DEF Proc
    <3> HIDE DEF pc, walked
    <3>2. QED
      BY <3>1 DEF ProcOK, Proc
  <2>6. x.pc \in {"finish", "loop"}
    BY <2>1, <1>0 DEF Proc
  <2> HIDE DEF x, t, k
  <2>7. Planned' = Planned /\ task' \in [Libs -> Task \cup {None}] /\ \A l \in Planned' : TaskOK(task'[l])
    BY <2>1, <2>2, <2>3, OneTask
  <2>8. /\ proc' \in [Procs -> Proc] /\ \A q \in Procs : ProcOK(proc'[q], Planned')
        /\ \A q \in Procs : "lock" \notin cut' /\ Inside(q)' => lock' = q
    <3>1. Inside(p) /\ lock' = lock /\ cut' = cut /\ ProcOK(x, Planned') /\ (lock' = p => lock \in {p, None})
      BY <2>1, <2>3, <2>5, <2>7 DEF Inside
    <3>2. QED
      BY <3>1, <2>4, <2>7, <1>P
  <2>9. /\ cycle'.targets \subseteq Planned' /\ cycle'.status # "none"
        /\ cycle' \in [status : Ended \cup {"none", "running"}, recovery : Recoveries, targets : SUBSET Libs]
    BY <2>1, <2>3, <2>7, <1>0 DEF Ended
  <2>10. QED
    BY <2>3, <2>7, <2>8, <2>9, <1>0, BaseIs
<1>14. ASSUME NEW p \in Procs, NothingLeft(p) PROVE Base'
  <2> DEFINE x == [proc[p] EXCEPT !.pc = "finish"]
  <2>1. UNCHANGED <<cycle, task, run, dayFull, lock, failures, cut, breaks>> /\ proc[p].pc = "loop"
        /\ proc' = [proc EXCEPT ![p] = x]
    BY <1>14 DEF NothingLeft, Go
  <2>2. ProcOK(x, Planned) /\ Inside(p)
    BY SMTT(20), ZenonT(30), <2>1, <1>0 DEF ProcOK, Proc, Inside
  <2> HIDE DEF x
  <2>3. /\ Planned' = Planned /\ cycle'.targets \subseteq Planned'
        /\ cycle'.status # "none" \/ (cycle' = cycle /\ task' = task)
        /\ cycle' \in [status : Ended \cup {"none", "running"}, recovery : Recoveries, targets : SUBSET Libs]
        /\ task' \in [Libs -> Task \cup {None}] /\ \A l \in Planned' : TaskOK(task'[l])
    BY <2>1, <1>S
  <2>4. /\ proc' \in [Procs -> Proc] /\ \A q \in Procs : ProcOK(proc'[q], Planned')
        /\ \A q \in Procs : "lock" \notin cut' /\ Inside(q)' => lock' = q
    <3>1. lock' = lock /\ cut' = cut /\ ProcOK(x, Planned') /\ (lock' = p => lock \in {p, None})
      BY <2>1, <2>2, <2>3
    <3>2. QED
      BY <3>1, <2>1, <2>2, <2>3, <1>P
  <2>5. QED
    BY <2>1, <2>3, <2>4, <1>0, BaseIs
<1>15. ASSUME NEW p \in Procs, Finish(p) PROVE Base'
  <2>1. /\ UNCHANGED <<task, run, dayFull, failures, cut, breaks>> /\ proc' = [proc EXCEPT ![p] = Idle]
        /\ lock' = IF lock = p THEN None ELSE lock
        /\ cycle' \in {cycle, [cycle EXCEPT !.status = "completed"], [cycle EXCEPT !.status = "completed_with_errors"]}
        /\ (cycle' # cycle => cycle.status = "running")
    BY <1>15 DEF Finish, Exit
  <2>2. Planned' = Planned /\ \A l \in Planned' : TaskOK(task'[l])
    BY <2>1, <1>0 DEF Planned
  <2>3. /\ cycle'.targets \subseteq Planned'
        /\ cycle'.status # "none" \/ (cycle' = cycle /\ task' = task)
        /\ cycle' \in [status : Ended \cup {"none", "running"}, recovery : Recoveries, targets : SUBSET Libs]
    BY <2>1, <2>2, <1>0 DEF Ended
  <2>4. /\ proc' \in [Procs -> Proc] /\ \A q \in Procs : ProcOK(proc'[q], Planned')
        /\ \A q \in Procs : "lock" \notin cut' /\ Inside(q)' => lock' = q
        /\ lock' \in Procs \cup {None}
    <3>1. ProcOK(Idle, Planned') /\ Idle.pc \in {"idle", "boot"} /\ cut \subseteq cut' /\ Planned \subseteq Planned'
      BY <2>1, <2>2, IdleOK DEF Idle
    <3>2. QED
      BY <3>1, <2>1, <1>X
  <2>5. QED
    BY <2>1, <2>2, <2>3, <2>4, <1>0, BaseIs
<1>16. ASSUME NEW targets \in Scopes, Prepare(targets) PROVE Base'
  <2> DEFINE r == cycle.recovery + 1
             f == [l \in Libs |-> IF l \in targets THEN NewTask(r) ELSE task[l]]
  <2>1. targets \in SUBSET Libs /\ r \in Recoveries
    BY <1>16, <1>0, Scope, Sizes DEF Prepare, Recoveries
  <2>2. task' = [l \in Libs |-> f[l]]
    BY <1>16 DEF Prepare
  <2>3. \A l \in Libs : IF l \in targets THEN TaskOK(f[l])
                        ELSE (task[l] = None /\ f[l] = None) \/ (task[l] # None /\ TaskOK(f[l]))
    BY <2>1, <1>0, NewTaskOK DEF Planned
  <2>4. /\ Planned' = Planned \cup targets /\ task' \in [Libs -> Task \cup {None}]
        /\ \A l \in Planned' : TaskOK(task'[l])
    <3> HIDE DEF f
    <3>1. QED
      BY <2>1, <2>2, <2>3, AllTasks
  <2>5. /\ cycle' = [status |-> "running", recovery |-> r, targets |-> targets]
        /\ UNCHANGED <<run, dayFull, lock, proc, cut, breaks>>
    BY <1>16 DEF Prepare
  <2>6. cycle' \in [status : Ended \cup {"none", "running"}, recovery : Recoveries, targets : SUBSET Libs]
        /\ cycle'.targets \subseteq Planned' /\ cycle'.status # "none"
    BY <2>1, <2>4, <2>5
  <2>7. failures' = [l \in Libs |-> IF l \in targets THEN 0 ELSE failures[l]]
    BY <1>16 DEF Prepare
  <2>8. failures' \in [Libs -> Nat]
    BY <2>7, <1>0
  <2>9. /\ proc' \in [Procs -> Proc] /\ \A q \in Procs : ProcOK(proc'[q], Planned')
        /\ \A q \in Procs : "lock" \notin cut' /\ Inside(q)' => lock' = q
    BY <2>4, <2>5, <1>Q
  <2>10. QED
    BY <2>4, <2>5, <2>6, <2>8, <2>9, <1>0, BaseIs
<1>17. ASSUME ResumeFailed PROVE Base'
  <2> DEFINE f == [l \in Libs |-> IF task[l] = None THEN None ELSE Reopened(task[l])]
  <2>1. task' = [l \in Libs |-> f[l]]
    BY <1>17 DEF ResumeFailed
  <2>2. \A l \in Libs : (task[l] = None /\ f[l] = None) \/ (task[l] # None /\ TaskOK(f[l]))
    BY <1>0, TaskSteps DEF Planned
  <2>3. Planned' = Planned /\ task' \in [Libs -> Task \cup {None}] /\ \A l \in Planned' : TaskOK(task'[l])
    <3> HIDE DEF f
    <3>1. QED
      BY <2>1, <2>2, SameTasks
  <2>4. /\ cycle' = [cycle EXCEPT !.status = "running"] /\ UNCHANGED <<run, dayFull, lock, proc, cut, breaks>>
        /\ failures' = [l \in Libs |-> IF task[l] # None /\ task[l].status = "dead_letter" THEN 0 ELSE failures[l]]
    BY <1>17 DEF ResumeFailed
  <2>5. cycle' \in [status : Ended \cup {"none", "running"}, recovery : Recoveries, targets : SUBSET Libs]
        /\ cycle'.targets \subseteq Planned' /\ cycle'.status # "none"
    BY <2>3, <2>4, <1>0
  <2>6. failures' \in [Libs -> Nat]
    BY <2>4, <1>0
  <2>7. /\ proc' \in [Procs -> Proc] /\ \A q \in Procs : ProcOK(proc'[q], Planned')
        /\ \A q \in Procs : "lock" \notin cut' /\ Inside(q)' => lock' = q
    BY <2>3, <2>4, <1>Q
  <2>8. QED
    BY <2>3, <2>4, <2>5, <2>6, <2>7, <1>0, BaseIs
<1>18. ASSUME NEW l \in Libs, RetryDue(l) PROVE Base'
  <2> DEFINE x == [task[l] EXCEPT !.wait = "none"]
  <2>1. l \in Planned /\ task' = [task EXCEPT ![l] = x]
        /\ UNCHANGED <<cycle, run, dayFull, lock, proc, failures, cut, breaks>>
    BY <1>18 DEF RetryDue, Planned
  <2>2. TaskOK(x)
    BY <2>1, <1>0, TaskSteps
  <2> HIDE DEF x
  <2>3. Planned' = Planned /\ task' \in [Libs -> Task \cup {None}] /\ \A k \in Planned' : TaskOK(task'[k])
    BY <2>1, <2>2, OneTask
  <2>4. /\ proc' \in [Procs -> Proc] /\ \A q \in Procs : ProcOK(proc'[q], Planned')
        /\ \A q \in Procs : "lock" \notin cut' /\ Inside(q)' => lock' = q
    BY <2>1, <2>3, <1>Q
  <2>5. QED
    BY <2>1, <2>3, <2>4, <1>0, <1>T, BaseIs
<1>19. ASSUME NextDay PROVE Base'
  <2> DEFINE f == [l \in Libs |-> IF task[l] # None /\ task[l].wait = "day"
                                  THEN [task[l] EXCEPT !.wait = "none"] ELSE task[l]]
  <2>1. task' = [l \in Libs |-> f[l]] /\ dayFull' = FALSE
        /\ UNCHANGED <<cycle, run, lock, proc, failures, cut, breaks>>
    BY <1>19 DEF NextDay
  <2>2. \A l \in Libs : (task[l] = None /\ f[l] = None) \/ (task[l] # None /\ TaskOK(f[l]))
    BY <1>0, TaskSteps DEF Planned
  <2>3. Planned' = Planned /\ task' \in [Libs -> Task \cup {None}] /\ \A k \in Planned' : TaskOK(task'[k])
    <3> HIDE DEF f
    <3>1. QED
      BY <2>1, <2>2, SameTasks
  <2>4. /\ proc' \in [Procs -> Proc] /\ \A q \in Procs : ProcOK(proc'[q], Planned')
        /\ \A q \in Procs : "lock" \notin cut' /\ Inside(q)' => lock' = q
    BY <2>1, <2>3, <1>Q
  <2>5. cycle'.status # "none" \/ (cycle' = cycle /\ task' = task)
    <3>1. CASE Planned = {}
      <4>1. \A l \in Libs : f[l] = task[l]
        BY <3>1 DEF Planned
      <4> HIDE DEF f
      <4>2. QED
        BY <4>1, <2>1, <1>0
    <3>2. QED
      BY <3>1, <1>0, <2>1
  <2>6. QED
    BY <2>1, <2>3, <2>4, <2>5, <1>0, BaseIs
<1>20. ASSUME NEW p \in Procs, Crash(p) PROVE Base'
  <2> DEFINE x == [Idle EXCEPT !.pc = IF p = Watcher THEN "boot" ELSE "idle"]
  <2>1. /\ UNCHANGED <<cycle, task, run, dayFull, failures>> /\ breaks' = breaks + 1
        /\ proc' = [proc EXCEPT ![p] = x] /\ lock' = IF lock = p THEN None ELSE lock
        /\ cut \subseteq cut' /\ cut' \subseteq {"lock", "open", "succeeded", "raise"}
    BY <1>20, <1>0 DEF Crash
  <2>2. ProcOK(x, Planned) /\ x.pc \in {"idle", "boot"}
    BY IdleOK DEF Idle
  <2> HIDE DEF x
  <2>3. /\ Planned' = Planned /\ cycle'.targets \subseteq Planned'
        /\ cycle'.status # "none" \/ (cycle' = cycle /\ task' = task)
        /\ cycle' \in [status : Ended \cup {"none", "running"}, recovery : Recoveries, targets : SUBSET Libs]
        /\ task' \in [Libs -> Task \cup {None}] /\ \A l \in Planned' : TaskOK(task'[l])
    BY <2>1, <1>S
  <2>4. /\ proc' \in [Procs -> Proc] /\ \A q \in Procs : ProcOK(proc'[q], Planned')
        /\ \A q \in Procs : "lock" \notin cut' /\ Inside(q)' => lock' = q
        /\ lock' \in Procs \cup {None}
    BY <2>1, <2>2, <2>3, <1>X
  <2>5. QED
    BY <2>1, <2>3, <2>4, <1>0, BaseIs
<1>21. ASSUME Boot PROVE Base'
  <2> DEFINE x == [proc[Watcher] EXCEPT !.pc = "idle"]
  <2>1. /\ UNCHANGED <<cycle, task, dayFull, lock, cut, breaks>> /\ proc[Watcher].pc = "boot"
        /\ proc' = [proc EXCEPT ![Watcher] = x] /\ Watcher \in Procs
    BY <1>21, Scope DEF Boot, Go
  <2>2. ProcOK(x, Planned) /\ x.pc \in {"idle", "boot"}
    BY <2>1, <1>0 DEF ProcOK, Proc
  <2> HIDE DEF x
  <2>3. run' \in [Libs \X Recoveries -> Run]
    <3> DEFINE g == [id \in DOMAIN run |-> IF lock = None /\ run[id].status = "running" /\ run[id].began = None
                                          THEN [run[id] EXCEPT !.status = "failed"] ELSE run[id]]
    <3>1. run' = g
      BY <1>21 DEF Boot
    <3>2. \A id \in Libs \X Recoveries : g[id] \in Run
      BY <1>0 DEF Run
    <3>3. QED
      BY <3>1, <3>2, <1>0
  <2>4. failures' \in [Libs -> Nat]
    <3>1. failures' = [l \in Libs |-> failures'[l]] /\ \A l \in Libs : failures'[l] \in {failures[l], failures[l] + 1}
      BY <1>21 DEF Boot
    <3>2. \A l \in Libs : failures'[l] \in Nat
      BY <3>1, <1>0
    <3>3. QED
      BY <3>1, <3>2
  <2>5. /\ Planned' = Planned /\ cycle'.targets \subseteq Planned'
        /\ cycle'.status # "none" \/ (cycle' = cycle /\ task' = task)
        /\ cycle' \in [status : Ended \cup {"none", "running"}, recovery : Recoveries, targets : SUBSET Libs]
        /\ task' \in [Libs -> Task \cup {None}] /\ \A l \in Planned' : TaskOK(task'[l])
    BY <2>1, <1>S
  <2>6. /\ proc' \in [Procs -> Proc] /\ \A q \in Procs : ProcOK(proc'[q], Planned')
        /\ proc'[Watcher] = x /\ \A q \in Procs \ {Watcher} : proc'[q] = proc[q]
    BY <2>1, <2>2, <2>5, OneProc
  <2>7. \A q \in Procs : "lock" \notin cut' /\ Inside(q)' => lock' = q
    BY <2>1, <2>2, <2>6, <1>L DEF Inside
  <2>8. QED
    BY <2>1, <2>3, <2>4, <2>5, <2>6, <2>7, <1>0, BaseIs
<1>22. ASSUME LoseLock PROVE Base'
  <2>1. /\ UNCHANGED <<cycle, task, run, dayFull, proc, failures>> /\ lock' = None /\ breaks' = breaks + 1
        /\ cut' = cut \cup {"lock"}
    BY <1>22 DEF LoseLock
  <2>2. /\ Planned' = Planned /\ cycle'.targets \subseteq Planned'
        /\ cycle'.status # "none" \/ (cycle' = cycle /\ task' = task)
        /\ cycle' \in [status : Ended \cup {"none", "running"}, recovery : Recoveries, targets : SUBSET Libs]
        /\ task' \in [Libs -> Task \cup {None}] /\ \A l \in Planned' : TaskOK(task'[l])
    BY <2>1, <1>S
  <2>3. QED
    BY <2>1, <2>2, <1>0, BaseIs
<1>23. CASE UNCHANGED vars
  <2>1. /\ Planned' = Planned /\ cycle'.targets \subseteq Planned'
        /\ cycle'.status # "none" \/ (cycle' = cycle /\ task' = task)
        /\ cycle' \in [status : Ended \cup {"none", "running"}, recovery : Recoveries, targets : SUBSET Libs]
        /\ task' \in [Libs -> Task \cup {None}] /\ \A l \in Planned' : TaskOK(task'[l])
    BY <1>23, <1>S DEF vars
  <2>2. /\ proc' \in [Procs -> Proc] /\ \A q \in Procs : ProcOK(proc'[q], Planned')
        /\ \A q \in Procs : "lock" \notin cut' /\ Inside(q)' => lock' = q
    BY <1>23, <2>1, <1>Q DEF vars
  <2>3. QED
    BY <1>23, <2>1, <2>2, <1>0, BaseIs DEF vars
<1>24. CASE \E p \in Procs : Work(p) \/ Walk(p) \/ Crash(p)
  <2>1. PICK p \in Procs : Work(p) \/ Walk(p) \/ Crash(p)
    BY <1>24
  <2>2. CASE Work(p)
    BY <2>2, <1>2, <1>3, <1>5, <1>6, <1>13, <1>14, <1>15 DEF Work
  <2>3. CASE Walk(p)
    BY <2>3, <1>8, <1>9, <1>10, <1>11, <1>12 DEF Walk
  <2>4. QED
    BY <2>1, <2>2, <2>3, <1>20
<1>25. QED
  BY <1>1, <1>16, <1>17, <1>18, <1>19, <1>21, <1>22, <1>23, <1>24 DEF Next

LEMMA Holder == Base /\ "lock" \notin cut => Exclusive
BY DEF Base, TypeOK, Exclusive, Inside

(* Types, and that the holder of the lock is alone inside.                 *)
THEOREM Types == Spec => []TypeOK
<1>1. Base => TypeOK
  BY DEF Base
<1>2. QED
  BY <1>1, BaseInit, BaseStep, PTL DEF Spec

-----------------------------------------------------------------------------
(* While the lock is not lost, its holder knows what it works on.          *)

(* Its task is reserved for it; no library waits for the provider's limit; *)
(* the run says what the walk has come to.                                 *)
Held(p) == Busy(p) => task[proc[p].lib].status = "running" /\ task[proc[p].lib].run = proc[p].run
Calm(p) == proc[p].pc = "loop" \/ Busy(p) => \A l \in Current : ~(task[l].rate /\ task[l].wait = "retry")
Tracked(p) ==
  /\ proc[p].pc = "walk" => run[Id(p)].status = "running"
  /\ proc[p].result = "succeeded" => run[Id(p)].status = "succeeded"
  /\ proc[p].result \in {"running", "daily"} => run[Id(p)].status \in {"running", "paused"}
  /\ proc[p].result \in {"rate", "budget", "error"} /\ "raise" \notin cut => run[Id(p)].status = "failed"
Kept == "lock" \notin cut => \A p \in Procs : lock = p => Held(p) /\ Calm(p) /\ Tracked(p)

LEMMA BaseFacts ==
  ASSUME Base
  PROVE  /\ task \in [Libs -> Task \cup {None}] /\ run \in [Libs \X Recoveries -> Run]
         /\ failures \in [Libs -> Nat] /\ breaks \in Nat /\ lock \in Procs \cup {None}
         /\ proc \in [Procs -> Proc] /\ cycle.recovery \in Recoveries /\ cycle.targets \subseteq Planned
         /\ \A p \in Procs : ProcOK(proc[p], Planned)
         /\ \A p \in Procs : "lock" \notin cut /\ Inside(p) => lock = p
         /\ \A p \in Procs : Busy(p) => /\ proc[p].lib \in Planned /\ proc[p].lib \in Libs
                                        /\ proc[p].run \in Recoveries /\ Id(p) \in Libs \X Recoveries
         /\ \A l \in Planned : TaskOK(task[l]) /\ l \in Libs /\ task[l] # None
         /\ cycle.status = "none" => cycle.recovery = 0 /\ Planned = {}
<1>1. \A p \in Procs : Busy(p) => proc[p].lib \in Planned /\ proc[p].run \in Recoveries
  BY DEF Base, ProcOK, Busy
<1>2. \A l \in Planned : TaskOK(task[l]) /\ l \in Libs /\ task[l] # None
  BY DEF Base, Planned
<1>3. QED
  BY <1>1, <1>2 DEF Base, TypeOK, Inside, Id

(* Nobody is inside while the lock is free.                                *)
LEMMA FreeIsEmpty ==
  ASSUME Base, "lock" \notin cut, lock = None, NEW p \in Procs
  PROVE  ~Inside(p) /\ ~Busy(p) /\ proc[p].pc # "loop"
BY BaseFacts, NoneFresh DEF Inside, Busy

LEMMA KeptInit == Init => Kept
BY NoneFresh DEF Init, Kept

LEMMA KeptStep == Base /\ Kept /\ [Next]_vars => Kept'
<1> SUFFICES ASSUME Base, Kept, [Next]_vars, "lock" \notin cut', NEW o \in Procs, lock' = o
             PROVE  Held(o)' /\ Calm(o)' /\ Tracked(o)'
  BY DEF Kept
<1> USE NoneFresh
<1>0. /\ task \in [Libs -> Task \cup {None}] /\ run \in [Libs \X Recoveries -> Run]
      /\ proc \in [Procs -> Proc] /\ cycle.recovery \in Recoveries
      /\ \A p \in Procs : ProcOK(proc[p], Planned)
      /\ \A p \in Procs : Busy(p) => /\ proc[p].lib \in Planned /\ proc[p].lib \in Libs
                                     /\ proc[p].run \in Recoveries /\ Id(p) \in Libs \X Recoveries
      /\ \A l \in Planned : TaskOK(task[l]) /\ l \in Libs /\ task[l] # None
  BY BaseFacts
<1>1. "lock" \notin cut /\ \A p \in Procs : Inside(p) => lock = p
  <2>1. cut \subseteq cut'
    BY ZenonT(30) DEF Next, Work, Walk, Plan, Begin, Reserve, Open, SetUp, Succeed, Partial, Pause, FailWalk, Raise,
           Record, NothingLeft, Finish, Prepare, ResumeFailed, RetryDue, NextDay, Crash, Boot, LoseLock, vars
  <2>2. QED
    BY <2>1, BaseFacts
<1>2. lock \in Procs => Held(lock) /\ Calm(lock) /\ Tracked(lock)
  BY <1>1 DEF Kept
<1>3. \A p \in Procs : proc[p].pc # "record" => proc[p].result = None
  BY <1>0 DEF ProcOK
(* A place that is not in a walk and has nothing to keep.                  *)
<1>N. ASSUME proc'[o].pc \in {"idle", "boot", "finish"}, proc'[o].result = None
      PROVE  Held(o)' /\ Calm(o)' /\ Tracked(o)'
  BY <1>N DEF Held, Calm, Tracked, Busy, Results
<1>4. ASSUME NEW p \in Procs, NEW targets \in Scopes, Plan(p, targets) PROVE Held(o)' /\ Calm(o)' /\ Tracked(o)'
  <2>1. o = p /\ proc'[o].pc = "loop" /\ proc'[o].result = None
    BY <1>4, <1>0 DEF Plan, Idle
  <2>2. \A l \in Planned' : ~task'[l].rate
    BY <1>4 DEF Plan, NewTask, Planned
  <2>3. QED
    BY <2>1, <2>2 DEF Held, Calm, Tracked, Busy, Current, Results
<1>5. ASSUME NEW p \in Procs, Begin(p) PROVE Held(o)' /\ Calm(o)' /\ Tracked(o)'
  <2> DEFINE f == [l \in Libs |-> IF l \in Current THEN Interrupted(task[l]) ELSE task[l]]
             C == \E l \in Current : f[l].rate /\ f[l].wait = "retry"
  <2>1. task' = f /\ UNCHANGED cycle /\ lock = None /\ (IF C THEN lock' = lock ELSE lock' = p)
    BY <1>5 DEF Begin
  <2>2. ~C /\ o = p
    BY <2>1
  <2>3. proc'[o].pc = "loop" /\ proc'[o].result = None
    <3> DEFINE ready == {l \in Current : f[l].status = "pending" /\ f[l].wait = "none"}
    <3>1. proc' = [proc EXCEPT ![p] = [Idle EXCEPT !.pc = "loop", !.todo = ready, !.tasks = Current]]
      BY <1>5, <2>2 DEF Begin
    <3> HIDE DEF ready, f
    <3>2. QED
      BY <3>1, <2>2, <1>0 DEF Idle
  <2>4. Current' = Current
    <3>0. \A l \in Planned : Interrupted(task[l]).recovery = task[l].recovery /\ TaskOK(Interrupted(task[l]))
      BY <1>0, TaskSteps
    <3>1. \A l \in Planned : Interrupted(task[l]).recovery = task[l].recovery /\ Interrupted(task[l]) # None
      BY <3>0 DEF TaskOK
    <3>2. Current \subseteq Planned
      BY DEF Current
    <3>3. \A l \in Libs : f[l] = None <=> task[l] = None
      BY <3>1, <3>2, <1>0
    <3>4. \A l \in Planned : f[l].recovery = task[l].recovery
      BY <3>1, <1>0
    <3> HIDE DEF f
    <3>5. Planned' = Planned
      BY <2>1, <3>3 DEF Planned
    <3>6. QED
      BY <2>1, <3>4, <3>5 DEF Current
  <2> HIDE DEF f
  <2>5. QED
    BY <2>1, <2>2, <2>3, <2>4 DEF Held, Calm, Tracked, Busy, Results
<1>6. ASSUME NEW p \in Procs, NEW l \in Libs, Reserve(p, l) PROVE Held(o)' /\ Calm(o)' /\ Tracked(o)'
  <2>1. lock = p /\ o = p /\ l \in Planned /\ TaskOK(task[l]) /\ UNCHANGED <<cycle, run, cut>> /\ proc[p].result = None
    BY <1>6, <1>0, <1>1, <1>3 DEF Reserve, Inside, ProcOK
  <2>2. /\ proc'[p].pc = "open" /\ proc'[p].lib = l /\ proc'[p].run = task'[l].run /\ proc'[p].result = None
    BY <1>6, <2>1, <1>0 DEF Reserve, Proc
  <2>3. /\ task'[l].status = "running" /\ task'[l].rate = task[l].rate /\ task'[l].wait = task[l].wait
        /\ task'[l] # None /\ task'[l].recovery = task[l].recovery
        /\ \A k \in Libs \ {l} : task'[k] = task[k]
    <3>1. task' = [task EXCEPT ![l] = Reserved(l)]
      BY <1>6 DEF Reserve
    <3>2. task'[l] = Reserved(l) /\ task[l] \in Task
      BY <3>1, <2>1, <1>0 DEF TaskOK
    <3> DEFINE n == IF Continues(l) THEN task[l].attempts ELSE task[l].attempts + 1
    <3>3. n \in Nat
      BY <3>2 DEF Task
    <3>4. Reserved(l) = [task[l] EXCEPT !.status = "running", !.attempts = n,
                                        !.run = IF task[l].run = None THEN cycle.recovery ELSE task[l].run]
      BY <3>2 DEF Reserved, Task
    <3> HIDE DEF n
    <3>5. Reserved(l) \in Task
      BY <3>2, <3>3, <3>4, <1>0 DEF Task
    <3>6. QED
      BY <3>1, <3>2, <3>4, <3>5, <1>0 DEF Task
  <2>4. Current' = Current
    BY <2>1, <2>3 DEF Current, Planned
  <2>5. Calm(p)
    BY <2>1, <1>2
  <2>6. QED
    <3>1. Held(p)' /\ Tracked(p)'
      BY <2>2, <2>3 DEF Held, Tracked, Results
    <3>2. Calm(p)'
      <4>1. \A k \in Current : ~(task[k].rate /\ task[k].wait = "retry")
        BY <1>6, <2>5 DEF Reserve, Calm
      <4>2. \A k \in Current : task'[k].rate = task[k].rate /\ task'[k].wait = task[k].wait
        BY <2>3 DEF Current, Planned
      <4>3. QED
        BY <4>1, <4>2, <2>4 DEF Calm
    <3>3. QED
      BY <3>1, <3>2, <2>1
(* The steps of a walk leave the tasks alone.                              *)
<1>7. ASSUME NEW p \in Procs, Busy(p), UNCHANGED <<cycle, task, lock>>, proc'[p].lib = proc[p].lib,
             proc'[p].run = proc[p].run, proc'[p].pc \in {"open", "walk", "record"}, Tracked(p)'
      PROVE  Held(o)' /\ Calm(o)' /\ Tracked(o)'
  <2>1. lock = p /\ o = p
    BY <1>7, <1>1 DEF Busy, Inside
  <2>2. Current' = Current
    BY <1>7 DEF Current, Planned
  <2>3. QED
    BY <1>7, <1>2, <2>1, <2>2 DEF Held, Calm, Busy
<1>8. ASSUME NEW p \in Procs, Open(p) PROVE Held(o)' /\ Calm(o)' /\ Tracked(o)'
  <2>1. Busy(p) /\ UNCHANGED <<cycle, task, lock>> /\ proc[p].result = None
    BY <1>8, <1>3 DEF Open, Busy
  <2>2. CASE run[Id(p)].status = "succeeded"
    <3>1. run' = run /\ proc' = [proc EXCEPT ![p].pc = "record", ![p].result = "succeeded"]
      BY <1>8, <2>2 DEF Open
    <3>2. /\ proc'[p].lib = proc[p].lib /\ proc'[p].run = proc[p].run /\ proc'[p].pc = "record"
          /\ proc'[p].result = "succeeded"
      BY <3>1, <1>0 DEF Proc
    <3>3. Id(p)' = Id(p)
      BY <3>2 DEF Id
    <3>4. QED
      BY <3>1, <3>2, <3>3, <2>1, <2>2, <1>7 DEF Tracked
  <2>3. CASE run[Id(p)].status # "succeeded"
    <3>1. run' = [run EXCEPT ![Id(p)].status = "running"] /\ proc' = [proc EXCEPT ![p].pc = "walk"]
      BY <1>8, <2>3 DEF Open, Go
    <3>2. /\ proc'[p].lib = proc[p].lib /\ proc'[p].run = proc[p].run /\ proc'[p].pc = "walk"
          /\ proc'[p].result = None
      BY <3>1, <2>1, <1>0 DEF Proc
    <3>3. Id(p)' = Id(p)
      BY <3>2 DEF Id
    <3>4. run'[Id(p)].status = "running"
      BY <3>1, <2>1, <1>0 DEF Run
    <3>5. QED
      BY <3>2, <3>3, <3>4, <2>1, <1>7 DEF Tracked, Results
  <2>4. QED
    BY <2>2, <2>3
<1>9. ASSUME NEW p \in Procs, SetUp(p) PROVE Held(o)' /\ Calm(o)' /\ Tracked(o)'
  <2>1. Busy(p) /\ UNCHANGED <<cycle, task, lock, proc, cut>> /\ run' = [run EXCEPT ![Id(p)].began = cycle.recovery]
    BY <1>9 DEF SetUp, Busy
  <2>2. run'[Id(p)].status = run[Id(p)].status /\ Id(p)' = Id(p)
    BY <2>1, <1>0 DEF Run, Id
  <2>3. lock = p
    BY <2>1, <1>1 DEF Busy, Inside
  <2>4. Tracked(p)'
    BY <2>1, <2>2, <2>3, <1>2 DEF Tracked
  <2>5. QED
    BY <2>1, <2>4, <1>7 DEF Busy
<1>10. ASSUME NEW p \in Procs, NEW s \in {"running", "paused", "failed", "succeeded"}, NEW r \in Results,
              Result(p, s, r), UNCHANGED <<cycle, task, lock>>,
              <<s, r>> \in {<<"succeeded", "succeeded">>, <<"running", "running">>, <<"paused", "daily">>}
              \/ (s = "failed" /\ r \in {"rate", "budget", "error"})
       PROVE  Held(o)' /\ Calm(o)' /\ Tracked(o)'
  <2>1. Busy(p) /\ run' = [run EXCEPT ![Id(p)].status = s]
        /\ proc' = [proc EXCEPT ![p].pc = "record", ![p].result = r]
    BY <1>10 DEF Result, Busy
  <2>2. proc'[p].lib = proc[p].lib /\ proc'[p].run = proc[p].run /\ proc'[p].pc = "record" /\ proc'[p].result = r
    BY <2>1, <1>0 DEF Proc
  <2>3. Id(p)' = Id(p) /\ run'[Id(p)].status = s
    BY <2>1, <2>2, <1>0 DEF Run, Id
  <2>4. Tracked(p)'
    BY <2>2, <2>3, <1>10 DEF Tracked, Results
  <2>5. QED
    BY <2>1, <2>2, <2>4, <1>10, <1>7
<1>11. ASSUME NEW p \in Procs, Succeed(p) \/ Partial(p) \/ Pause(p) PROVE Held(o)' /\ Calm(o)' /\ Tracked(o)'
  <2>1. /\ Result(p, "succeeded", "succeeded") \/ Result(p, "running", "running") \/ Result(p, "paused", "daily")
        /\ UNCHANGED <<cycle, task, lock>>
    BY <1>11 DEF Succeed, Partial, Pause
  <2>2. QED
    BY <2>1, <1>10 DEF Results
<1>12. ASSUME NEW p \in Procs, NEW code \in {"rate", "budget", "error"}, FailWalk(p, code)
       PROVE  Held(o)' /\ Calm(o)' /\ Tracked(o)'
  <2>1. Result(p, "failed", code) /\ UNCHANGED <<cycle, task, lock>>
    BY <1>12 DEF FailWalk
  <2>2. QED
    BY <2>1, <1>10 DEF Results
<1>13. ASSUME NEW p \in Procs, Raise(p) PROVE Held(o)' /\ Calm(o)' /\ Tracked(o)'
  <2>1. Busy(p) /\ UNCHANGED <<cycle, task, lock>> /\ "raise" \in cut'
        /\ proc' = [proc EXCEPT ![p].pc = "record", ![p].result = "error"]
    BY <1>13 DEF Raise, Busy
  <2>2. proc'[p].lib = proc[p].lib /\ proc'[p].run = proc[p].run /\ proc'[p].pc = "record" /\ proc'[p].result = "error"
    BY <2>1, <1>0 DEF Proc
  <2>3. QED
    BY <2>1, <2>2, <1>7 DEF Tracked
<1>14. ASSUME NEW p \in Procs, Record(p) PROVE Held(o)' /\ Calm(o)' /\ Tracked(o)'
  <2> DEFINE k == proc[p].lib
             r == proc[p].result
             t == Outcome(task[k], proc[p].run, r)
             walked == proc[p].walked + 1
  <2>1. Busy(p) /\ r \in Results /\ TaskOK(task[k]) /\ k \in Libs /\ k \in Planned /\ proc[p].run \in Recoveries
    BY <1>14, <1>0 DEF Record, Busy, ProcOK, Proc
  <2>2. lock = p /\ o = p /\ Calm(p)
    BY <1>14, <2>1, <1>1, <1>2 DEF Record, Busy, Inside
  <2>3. /\ TaskOK(t) /\ t.recovery = task[k].recovery /\ (r # "rate" => ~t.rate)
    BY <2>1, OutcomeIs
  <2>4. proc'[p].pc = (IF Stops(r, walked) \/ cycle'.status # "running" THEN "finish" ELSE "loop")
        /\ proc'[p].result = None
    BY <1>14, <1>0 DEF Record, Proc
  <2>5. task' = [task EXCEPT ![k] = t] /\ cycle'.recovery = cycle.recovery
    BY <1>14 DEF Record
  <2> HIDE DEF t
  <2>6. /\ \A l \in Libs : task'[l] = IF l = k THEN t ELSE task[l]
        /\ t # None
    BY <2>5, <2>3, <1>0 DEF TaskOK
  <2>7. Current' = Current
    BY <2>1, <2>3, <2>5, <2>6, <1>0 DEF Current, Planned
  <2>8. CASE r = "rate"
    BY <2>8, <2>2, <2>4, <1>N DEF Stops
  <2>9. CASE r # "rate"
    <3>1. proc'[o].pc \in {"loop", "finish"} /\ proc'[o].result = None
      BY <2>2, <2>4
    <3>2. \A l \in Current' : ~(task'[l].rate /\ task'[l].wait = "retry")
      BY <2>1, <2>2, <2>3, <2>6, <2>7, <2>9, <1>0 DEF Calm, Current, Planned
    <3>3. QED
      BY <3>1, <3>2 DEF Held, Calm, Tracked, Busy, Results
  <2>10. QED
    BY <2>8, <2>9
<1>15. ASSUME NEW p \in Procs, NothingLeft(p) PROVE Held(o)' /\ Calm(o)' /\ Tracked(o)'
  <2>1. lock = p /\ lock' = p /\ proc'[p].pc = "finish" /\ proc'[p].result = None
    BY <1>15, <1>0, <1>1, <1>3 DEF NothingLeft, Go, Inside, Proc
  <2>2. QED
    BY <2>1, <1>N
<1>16. ASSUME NEW p \in Procs, Finish(p) \/ Crash(p) PROVE FALSE
  <2>1. Inside(p) /\ lock' = IF lock = p THEN None ELSE lock
    BY <1>16 DEF Finish, Crash, Exit, Inside
  <2>2. QED
    BY <2>1, <1>1
<1>17. ASSUME NEW l \in Libs, RetryDue(l) PROVE Held(o)' /\ Calm(o)' /\ Tracked(o)'
  <2>1. /\ UNCHANGED <<cycle, run, proc, lock, cut>> /\ l \in Planned /\ TaskOK(task[l])
        /\ task' = [task EXCEPT ![l] = [task[l] EXCEPT !.wait = "none"]]
    BY <1>17, <1>0 DEF RetryDue, Planned
  <2> DEFINE x == [task[l] EXCEPT !.wait = "none"]
  <2>2. TaskOK(x) /\ x.status = task[l].status /\ x.run = task[l].run /\ x.recovery = task[l].recovery
        /\ x.wait = "none"
    BY <2>1, TaskSteps DEF TaskOK, Task
  <2>3. task' = [task EXCEPT ![l] = x]
    BY <2>1
  <2> HIDE DEF x
  <2>4. /\ \A j \in Libs : task'[j] = IF j = l THEN x ELSE task[j]
        /\ x # None
    BY <2>3, <2>2, <1>0 DEF TaskOK
  <2>5. Current' = Current
    BY <2>1, <2>2, <2>4, <1>0 DEF Current, Planned
  <2>6. QED
    BY <2>1, <2>2, <2>4, <2>5, <1>0, <1>2 DEF Held, Calm, Tracked, Busy, Id, Current, Planned
<1>18. ASSUME NextDay PROVE Held(o)' /\ Calm(o)' /\ Tracked(o)'
  <2> DEFINE f == [l \in Libs |-> IF task[l] # None /\ task[l].wait = "day"
                                  THEN [task[l] EXCEPT !.wait = "none"] ELSE task[l]]
  <2>1. UNCHANGED <<cycle, run, proc, lock, cut>> /\ task' = f
    BY <1>18 DEF NextDay
  <2>2. \A l \in Planned : /\ f[l].status = task[l].status /\ f[l].run = task[l].run /\ f[l] # None
                           /\ f[l].recovery = task[l].recovery /\ f[l].rate = task[l].rate
                           /\ f[l].wait \in {"none", task[l].wait}
    <3>1. \A l \in Planned : task[l] \in Task /\ [task[l] EXCEPT !.wait = "none"] \in Task
      BY <1>0 DEF TaskOK, Task
    <3>2. QED
      BY <3>1, <1>0 DEF Task
  <2>3. \A l \in Libs \ Planned : f[l] = task[l]
    BY DEF Planned
  <2> HIDE DEF f
  <2>4. Current' = Current
    BY <2>1, <2>2, <2>3, <1>0 DEF Current, Planned
  <2>5. QED
    BY <2>1, <2>2, <2>4, <1>0, <1>2 DEF Held, Calm, Tracked, Busy, Id, Current
<1>19. ASSUME Boot PROVE Held(o)' /\ Calm(o)' /\ Tracked(o)'
  <2>1. UNCHANGED <<cycle, task, lock, cut>> /\ Watcher \in Procs /\ proc[Watcher].pc = "boot"
        /\ proc' = [proc EXCEPT ![Watcher].pc = "idle"] /\ lock = o /\ run' = run
    <3>1. UNCHANGED <<cycle, task, lock, cut>> /\ Watcher \in Procs /\ proc[Watcher].pc = "boot"
          /\ proc' = [proc EXCEPT ![Watcher].pc = "idle"] /\ lock = o
      BY <1>19, Scope DEF Boot, Go
    <3>2. run' = [id \in DOMAIN run |-> run[id]]
      BY <3>1, <1>19 DEF Boot
    <3>3. QED
      BY <3>1, <3>2, <1>0
  <2>2. CASE o = Watcher
    BY <2>1, <2>2, <1>0, <1>3, <1>N DEF Proc
  <2>3. CASE o # Watcher
    <3>1. proc'[o] = proc[o]
      BY <2>1, <2>3, <1>0
    <3>2. QED
      BY <3>1, <2>1, <1>2 DEF Held, Calm, Tracked, Busy, Id, Current, Planned
  <2>4. QED
    BY <2>2, <2>3
<1>20. ASSUME LoseLock \/ ResumeFailed \/ \E targets \in Scopes : Prepare(targets) PROVE FALSE
  BY <1>20 DEF LoseLock, ResumeFailed, Prepare
<1>21. CASE UNCHANGED vars
  BY <1>21, <1>2 DEF vars, Held, Calm, Tracked, Busy, Id, Current, Planned
<1>22. CASE \E p \in Procs : Work(p) \/ Walk(p) \/ Crash(p)
  <2>1. PICK p \in Procs : Work(p) \/ Walk(p) \/ Crash(p)
    BY <1>22
  <2>2. CASE Work(p)
    BY <2>2, <1>5, <1>6, <1>8, <1>9, <1>14, <1>15, <1>16 DEF Work
  <2>3. CASE Walk(p)
    BY <2>3, <1>11, <1>12, <1>13 DEF Walk
  <2>4. QED
    BY <2>1, <2>2, <2>3, <1>16
<1>23. QED
  BY <1>4, <1>17, <1>18, <1>19, <1>20, <1>21, <1>22 DEF Next

-----------------------------------------------------------------------------
(* What a step may do to a finished library and to a limited one.          *)

LEMMA CompletedStep == Base /\ [Next]_vars => CompletedIsCollected
<1> SUFFICES ASSUME Base, [Next]_vars, cycle'.status = "completed", cycle.status # "completed"
             PROVE  \A l \in cycle.targets :
                      \E r \in Recoveries : run[l, r].status = "succeeded" /\ run[l, r].began # None
                                            /\ run[l, r].began >= cycle.recovery
  BY DEF CompletedIsCollected
<1>0. /\ cycle \in [status : Ended \cup {"none", "running"}, recovery : Recoveries, targets : SUBSET Libs]
      /\ cycle.targets \subseteq Planned /\ \A l \in Planned : task[l] \in Task
  BY DEF Base, TypeOK, TaskOK
<1>1. ASSUME NEW p \in Procs, Finish(p)
      PROVE  \A l \in cycle.targets :
               \E r \in Recoveries : run[l, r].status = "succeeded" /\ run[l, r].began # None
                                     /\ run[l, r].began >= cycle.recovery
  <2>1. Complete(proc[p].tasks)
    BY <1>1, <1>0 DEF Finish
  <2>2. \A l \in cycle.targets : task[l].run \in Recoveries
    BY <2>1, <1>0 DEF Complete, Task
  <2>3. QED
    BY <2>1, <2>2 DEF Complete
<1>2. ASSUME NEW p \in Procs, NEW targets \in Scopes, Plan(p, targets) PROVE FALSE
  <2>1. cycle' = [cycle EXCEPT !.status = "running", !.targets = targets]
    BY <1>2 DEF Plan
  <2>2. cycle'.status = "running"
    BY <2>1, <1>0
  <2>3. QED
    BY <2>2
<1>3. ASSUME NEW targets \in Scopes, Prepare(targets) PROVE FALSE
  BY <1>3 DEF Prepare
<1>4. ASSUME NEW p \in Procs, Record(p) PROVE FALSE
  BY <1>4, <1>0 DEF Record
<1>5. ASSUME ResumeFailed PROVE FALSE
  BY <1>5, <1>0 DEF ResumeFailed
<1>6. ASSUME cycle' = cycle PROVE FALSE
  BY <1>6
<1>7. CASE \E p \in Procs : Work(p) \/ Walk(p) \/ Crash(p)
  <2>1. PICK p \in Procs : Work(p) \/ Walk(p) \/ Crash(p)
    BY <1>7
  <2>2. Finish(p) \/ Record(p) \/ cycle' = cycle
    BY <2>1 DEF Work, Walk, Begin, Open, SetUp, NothingLeft, Reserve, Succeed, Partial, Pause, Raise, FailWalk, Crash
  <2>3. QED
    BY <2>2, <1>1, <1>4, <1>6
<1>8. CASE Boot \/ LoseLock \/ NextDay \/ (\E l \in Libs : RetryDue(l)) \/ UNCHANGED vars
  <2>1. cycle' = cycle
    BY <1>8 DEF Boot, LoseLock, NextDay, RetryDue, vars
  <2>2. QED
    BY <2>1, <1>6
<1>9. QED
  BY <1>2, <1>3, <1>5, <1>7, <1>8 DEF Next

LEMMA SuccessStep == Base /\ Kept /\ [Next]_vars => SuccessIsKept
<1> SUFFICES ASSUME Base, Kept, [Next]_vars, "lock" \notin cut, cycle'.recovery = cycle.recovery,
                    NEW l \in Planned, task[l].status = "succeeded"
             PROVE  task'[l] = task[l]
  BY DEF SuccessIsKept
<1>0. /\ task \in [Libs -> Task \cup {None}] /\ cycle.recovery \in Recoveries
      /\ task[l] \in Task /\ task[l] # None /\ task[l].wait = "none" /\ l \in Libs
      /\ cycle \in [status : Ended \cup {"none", "running"}, recovery : Recoveries, targets : SUBSET Libs]
  BY DEF Base, TypeOK, TaskOK, Planned
<1>1. ASSUME NEW p \in Procs, Work(p) PROVE task'[l] = task[l]
  <2>1. CASE Begin(p)
    <3>1. task' = [k \in Libs |-> IF k \in Current THEN Interrupted(task[k]) ELSE task[k]]
      BY <2>1 DEF Begin
    <3>2. Interrupted(task[l]) = task[l]
      BY DEF Interrupted
    <3>3. QED
      BY <3>1, <3>2, <1>0
  <2>2. CASE \E k \in Libs : Reserve(p, k)
    BY <2>2, <1>0 DEF Reserve
  <2>3. CASE Record(p)
    <3>1. Busy(p) /\ Inside(p)
      BY <2>3 DEF Record, Busy, Inside
    <3>2. lock = p /\ Held(p)
      BY <3>1, BaseFacts DEF Kept
    <3>3. proc[p].lib # l
      BY <3>1, <3>2 DEF Held
    <3>4. task' = [task EXCEPT ![proc[p].lib] = Outcome(@, proc[p].run, proc[p].result)]
      BY <2>3 DEF Record
    <3>5. QED
      BY <3>3, <3>4, <1>0
  <2>4. CASE Open(p) \/ SetUp(p) \/ NothingLeft(p) \/ Finish(p)
    BY <2>4 DEF Open, SetUp, NothingLeft, Finish
  <2>5. QED
    BY <1>1, <2>1, <2>2, <2>3, <2>4 DEF Work
<1>2. ASSUME NEW p \in Procs, Walk(p) \/ Crash(p) PROVE task'[l] = task[l]
  BY <1>2 DEF Walk, Crash, Succeed, Partial, Pause, Raise, FailWalk
<1>3. ASSUME NEW p \in Procs, NEW targets \in Scopes, Plan(p, targets) PROVE FALSE
  <2>1. cycle.status = "none"
    BY <1>3 DEF Plan
  <2>2. QED
    BY <2>1, BaseFacts
<1>4. ASSUME NEW targets \in Scopes, Prepare(targets) PROVE FALSE
  <2>1. cycle'.recovery = cycle.recovery + 1 /\ cycle.recovery \in Nat
    BY <1>4, <1>0, Sizes DEF Prepare, Recoveries
  <2>2. QED
    BY <2>1
<1>5. ASSUME ResumeFailed PROVE task'[l] = task[l]
  <2>1. task' = [k \in Libs |-> IF task[k] = None THEN None ELSE Reopened(task[k])]
    BY <1>5 DEF ResumeFailed
  <2>2. QED
    BY <2>1, <1>0 DEF Reopened
<1>6. ASSUME NEW k \in Libs, RetryDue(k) PROVE task'[l] = task[l]
  BY <1>6, <1>0 DEF RetryDue
<1>7. ASSUME NextDay PROVE task'[l] = task[l]
  BY <1>7, <1>0 DEF NextDay
<1>8. CASE Boot \/ LoseLock \/ UNCHANGED vars
  BY <1>8 DEF Boot, LoseLock, vars
<1>9. QED
  BY <1>1, <1>2, <1>3, <1>4, <1>5, <1>6, <1>7, <1>8 DEF Next

LEMMA RateStep ==
  ASSUME Base, Kept, [Next]_vars, NEW p \in Procs, proc[p].pc = "loop", "lock" \notin cut
  PROVE  \A l \in Current : ~(task[l].rate /\ task[l].wait = "retry")
<1>1. Inside(p)
  BY DEF Inside
<1>2. lock = p
  BY <1>1, BaseFacts
<1>3. QED
  BY <1>2 DEF Kept, Calm

(* Only a complete inventory completes a cycle, and a library that has     *)
(* succeeded is left alone until a new recovery asks for it.               *)
THEOREM InventoryIsComplete == Spec => CollectedOnce
<1>1. Base /\ Kept /\ [Next]_vars => [CompletedIsCollected /\ SuccessIsKept]_vars
  BY CompletedStep, SuccessStep
<1>2. QED
  BY <1>1, BaseInit, BaseStep, KeptInit, KeptStep, PTL DEF Spec, CollectedOnce

(* While one library waits for the provider's rate limit, no slice starts  *)
(* to walk another of the cycle.                                           *)
THEOREM LimitIsShared == Spec => RateLimitStopsAll
<1> DEFINE Starts == \A p \in Procs : proc[p].pc = "loop" /\ proc'[p].pc = "open" /\ "lock" \notin cut =>
                       \A l \in Current : ~(task[l].rate /\ task[l].wait = "retry")
<1>1. Base /\ Kept /\ [Next]_vars => [Starts]_vars
  BY RateStep
<1>2. QED
  BY <1>1, BaseInit, BaseStep, KeptInit, KeptStep, PTL DEF Spec, RateLimitStopsAll

-----------------------------------------------------------------------------
(* Attempts and failures.                                                  *)

(* The holder of the lock is at this place with the library.               *)
At(l, S) == lock \in Procs /\ proc[lock].lib = l /\ proc[lock].pc \in S
Got(l, S) == lock \in Procs /\ proc[lock].lib = l /\ proc[lock].pc = "record" /\ proc[lock].result \in S

(* A failure to come is paid for: a run that goes on, or is about to, has  *)
(* an attempt that no failure has used.  A library that was given up has   *)
(* no run that goes on, so that opening it again starts from nothing.      *)
Paid(l) ==
  /\ failures[l] <= task[l].attempts
  /\ Continues(l) \/ At(l, {"open"}) => failures[l] < task[l].attempts
  /\ task[l].status = "dead_letter" => ~Continues(l)

(* At most one attempt is without its failure, and only while its run goes *)
(* on, is about to, or has succeeded.                                      *)
Given(l) ==
  /\ task[l].status = "dead_letter" => failures[l] >= MaxAttempts
  /\ task[l].status \in {"pending", "running"} =>
       /\ task[l].attempts <= failures[l] + 1
       /\ Continues(l) \/ task[l].attempts <= failures[l] \/ At(l, {"open"}) \/ Got(l, {"succeeded"})
       /\ Got(l, {"rate", "budget", "error"}) => task[l].attempts <= failures[l]

Counted ==
  /\ \A l \in Libs \ Planned : failures[l] = 0
  /\ cut \cap {"lock", "raise"} = {} => \A l \in Planned : Paid(l)
  /\ cut \cap {"lock", "open", "succeeded"} = {} => \A l \in Planned : Given(l)

LEMMA CountedInit == Init => Counted
BY DEF Init, Counted, Planned

(* What can happen to the books of one library.                            *)
LEMMA PaidMoves ==
  ASSUME NEW l, Paid(l), failures[l] \in Nat, task[l].attempts \in Nat,
         \/ /\ failures'[l] = failures[l] /\ task'[l].attempts = task[l].attempts
            /\ Continues(l)' \/ At(l, {"open"})' => Continues(l) \/ At(l, {"open"})
            /\ task'[l].status = "dead_letter" /\ Continues(l)' => task[l].status = "dead_letter" /\ Continues(l)
         \/ /\ failures'[l] = failures[l] /\ task'[l].attempts = task[l].attempts + 1
            /\ task'[l].status # "dead_letter"
         \/ /\ failures'[l] = failures[l] + 1 /\ task'[l].attempts = task[l].attempts
            /\ Continues(l) \/ At(l, {"open"})
            /\ ~Continues(l)' /\ ~At(l, {"open"})'
  PROVE  Paid(l)'
BY DEF Paid

LEMMA GivenMoves ==
  ASSUME NEW l, Given(l), failures[l] \in Nat, task[l].attempts \in Nat,
         \/ /\ failures'[l] = failures[l] /\ task'[l].attempts = task[l].attempts
            /\ task'[l].status = "dead_letter" => task[l].status = "dead_letter"
            /\ task'[l].status \in {"pending", "running"} => task[l].status \in {"pending", "running"}
            /\ Continues(l) \/ At(l, {"open"}) \/ Got(l, {"succeeded"}) =>
                 Continues(l)' \/ At(l, {"open"})' \/ Got(l, {"succeeded"})'
            /\ Got(l, {"rate", "budget", "error"})' => Got(l, {"rate", "budget", "error"})
         \/ /\ failures'[l] = failures[l] /\ task'[l].attempts = task[l].attempts + 1
            /\ task[l].status = "pending" /\ task'[l].status = "running"
            /\ ~Continues(l) /\ ~At(l, {"open"}) /\ ~Got(l, {"succeeded"})
            /\ At(l, {"open"})' /\ ~Got(l, {"rate", "budget", "error"})'
         \/ /\ failures'[l] = failures[l] + 1 /\ task'[l].attempts = task[l].attempts
            /\ task'[l].status = task[l].status
         \/ /\ failures'[l] = failures[l] /\ task'[l].attempts = task[l].attempts
            /\ task[l].status \in {"pending", "running"} /\ Got(l, {"rate", "budget", "error"})
            /\ task'[l].status = IF task[l].attempts >= MaxAttempts THEN "dead_letter" ELSE "pending"
            /\ ~Got(l, {"rate", "budget", "error"})'
         \/ task'[l].status = "succeeded"
  PROVE  Given(l)'
BY Sizes DEF Given

(* A task that is made or opened again starts from nothing.                *)
LEMMA FreshBooks ==
  ASSUME NEW l, failures'[l] = 0, task'[l].attempts = 0, task'[l].status = "pending", ~Continues(l)',
         ~At(l, {"open"})', ~Got(l, {"rate", "budget", "error"})'
  PROVE  Paid(l)' /\ Given(l)'
BY DEF Paid, Given

(* The run of a task is looked at through its identity.                    *)
LEMMA ContinuesIs ==
  ASSUME NEW l
  PROVE  Continues(l) <=> task[l].run # None /\ run[<<l, task[l].run>>].status \in {"none", "running", "paused"}
BY DEF Continues

LEMMA ContinuesAfter ==
  ASSUME NEW l
  PROVE  Continues(l)' <=> task'[l].run # None /\ run'[<<l, task'[l].run>>].status \in {"none", "running", "paused"}
BY DEF Continues

LEMMA BookStep ==
  ASSUME Base, Kept, Counted, [Next]_vars, "lock" \notin cut', NEW l \in Planned'
  PROVE  /\ "raise" \notin cut' => Paid(l)'
         /\ cut' \cap {"open", "succeeded"} = {} => Given(l)'
<1> DEFINE Goal == /\ "raise" \notin cut' => Paid(l)'
                   /\ cut' \cap {"open", "succeeded"} = {} => Given(l)'
<1> SUFFICES Goal
  OBVIOUS
<1> USE NoneFresh
<1>0. /\ task \in [Libs -> Task \cup {None}] /\ run \in [Libs \X Recoveries -> Run]
      /\ failures \in [Libs -> Nat] /\ cycle.recovery \in Recoveries
      /\ proc \in [Procs -> Proc] /\ (\A p \in Procs : ProcOK(proc[p], Planned))
      /\ (\A p \in Procs : Busy(p) => /\ proc[p].lib \in Planned /\ proc[p].lib \in Libs
                                      /\ proc[p].run \in Recoveries /\ Id(p) \in Libs \X Recoveries)
      /\ l \in Libs /\ (l \in Planned => TaskOK(task[l]) /\ task[l] # None /\ task[l] \in Task)
      /\ (cycle.status = "none" => Planned = {})
  BY BaseFacts DEF Planned, TaskOK
<1>1. /\ "lock" \notin cut /\ cut \subseteq cut'
      /\ \A p \in Procs : Inside(p) => lock = p
  <2>1. cut \subseteq cut'
    BY ZenonT(30) DEF Next, Work, Walk, Plan, Begin, Reserve, Open, SetUp, Succeed, Partial, Pause, FailWalk, Raise,
           Record, NothingLeft, Finish, Prepare, ResumeFailed, RetryDue, NextDay, Crash, Boot, LoseLock, vars
  <2>2. QED
    BY <2>1, BaseFacts
<1>2. \A p \in Procs : Inside(p) => Held(p) /\ Tracked(p)
  BY <1>1 DEF Kept
<1>3. l \in Planned => failures[l] \in Nat /\ task[l].attempts \in Nat /\ task[l].run \in Recoveries \cup {None}
                       /\ (task[l].status = "running" => task[l].run # None)
  BY <1>0 DEF Task, TaskOK
<1>4. l \in Planned => /\ "raise" \notin cut' => Paid(l)
                       /\ cut' \cap {"open", "succeeded"} = {} => Given(l)
  BY <1>1 DEF Counted
<1>5. \A p \in Procs : proc[p].pc # "record" => proc[p].result = None
  BY <1>0 DEF ProcOK
(* The books do not change, nor what they depend on.                       *)
<1>K. ASSUME l \in Planned, failures'[l] = failures[l], task'[l].attempts = task[l].attempts,
             task'[l].status = "dead_letter" <=> task[l].status = "dead_letter",
             task'[l].status \in {"pending", "running"} => task[l].status \in {"pending", "running"},
             Continues(l)' <=> Continues(l), At(l, {"open"})' <=> At(l, {"open"}),
             Got(l, {"succeeded"})' <=> Got(l, {"succeeded"}),
             Got(l, {"rate", "budget", "error"})' => Got(l, {"rate", "budget", "error"})
      PROVE  Goal
  <2>1. "raise" \notin cut' => Paid(l)'
    BY <1>K, <1>3, <1>4, PaidMoves
  <2>2. cut' \cap {"open", "succeeded"} = {} => Given(l)'
    BY <1>K, <1>3, <1>4, GivenMoves
  <2>3. QED
    BY <2>1, <2>2
(* A task that is made or opened again while nobody is inside.             *)
<1>F. ASSUME failures'[l] = 0, task'[l].attempts = 0, task'[l].status = "pending", ~Continues(l)',
             ~At(l, {"open"})', ~Got(l, {"rate", "budget", "error"})'
      PROVE  Goal
  BY <1>F, FreshBooks
(* The other libraries, while a process works on its own.                  *)
<1>O. ASSUME NEW p \in Procs, Inside(p), lock' = p, l \in Planned, failures'[l] = failures[l], task'[l] = task[l],
             run'[<<l, task[l].run>>] = run[<<l, task[l].run>>],
             proc[p].lib # l \/ ~Busy(p), proc'[p].lib # l \/ proc'[p].pc \notin {"open", "record"}
      PROVE  Goal
  <2>1. lock = p
    BY <1>O, <1>1
  <2>2. Continues(l)' <=> Continues(l)
    BY <1>O, ContinuesIs, ContinuesAfter
  <2>3. /\ ~At(l, {"open"})' /\ ~At(l, {"open"}) /\ ~Got(l, {"succeeded"})' /\ ~Got(l, {"succeeded"})
        /\ ~Got(l, {"rate", "budget", "error"})'
    BY <2>1, <1>O DEF At, Got, Busy
  <2>4. QED
    BY <2>2, <2>3, <1>O, <1>K
<1>6. ASSUME NEW p \in Procs, NEW targets \in Scopes, Plan(p, targets) PROVE Goal
  <2>1. Planned = {} /\ 0 \in Recoveries /\ failures' = failures /\ proc' = [proc EXCEPT ![p] = [Idle EXCEPT !.pc = "loop", !.todo = targets, !.tasks = targets]]
        /\ task' = [k \in Libs |-> IF k \in targets THEN NewTask(0) ELSE None]
        /\ lock' = p
    BY <1>6, <1>0, Sizes DEF Plan, Recoveries
  <2>2. failures'[l] = 0
    BY <2>1, <1>0 DEF Counted
  <2>3. task'[l] = NewTask(0)
    BY <2>1, <1>0 DEF Planned
  <2>4. task'[l].attempts = 0 /\ task'[l].status = "pending" /\ ~Continues(l)'
    <3>1. task'[l].attempts = 0 /\ task'[l].status = "pending" /\ task'[l].run = None
      BY <2>3 DEF NewTask
    <3>2. QED
      BY <3>1, ContinuesAfter
  <2>5. proc'[p].pc = "loop"
    BY <2>1, <1>0 DEF Idle
  <2>6. QED
    BY <2>1, <2>2, <2>4, <2>5, <1>F DEF At, Got
<1>7. ASSUME NEW targets \in Scopes, Prepare(targets) PROVE Goal
  <2>1. lock' = None /\ lock = None /\ run' = run /\ cycle.recovery + 1 \in Recoveries
        /\ task' = [k \in Libs |-> IF k \in targets THEN NewTask(cycle.recovery + 1) ELSE task[k]]
        /\ failures' = [k \in Libs |-> IF k \in targets THEN 0 ELSE failures[k]]
    BY <1>7, <1>0, Sizes DEF Prepare, Recoveries
  <2>2. CASE l \in targets
    <3>1. task'[l] = NewTask(cycle.recovery + 1) /\ failures'[l] = 0
      BY <2>1, <2>2, <1>0
    <3>2. task'[l].attempts = 0 /\ task'[l].status = "pending" /\ ~Continues(l)'
      <4>1. task'[l].attempts = 0 /\ task'[l].status = "pending" /\ task'[l].run = None
        BY <3>1 DEF NewTask
      <4>2. QED
        BY <4>1, ContinuesAfter
    <3>3. QED
      BY <3>1, <3>2, <2>1, <1>F DEF At, Got
  <2>3. CASE l \notin targets
    <3>1. task'[l] = task[l] /\ failures'[l] = failures[l] /\ l \in Planned
      BY <2>1, <2>3, <1>0 DEF Planned
    <3>2. Continues(l)' <=> Continues(l)
      BY <3>1, <2>1, ContinuesIs, ContinuesAfter
    <3>3. QED
      BY <3>1, <3>2, <2>1, <1>K DEF At, Got
  <2>4. QED
    BY <2>2, <2>3
<1>8. ASSUME ResumeFailed PROVE Goal
  <2>1. lock' = None /\ lock = None /\ run' = run
        /\ task' = [k \in Libs |-> IF task[k] = None THEN None ELSE Reopened(task[k])]
        /\ failures' = [k \in Libs |-> IF task[k] # None /\ task[k].status = "dead_letter" THEN 0 ELSE failures[k]]
        /\ (\A k \in Planned : task[k].run # None
                               /\ (task[k].status = "succeeded" <=> run[<<k, task[k].run>>].status = "succeeded"))
    BY <1>8 DEF ResumeFailed
  <2>2. task[l] # None /\ task'[l] = Reopened(task[l]) /\ l \in Planned
    BY <2>1, <1>0 DEF Planned
  <2>3. CASE task[l].status = "dead_letter"
    <3>1. Reopened(task[l]).status = "pending" /\ Reopened(task[l]).attempts = 0 /\ Reopened(task[l]).run = task[l].run
      BY <2>2, <2>3, <1>0, TaskSteps
    <3>2. failures'[l] = 0
      BY <2>1, <2>2, <2>3, <1>0
    <3>3. Continues(l)' <=> Continues(l)
      BY <3>1, <2>1, <2>2, ContinuesIs, ContinuesAfter
    <3>4. ~At(l, {"open"})' /\ ~Got(l, {"rate", "budget", "error"})'
      BY <2>1 DEF At, Got
    <3>5. CASE ~Continues(l)
      BY <3>1, <3>2, <3>3, <3>4, <3>5, <2>2, <1>F
    <3>6. CASE Continues(l)
      <4>1. "raise" \in cut'
        BY <3>6, <2>2, <2>3, <1>4 DEF Paid
      <4>2. Given(l)'
        BY <3>1, <3>2, <3>4, <2>2 DEF Given
      <4>3. QED
        BY <4>1, <4>2
    <3>7. QED
      BY <3>5, <3>6
  <2>4. CASE task[l].status # "dead_letter"
    <3>1. task'[l] = task[l] /\ failures'[l] = failures[l]
      BY <2>1, <2>2, <2>4, <1>0 DEF Reopened
    <3>2. Continues(l)' <=> Continues(l)
      BY <3>1, <2>1, ContinuesIs, ContinuesAfter
    <3>3. QED
      BY <3>1, <3>2, <2>1, <2>2, <1>K DEF At, Got
  <2>5. QED
    BY <2>3, <2>4
<1>9. ASSUME NEW p \in Procs, Begin(p) PROVE Goal
  <2>1. lock = None /\ UNCHANGED <<run, failures>> /\ (lock' = p => proc'[p].pc = "loop") /\ lock' \in {None, p}
        /\ task' = [k \in Libs |-> IF k \in Current THEN Interrupted(task[k]) ELSE task[k]]
    <3> DEFINE f == [k \in Libs |-> IF k \in Current THEN Interrupted(task[k]) ELSE task[k]]
               ready == {k \in Current : f[k].status = "pending" /\ f[k].wait = "none"}
               C == \E k \in Current : f[k].rate /\ f[k].wait = "retry"
    <3>1. /\ lock = None /\ UNCHANGED <<run, failures>> /\ task' = f
          /\ IF C THEN lock' = lock
             ELSE lock' = p /\ proc' = [proc EXCEPT ![p] = [Idle EXCEPT !.pc = "loop", !.todo = ready, !.tasks = Current]]
      BY <1>9 DEF Begin
    <3> HIDE DEF ready, C, f
    <3>2. lock' = p => proc'[p].pc = "loop"
      <4> SUFFICES ASSUME lock' = p PROVE proc'[p].pc = "loop"
        OBVIOUS
      <4>1. proc' = [proc EXCEPT ![p] = [Idle EXCEPT !.pc = "loop", !.todo = ready, !.tasks = Current]]
        BY <3>1
      <4>2. QED
        BY <4>1, <1>0 DEF Idle
    <3>3. lock' \in {None, p}
      BY <3>1
    <3>4. task' = [k \in Libs |-> IF k \in Current THEN Interrupted(task[k]) ELSE task[k]]
      BY <1>9 DEF Begin
    <3>5. QED
      BY <3>1, <3>2, <3>3, <3>4
  <2>2. task'[l] \in {task[l], Interrupted(task[l])} /\ l \in Planned
    BY <2>1, <1>0 DEF Current, Planned
  <2>3. /\ task'[l].attempts = task[l].attempts /\ task'[l].run = task[l].run
        /\ task'[l].status = "dead_letter" <=> task[l].status = "dead_letter"
        /\ task'[l].status \in {"pending", "running"} => task[l].status \in {"pending", "running"}
    <3>1. CASE task[l].status = "running"
      <4>1. Interrupted(task[l]).status = "pending" /\ Interrupted(task[l]).attempts = task[l].attempts
            /\ Interrupted(task[l]).run = task[l].run
        BY <3>1, <2>2, <1>0, TaskSteps
      <4>2. QED
        BY <4>1, <2>2, <3>1
    <3>2. CASE task[l].status # "running"
      BY <3>2, <2>2 DEF Interrupted
    <3>3. QED
      BY <3>1, <3>2
  <2>4. Continues(l)' <=> Continues(l)
    BY <2>1, <2>3, ContinuesIs, ContinuesAfter
  <2>5. /\ ~At(l, {"open"})' /\ ~At(l, {"open"}) /\ ~Got(l, {"succeeded"})' /\ ~Got(l, {"succeeded"})
        /\ ~Got(l, {"rate", "budget", "error"})'
    BY <2>1 DEF At, Got
  <2>6. QED
    BY <2>1, <2>2, <2>3, <2>4, <2>5, <1>K
<1>10. ASSUME NEW p \in Procs, NEW k \in Libs, Reserve(p, k) PROVE Goal
  <2>1. /\ lock = p /\ lock' = p /\ UNCHANGED <<run, failures>> /\ proc[p].pc = "loop" /\ task[k].status = "pending"
        /\ task' = [task EXCEPT ![k] = Reserved(k)] /\ k \in Planned /\ Inside(p)
    BY <1>10, <1>0, <1>1 DEF Reserve, Inside, ProcOK
  <2>2. proc'[p].pc = "open" /\ proc'[p].lib = k /\ proc'[p].result = None
    BY <1>10, <1>0, <1>5 DEF Reserve, Proc
  <2>3. l \in Planned
    BY <2>1, <1>0 DEF Planned
  <2>4. CASE l # k
    <3>1. task'[l] = task[l]
      BY <2>1, <2>4, <1>0
    <3>2. QED
      BY <3>1, <2>1, <2>2, <2>3, <2>4, <1>O DEF Busy
  <2>5. CASE l = k
    <3>1. task'[l] = Reserved(l)
      BY <2>1, <2>5, <1>0
    <3>2. /\ task'[l].status = "running" /\ failures'[l] = failures[l]
          /\ task'[l].attempts = IF Continues(l) THEN task[l].attempts ELSE task[l].attempts + 1
          /\ task'[l].run = IF task[l].run = None THEN cycle.recovery ELSE task[l].run
      BY <3>1, <2>1, <2>3, <1>0 DEF Reserved, Task
    <3>3. /\ At(l, {"open"})' /\ ~At(l, {"open"}) /\ ~Got(l, {"succeeded"}) /\ ~Got(l, {"succeeded"})'
          /\ ~Got(l, {"rate", "budget", "error"})'
      BY <2>1, <2>2, <2>5 DEF At, Got
    <3>4. CASE Continues(l)
      <4>1. Continues(l)'
        BY <3>2, <3>4, <2>1, ContinuesIs, ContinuesAfter
      <4>2. "raise" \notin cut' => Paid(l)'
        BY <4>1, <3>2, <3>4, <2>1, <2>3, <2>5, <1>3, <1>4, PaidMoves
      <4>3. cut' \cap {"open", "succeeded"} = {} => Given(l)'
        BY <4>1, <3>2, <3>3, <3>4, <2>1, <2>3, <2>5, <1>3, <1>4, GivenMoves
      <4>4. QED
        BY <4>2, <4>3
    <3>5. CASE ~Continues(l)
      <4>1. "raise" \notin cut' => Paid(l)'
        BY <3>2, <3>5, <2>3, <1>3, <1>4, PaidMoves
      <4>2. cut' \cap {"open", "succeeded"} = {} => Given(l)'
        BY <3>2, <3>3, <3>5, <2>1, <2>3, <2>5, <1>3, <1>4, GivenMoves
      <4>3. QED
        BY <4>1, <4>2
    <3>6. QED
      BY <3>4, <3>5
  <2>6. QED
    BY <2>4, <2>5
(* A step of a walk: the run of the task changes, and perhaps its failures.*)
<1>W. ASSUME NEW p \in Procs, Busy(p), UNCHANGED <<task, lock>>, NEW x \in Run, run' = [run EXCEPT ![Id(p)] = x],
             proc'[p].lib = proc[p].lib,
             \A k \in Libs \ {proc[p].lib} : failures'[k] = failures[k],
             l \in Planned, proc[p].lib = l => Goal
      PROVE  Goal
  <2>1. Inside(p) /\ lock' = p
    BY <1>W, <1>1 DEF Inside, Busy
  <2>2. CASE proc[p].lib # l
    <3>1. run'[<<l, task[l].run>>] = run[<<l, task[l].run>>]
      <4>1. CASE <<l, task[l].run>> \in DOMAIN run
        BY <4>1, <1>W, <2>2 DEF Id
      <4>2. CASE <<l, task[l].run>> \notin DOMAIN run
        <5>1. task[l].run = None
          BY <4>2, <1>0, <1>3, <1>W
        <5>2. Id(p) # <<l, task[l].run>>
          BY <2>2 DEF Id
        <5>3. QED
          BY <5>2, <1>W, <1>0
      <4>3. QED
        BY <4>1, <4>2
    <3>2. task'[l] = task[l] /\ failures'[l] = failures[l] /\ proc'[p].lib # l
      BY <1>W, <2>2, <1>0
    <3>3. QED
      BY <3>1, <3>2, <2>1, <2>2, <1>W, <1>O
  <2>3. QED
    BY <2>2, <1>W
(* What the holder knows of its own library.                               *)
<1>H. ASSUME NEW p \in Procs, Busy(p), proc[p].lib = l
      PROVE  /\ Inside(p) /\ lock = p /\ l \in Planned /\ task[l].status = "running" /\ task[l].run = proc[p].run
             /\ Id(p) = <<l, task[l].run>> /\ task[l].run # None /\ Id(p) \in DOMAIN run
             /\ (Continues(l) <=> run[Id(p)].status \in {"none", "running", "paused"})
  <2>1. /\ Inside(p) /\ lock = p /\ l \in Planned /\ task[l].status = "running" /\ task[l].run = proc[p].run
        /\ Id(p) = <<l, task[l].run>> /\ task[l].run # None /\ Id(p) \in DOMAIN run
    BY <1>H, <1>0, <1>1, <1>2 DEF Held, Inside, Busy, Id
  <2>2. QED
    BY <2>1, ContinuesIs
<1>C. ASSUME NEW p \in Procs, Busy(p), proc[p].lib = l, UNCHANGED task, NEW x \in Run, run' = [run EXCEPT ![Id(p)] = x]
      PROVE  Continues(l)' <=> x.status \in {"none", "running", "paused"}
  <2>1. run'[Id(p)] = x /\ Id(p) = <<l, task'[l].run>> /\ task'[l].run # None
    BY <1>C, <1>H, <1>0
  <2>2. QED
    BY <2>1, ContinuesAfter
<1>11. ASSUME NEW p \in Procs, Open(p) PROVE Goal
  <2>1. Busy(p) /\ UNCHANGED <<task, lock, failures>> /\ proc[p].result = None /\ l \in Planned /\ proc[p].pc = "open"
    BY <1>11, <1>0, <1>5 DEF Open, Busy, Planned
  <2>2. CASE run[Id(p)].status = "succeeded"
    <3>1. proc' = [proc EXCEPT ![p].pc = "record", ![p].result = "succeeded"] /\ run' = run
      BY <1>11, <2>2 DEF Open
    <3>2. proc'[p].pc = "record" /\ proc'[p].result = "succeeded" /\ proc'[p].lib = proc[p].lib
      BY <3>1, <1>0 DEF Proc
    <3>3. run[Id(p)] \in Run /\ run' = [run EXCEPT ![Id(p)] = run[Id(p)]]
      BY <3>1, <2>1, <1>0
    <3>4. ASSUME proc[p].lib = l PROVE Goal
      <4>1. lock = p /\ lock' = p /\ ~Continues(l) /\ ~Continues(l)' /\ task[l].status = "running"
        BY <2>1, <2>2, <3>3, <3>4, <1>H, <1>C
      <4>2. /\ At(l, {"open"}) /\ Got(l, {"succeeded"})' /\ ~Got(l, {"rate", "budget", "error"})' /\ ~At(l, {"open"})'
        BY <4>1, <3>2, <3>4, <2>1 DEF At, Got
      <4>3. "raise" \notin cut' => Paid(l)'
        BY <4>1, <4>2, <2>1, <1>3, <1>4, PaidMoves
      <4>4. cut' \cap {"open", "succeeded"} = {} => Given(l)'
        BY <4>1, <4>2, <2>1, <1>3, <1>4, GivenMoves
      <4>5. QED
        BY <4>3, <4>4
    <3>5. QED
      BY <2>1, <3>2, <3>3, <3>4, <1>W
  <2>3. CASE run[Id(p)].status # "succeeded"
    <3> DEFINE x == [run[Id(p)] EXCEPT !.status = "running"]
    <3>1. proc' = [proc EXCEPT ![p].pc = "walk"] /\ run' = [run EXCEPT ![Id(p)] = x]
      BY <1>11, <2>3 DEF Open, Go
    <3>2. proc'[p].pc = "walk" /\ proc'[p].lib = proc[p].lib
      BY <3>1, <1>0 DEF Proc
    <3>3. x \in Run /\ x.status = "running"
      <4>1. run[Id(p)] \in Run
        BY <2>1, <1>0
      <4>2. QED
        BY <4>1 DEF Run
    <3> HIDE DEF x
    <3>4. ASSUME proc[p].lib = l PROVE Goal
      <4>1. lock = p /\ lock' = p /\ Continues(l)' /\ task[l].status = "running"
        BY <2>1, <3>1, <3>3, <3>4, <1>H, <1>C
      <4>2. /\ At(l, {"open"}) /\ ~Got(l, {"rate", "budget", "error"})' /\ ~At(l, {"open"})'
        BY <4>1, <3>2, <3>4, <2>1 DEF At, Got
      <4>3. "raise" \notin cut' => Paid(l)'
        BY <4>1, <4>2, <2>1, <1>3, <1>4, PaidMoves
      <4>4. cut' \cap {"open", "succeeded"} = {} => Given(l)'
        BY <4>1, <4>2, <2>1, <1>3, <1>4, GivenMoves
      <4>5. QED
        BY <4>3, <4>4
    <3>5. QED
      BY <2>1, <3>1, <3>2, <3>3, <3>4, <1>W
  <2>4. QED
    BY <2>2, <2>3
<1>12. ASSUME NEW p \in Procs, SetUp(p) PROVE Goal
  <2> DEFINE x == [run[Id(p)] EXCEPT !.began = cycle.recovery]
  <2>1. Busy(p) /\ UNCHANGED <<task, lock, failures, proc>> /\ l \in Planned /\ proc[p].pc = "walk"
        /\ run' = [run EXCEPT ![Id(p)] = x]
    BY <1>12, <1>0 DEF SetUp, Busy, Planned
  <2>2. x \in Run /\ x.status = run[Id(p)].status
    <3>1. run[Id(p)] \in Run
      BY <2>1, <1>0
    <3>2. QED
      BY <3>1, <1>0 DEF Run
  <2> HIDE DEF x
  <2>3. ASSUME proc[p].lib = l PROVE Goal
    <3>1. lock = p /\ lock' = p /\ (Continues(l)' <=> Continues(l))
      BY <2>1, <2>2, <2>3, <1>H, <1>C
    <3>2. QED
      BY <3>1, <2>1, <1>K DEF At, Got
  <2>4. QED
    BY <2>1, <2>2, <2>3, <1>W
<1>13. ASSUME NEW p \in Procs, NEW s \in {"running", "paused", "failed", "succeeded"}, NEW r \in Results,
              Result(p, s, r), UNCHANGED <<task, lock>>,
              \/ failures' = failures
                 /\ <<s, r>> \in {<<"succeeded", "succeeded">>, <<"running", "running">>, <<"paused", "daily">>}
              \/ failures' = [failures EXCEPT ![proc[p].lib] = @ + 1]
                 /\ s = "failed" /\ r \in {"rate", "budget", "error"}
       PROVE  Goal
  <2> DEFINE x == [run[Id(p)] EXCEPT !.status = s]
  <2>1. Busy(p) /\ l \in Planned /\ proc[p].pc = "walk" /\ proc[p].result = None
        /\ run' = [run EXCEPT ![Id(p)] = x] /\ proc' = [proc EXCEPT ![p].pc = "record", ![p].result = r]
    BY <1>13, <1>0, <1>5 DEF Result, Busy, Planned
  <2>2. proc'[p].pc = "record" /\ proc'[p].result = r /\ proc'[p].lib = proc[p].lib
    BY <2>1, <1>0 DEF Proc
  <2>3. x \in Run /\ x.status = s
    <3>1. run[Id(p)] \in Run
      BY <2>1, <1>0
    <3>2. QED
      BY <3>1 DEF Run
  <2> HIDE DEF x
  <2>4. ASSUME proc[p].lib = l PROVE Goal
    <3>1. lock = p /\ lock' = p /\ (Continues(l)' <=> s \in {"none", "running", "paused"}) /\ task[l].status = "running"
      BY <1>13, <2>1, <2>3, <2>4, <1>H, <1>C
    <3>2. Continues(l)
      <4>1. Tracked(p)
        BY <2>1, <2>4, <1>2, <1>H
      <4>2. QED
        BY <4>1, <2>1, <2>4, <1>H DEF Tracked
    <3>3. /\ ~At(l, {"open"}) /\ ~At(l, {"open"})' /\ (Got(l, {"succeeded"})' <=> r = "succeeded")
          /\ (Got(l, {"rate", "budget", "error"})' <=> r \in {"rate", "budget", "error"})
      BY <3>1, <2>1, <2>2, <2>4 DEF At, Got
    <3>4. CASE failures' = failures
               /\ <<s, r>> \in {<<"succeeded", "succeeded">>, <<"running", "running">>, <<"paused", "daily">>}
      <4>1. (r = "succeeded" \/ Continues(l)') /\ r \notin {"rate", "budget", "error"}
        BY <3>1, <3>4
      <4>2. "raise" \notin cut' => Paid(l)'
        BY <3>1, <3>2, <3>3, <3>4, <2>1, <1>13, <1>3, <1>4, PaidMoves
      <4>3. cut' \cap {"open", "succeeded"} = {} => Given(l)'
        BY <4>1, <3>1, <3>2, <3>3, <3>4, <2>1, <1>13, <1>3, <1>4, GivenMoves
      <4>4. QED
        BY <4>2, <4>3
    <3>5. CASE failures' = [failures EXCEPT ![proc[p].lib] = @ + 1] /\ s = "failed" /\ r \in {"rate", "budget", "error"}
      <4>1. failures'[l] = failures[l] + 1 /\ ~Continues(l)'
        BY <3>1, <3>5, <2>4, <1>0
      <4>2. "raise" \notin cut' => Paid(l)'
        BY <4>1, <3>1, <3>2, <3>3, <2>1, <1>13, <1>3, <1>4, PaidMoves
      <4>3. cut' \cap {"open", "succeeded"} = {} => Given(l)'
        BY <4>1, <3>1, <2>1, <1>13, <1>3, <1>4, GivenMoves
      <4>4. QED
        BY <4>2, <4>3
    <3>6. QED
      BY <3>4, <3>5, <1>13
  <2>5. \A k \in Libs \ {proc[p].lib} : failures'[k] = failures[k]
    BY <1>13, <1>0
  <2>6. QED
    BY <2>1, <2>2, <2>3, <2>4, <2>5, <1>13, <1>W
<1>14. ASSUME NEW p \in Procs, Succeed(p) \/ Partial(p) \/ Pause(p) PROVE Goal
  <2>1. /\ Result(p, "succeeded", "succeeded") \/ Result(p, "running", "running") \/ Result(p, "paused", "daily")
        /\ UNCHANGED <<task, lock, failures>>
    BY <1>14 DEF Succeed, Partial, Pause
  <2>2. QED
    BY <2>1, <1>13 DEF Results
<1>15. ASSUME NEW p \in Procs, NEW code \in {"rate", "budget", "error"}, FailWalk(p, code) PROVE Goal
  <2>1. Result(p, "failed", code) /\ UNCHANGED <<task, lock>> /\ failures' = [failures EXCEPT ![proc[p].lib] = @ + 1]
    BY <1>15 DEF FailWalk
  <2>2. QED
    BY <2>1, <1>13 DEF Results
<1>16. ASSUME NEW p \in Procs, Raise(p) PROVE Goal
  <2>1. Busy(p) /\ UNCHANGED <<task, lock, run>> /\ l \in Planned /\ "raise" \in cut'
        /\ failures' = [failures EXCEPT ![proc[p].lib] = @ + 1]
        /\ proc' = [proc EXCEPT ![p].pc = "record", ![p].result = "error"]
    BY <1>16, <1>0 DEF Raise, Busy, Planned
  <2>2. proc'[p].lib = proc[p].lib
    BY <2>1, <1>0 DEF Proc
  <2>3. run[Id(p)] \in Run /\ run' = [run EXCEPT ![Id(p)] = run[Id(p)]]
    BY <2>1, <1>0
  <2>4. ASSUME proc[p].lib = l PROVE Goal
    <3>1. failures'[l] = failures[l] + 1
      BY <2>1, <2>4, <1>0
    <3>2. cut' \cap {"open", "succeeded"} = {} => Given(l)'
      BY <3>1, <2>1, <1>3, <1>4, GivenMoves
    <3>3. QED
      BY <3>2, <2>1
  <2>5. \A k \in Libs \ {proc[p].lib} : failures'[k] = failures[k]
    BY <2>1, <1>0
  <2>6. QED
    BY <2>1, <2>2, <2>3, <2>4, <2>5, <1>W
<1>17. ASSUME NEW p \in Procs, Record(p) PROVE Goal
  <2> DEFINE k == proc[p].lib
             r == proc[p].result
             t == Outcome(task[k], proc[p].run, r)
  <2>1. Busy(p) /\ r \in Results /\ TaskOK(task[k]) /\ k \in Libs /\ k \in Planned /\ proc[p].run \in Recoveries
        /\ proc[p].pc = "record" /\ Inside(p)
    BY <1>17, <1>0 DEF Record, Busy, ProcOK, Proc, Inside
  <2>2. task' = [task EXCEPT ![k] = t] /\ UNCHANGED <<run, failures, lock>> /\ lock = p
    BY <1>17, <2>1, <1>1 DEF Record
  <2>3. proc'[p].pc \in {"finish", "loop"} /\ proc'[p].lib = None
    BY <1>17, <1>0 DEF Record, Proc
  <2>4. /\ TaskOK(t) /\ t.attempts = task[k].attempts /\ t.run = proc[p].run
        /\ (r = "succeeded" => t.status = "succeeded")
        /\ (r \in {"running", "daily"} => t.status = "pending")
        /\ (r \in {"rate", "budget", "error"} =>
              t.status = IF task[k].attempts >= MaxAttempts THEN "dead_letter" ELSE "pending")
    BY <2>1, OutcomeIs
  <2> HIDE DEF t
  <2>5. l \in Planned
    BY <2>1, <2>2, <1>0 DEF Planned
  <2>6. CASE l # k
    <3>1. task'[l] = task[l]
      BY <2>2, <2>6, <1>0
    <3>2. QED
      BY <3>1, <2>1, <2>2, <2>3, <2>5, <2>6, <1>O
  <2>7. CASE l = k
    <3>1. task[l].status = "running" /\ task[l].run = proc[p].run /\ task[l].run # None
          /\ (Continues(l) <=> run[Id(p)].status \in {"none", "running", "paused"})
      BY <2>1, <2>7, <1>H
    <3>2. task'[l] = t
      BY <2>2, <2>7, <1>0
    <3>3. Continues(l)' <=> Continues(l)
      BY <3>1, <3>2, <2>2, <2>4, ContinuesIs, ContinuesAfter
    <3>4. /\ ~At(l, {"open"}) /\ ~At(l, {"open"})' /\ ~Got(l, {"succeeded"})' /\ ~Got(l, {"rate", "budget", "error"})'
          /\ (Got(l, {"succeeded"}) <=> r = "succeeded")
          /\ (Got(l, {"rate", "budget", "error"}) <=> r \in {"rate", "budget", "error"})
      BY <2>1, <2>2, <2>3, <2>7 DEF At, Got
    <3>5. Tracked(p)
      BY <2>1, <1>2
    <3>6. "raise" \notin cut' => Paid(l)'
      <4>1. task'[l].status = "dead_letter" /\ "raise" \notin cut' => ~Continues(l)'
        <5>1. task'[l].status = "dead_letter" => r \in {"rate", "budget", "error"}
          BY <2>1, <2>4, <3>2 DEF Results
        <5>2. QED
          BY <5>1, <3>1, <3>3, <3>5, <1>1 DEF Tracked
      <4>2. QED
        BY <4>1, <3>2, <3>3, <3>4, <2>2, <2>4, <2>5, <2>7, <1>3, <1>4, PaidMoves
    <3>7. cut' \cap {"open", "succeeded"} = {} => Given(l)'
      <4>1. CASE r = "succeeded"
        BY <4>1, <3>2, <2>4, <2>5, <1>3, <1>4, GivenMoves
      <4>2. CASE r \in {"running", "daily"}
        <5>1. Continues(l)
          BY <4>2, <3>1, <3>5 DEF Tracked
        <5>2. QED
          BY <5>1, <4>2, <3>1, <3>2, <3>3, <3>4, <2>2, <2>4, <2>5, <2>7, <1>3, <1>4, GivenMoves
      <4>3. CASE r \in {"rate", "budget", "error"}
        BY <4>3, <3>1, <3>2, <3>4, <2>2, <2>4, <2>5, <2>7, <1>3, <1>4, GivenMoves
      <4>4. QED
        BY <4>1, <4>2, <4>3, <2>1 DEF Results
    <3>8. QED
      BY <3>6, <3>7
  <2>8. QED
    BY <2>6, <2>7
<1>18. ASSUME NEW p \in Procs, NothingLeft(p) PROVE Goal
  <2>1. /\ Inside(p) /\ lock = p /\ lock' = p /\ UNCHANGED <<task, run, failures>> /\ ~Busy(p)
        /\ proc'[p].pc = "finish" /\ l \in Planned
    BY <1>18, <1>0, <1>1 DEF NothingLeft, Go, Inside, Busy, Proc, Planned
  <2>2. QED
    BY <2>1, <1>O
(* Nobody is inside any more.                                              *)
<1>19. ASSUME NEW p \in Procs, Finish(p) \/ Crash(p) PROVE Goal
  <2>1. /\ lock = p /\ lock' = None /\ UNCHANGED <<task, run, failures>> /\ l \in Planned
    <3>1. Inside(p) /\ UNCHANGED <<task, run, failures>> /\ lock' = IF lock = p THEN None ELSE lock
      BY <1>19 DEF Finish, Crash, Exit, Inside
    <3>2. QED
      BY <3>1, <1>0, <1>1 DEF Planned
  <2>2. Continues(l)' <=> Continues(l)
    BY <2>1, ContinuesIs, ContinuesAfter
  <2>3. ~At(l, {"open"})' /\ ~Got(l, {"succeeded"})' /\ ~Got(l, {"rate", "budget", "error"})'
    BY <2>1 DEF At, Got
  <2>4. "raise" \notin cut' => Paid(l)'
    BY <2>1, <2>2, <2>3, <1>3, <1>4, PaidMoves
  <2>5. cut' \cap {"open", "succeeded"} = {} => ~At(l, {"open"}) /\ ~Got(l, {"succeeded"})
    <3>1. CASE Finish(p)
      BY <3>1, <2>1 DEF Finish, At, Got
    <3>2. CASE Crash(p)
      <4>1. {"open", "succeeded"} \cap {proc[p].pc, proc[p].result} \subseteq cut'
        BY <3>2 DEF Crash
      <4>2. QED
        BY <4>1, <2>1 DEF At, Got
    <3>3. QED
      BY <3>1, <3>2, <1>19
  <2>6. cut' \cap {"open", "succeeded"} = {} => Given(l)'
    BY <2>1, <2>2, <2>3, <2>5, <1>3, <1>4, GivenMoves
  <2>7. QED
    BY <2>4, <2>6
(* Clocks.                                                                 *)
<1>20. ASSUME (\E k \in Libs : RetryDue(k)) \/ NextDay PROVE Goal
  <2>1. UNCHANGED <<run, proc, lock, failures>>
    BY <1>20 DEF RetryDue, NextDay
  <2>2. l \in Planned /\ task'[l] \in {task[l], [task[l] EXCEPT !.wait = "none"]}
    <3>1. CASE \E k \in Libs : RetryDue(k)
      <4>1. PICK k \in Libs : RetryDue(k)
        BY <3>1
      <4>2. task' = [task EXCEPT ![k] = [task[k] EXCEPT !.wait = "none"]] /\ task[k] # None
        BY <4>1 DEF RetryDue
      <4>3. QED
        BY <4>2, <1>0 DEF Planned
    <3>2. CASE NextDay
      <4>1. task' = [k \in Libs |-> IF task[k] # None /\ task[k].wait = "day" THEN [task[k] EXCEPT !.wait = "none"]
                                    ELSE task[k]]
        BY <3>2 DEF NextDay
      <4>2. task'[l] = IF task[l] # None /\ task[l].wait = "day" THEN [task[l] EXCEPT !.wait = "none"] ELSE task[l]
        BY <4>1, <1>0
      <4>3. QED
        BY <4>2, <1>0 DEF Planned
    <3>3. QED
      BY <3>1, <3>2, <1>20
  <2>3. task'[l].status = task[l].status /\ task'[l].attempts = task[l].attempts /\ task'[l].run = task[l].run
    BY <2>2, <1>0 DEF Task
  <2>4. Continues(l)' <=> Continues(l)
    BY <2>1, <2>3, ContinuesIs, ContinuesAfter
  <2>5. QED
    BY <2>1, <2>2, <2>3, <2>4, <1>K DEF At, Got
<1>21. ASSUME Boot PROVE Goal
  <2> DEFINE g == [id \in DOMAIN run |-> IF lock = None /\ run[id].status = "running" /\ run[id].began = None
                                        THEN [run[id] EXCEPT !.status = "failed"] ELSE run[id]]
  <2>1. /\ UNCHANGED <<task, lock>> /\ run' = g /\ l \in Planned /\ Watcher \in Procs
        /\ proc[Watcher].pc = "boot" /\ proc' = [proc EXCEPT ![Watcher].pc = "idle"]
    BY <1>21, <1>0, Scope DEF Boot, Go, Planned
  <2>2. failures'[l] = IF task[l] # None /\ task[l].run # None /\ run'[<<l, task[l].run>>] # run[<<l, task[l].run>>]
                       THEN failures[l] + 1 ELSE failures[l]
    BY <1>21, <1>0 DEF Boot
  <2>3. /\ \A S \in {{"open"}} : At(l, S)' <=> At(l, S)
        /\ \A S \in {{"succeeded"}, {"rate", "budget", "error"}} : Got(l, S)' <=> Got(l, S)
    <3>1. proc'[Watcher].pc = "idle" /\ \A q \in Procs \ {Watcher} : proc'[q] = proc[q]
      BY <2>1, <1>0 DEF Proc
    <3>2. QED
      BY <3>1, <2>1 DEF At, Got
  <2>4. At(l, {"open"})' <=> At(l, {"open"})
    BY <2>3
  <2>5. /\ Got(l, {"succeeded"})' <=> Got(l, {"succeeded"})
        /\ Got(l, {"rate", "budget", "error"})' <=> Got(l, {"rate", "budget", "error"})
    BY <2>3
  <2>6. CASE task[l].run = None \/ run'[<<l, task[l].run>>] = run[<<l, task[l].run>>]
    <3>1. failures'[l] = failures[l]
      BY <2>2, <2>6
    <3>2. Continues(l)' <=> Continues(l)
      BY <2>1, <2>6, ContinuesIs, ContinuesAfter
    <3>3. QED
      BY <3>1, <3>2, <2>1, <2>4, <2>5, <1>K
  <2>7. CASE task[l].run # None /\ run'[<<l, task[l].run>>] # run[<<l, task[l].run>>]
    <3>1. failures'[l] = failures[l] + 1
      BY <2>2, <2>7, <2>1, <1>0
    <3>2. /\ lock = None /\ run[<<l, task[l].run>>].status = "running"
          /\ run'[<<l, task[l].run>>].status = "failed"
      <4>1. <<l, task[l].run>> \in DOMAIN run /\ run[<<l, task[l].run>>] \in Run
        BY <2>1, <2>7, <1>0, <1>3
      <4>2. QED
        BY <4>1, <2>1, <2>7 DEF Run
    <3> HIDE DEF g
    <3>3. Continues(l) /\ ~Continues(l)'
      BY <3>2, <2>1, <2>7, ContinuesIs, ContinuesAfter
    <3>4. ~At(l, {"open"})'
      BY <3>2, <2>1 DEF At
    <3>5. "raise" \notin cut' => Paid(l)'
      BY <3>1, <3>3, <3>4, <2>1, <1>3, <1>4, PaidMoves
    <3>6. cut' \cap {"open", "succeeded"} = {} => Given(l)'
      BY <3>1, <2>1, <1>3, <1>4, GivenMoves
    <3>7. QED
      BY <3>5, <3>6
  <2>8. QED
    BY <2>6, <2>7
<1>22. ASSUME LoseLock PROVE FALSE
  BY <1>22 DEF LoseLock
<1>23. CASE UNCHANGED vars
  <2>1. UNCHANGED <<task, run, failures, proc, lock>> /\ l \in Planned
    BY <1>23 DEF vars, Planned
  <2>2. Continues(l)' <=> Continues(l)
    BY <2>1, ContinuesIs, ContinuesAfter
  <2>3. QED
    BY <2>1, <2>2, <1>K DEF At, Got
<1>24. CASE \E p \in Procs : Work(p) \/ Walk(p) \/ Crash(p)
  <2>1. PICK p \in Procs : Work(p) \/ Walk(p) \/ Crash(p)
    BY <1>24
  <2>2. CASE Work(p)
    BY <2>2, <1>9, <1>10, <1>11, <1>12, <1>17, <1>18, <1>19 DEF Work
  <2>3. CASE Walk(p)
    BY <2>3, <1>14, <1>15, <1>16 DEF Walk
  <2>4. QED
    BY <2>1, <2>2, <2>3, <1>19
<1>25. QED
  BY <1>6, <1>7, <1>8, <1>20, <1>21, <1>22, <1>23, <1>24 DEF Next

(* Tasks are never removed.                                                *)
LEMMA PlannedGrows ==
  ASSUME Base, [Next]_vars
  PROVE  Planned \subseteq Planned'
<1> SUFFICES ASSUME NEW l \in Planned PROVE task'[l] # None
  BY DEF Planned
<1> USE NoneFresh
<1>0. /\ task \in [Libs -> Task \cup {None}] /\ TaskOK(task[l]) /\ l \in Libs /\ task[l] # None
      /\ (\A p \in Procs : Busy(p) => proc[p].lib \in Planned /\ proc[p].run \in Recoveries)
      /\ (\A p \in Procs : ProcOK(proc[p], Planned)) /\ cycle.recovery \in Recoveries
      /\ (\A k \in Planned : TaskOK(task[k])) /\ (cycle.status = "none" => Planned = {})
  BY BaseFacts
<1>1. ASSUME NEW x, TaskOK(x) PROVE x # None
  BY <1>1 DEF TaskOK
<1>2. ASSUME NEW p \in Procs, Begin(p) PROVE task'[l] # None
  <2>1. task' = [k \in Libs |-> IF k \in Current THEN Interrupted(task[k]) ELSE task[k]]
    BY <1>2 DEF Begin
  <2>2. Interrupted(task[l]) # None
    BY <1>0, <1>1, TaskSteps
  <2>3. QED
    BY <2>1, <2>2, <1>0
<1>3. ASSUME NEW p \in Procs, NEW k \in Libs, Reserve(p, k) PROVE task'[l] # None
  <2>1. task' = [task EXCEPT ![k] = Reserved(k)] /\ TaskOK(task[k]) /\ task[k] \in Task
    BY <1>3, <1>0 DEF Reserve, ProcOK, TaskOK
  <2> DEFINE n == IF Continues(k) THEN task[k].attempts ELSE task[k].attempts + 1
  <2>2. n \in Nat
    BY <2>1 DEF Task
  <2>3. Reserved(k) = [task[k] EXCEPT !.status = "running", !.attempts = n,
                                      !.run = IF task[k].run = None THEN cycle.recovery ELSE task[k].run]
    BY <2>1 DEF Reserved, Task
  <2> HIDE DEF n
  <2>4. Reserved(k) \in Task
    BY <2>1, <2>2, <2>3, <1>0 DEF Task
  <2>5. QED
    BY <2>1, <2>4, <1>0
<1>4. ASSUME NEW p \in Procs, Record(p) PROVE task'[l] # None
  <2> DEFINE t == Outcome(task[proc[p].lib], proc[p].run, proc[p].result)
  <2>1. /\ TaskOK(task[proc[p].lib]) /\ proc[p].run \in Recoveries /\ proc[p].result \in Results
        /\ task' = [task EXCEPT ![proc[p].lib] = t]
    BY <1>4, <1>0 DEF Record, Busy, ProcOK, Proc
  <2>2. TaskOK(t)
    BY <2>1, OutcomeIs
  <2> HIDE DEF t
  <2>3. t # None
    BY <2>2, <1>1
  <2>4. QED
    BY <2>1, <2>3, <1>0
<1>5. ASSUME NEW targets \in Scopes, Prepare(targets) PROVE task'[l] # None
  <2>1. cycle.recovery + 1 \in Recoveries
    BY <1>5, <1>0, Sizes DEF Prepare, Recoveries
  <2>2. NewTask(cycle.recovery + 1) # None
    BY <2>1, NewTaskOK
  <2>3. task' = [k \in Libs |-> IF k \in targets THEN NewTask(cycle.recovery + 1) ELSE task[k]]
    BY <1>5 DEF Prepare
  <2>4. QED
    BY <2>2, <2>3, <1>0
<1>6. ASSUME ResumeFailed PROVE task'[l] # None
  <2>1. Reopened(task[l]) # None
    BY <1>0, <1>1, TaskSteps
  <2>2. QED
    BY <1>6, <2>1, <1>0 DEF ResumeFailed
<1>7. ASSUME (\E k \in Libs : RetryDue(k)) \/ NextDay PROVE task'[l] # None
  <2>1. TaskOK([task[l] EXCEPT !.wait = "none"])
    BY <1>0, TaskSteps
  <2>2. [task[l] EXCEPT !.wait = "none"] # None
    BY <2>1, <1>1
  <2>3. CASE NextDay
    BY <2>2, <2>3, <1>0 DEF NextDay
  <2>4. CASE \E k \in Libs : RetryDue(k)
    <3>1. PICK k \in Libs : RetryDue(k)
      BY <2>4
    <3>2. task' = [task EXCEPT ![k] = [task[k] EXCEPT !.wait = "none"]]
      BY <3>1 DEF RetryDue
    <3>3. QED
      BY <3>2, <2>2, <1>0
  <2>5. QED
    BY <1>7, <2>3, <2>4
<1>8. CASE task' = task
  BY <1>8, <1>0
<1>9. QED
  <2>1. \/ task' = task \/ (\E p \in Procs : Begin(p) \/ Record(p) \/ \E k \in Libs : Reserve(p, k))
        \/ (\E targets \in Scopes : Prepare(targets)) \/ ResumeFailed
        \/ (\E k \in Libs : RetryDue(k)) \/ NextDay \/ cycle.status = "none"
    BY DEF Next, Work, Walk, Plan, Open, SetUp, Succeed, Partial, Pause, FailWalk, Raise, NothingLeft,
           Finish, Crash, Boot, LoseLock, vars
  <2>2. QED
    BY <2>1, <1>0, <1>2, <1>3, <1>4, <1>5, <1>6, <1>7, <1>8

LEMMA CountedStep == Base /\ Kept /\ Counted /\ [Next]_vars => Counted'
<1> SUFFICES ASSUME Base, Kept, Counted, [Next]_vars PROVE Counted'
  OBVIOUS
<1>1. "lock" \notin cut' =>
        /\ "raise" \notin cut' => \A l \in Planned' : Paid(l)'
        /\ cut' \cap {"open", "succeeded"} = {} => \A l \in Planned' : Given(l)'
  BY BookStep
<1>2. ASSUME NEW l \in Libs, l \notin Planned' PROVE failures'[l] = 0
  <2>0. /\ failures \in [Libs -> Nat] /\ task' \in [Libs -> Task \cup {None}]
        /\ task \in [Libs -> Task \cup {None}] /\ task'[l] = None
        /\ (\A p \in Procs : Busy(p) => proc[p].lib \in Planned)
        /\ \A k \in Planned : TaskOK(task[k])
    BY <1>2, BaseFacts, BaseStep DEF Base, TypeOK, Planned
  <2>1. l \notin Planned
    <3>1. Planned \subseteq Planned'
      BY PlannedGrows
    <3>2. QED
      BY <3>1, <1>2
  <2>2. failures[l] = 0 /\ task[l] = None
    BY <2>1, <1>2 DEF Counted, Planned
  <2>3. ASSUME NEW p \in Procs, Busy(p), failures' = [failures EXCEPT ![proc[p].lib] = @ + 1] PROVE failures'[l] = 0
    BY <2>0, <2>1, <2>2, <2>3
  <2>4. CASE \E p \in Procs : (\E code \in {"rate", "budget", "error"} : FailWalk(p, code)) \/ Raise(p)
    <3>1. PICK p \in Procs : (\E code \in {"rate", "budget", "error"} : FailWalk(p, code)) \/ Raise(p)
      BY <2>4
    <3>2. Busy(p) /\ failures' = [failures EXCEPT ![proc[p].lib] = @ + 1]
      BY <3>1 DEF FailWalk, Raise, Result, Busy
    <3>3. QED
      BY <3>2, <2>3
  <2>5. CASE \E targets \in Scopes : Prepare(targets)
    BY <2>5, <2>0, <2>2 DEF Prepare
  <2>6. CASE ResumeFailed
    BY <2>6, <2>0, <2>2 DEF ResumeFailed
  <2>7. CASE Boot
    BY <2>7, <2>0, <2>2 DEF Boot
  <2>8. CASE failures' = failures
    BY <2>8, <2>2
  <2>9. QED
    <3>1. \/ failures' = failures \/ Boot \/ ResumeFailed \/ (\E targets \in Scopes : Prepare(targets))
          \/ \E p \in Procs : (\E code \in {"rate", "budget", "error"} : FailWalk(p, code)) \/ Raise(p)
      BY ZenonT(30) DEF Next, Work, Walk, Plan, Begin, Reserve, Open, SetUp, Succeed, Partial, Pause, Record, NothingLeft,
             Finish, RetryDue, NextDay, Crash, LoseLock, vars
    <3>2. QED
      BY <3>1, <2>4, <2>5, <2>6, <2>7, <2>8
<1>3. QED
  BY <1>1, <1>2 DEF Counted

LEMMA CountedIs == Base /\ Counted => FailuresArePaid /\ GivenUpAfterFailures
BY DEF Counted, Paid, Given, FailuresArePaid, GivenUpAfterFailures

(* A failed walk has been paid for, and only failed walks give a library   *)
(* up - whatever slices, restarts, clocks and administrators do meanwhile. *)
THEOREM AttemptsArePaid == Spec => [](FailuresArePaid /\ GivenUpAfterFailures)
BY BaseInit, BaseStep, KeptInit, KeptStep, CountedInit, CountedStep, CountedIs, PTL DEF Spec

-----------------------------------------------------------------------------
(* Interruptions do not add up.                                            *)

(* Somebody works on the library, and has not found that it must go on.    *)
Worked(l) == \E p \in Procs : Busy(p) /\ proc[p].lib = l /\ proc[p].result \notin {"running", "daily"}

Limited ==
  /\ \A p \in Procs : Busy(p) => task[proc[p].lib].status \in {"running", "pending"}
  /\ \A l \in Planned :
       /\ task[l].attempts <= MaxAttempts + breaks
       /\ task[l].status \in {"pending", "running"} /\ ~Worked(l) => task[l].attempts < MaxAttempts + breaks

LEMMA LimitedInit == Init => Limited
BY DEF Init, Limited, Planned, Idle, Busy

(* One library: how its attempts may move.                                 *)
LEMMA LimitMoves ==
  ASSUME NEW t \in Nat, NEW u \in Nat, NEW b \in Nat, NEW c \in Nat, NEW live \in BOOLEAN, NEW after \in BOOLEAN,
         t <= MaxAttempts + b, live => t < MaxAttempts + b, b <= c,
         \/ u = t /\ (after => live)
         \/ u = t /\ b < c
         \/ u = t + 1 /\ live /\ ~after
         \/ u = 0
         \/ u = t /\ (after => t < MaxAttempts)
  PROVE  u <= MaxAttempts + c /\ (after => u < MaxAttempts + c)
BY Sizes

LEMMA LimitedStep == Base /\ Limited /\ Exclusive /\ Exclusive' /\ [Next]_vars => Limited'
<1> SUFFICES ASSUME Base, Limited, Exclusive, Exclusive', [Next]_vars PROVE Limited'
  OBVIOUS
<1> USE NoneFresh
<1>0. /\ task \in [Libs -> Task \cup {None}] /\ breaks \in Nat /\ proc \in [Procs -> Proc]
      /\ (\A p \in Procs : Busy(p) => proc[p].lib \in Planned /\ proc[p].lib \in Libs /\ proc[p].run \in Recoveries)
      /\ (\A p \in Procs : ProcOK(proc[p], Planned)) /\ cycle.recovery \in Recoveries
      /\ (\A l \in Planned : TaskOK(task[l]) /\ task[l] \in Task /\ l \in Libs /\ task[l].attempts \in Nat)
      /\ (cycle.status = "none" => Planned = {})
      /\ (\A p \in Procs : proc[p].pc # "record" => proc[p].result = None)
  BY BaseFacts DEF TaskOK, ProcOK, Task
<1>A. /\ breaks' \in Nat /\ breaks <= breaks'
      /\ (\A l \in Planned' : l \in Libs /\ task'[l].attempts \in Nat)
  <2>1. breaks' \in Nat /\ \A l \in Planned' : l \in Libs /\ task'[l].attempts \in Nat
    BY BaseStep DEF Base, Planned, TaskOK, Task
  <2>2. breaks' = breaks \/ breaks' = breaks + 1
    BY ZenonT(30) DEF Next, Work, Walk, Plan, Begin, Reserve, Open, SetUp, Succeed, Partial, Pause, FailWalk, Raise,
           Record, NothingLeft, Finish, Prepare, ResumeFailed, RetryDue, NextDay, Crash, Boot, LoseLock, vars
  <2>3. QED
    BY <2>1, <2>2, <1>0
(* What one library has to show.                                           *)
<1>L. ASSUME NEW l \in Planned',
             \/ /\ l \in Planned /\ task'[l].attempts = task[l].attempts
                /\ task'[l].status \in {"pending", "running"} /\ ~Worked(l)' =>
                     \/ task[l].status \in {"pending", "running"} /\ ~Worked(l)
                     \/ task[l].attempts < MaxAttempts
             \/ l \in Planned /\ task'[l].attempts = task[l].attempts /\ breaks < breaks'
             \/ /\ l \in Planned /\ task'[l].attempts = task[l].attempts + 1
                /\ task[l].status = "pending" /\ ~Worked(l) /\ Worked(l)'
             \/ task'[l].attempts = 0
      PROVE  /\ task'[l].attempts <= MaxAttempts + breaks'
             /\ task'[l].status \in {"pending", "running"} /\ ~Worked(l)' => task'[l].attempts < MaxAttempts + breaks'
  <2> DEFINE after == task'[l].status \in {"pending", "running"} /\ ~Worked(l)'
             live == task[l].status \in {"pending", "running"} /\ ~Worked(l)
  <2>1. CASE task'[l].attempts = 0
    BY <2>1, <1>A, Sizes
  <2>2. CASE l \in Planned
    <3>1. /\ task[l].attempts \in Nat /\ task[l].attempts <= MaxAttempts + breaks
          /\ live => task[l].attempts < MaxAttempts + breaks
      BY <2>2, <1>0 DEF Limited
    <3>2. live \in BOOLEAN /\ after \in BOOLEAN /\ task'[l].attempts \in Nat
      BY <1>A
    <3>3. \/ task'[l].attempts = task[l].attempts /\ (after => live)
          \/ task'[l].attempts = task[l].attempts /\ breaks < breaks'
          \/ task'[l].attempts = task[l].attempts + 1 /\ live /\ ~after
          \/ task'[l].attempts = 0
          \/ task'[l].attempts = task[l].attempts /\ (after => task[l].attempts < MaxAttempts)
      BY <1>L
    <3> HIDE DEF after, live
    <3>4. task'[l].attempts <= MaxAttempts + breaks' /\ (after => task'[l].attempts < MaxAttempts + breaks')
      BY <3>1, <3>2, <3>3, <1>0, <1>A, LimitMoves
    <3>5. QED
      BY <3>4 DEF after
  <2>3. QED
    BY <2>1, <2>2, <1>L
(* A step that leaves the tasks alone.                                     *)
<1>T. ASSUME UNCHANGED task, \A q \in Procs : Busy(q)' => Busy(q) /\ proc'[q].lib = proc[q].lib,
             breaks < breaks' \/ \A l \in Planned : Worked(l) => Worked(l)'
      PROVE  Limited'
  <2>1. Planned' = Planned
    BY <1>T DEF Planned
  <2>2. \A q \in Procs : Busy(q)' => task'[proc'[q].lib].status \in {"running", "pending"}
    BY <1>T DEF Limited
  <2>3. \A l \in Planned' : /\ task'[l].attempts <= MaxAttempts + breaks'
                            /\ task'[l].status \in {"pending", "running"} /\ ~Worked(l)' =>
                                 task'[l].attempts < MaxAttempts + breaks'
    BY <1>T, <1>L, <2>1
  <2>4. QED
    BY <2>2, <2>3 DEF Limited
(* A step that changes tasks, but nobody's work.                           *)
<1>U. ASSUME \A q \in Procs : Busy(q)' <=> Busy(q),
             \A q \in Procs : Busy(q) => proc'[q].lib = proc[q].lib /\ proc'[q].result = proc[q].result,
             \A l \in Planned' :
               \/ task'[l].attempts = 0 /\ task'[l].status = "pending"
               \/ /\ l \in Planned /\ task'[l].attempts = task[l].attempts
                  /\ task'[l].status = task[l].status \/ (task[l].status = "running" /\ task'[l].status = "pending")
             , Planned \subseteq Planned'
      PROVE  Limited'
  <2>1. \A l \in Planned' : Worked(l)' <=> Worked(l)
    BY <1>U DEF Worked
  <2>2. \A l \in Planned' : /\ task'[l].attempts <= MaxAttempts + breaks'
                            /\ task'[l].status \in {"pending", "running"} /\ ~Worked(l)' =>
                                 task'[l].attempts < MaxAttempts + breaks'
    <3>1. ASSUME NEW l \in Planned', task'[l].attempts # 0
          PROVE  /\ l \in Planned /\ task'[l].attempts = task[l].attempts
                 /\ task'[l].status \in {"pending", "running"} => task[l].status \in {"pending", "running"}
      BY <3>1, <1>U
    <3>2. QED
      BY <2>1, <3>1, <1>L
  <2>3. ASSUME NEW q \in Procs, Busy(q)' PROVE task'[proc'[q].lib].status \in {"running", "pending"}
    <3>1. Busy(q) /\ proc'[q].lib = proc[q].lib /\ proc[q].lib \in Planned'
      BY <2>3, <1>U, <1>0
    <3>2. task[proc[q].lib].status \in {"running", "pending"}
      BY <3>1 DEF Limited
    <3>3. QED
      BY <3>1, <3>2, <1>U
  <2>4. QED
    BY <2>2, <2>3 DEF Limited
<1>1. ASSUME NEW p \in Procs, NEW targets \in Scopes, Plan(p, targets) PROVE Limited'
  <2>1. /\ Planned = {} /\ proc[p].pc = "idle"
        /\ proc' = [proc EXCEPT ![p] = [Idle EXCEPT !.pc = "loop", !.todo = targets, !.tasks = targets]]
        /\ task' = [k \in Libs |-> IF k \in targets THEN NewTask(0) ELSE None]
    BY <1>1, <1>0 DEF Plan
  <2>2. proc'[p].pc = "loop" /\ \A q \in Procs \ {p} : proc'[q] = proc[q]
    BY <2>1, <1>0 DEF Idle
  <2>3. \A l \in Planned' : task'[l].attempts = 0 /\ task'[l].status = "pending"
    BY <2>1 DEF Planned, NewTask
  <2>4. /\ \A q \in Procs : Busy(q)' <=> Busy(q)
        /\ \A q \in Procs : Busy(q) => proc'[q].lib = proc[q].lib /\ proc'[q].result = proc[q].result
    BY <2>1, <2>2 DEF Busy
  <2>5. QED
    BY <2>1, <2>3, <2>4, <1>U
<1>2. ASSUME NEW p \in Procs, Begin(p) PROVE Limited'
  <2> DEFINE f == [k \in Libs |-> IF k \in Current THEN Interrupted(task[k]) ELSE task[k]]
             ready == {k \in Current : f[k].status = "pending" /\ f[k].wait = "none"}
  <2>1. /\ proc[p].pc = "idle" /\ task' = f
        /\ proc' \in {proc, [proc EXCEPT ![p] = [Idle EXCEPT !.pc = "loop", !.todo = ready, !.tasks = Current]]}
    BY <1>2 DEF Begin
  <2> HIDE DEF ready
  <2>2. proc'[p].pc \in {"idle", "loop"} /\ \A q \in Procs \ {p} : proc'[q] = proc[q]
    BY <2>1, <1>0 DEF Idle
  <2>3. ASSUME NEW l \in Planned'
        PROVE  /\ l \in Planned /\ task'[l].attempts = task[l].attempts
               /\ task'[l].status = task[l].status \/ (task[l].status = "running" /\ task'[l].status = "pending")
    <3>1. l \in Planned /\ task'[l] \in {task[l], Interrupted(task[l])}
      BY <2>1 DEF Planned, Current
    <3>2. CASE task[l].status = "running"
      <4>1. Interrupted(task[l]).status = "pending" /\ Interrupted(task[l]).attempts = task[l].attempts
        BY <3>1, <3>2, <1>0, TaskSteps
      <4>2. QED
        BY <3>1, <3>2, <4>1
    <3>3. CASE task[l].status # "running"
      BY <3>1, <3>3 DEF Interrupted
    <3>4. QED
      BY <3>2, <3>3
  <2>4. /\ \A q \in Procs : Busy(q)' <=> Busy(q)
        /\ \A q \in Procs : Busy(q) => proc'[q].lib = proc[q].lib /\ proc'[q].result = proc[q].result
    BY <2>1, <2>2 DEF Busy
  <2>5. QED
    BY <2>3, <2>4, <1>U, PlannedGrows
<1>3. ASSUME (\E targets \in Scopes : Prepare(targets)) \/ ResumeFailed \/ (\E k \in Libs : RetryDue(k)) \/ NextDay
      PROVE  Limited'
  <2>1. UNCHANGED proc
    BY <1>3 DEF Prepare, ResumeFailed, RetryDue, NextDay
  <2>2. ASSUME NEW l \in Planned'
        PROVE  \/ task'[l].attempts = 0 /\ task'[l].status = "pending"
               \/ /\ l \in Planned /\ task'[l].attempts = task[l].attempts
                  /\ task'[l].status = task[l].status \/ (task[l].status = "running" /\ task'[l].status = "pending")
    <3>1. CASE \E targets \in Scopes : Prepare(targets)
      <4>1. PICK targets \in Scopes : Prepare(targets)
        BY <3>1
      <4>2. task' = [k \in Libs |-> IF k \in targets THEN NewTask(cycle.recovery + 1) ELSE task[k]]
        BY <4>1 DEF Prepare
      <4>3. task'[l] = NewTask(cycle.recovery + 1) \/ (task'[l] = task[l] /\ l \in Planned)
        BY <4>2 DEF Planned
      <4>4. NewTask(cycle.recovery + 1).attempts = 0 /\ NewTask(cycle.recovery + 1).status = "pending"
        BY DEF NewTask
      <4>5. QED
        BY <4>3, <4>4
    <3>2. CASE ResumeFailed
      <4>1. l \in Planned /\ task'[l] = Reopened(task[l])
        BY <3>2 DEF ResumeFailed, Planned
      <4>2. CASE task[l].status = "dead_letter"
        BY ZenonT(30), <4>1, <4>2, <1>0, TaskSteps
      <4>3. CASE task[l].status # "dead_letter"
        BY <4>1, <4>3 DEF Reopened
      <4>4. QED
        BY <4>2, <4>3
    <3>3. CASE (\E k \in Libs : RetryDue(k)) \/ NextDay
      <4>1. l \in Planned /\ task'[l] \in {task[l], [task[l] EXCEPT !.wait = "none"]}
        BY <3>3, <1>0 DEF RetryDue, NextDay, Planned
      <4>2. QED
        BY <4>1, <1>0 DEF Task
    <3>4. QED
      BY <1>3, <3>1, <3>2, <3>3
  <2>3. /\ \A q \in Procs : Busy(q)' <=> Busy(q)
        /\ \A q \in Procs : Busy(q) => proc'[q].lib = proc[q].lib /\ proc'[q].result = proc[q].result
    BY <2>1 DEF Busy
  <2>4. QED
    BY <2>2, <2>3, <1>U, PlannedGrows
<1>4. ASSUME NEW p \in Procs, NEW k \in Libs, Reserve(p, k) PROVE Limited'
  <2>1. /\ Inside(p) /\ proc[p].pc = "loop" /\ k \in Planned /\ task[k].status = "pending"
        /\ task' = [task EXCEPT ![k] = Reserved(k)]
    BY <1>4, <1>0 DEF Reserve, Inside, ProcOK
  <2>2. \A q \in Procs : ~Busy(q)
    BY <2>1 DEF Exclusive, Inside, Busy
  <2>3. /\ proc'[p].pc = "open" /\ proc'[p].lib = k /\ proc'[p].result = None
        /\ \A q \in Procs \ {p} : proc'[q] = proc[q]
    BY <1>4, <2>1, <1>0 DEF Reserve, Proc
  <2>4. task'[k].attempts \in {task[k].attempts, task[k].attempts + 1} /\ task'[k].status = "running"
    <3>1. task'[k] = Reserved(k) /\ task[k] \in Task
      BY <2>1, <1>0
    <3>2. QED
      BY <3>1 DEF Reserved, Task
  <2>5. \A l \in Planned' : l # k => task'[l] = task[l] /\ l \in Planned
    BY <2>1, <1>0 DEF Planned
  <2>6. Worked(k)' /\ ~Worked(k)
    <3>1. Worked(k)'
      BY <2>3 DEF Worked, Busy, Results
    <3>2. QED
      BY <3>1, <2>2 DEF Worked
  <2>7. \A l \in Planned' : /\ task'[l].attempts <= MaxAttempts + breaks'
                            /\ task'[l].status \in {"pending", "running"} /\ ~Worked(l)' =>
                                 task'[l].attempts < MaxAttempts + breaks'
    <3>1. ASSUME NEW l \in Planned', l # k
          PROVE  /\ l \in Planned /\ task'[l].attempts = task[l].attempts
                 /\ task'[l].status \in {"pending", "running"} /\ ~Worked(l)' =>
                      task[l].status \in {"pending", "running"} /\ ~Worked(l)
      BY <3>1, <2>2, <2>5 DEF Worked
    <3>2. QED
      BY <3>1, <2>1, <2>4, <2>6, <1>L
  <2>8. \A q \in Procs : Busy(q)' => q = p
    BY <2>2, <2>3 DEF Busy
  <2>9. QED
    BY <2>3, <2>4, <2>7, <2>8 DEF Limited
(* Walks.                                                                  *)
<1>5. ASSUME NEW p \in Procs, UNCHANGED task, Busy(p), \A q \in Procs \ {p} : proc'[q] = proc[q],
             proc'[p].lib = proc[p].lib \/ ~Busy(p)',
             breaks < breaks' \/ (Busy(p)' /\ (proc[p].result \notin {"running", "daily"} => proc'[p].result \notin {"running", "daily"}))
      PROVE  Limited'
  <2>1. \A q \in Procs : Busy(q)' => Busy(q) /\ proc'[q].lib = proc[q].lib
    BY <1>5 DEF Busy
  <2>2. breaks < breaks' \/ \A l \in Planned : Worked(l) => Worked(l)'
    <3>1. ASSUME ~(breaks < breaks'), NEW l \in Planned, Worked(l) PROVE Worked(l)'
      <4>1. PICK q \in Procs : Busy(q) /\ proc[q].lib = l /\ proc[q].result \notin {"running", "daily"}
        BY <3>1 DEF Worked
      <4>2. Busy(q)' /\ proc'[q].lib = l /\ proc'[q].result \notin {"running", "daily"}
        BY <4>1, <3>1, <1>5 DEF Busy
      <4>3. QED
        BY <4>2 DEF Worked
    <3>2. QED
      BY <3>1
  <2>3. QED
    BY <2>1, <2>2, <1>5, <1>T
<1>6. ASSUME NEW p \in Procs, Open(p) \/ SetUp(p) PROVE Limited'
  <2>1. /\ UNCHANGED task /\ Busy(p) /\ \A q \in Procs \ {p} : proc'[q] = proc[q]
    BY <1>6, <1>0 DEF Open, SetUp, Busy, Go
  <2>2. proc'[p].lib = proc[p].lib /\ proc'[p].pc \in {"open", "walk", "record"}
        /\ proc'[p].result \in {proc[p].result, "succeeded"}
    BY <1>6, <1>0 DEF Open, SetUp, Go, Proc
  <2>3. QED
    BY <2>1, <2>2, <1>5 DEF Busy
<1>7. ASSUME NEW p \in Procs, Walk(p) PROVE Limited'
  <2>1. PICK r \in Results : /\ proc[p].pc \in {"open", "walk"} /\ UNCHANGED task
                             /\ proc' = [proc EXCEPT ![p].pc = "record", ![p].result = r]
                             /\ breaks' = breaks + 1 \/ r \notin {"running", "daily"}
    BY <1>7 DEF Walk, Succeed, Partial, Pause, Raise, FailWalk, Result, Results
  <2>2. proc'[p].lib = proc[p].lib /\ proc'[p].pc = "record" /\ proc'[p].result = r
        /\ \A q \in Procs \ {p} : proc'[q] = proc[q]
    BY <2>1, <1>0 DEF Proc
  <2>3. QED
    BY <2>1, <2>2, <1>0, <1>5 DEF Busy
<1>8. ASSUME NEW p \in Procs, Crash(p) PROVE Limited'
  <2>1. /\ UNCHANGED task /\ breaks' = breaks + 1
        /\ proc' = [proc EXCEPT ![p] = [Idle EXCEPT !.pc = IF p = Watcher THEN "boot" ELSE "idle"]]
    BY <1>8 DEF Crash
  <2>2. ~Busy(p)' /\ \A q \in Procs \ {p} : proc'[q] = proc[q]
    BY <2>1, <1>0 DEF Busy, Idle
  <2>3. \A q \in Procs : Busy(q)' => Busy(q) /\ proc'[q].lib = proc[q].lib
    BY <2>2 DEF Busy
  <2>4. QED
    BY <2>1, <2>3, <1>0, <1>T
<1>9. ASSUME LoseLock PROVE Limited'
  <2>1. UNCHANGED <<task, proc>> /\ breaks' = breaks + 1
    BY <1>9 DEF LoseLock
  <2>2. \A q \in Procs : Busy(q)' => Busy(q) /\ proc'[q].lib = proc[q].lib
    BY <2>1 DEF Busy
  <2>3. QED
    BY <2>1, <2>2, <1>0, <1>T
(* A process that works on nothing moves on.                               *)
<1>10. ASSUME NEW p \in Procs, NothingLeft(p) \/ Finish(p) \/ (p = Watcher /\ Boot) PROVE Limited'
  <2>1. /\ UNCHANGED task /\ ~Busy(p)
        /\ proc' \in {[proc EXCEPT ![p].pc = "finish"], [proc EXCEPT ![p].pc = "idle"], [proc EXCEPT ![p] = Idle]}
    BY <1>10 DEF NothingLeft, Finish, Boot, Go, Exit, Busy
  <2>2. ~Busy(p)' /\ \A q \in Procs \ {p} : proc'[q] = proc[q]
    BY <2>1, <1>0 DEF Busy, Idle, Proc
  <2>3. \A q \in Procs : Busy(q)' => Busy(q) /\ proc'[q].lib = proc[q].lib
    BY <2>2 DEF Busy
  <2>4. \A l \in Planned : Worked(l) => Worked(l)'
    BY <2>1, <2>2 DEF Worked, Busy
  <2>5. QED
    BY <2>1, <2>3, <2>4, <1>T
<1>11. CASE UNCHANGED vars
  <2>1. UNCHANGED <<task, proc, breaks>>
    BY <1>11 DEF vars
  <2>2. \A q \in Procs : Busy(q)' => Busy(q) /\ proc'[q].lib = proc[q].lib
    BY <2>1 DEF Busy
  <2>3. \A l \in Planned : Worked(l) => Worked(l)'
    BY <2>1 DEF Worked, Busy
  <2>4. QED
    BY <2>1, <2>2, <2>3, <1>T
<1>12. ASSUME NEW p \in Procs, Record(p) PROVE Limited'
  <2> DEFINE k == proc[p].lib
             r == proc[p].result
             t == Outcome(task[k], proc[p].run, r)
  <2>1. /\ Busy(p) /\ Inside(p) /\ r \in Results /\ TaskOK(task[k]) /\ k \in Planned /\ proc[p].run \in Recoveries
        /\ task[k].status \in {"running", "pending"} /\ k \in Libs
    BY <1>12, <1>0 DEF Record, Busy, Inside, ProcOK, Proc, Limited
  <2>2. task' = [task EXCEPT ![k] = t]
    BY <1>12 DEF Record
  <2>3. proc'[p].pc \in {"finish", "loop"} /\ \A q \in Procs \ {p} : proc'[q] = proc[q]
    BY <1>12, <1>0 DEF Record, Proc
  <2>4. /\ TaskOK(t) /\ t.attempts = task[k].attempts
        /\ (r = "succeeded" => t.status = "succeeded")
        /\ (r \in {"rate", "budget", "error"} =>
              t.status = IF task[k].attempts >= MaxAttempts THEN "dead_letter" ELSE "pending")
    BY <2>1, OutcomeIs
  <2>5. \A q \in Procs \ {p} : ~Busy(q)
    BY <2>1 DEF Exclusive, Inside, Busy
  <2>6. \A q \in Procs : ~Busy(q)'
    BY <2>3, <2>5 DEF Busy
  <2> HIDE DEF t
  <2>7. ASSUME NEW l \in Planned'
        PROVE  /\ task'[l].attempts <= MaxAttempts + breaks'
               /\ task'[l].status \in {"pending", "running"} /\ ~Worked(l)' => task'[l].attempts < MaxAttempts + breaks'
    <3>1. CASE l # k
      <4>1. task'[l] = task[l] /\ l \in Planned
        BY <2>2, <3>1, <1>0 DEF Planned
      <4>2. ~Worked(l)
        BY <2>5, <3>1 DEF Worked
      <4>3. QED
        BY <4>1, <4>2, <1>L
    <3>2. CASE l = k
      <4>1. task'[l] = t /\ l \in Planned
        BY <2>1, <2>2, <3>2, <1>0
      <4>2. CASE r \in {"running", "daily"}
        <5>1. ~Worked(l)
          BY <2>5, <3>2, <4>2 DEF Worked
        <5>2. QED
          BY <4>1, <5>1, <2>1, <2>4, <3>2, <1>L
      <4>3. CASE r \notin {"running", "daily"}
        <5>1. t.status \in {"pending", "running"} => task[l].attempts < MaxAttempts
          BY <2>1, <2>4, <3>2, <4>1, <4>3, <1>0, Sizes DEF Results
        <5>2. QED
          BY <4>1, <5>1, <2>4, <3>2, <1>L
      <4>4. QED
        BY <4>2, <4>3
    <3>3. QED
      BY <3>1, <3>2
  <2>8. QED
    BY <2>6, <2>7 DEF Limited
<1>13. CASE \E p \in Procs : Work(p) \/ Walk(p) \/ Crash(p)
  <2>1. PICK p \in Procs : Work(p) \/ Walk(p) \/ Crash(p)
    BY <1>13
  <2>2. CASE Work(p)
    BY <2>2, <1>2, <1>4, <1>6, <1>10, <1>12 DEF Work
  <2>3. QED
    BY <2>1, <2>2, <1>7, <1>8
<1>14. QED
  BY <1>1, <1>3, <1>9, <1>10, <1>11, <1>13, Scope DEF Next

-----------------------------------------------------------------------------
(* Without a lost lock one slice runs at a time.                           *)
Unbroken == "lock" \notin cut

LEMMA HolderInit == Init => Unbroken
BY DEF Init, Unbroken

LEMMA HolderStep == Unbroken /\ [Next]_vars /\ [~LoseLock]_vars => Unbroken'
<1> SUFFICES ASSUME "lock" \notin cut, [Next]_vars, [~LoseLock]_vars PROVE "lock" \notin cut'
  BY DEF Unbroken
<1>1. ASSUME NEW p \in Procs, Crash(p) PROVE "lock" \notin cut'
  <2>1. cut' = cut \cup ({"open", "succeeded"} \cap {proc[p].pc, proc[p].result})
    BY <1>1 DEF Crash
  <2>2. \A x : x \in cut' => x \in cut \/ x = "open" \/ x = "succeeded"
    BY <2>1
  <2>3. QED
    BY <2>2
<1>2. ASSUME NEW p \in Procs, Raise(p) PROVE "lock" \notin cut'
  BY <1>2 DEF Raise
<1>3. cut' = cut \/ (\E p \in Procs : Crash(p) \/ Raise(p))
  BY ZenonT(30) DEF Next, Work, Walk, Plan, Begin, Reserve, Open, SetUp, Succeed, Partial, Pause, FailWalk,
         Record, NothingLeft, Finish, Prepare, ResumeFailed, RetryDue, NextDay, Boot, LoseLock, vars
<1>4. QED
  BY <1>1, <1>2, <1>3

(* While MySQL does not drop the connection that holds the advisory lock,  *)
(* one slice runs at a time, whatever crashes.                             *)
THEOREM LockExcludes == Spec /\ [][~LoseLock]_vars => []Exclusive
<1>1. Base /\ Unbroken => Exclusive
  BY Holder DEF Unbroken
<1>2. QED
  BY <1>1, BaseInit, BaseStep, HolderInit, HolderStep, PTL DEF Spec

LEMMA LimitedIs == Base /\ Counted /\ Limited => AttemptsAreFair
BY CountedIs DEF Limited, AttemptsAreFair, AttemptsBounded

(* Attempts are neither free nor lost nor unlimited, as long as two slices *)
(* are not inside at once: a lost lock alone does no harm.                 *)
THEOREM AttemptsStayFair == Spec /\ []Exclusive => []AttemptsAreFair
<1>1. Base /\ Limited /\ Exclusive /\ Exclusive' /\ [Next]_vars => Limited'
  BY LimitedStep
<1>2. QED
  BY <1>1, BaseInit, BaseStep, KeptInit, KeptStep, CountedInit, CountedStep, LimitedInit, LimitedIs, PTL DEF Spec

LEMMA AloneExcludes == ASSUME NEW p, Procs = {p} PROVE Exclusive
BY DEF Exclusive

(* With a single process nothing has to be assumed of the lock: attempts   *)
(* are neither free nor lost nor unlimited.                                *)
THEOREM AloneIsFair ==
  ASSUME NEW p, Procs = {p}
  PROVE  Spec => []AttemptsAreFair
<1>1. Exclusive
  BY AloneExcludes
<1>2. Base /\ Limited /\ [Next]_vars => Limited'
  <2>1. Exclusive'
    BY DEF Exclusive
  <2>2. QED
    BY <1>1, <2>1, LimitedStep
<1>3. QED
  BY <1>2, BaseInit, BaseStep, KeptInit, KeptStep, CountedInit, CountedStep, LimitedInit, LimitedIs, PTL DEF Spec
=============================================================================
