---------------------------- MODULE ReviewProofs ----------------------------
(***************************************************************************)
(* Proofs about the review pipeline for every set of documents and texts,  *)
(* for every limit, and for every number of crashes and days.              *)
(***************************************************************************)
EXTENDS ReviewPipeline, FiniteSetTheorems, Induction

Step(s, I, f, k) == IF k = 0 THEN <<>> ELSE IF k \in I THEN Append(f[k - 1], s[k]) ELSE f[k - 1]

LEMMA UptoExists ==
  ASSUME NEW s, NEW I, NEW n \in Nat
  PROVE  \E f : f = [k \in 0..n |-> Step(s, I, f, k)]
<1> DEFINE S == {m \in Nat : \E f : f = [k \in 0..m |-> Step(s, I, f, k)]}
<1>1. 0 \in S
  <2> DEFINE f == [k \in 0..0 |-> <<>>]
  <2>1. f = [k \in 0..0 |-> Step(s, I, f, k)]
    BY DEF Step
  <2> QED BY <2>1
<1>2. ASSUME NEW m \in Nat, m \in S PROVE m + 1 \in S
  <2>1. PICK f : f = [k \in 0..m |-> Step(s, I, f, k)]
    BY <1>2
  <2> DEFINE g == [k \in 0..(m + 1) |-> IF k = m + 1 THEN Step(s, I, f, m + 1) ELSE f[k]]
  <2>2. \A k \in 0..(m + 1) : g[k] = Step(s, I, g, k)
    <3> SUFFICES ASSUME NEW k \in 0..(m + 1) PROVE g[k] = Step(s, I, g, k)
      OBVIOUS
    <3>1. k # 0 => k - 1 \in 0..m /\ k - 1 \in 0..(m + 1) /\ k - 1 # m + 1
      OBVIOUS
    <3>2. k # 0 => g[k - 1] = f[k - 1]
      BY <3>1
    <3>3. CASE k = m + 1
      BY <3>2, <3>3 DEF Step
    <3>4. CASE k \in 0..m
      BY <2>1, <3>1, <3>2, <3>4 DEF Step
    <3> QED BY <3>3, <3>4
  <2>3. g = [k \in 0..(m + 1) |-> Step(s, I, g, k)]
    BY <2>2
  <2> HIDE DEF g
  <2> QED BY <2>3
<1> HIDE DEF S
<1>3. n \in S
  BY <1>1, <1>2, Induct
<1> QED
  BY <1>3 DEF S

LEMMA OnlyKeeps ==
  ASSUME NEW T, NEW s \in Seq(T), NEW I \in SUBSET DOMAIN s
  PROVE  /\ Only(s, I) \in Seq(T)
         /\ \A k \in DOMAIN Only(s, I) : \E i \in I : Only(s, I)[k] = s[i]
         /\ \A i \in I : \E k \in DOMAIN Only(s, I) : Only(s, I)[k] = s[i]
<1> DEFINE f == CHOOSE f : f = [k \in 0..Len(s) |-> Step(s, I, f, k)]
<1>1. Only(s, I) = f[Len(s)]
  BY DEF Only, Step
<1>2. f = [k \in 0..Len(s) |-> Step(s, I, f, k)]
  BY UptoExists
<1> HIDE DEF f
<1> DEFINE Good(k) == k \in 0..Len(s) =>
      /\ f[k] \in Seq(T)
      /\ \A j \in DOMAIN f[k] : \E i \in I : f[k][j] = s[i]
      /\ \A i \in I : i <= k => \E j \in DOMAIN f[k] : f[k][j] = s[i]
<1>3. Good(0)
  BY <1>2 DEF Step
<1>4. ASSUME NEW k \in Nat, Good(k) PROVE Good(k + 1)
  <2> SUFFICES ASSUME k + 1 \in 0..Len(s) PROVE Good(k + 1)
    OBVIOUS
  <2>1. k \in 0..Len(s) /\ k + 1 \in DOMAIN s
    OBVIOUS
  <2>2. f[k + 1] = IF k + 1 \in I THEN Append(f[k], s[k + 1]) ELSE f[k]
    <3>1. f[k + 1] = Step(s, I, f, k + 1)
      BY <1>2, <2>1
    <3>2. k + 1 # 0 /\ (k + 1) - 1 = k
      OBVIOUS
    <3> QED BY <3>1, <3>2 DEF Step
  <2>3. CASE k + 1 \notin I
    <3>1. \A i \in I : i <= k + 1 => i <= k
      BY <2>3
    <3> QED BY <1>4, <2>1, <2>2, <2>3, <3>1
  <2>4. CASE k + 1 \in I
    <3>1. f[k] \in Seq(T) /\ s[k + 1] \in T
      BY <1>4, <2>1
    <3>2. /\ f[k + 1] \in Seq(T) /\ DOMAIN f[k + 1] = 1..(Len(f[k]) + 1) /\ DOMAIN f[k] = 1..Len(f[k])
          /\ \A j \in DOMAIN f[k] : f[k + 1][j] = f[k][j]
          /\ f[k + 1][Len(f[k]) + 1] = s[k + 1]
      BY <2>2, <2>4, <3>1
    <3>3. \A j \in DOMAIN f[k + 1] : \E i \in I : f[k + 1][j] = s[i]
      BY <1>4, <2>1, <2>4, <3>1, <3>2
    <3>4. \A i \in I : i <= k + 1 => i <= k \/ i = k + 1
      OBVIOUS
    <3>5. \A i \in I : i <= k + 1 => \E j \in DOMAIN f[k + 1] : f[k + 1][j] = s[i]
      BY SMTT(20), ZenonT(30), <1>4, <2>1, <3>1, <3>2, <3>4
    <3> QED BY <3>2, <3>3, <3>5
  <2> QED BY <2>3, <2>4
<1> DEFINE S == {k \in Nat : Good(k)}
<1>5. 0 \in S /\ \A k \in Nat : k \in S => k + 1 \in S
  BY <1>3, <1>4
<1> HIDE DEF S
<1>6. Len(s) \in S
  BY <1>5, Induct
<1>7. Good(Len(s))
  BY <1>6 DEF S
<1>8. \A i \in I : i <= Len(s)
  OBVIOUS
<1> QED
  BY <1>1, <1>7, <1>8

LEMMA SeqUpdate ==
  ASSUME NEW T, NEW s \in Seq(T), NEW i \in DOMAIN s, NEW x \in T
  PROVE  [s EXCEPT ![i] = x] \in Seq(T)
OBVIOUS

LEMMA SeqOf ==
  ASSUME NEW T, NEW n \in Nat, NEW f \in [1..n -> T]
  PROVE  f \in Seq(T) /\ Len(f) = n /\ DOMAIN f = 1..n
OBVIOUS

LEMMA SeqConcat ==
  ASSUME NEW T, NEW s \in Seq(T), NEW t \in Seq(T)
  PROVE  /\ s \o t \in Seq(T) /\ DOMAIN s \subseteq DOMAIN (s \o t)
         /\ \A i \in DOMAIN s : (s \o t)[i] = s[i]
         /\ \A i \in DOMAIN t : Len(s) + i \in DOMAIN (s \o t) /\ (s \o t)[Len(s) + i] = t[i]
         /\ \A i \in DOMAIN (s \o t) \ DOMAIN s : i - Len(s) \in DOMAIN t /\ (s \o t)[i] = t[i - Len(s)]
OBVIOUS

LEMMA NewJobType ==
  ASSUME NEW d \in Docs, NEW t \in {"auto", "manual_rerun"}
  PROVE  NewJob(d, t) \in Job
BY DEF NewJob, Job

(* What the job queue and the worker know of each other: one job is being  *)
(* executed exactly while the worker is between its claim and its end.     *)
Placed ==
  /\ \A i \in DOMAIN jobs : jobs[i].mine => worker.pc \in {"read", "score", "finish"}
  /\ \A i, j \in DOMAIN jobs : jobs[i].mine /\ jobs[j].mine => i = j
  /\ worker.pc \in {"read", "score"} => \E i \in DOMAIN jobs : jobs[i].mine
  /\ worker.pc \in {"claim", "read", "score", "finish"} => worker.done < JobsPerRound
Base == TypeOK /\ Placed

LEMMA MineIs ==
  ASSUME Base
  PROVE  /\ \A i \in DOMAIN jobs : jobs[i].mine => Mine = i
         /\ worker.pc \in {"read", "score"} => Mine \in DOMAIN jobs /\ jobs[Mine].mine
BY DEF Base, Placed, Mine

LEMMA JobFields ==
  ASSUME NEW j \in Job
  PROVE  /\ j.doc \in Docs /\ j.trigger \in {"auto", "manual_rerun"}
         /\ j.status \in {"pending", "running"} /\ j.mine \in BOOLEAN /\ j.read \in BOOLEAN
         /\ j.status = "pending" => ~j.read /\ ~j.mine /\ j.lease = "none"
BY DEF Job

(* What the writers of a document's row make of it stays such a row.       *)
LEMMA DocUpdates ==
  ASSUME NEW r \in Doc
  PROVE  /\ Present(r) \in Doc /\ Closed(r) \in Doc
         /\ \A w \in 0..Quiet : Open(r, w) \in Doc
         /\ \A b \in BOOLEAN : /\ [r EXCEPT !.deleted = b] \in Doc
                               /\ [r EXCEPT !.excluded = b] \in Doc
                               /\ [r EXCEPT !.capped = b] \in Doc
         /\ \A w \in {None} \cup (0..Quiet) : [r EXCEPT !.due = w] \in Doc
         /\ \A c \in Contents \cup {None} : [r EXCEPT !.print = c] \in Doc
<1>1. Present(r) \in Doc
  BY DEF Present, Doc
<1>2. Closed(r) \in Doc
  BY DEF Closed, Doc
<1>3. \A w \in 0..Quiet : Open(r, w) \in Doc
  BY DEF Open, Doc
<1>4. \A b \in BOOLEAN : [r EXCEPT !.deleted = b] \in Doc /\ [r EXCEPT !.excluded = b] \in Doc
  BY DEF Doc
<1>5. \A b \in BOOLEAN : [r EXCEPT !.capped = b] \in Doc
  BY DEF Doc
<1>6. \A w \in {None} \cup (0..Quiet) : [r EXCEPT !.due = w] \in Doc
  BY DEF Doc
<1>7. \A c \in Contents \cup {None} : [r EXCEPT !.print = c] \in Doc
  BY DEF Doc
<1> QED
  BY <1>1, <1>2, <1>3, <1>4, <1>5, <1>6, <1>7

LEMMA BaseInit == Init => Base
<1> SUFFICES ASSUME Init PROVE Base
  OBVIOUS
<1>1. doc \in [Docs -> Doc]
  <2>1. \A k \in BOOLEAN : [known |-> k, deleted |-> FALSE, excluded |-> FALSE, due |-> None,
                           capped |-> FALSE, print |-> None] \in Doc
    BY DEF Doc
  <2>2. {[known |-> k, deleted |-> FALSE, excluded |-> FALSE, due |-> None,
          capped |-> FALSE, print |-> None] : k \in BOOLEAN} \subseteq Doc
    BY <2>1
  <2> QED
    BY <2>2 DEF Init
<1>2. jobs \in Seq(Job) /\ rows \in [Docs -> Seq(Note)] /\ latest \in [Docs -> Instance]
  BY DEF Init, Instance
<1>3. worker \in [pc : Stage, text : Contents \cup {None}, done : 0..JobsPerRound,
                  out : [Docs -> {None, "sent", "failed"}]]
  BY Sizes DEF Init, Idle, Stage
<1>4. text \in [Docs -> Contents \cup {None}] /\ echoes \in [Docs -> Nat]
  BY DEF Init
<1>5. Placed
  BY DEF Init, Placed, Idle
<1>6. /\ click \in [Clients -> [doc : Docs, busy : BOOLEAN, full : BOOLEAN] \cup {None}]
      /\ owed \in [Docs -> BOOLEAN] /\ calm \in [Docs -> BOOLEAN]
      /\ crashes \in 0..MaxCrashes /\ day \in 0..MaxDays
  BY Sizes DEF Init
<1> QED
  BY <1>1, <1>2, <1>3, <1>4, <1>5, <1>6 DEF Base, TypeOK

(* Steps that leave the queue and the worker alone.                        *)
LEMMA BaseOthers ==
  ASSUME Base, NEW d \in Docs,
         \/ \E c \in Contents \cup {None} : Edit(d, c)
         \/ SeenAgain(d) \/ Missed(d) \/ Exclude(d) \/ RestoreEvent(d)
         \/ \E located \in BOOLEAN : ModifyEvent(d, located)
         \/ WindowRuns(d) \/ WindowCaps(d)
         \/ \E c \in Clients : ClickRead(c, d)
  PROVE  Base'
<1>1. UNCHANGED <<jobs, worker>>
  BY DEF Edit, SeenAgain, Missed, Exclude, RestoreEvent, ModifyEvent, WindowRuns, WindowCaps, ClickRead
<1>2. Placed'
  BY <1>1 DEF Base, Placed
<1>3. \A c \in Contents \cup {None} : Edit(d, c) => TypeOK'
  BY DEF Base, TypeOK, Edit
<1>4. SeenAgain(d) \/ Missed(d) \/ Exclude(d) \/ RestoreEvent(d) => TypeOK'
  <2>0. doc[d] \in Doc /\ doc \in [Docs -> Doc]
    BY DEF Base, TypeOK
  <2>1. SeenAgain(d) \/ Missed(d) \/ Exclude(d) \/ RestoreEvent(d) => doc' \in [Docs -> Doc]
    <3>1. \E r \in Doc : SeenAgain(d) \/ Missed(d) \/ Exclude(d) \/ RestoreEvent(d) => doc' = [doc EXCEPT ![d] = r]
      BY <2>0, DocUpdates DEF SeenAgain, Missed, Exclude, RestoreEvent
    <3> QED BY <2>0, <3>1
  <2> QED
    BY <2>1 DEF Base, TypeOK, SeenAgain, Missed, Exclude, RestoreEvent
<1>5. \A located \in BOOLEAN : ModifyEvent(d, located) => TypeOK'
  <2> SUFFICES ASSUME NEW located \in BOOLEAN, ModifyEvent(d, located) PROVE TypeOK'
    OBVIOUS
  <2>1. Written(d, located) \in Doc
    BY DocUpdates DEF Base, TypeOK, Written
  <2>2. Open(Written(d, located), Quiet) \in Doc
    BY <2>1, Sizes, DocUpdates
  <2>3. doc' \in [Docs -> Doc]
    BY <2>1, <2>2 DEF ModifyEvent, Base, TypeOK
  <2> QED
    BY <2>3, <1>1 DEF ModifyEvent, Base, TypeOK, Routed
<1>6. WindowRuns(d) \/ WindowCaps(d) => TypeOK'
  <2>1. doc[d] \in Doc
    BY DEF Base, TypeOK
  <2>2. doc[d].due \in 1..Quiet => doc[d].due - 1 \in 0..Quiet
    BY Sizes
  <2>3. WindowRuns(d) \/ WindowCaps(d) => doc' \in [Docs -> Doc]
    <3>1. \E r \in Doc : WindowRuns(d) \/ WindowCaps(d) => doc' = [doc EXCEPT ![d] = r]
      BY <2>1, <2>2, DocUpdates DEF WindowRuns, WindowCaps
    <3> QED BY <3>1 DEF Base, TypeOK
  <2> QED
    BY <2>3 DEF Base, TypeOK, WindowRuns, WindowCaps
<1>7. \A c \in Clients : ClickRead(c, d) => TypeOK'
  BY DEF Base, TypeOK, ClickRead, Asked
<1> QED
  BY <1>2, <1>3, <1>4, <1>5, <1>6, <1>7 DEF Base

(* New jobs at the end of the queue: nobody executes them yet.             *)
LEMMA BaseAppend ==
  ASSUME Base, NEW new \in Seq(Job), jobs' = jobs \o new,
         \A i \in DOMAIN new : ~new[i].mine
  PROVE  /\ jobs' \in Seq(Job)
         /\ worker'.pc = worker.pc /\ worker'.done = worker.done => Placed'
<1>1. jobs \in Seq(Job)
  BY DEF Base, TypeOK
<1>2. /\ jobs' \in Seq(Job) /\ DOMAIN jobs \subseteq DOMAIN jobs'
      /\ \A i \in DOMAIN jobs : jobs'[i] = jobs[i]
      /\ \A i \in DOMAIN jobs' \ DOMAIN jobs : ~jobs'[i].mine
  BY <1>1, SeqConcat
<1> QED
  BY <1>2 DEF Base, Placed

LEMMA AppendIsConcat ==
  ASSUME NEW T, NEW s \in Seq(T), NEW x \in T
  PROVE  Append(s, x) = s \o <<x>> /\ <<x>> \in Seq(T) /\ DOMAIN <<x>> = {1} /\ <<x>>[1] = x
OBVIOUS

LEMMA BaseEnqueue ==
  ASSUME Base, NEW d \in Docs, NEW t \in {"auto", "manual_rerun"}, jobs' = Append(jobs, NewJob(d, t))
  PROVE  /\ jobs' \in Seq(Job)
         /\ worker'.pc = worker.pc /\ worker'.done = worker.done => Placed'
<1>1. NewJob(d, t) \in Job /\ ~NewJob(d, t).mine
  BY NewJobType DEF NewJob
<1>2. jobs' = jobs \o <<NewJob(d, t)>> /\ <<NewJob(d, t)>> \in Seq(Job)
      /\ \A i \in DOMAIN <<NewJob(d, t)>> : ~(<<NewJob(d, t)>>[i].mine)
  BY <1>1, AppendIsConcat DEF Base, TypeOK
<1> HIDE DEF NewJob
<1> QED
  BY <1>2, BaseAppend

LEMMA BaseWatchNew ==
  ASSUME Base, NEW d \in Docs, NEW adoc \in BOOLEAN, WatchNew(d, adoc)
  PROVE  Base'
<1>1. jobs' \in Seq(Job) /\ Placed'
  <2>1. CASE jobs' = jobs
    BY <2>1 DEF WatchNew, Base, TypeOK, Placed
  <2>2. CASE jobs' = Append(jobs, NewJob(d, "auto"))
    BY <2>2, BaseEnqueue DEF WatchNew
  <2> QED BY <2>1, <2>2 DEF WatchNew
<1>2. doc' \in [Docs -> Doc]
  BY DocUpdates DEF WatchNew, Base, TypeOK
<1> QED
  BY <1>1, <1>2 DEF WatchNew, Base, TypeOK

LEMMA BaseClickCommit ==
  ASSUME Base, NEW c \in Clients, ClickCommit(c)
  PROVE  Base'
<1>1. click[c] # None /\ click[c].doc \in Docs
  BY DEF ClickCommit, Base, TypeOK
<1>2. jobs' \in Seq(Job) /\ Placed'
  <2>1. CASE jobs' = jobs
    BY <2>1 DEF ClickCommit, Base, TypeOK, Placed
  <2>2. CASE jobs' = Append(jobs, NewJob(click[c].doc, "manual_rerun"))
    BY <1>1, <2>2, BaseEnqueue DEF ClickCommit
  <2> QED BY <2>1, <2>2 DEF ClickCommit
<1>3. click' \in [Clients -> [doc : Docs, busy : BOOLEAN, full : BOOLEAN] \cup {None}]
  BY DEF ClickCommit, Base, TypeOK
<1>4. calm' \in [Docs -> BOOLEAN]
  BY <1>1 DEF ClickCommit, Base, TypeOK
<1> QED
  BY <1>2, <1>3, <1>4 DEF ClickCommit, Base, TypeOK

LEMMA BaseReviewEvents ==
  ASSUME Base, NEW d \in Docs, NEW n \in 1..MaxBatch, NEW located \in BOOLEAN,
         NEW seen \in {None, "pending", "running"}, ReviewEvents(d, n, located, seen)
  PROVE  Base'
<1>1. jobs' \in Seq(Job) /\ Placed'
  <2>1. CASE jobs' = jobs
    BY <2>1 DEF ReviewEvents, Base, TypeOK, Placed
  <2>2. CASE jobs' = jobs \o [i \in 1..n |-> NewJob(d, "auto")]
    <3> DEFINE new == [i \in 1..n |-> NewJob(d, "auto")]
    <3>1. NewJob(d, "auto") \in Job /\ ~NewJob(d, "auto").mine
      BY NewJobType DEF NewJob
    <3>2. new \in [1..n -> Job] /\ \A i \in DOMAIN new : ~new[i].mine
      BY <3>1
    <3>3. new \in Seq(Job)
      BY <3>2, Sizes
    <3> HIDE DEF new
    <3> QED BY <2>2, <3>2, <3>3, BaseAppend DEF ReviewEvents, new
  <2> QED BY <2>1, <2>2 DEF ReviewEvents
<1>2. doc' \in [Docs -> Doc]
  <2>1. Written(d, located) \in Doc
    BY DocUpdates DEF Base, TypeOK, Written
  <2>2. Open(Written(d, located), 0) \in Doc /\ Closed(Written(d, located)) \in Doc
    BY <2>1, Sizes, DocUpdates
  <2> QED
    BY <2>1, <2>2 DEF ReviewEvents, Base, TypeOK
<1> QED
  BY <1>1, <1>2 DEF ReviewEvents, Base, TypeOK, Routed

(* The messages and jobs that a delete leaves.                             *)
LEMMA NoPendingLeft ==
  ASSUME NEW r \in Seq(Note), NEW I \in SUBSET DOMAIN r
  PROVE  /\ Only(r, I) \in Seq(Note)
         /\ \A k \in DOMAIN Only(r, I) : \E i \in I : Only(r, I)[k] = r[i]
BY OnlyKeeps

LEMMA BaseDelete ==
  ASSUME Base, NEW d \in Docs, DeleteEvent(d)
  PROVE  Base'
<1>1. doc' \in [Docs -> Doc]
  BY DocUpdates DEF DeleteEvent, Base, TypeOK
<1>2. rows' \in [Docs -> Seq(Note)]
  BY NoPendingLeft DEF DeleteEvent, Base, TypeOK, Silenced
<1>3. /\ jobs' \in Seq(Job)
      /\ \A k \in DOMAIN jobs' : \E i \in DOMAIN jobs : jobs'[k] = jobs[i]
  <2> DEFINE I == DOMAIN jobs \ Active(d)
  <2>1. jobs' = Only(jobs, I) /\ jobs \in Seq(Job) /\ I \in SUBSET DOMAIN jobs
    BY DEF DeleteEvent, Base, TypeOK, Cancelled
  <2> HIDE DEF I
  <2>2. /\ Only(jobs, I) \in Seq(Job)
        /\ \A k \in DOMAIN Only(jobs, I) : \E i \in I : Only(jobs, I)[k] = jobs[i]
    BY <2>1, OnlyKeeps
  <2> QED BY <2>1, <2>2
<1>4. Placed'
  BY <1>3 DEF DeleteEvent, Base, Placed, AtBridge
<1> QED
  BY <1>1, <1>2, <1>3, <1>4 DEF DeleteEvent, Base, TypeOK

LEMMA BaseHarvest ==
  ASSUME Base, NEW seen \in [Docs -> {None, "pending", "running"}], Harvest(seen)
  PROVE  Base'
<1> DEFINE ready == {d \in Docs : Harvestable(d)}
           fresh == {d \in ready : Wants(d, seen[d])}
<1>1. doc' \in [Docs -> Doc]
  BY DocUpdates DEF Harvest, Base, TypeOK
<1>2. PICK order \in [1..Cardinality(fresh) -> fresh] :
        jobs' = jobs \o [i \in DOMAIN order |-> NewJob(order[i], "auto")]
  BY DEF Harvest
<1>3. fresh \subseteq Docs /\ Cardinality(fresh) \in Nat
  BY Sizes, FS_Subset, FS_CardinalityType
<1> HIDE DEF fresh, ready
<1> DEFINE new == [i \in DOMAIN order |-> NewJob(order[i], "auto")]
<1>4. \A i \in DOMAIN order : NewJob(order[i], "auto") \in Job /\ ~NewJob(order[i], "auto").mine
  BY <1>3, NewJobType DEF NewJob
<1>5. new \in [1..Cardinality(fresh) -> Job] /\ \A i \in DOMAIN new : ~new[i].mine
  BY <1>4
<1>6. new \in Seq(Job)
  BY <1>3, <1>5
<1>7. jobs' = jobs \o new
  BY <1>2
<1> HIDE DEF new
<1>11. jobs' \in Seq(Job)
  BY <1>5, <1>6, <1>7, BaseAppend
<1>8. worker' = [worker EXCEPT !.pc = "claim", !.done = 0] /\ worker.pc = "harvest"
  BY DEF Harvest
<1>9. worker' \in [pc : Stage, text : Contents \cup {None}, done : 0..JobsPerRound,
                   out : [Docs -> {None, "sent", "failed"}]]
  <2>1. 0 \in 0..JobsPerRound /\ "claim" \in Stage
    BY Sizes DEF Stage
  <2> QED
    BY <1>8, <2>1 DEF Base, TypeOK
<1>10. Placed'
  <2>1. jobs \in Seq(Job) /\ \A i \in DOMAIN jobs : ~jobs[i].mine
    BY <1>8, JobFields DEF Base, TypeOK, Placed
  <2>2. \A i \in DOMAIN jobs' : ~jobs'[i].mine
    <3>1. /\ \A i \in DOMAIN jobs : jobs'[i] = jobs[i]
          /\ \A i \in DOMAIN jobs' \ DOMAIN jobs : i - Len(jobs) \in DOMAIN new /\ jobs'[i] = new[i - Len(jobs)]
      BY <1>6, <1>7, <2>1, SeqConcat
    <3> QED BY <1>5, <2>1, <3>1
  <2> QED
    BY <1>8, <2>2, Sizes DEF Base, TypeOK, Placed
<1> QED
  BY <1>1, <1>9, <1>10, <1>11 DEF Base, TypeOK, Harvest

WorkerType == [pc : Stage, text : Contents \cup {None}, done : 0..JobsPerRound,
               out : [Docs -> {None, "sent", "failed"}]]

(* A step of the worker that changes neither the queue nor who runs a job. *)
LEMMA BaseGoto ==
  ASSUME Base, worker' \in WorkerType, UNCHANGED jobs, worker'.done = worker.done,
         \/ worker.pc \in {"bridge", "harvest", "claim"} /\ worker'.pc \in {"harvest", "pump"}
            /\ ~ \E i \in DOMAIN jobs : jobs[i].mine
         \/ worker.pc \in {"read", "score"} /\ worker'.pc \in {"score", "finish"}
  PROVE  Placed'
BY DEF Base, Placed

LEMMA BaseClaim ==
  ASSUME Base, Claim
  PROVE  Base'
<1> DEFINE first == CHOOSE i \in PendingJobs : \A j \in PendingJobs : i <= j
           new == [jobs[first] EXCEPT !.status = "running", !.lease = "held", !.mine = TRUE]
<1>1. first \in PendingJobs
  <2>1. PendingJobs \subseteq Nat /\ PendingJobs # {}
    <3>1. jobs \in Seq(Job) /\ DOMAIN jobs \subseteq Nat
      BY DEF Base, TypeOK
    <3> QED BY <3>1 DEF Claim, PendingJobs
  <2> QED
    BY <2>1, LeastNat
<1>2. first \in DOMAIN jobs /\ jobs[first] \in Job /\ jobs[first].status = "pending"
  BY <1>1 DEF PendingJobs, Base, TypeOK
<1>3. jobs' = [jobs EXCEPT ![first] = new]
  <2>1. jobs' = [jobs EXCEPT ![first].status = "running", ![first].lease = "held", ![first].mine = TRUE]
    BY DEF Claim
  <2> HIDE DEF first
  <2> QED BY <1>2, <2>1
<1> HIDE DEF first
<1>4. new \in Job /\ new.mine
  BY <1>2 DEF Job
<1> HIDE DEF new
<1>5. jobs' \in Seq(Job) /\ DOMAIN jobs' = DOMAIN jobs /\ jobs'[first] = new
      /\ \A i \in DOMAIN jobs \ {first} : jobs'[i] = jobs[i]
  BY <1>2, <1>3, <1>4 DEF Base, TypeOK
<1>6. worker' = [worker EXCEPT !.pc = "read"] /\ worker.pc = "claim"
  BY DEF Claim, Goto
<1>7. worker' \in WorkerType
  BY <1>6 DEF Base, TypeOK, WorkerType, Stage
<1>8. Placed'
  BY <1>2, <1>4, <1>5, <1>6, <1>7 DEF Base, TypeOK, Placed, WorkerType
<1> QED
  BY <1>5, <1>7, <1>8 DEF Claim, Base, TypeOK, WorkerType

LEMMA BaseStages ==
  ASSUME Base, BridgeDone \/ NothingPending \/ SkipGated
  PROVE  Base'
<1>1. worker \in WorkerType /\ worker' \in WorkerType /\ worker'.done = worker.done
  BY DEF BridgeDone, NothingPending, SkipGated, Goto, Base, TypeOK, WorkerType, Stage
<1>2. Placed'
  BY <1>1, BaseGoto, JobFields DEF BridgeDone, NothingPending, SkipGated, Goto, AtBridge, Base, TypeOK, Placed, WorkerType
<1> QED
  BY <1>1, <1>2 DEF BridgeDone, NothingPending, SkipGated, Base, TypeOK, WorkerType

LEMMA BaseRead ==
  ASSUME Base, NEW c \in Contents \cup {None}, Read(c)
  PROVE  Base'
<1> DEFINE m == Mine
           new == [jobs[m] EXCEPT !.read = TRUE]
<1>1. m \in DOMAIN jobs /\ jobs[m].mine /\ jobs[m] \in Job
  BY MineIs DEF Read, Base, TypeOK
<1>2. new \in Job /\ new.mine /\ new.doc = jobs[m].doc /\ new.read
  BY <1>1 DEF Job
<1>3. jobs' = [jobs EXCEPT ![m] = new]
  BY <1>1 DEF Read, Base, TypeOK
<1> HIDE DEF new, m
<1>4. jobs' \in Seq(Job) /\ DOMAIN jobs' = DOMAIN jobs /\ jobs'[m] = new
      /\ \A i \in DOMAIN jobs \ {m} : jobs'[i] = jobs[i]
  BY <1>1, <1>2, <1>3 DEF Base, TypeOK
<1>5. worker' \in WorkerType /\ worker.pc = "read" /\ worker'.pc \in {"score", "finish"}
      /\ worker'.done = worker.done
  BY DEF Read, Base, TypeOK, WorkerType, Stage
<1>6. Placed'
  BY <1>1, <1>2, <1>4, <1>5 DEF Base, Placed
<1>7. owed' \in [Docs -> BOOLEAN]
  BY <1>1, JobFields DEF Read, Base, TypeOK
<1> QED
  BY <1>4, <1>5, <1>6, <1>7 DEF Read, Base, TypeOK, WorkerType

LEMMA BaseScore ==
  ASSUME Base, NEW verdict \in Verdict, NEW drop \in BOOLEAN, NEW allowed \in BOOLEAN,
         Score(verdict, drop, allowed)
  PROVE  Base'
<1> DEFINE d == jobs[Mine].doc
<1>1. d \in Docs /\ jobs[Mine] \in Job
  BY MineIs, JobFields DEF Score, Base, TypeOK
<1>2. worker' \in WorkerType /\ worker.pc = "score" /\ worker'.pc = "finish" /\ worker'.done = worker.done
  BY DEF Score, Base, TypeOK, WorkerType, Stage
<1>3. Placed'
  BY <1>2, BaseGoto DEF Score
<1>4. doc' \in [Docs -> Doc]
  BY <1>1, DocUpdates DEF Score, Scored, Base, TypeOK
<1>5. latest' \in [Docs -> Instance]
  BY <1>1 DEF Score, Base, TypeOK, Instance
<1>6. rows' \in [Docs -> Seq(Note)]
  BY <1>1 DEF Score, Base, TypeOK, Note
<1> QED
  BY <1>2, <1>3, <1>4, <1>5, <1>6 DEF Score, Base, TypeOK, WorkerType

LEMMA BaseNoScore ==
  ASSUME Base, NoScore
  PROVE  Base'
<1>1. worker' \in WorkerType /\ worker.pc = "score" /\ worker'.pc = "finish" /\ worker'.done = worker.done
  BY DEF NoScore, Base, TypeOK, WorkerType, Stage
<1>2. Placed'
  BY <1>1, BaseGoto DEF NoScore
<1> QED
  BY <1>1, <1>2 DEF NoScore, Base, TypeOK, WorkerType

(* The end of a job takes what is marked as executed out of the queue.     *)
LEMMA FinishJobs ==
  ASSUME Base, Finish
  PROVE  /\ jobs' \in Seq(Job)
         /\ \A k \in DOMAIN jobs' : \E i \in DOMAIN jobs : ~jobs[i].mine /\ jobs'[k] = jobs[i]
         /\ \A i \in DOMAIN jobs : ~jobs[i].mine => \E k \in DOMAIN jobs' : jobs'[k] = jobs[i]
<1> DEFINE I == {i \in DOMAIN jobs : ~jobs[i].mine}
<1>1. jobs' = Only(jobs, I) /\ jobs \in Seq(Job) /\ I \in SUBSET DOMAIN jobs
  BY DEF Finish, Base, TypeOK
<1> HIDE DEF I
<1>2. /\ Only(jobs, I) \in Seq(Job)
      /\ \A k \in DOMAIN Only(jobs, I) : \E i \in I : Only(jobs, I)[k] = jobs[i]
      /\ \A i \in I : \E k \in DOMAIN Only(jobs, I) : Only(jobs, I)[k] = jobs[i]
  BY <1>1, OnlyKeeps
<1> QED
  BY <1>1, <1>2 DEF I

LEMMA BaseFinish ==
  ASSUME Base, Finish
  PROVE  Base'
<1>1. /\ worker' \in WorkerType /\ worker'.pc \in {"claim", "pump"}
      /\ worker'.pc = "claim" => worker'.done < JobsPerRound
  <2>1. worker.done \in 0..JobsPerRound /\ worker.done < JobsPerRound /\ JobsPerRound \in Nat
    BY Sizes DEF Finish, Base, TypeOK, Placed
  <2>2. worker.done + 1 \in 0..JobsPerRound /\ {"claim", "pump"} \subseteq Stage
    BY <2>1 DEF Stage
  <2>3. worker \in WorkerType
    BY DEF Base, TypeOK, WorkerType
  <2> QED
    BY <2>2, <2>3 DEF Finish, WorkerType
<1>2. \A k \in DOMAIN jobs' : ~jobs'[k].mine
  BY FinishJobs
<1>3. Placed'
  BY <1>1, <1>2 DEF Placed
<1> QED
  BY <1>1, <1>3, FinishJobs DEF Finish, Base, TypeOK, WorkerType

LEMMA JobUpdates ==
  ASSUME NEW j \in Job
  PROVE  /\ LET k == [j EXCEPT !.mine = FALSE]
            IN  k \in Job /\ k.mine = FALSE /\ k.doc = j.doc /\ k.read = j.read
         /\ j.lease = "held" =>
              LET k == [j EXCEPT !.lease = "lapsed"]
              IN  k \in Job /\ k.mine = j.mine /\ k.doc = j.doc /\ k.read = j.read
BY DEF Job

LEMMA NoteUpdates ==
  ASSUME NEW n \in Note
  PROVE  /\ LET m == [n EXCEPT !.status = "sent"] IN m \in Note /\ m.status = "sent"
         /\ LET m == [n EXCEPT !.today = FALSE] IN m \in Note /\ m.status = n.status
BY DEF Note

LEMMA IdleType == Idle \in WorkerType /\ [Idle EXCEPT !.pc = "down"] \in WorkerType
BY Sizes DEF Idle, WorkerType, Stage

LEMMA SettledRows ==
  ASSUME Base, NEW d \in Docs
  PROVE  /\ Settled(d) \in Seq(Note)
         /\ worker.out[d] # None \/ PendingRows(d) = {} =>
              \A i \in DOMAIN Settled(d) : Settled(d)[i].status # "pending"
<1> DEFINE r == rows[d]
           done == [i \in DOMAIN rows[d] |-> [rows[d][i] EXCEPT !.status = "sent"]]
           I == {i \in DOMAIN done : done[i].today}
           J == DOMAIN rows[d] \ PendingRows(d)
<1>1. rows[d] \in Seq(Note) /\ worker.out[d] \in {None, "sent", "failed"}
  BY DEF Base, TypeOK
<1>2. done \in [1..Len(rows[d]) -> Note] /\ \A i \in DOMAIN done : done[i].status = "sent"
  <2>1. \A i \in DOMAIN rows[d] : rows[d][i] \in Note
    BY <1>1
  <2>2. \A i \in DOMAIN done : done[i] \in Note /\ done[i].status = "sent"
    BY <2>1, NoteUpdates
  <2>3. DOMAIN rows[d] = 1..Len(rows[d])
    BY <1>1
  <2> QED
    BY <2>2, <2>3
<1>3. done \in Seq(Note)
  <2>1. Len(rows[d]) \in Nat
    BY <1>1
  <2> HIDE DEF done
  <2> QED
    BY <1>2, <2>1, SeqOf
<1>4. CASE worker.out[d] = "sent"
  <2>1. Settled(d) = Only(done, I)
    BY <1>4 DEF Settled
  <2>2. I \in SUBSET DOMAIN done
    OBVIOUS
  <2> HIDE DEF I, done
  <2>3. /\ Only(done, I) \in Seq(Note)
        /\ \A k \in DOMAIN Only(done, I) : \E i \in I : Only(done, I)[k] = done[i]
    BY <1>3, <2>2, OnlyKeeps
  <2> QED
    BY <1>2, <2>1, <2>2, <2>3
<1>5. CASE worker.out[d] = "failed"
  <2>1. Settled(d) = Only(rows[d], J)
    BY <1>5 DEF Settled, Silenced
  <2>2. J \in SUBSET DOMAIN rows[d] /\ \A i \in J : rows[d][i].status # "pending"
    BY DEF PendingRows
  <2> HIDE DEF J
  <2>3. /\ Only(rows[d], J) \in Seq(Note)
        /\ \A k \in DOMAIN Only(rows[d], J) : \E i \in J : Only(rows[d], J)[k] = rows[d][i]
    BY <1>1, <2>2, OnlyKeeps
  <2> QED
    BY <2>1, <2>2, <2>3
<1>6. CASE worker.out[d] = None
  <2>1. Settled(d) = rows[d]
    BY <1>6, NoneFresh DEF Settled
  <2> QED
    BY <1>1, <1>6, <2>1 DEF PendingRows
<1> QED
  BY <1>1, <1>4, <1>5, <1>6

LEMMA BasePump ==
  ASSUME Base
  PROVE  /\ PumpCommit => Base'
         /\ \A d \in Docs, outcome \in {"sent", "failed"}, delivered \in BOOLEAN :
              Push(d, outcome, delivered) => Base'
<1>1. ASSUME PumpCommit PROVE Base'
  <2>1. rows' \in [Docs -> Seq(Note)]
    BY <1>1, SettledRows DEF PumpCommit
  <2>2. echoes' \in [Docs -> Nat]
    BY <1>1 DEF PumpCommit, Base, TypeOK
  <2>3. worker' = Idle /\ UNCHANGED jobs /\ worker.pc = "pump"
    BY <1>1 DEF PumpCommit
  <2>4. Placed'
    BY <2>3 DEF Base, Placed, Idle
  <2> QED
    BY <1>1, <2>1, <2>2, <2>3, <2>4, IdleType DEF PumpCommit, Base, TypeOK, WorkerType
<1>2. ASSUME NEW d \in Docs, NEW outcome \in {"sent", "failed"}, NEW delivered \in BOOLEAN,
             Push(d, outcome, delivered)
      PROVE  Base'
  <2>1. worker' \in WorkerType /\ worker'.pc = worker.pc /\ worker'.done = worker.done
    BY <1>2 DEF Push, Base, TypeOK, WorkerType
  <2>2. echoes' \in [Docs -> Nat]
    BY <1>2 DEF Push, Base, TypeOK
  <2>3. Placed'
    BY <1>2, <2>1 DEF Push, Base, Placed
  <2> QED
    BY <1>2, <2>1, <2>2, <2>3 DEF Push, Base, TypeOK, WorkerType
<1> QED
  BY <1>1, <1>2

LEMMA BaseCrash ==
  ASSUME Base, Crash
  PROVE  Base'
<1> DEFINE idle(i) == [jobs[i] EXCEPT !.mine = FALSE]
<1>1. jobs \in Seq(Job) /\ \A i \in DOMAIN jobs : idle(i) \in Job /\ idle(i).mine = FALSE
  <2>1. jobs \in Seq(Job) /\ \A i \in DOMAIN jobs : jobs[i] \in Job
    BY DEF Base, TypeOK
  <2> QED
    BY <2>1, JobUpdates
<1>2. jobs' \in Seq(Job) /\ \A i \in DOMAIN jobs' : ~jobs'[i].mine
  <2>1. jobs' = [i \in DOMAIN jobs |-> idle(i)]
    BY DEF Crash
  <2> HIDE DEF idle
  <2>2. jobs' \in [1..Len(jobs) -> Job] /\ Len(jobs) \in Nat
    BY <1>1, <2>1
  <2> QED
    BY <1>1, <2>1, <2>2
<1>3. Placed'
  BY <1>2 DEF Placed, Crash, Idle
<1>4. crashes' \in 0..MaxCrashes
  BY Sizes DEF Crash, Base, TypeOK
<1> QED
  BY <1>2, <1>3, <1>4, IdleType DEF Crash, Base, TypeOK, WorkerType

LEMMA BaseBoot ==
  ASSUME Base, Boot
  PROVE  Base'
<1>1. \A i \in DOMAIN jobs : Requeued(jobs[i]) \in Job /\ ~Requeued(jobs[i]).mine
  <2> SUFFICES ASSUME NEW i \in DOMAIN jobs PROVE Requeued(jobs[i]) \in Job /\ ~Requeued(jobs[i]).mine
    OBVIOUS
  <2>1. jobs[i] \in Job /\ ~jobs[i].mine
    BY DEF Boot, Base, TypeOK, Placed
  <2>2. NewJob(jobs[i].doc, jobs[i].trigger) \in Job /\ ~NewJob(jobs[i].doc, jobs[i].trigger).mine
    BY <2>1, JobFields, NewJobType DEF NewJob
  <2> QED
    BY <2>1, <2>2 DEF Requeued
<1>2. jobs' \in Seq(Job) /\ \A i \in DOMAIN jobs' : ~jobs'[i].mine
  <2>1. jobs' = [i \in DOMAIN jobs |-> Requeued(jobs[i])] /\ jobs \in Seq(Job)
    BY DEF Boot, Base, TypeOK
  <2>2. jobs' \in [1..Len(jobs) -> Job] /\ Len(jobs) \in Nat
    BY <1>1, <2>1
  <2> QED
    BY <1>1, <2>1, <2>2
<1>3. Placed'
  BY <1>2 DEF Placed, Boot, Idle
<1> QED
  BY <1>2, <1>3, IdleType DEF Boot, Base, TypeOK, WorkerType

LEMMA BaseLapse ==
  ASSUME Base, NEW i \in DOMAIN jobs, LeaseLapse(i)
  PROVE  Base'
<1> DEFINE new == [jobs[i] EXCEPT !.lease = "lapsed"]
<1>1. new \in Job /\ ~new.mine
  <2>1. jobs[i] \in Job /\ jobs[i].lease = "held" /\ ~jobs[i].mine
    BY DEF LeaseLapse, Base, TypeOK
  <2> QED
    BY <2>1, JobUpdates
<1>2. jobs' = [jobs EXCEPT ![i] = new]
  BY DEF LeaseLapse, Base, TypeOK
<1> HIDE DEF new
<1>3. jobs' \in Seq(Job) /\ DOMAIN jobs' = DOMAIN jobs /\ jobs'[i] = new
      /\ \A k \in DOMAIN jobs \ {i} : jobs'[k] = jobs[k]
  BY <1>1, <1>2 DEF Base, TypeOK
<1>4. Placed'
  BY <1>1, <1>3 DEF LeaseLapse, Base, Placed
<1> QED
  BY <1>3, <1>4 DEF LeaseLapse, Base, TypeOK

LEMMA MidnightRows ==
  ASSUME Base, Midnight, NEW d \in Docs
  PROVE  /\ rows'[d] \in Seq(Note)
         /\ PendingRows(d) = {} => \A i \in DOMAIN rows'[d] : rows'[d][i].status # "pending"
<1> DEFINE open == Only(rows[d], PendingRows(d))
<1>1. rows[d] \in Seq(Note) /\ PendingRows(d) \in SUBSET DOMAIN rows[d]
  BY DEF Base, TypeOK, PendingRows
<1>2. open \in Seq(Note) /\ \A k \in DOMAIN open : \E i \in PendingRows(d) : open[k] = rows[d][i]
  BY <1>1, OnlyKeeps
<1>3. rows'[d] = [i \in DOMAIN open |-> [open[i] EXCEPT !.today = FALSE]]
  BY DEF Midnight
<1> HIDE DEF open
<1>4. rows'[d] \in [1..Len(open) -> Note] /\ Len(open) \in Nat
  <2>1. \A i \in DOMAIN open : [open[i] EXCEPT !.today = FALSE] \in Note
    <3>1. \A i \in DOMAIN open : open[i] \in Note
      BY <1>2
    <3> QED BY <3>1, NoteUpdates
  <2> QED BY <1>2, <1>3, <2>1
<1>5. rows'[d] \in Seq(Note) /\ DOMAIN rows'[d] = DOMAIN open
  BY <1>2, <1>3, <1>4, SeqOf
<1>6. PendingRows(d) = {} => DOMAIN open = {}
  BY <1>2
<1> QED
  BY <1>5, <1>6

LEMMA BaseMidnight ==
  ASSUME Base, Midnight
  PROVE  Base'
<1>1. rows' \in [Docs -> Seq(Note)]
  BY MidnightRows DEF Midnight
<1>2. latest' \in [Docs -> Instance]
  BY ZenonT(30) DEF Midnight, Base, TypeOK, Instance
<1>3. Placed'
  BY DEF Midnight, Base, Placed
<1> QED
  BY SMTT(20), ZenonT(30), <1>1, <1>2, <1>3, Sizes DEF Midnight, Base, TypeOK

LEMMA BaseStep == Base /\ [Next]_vars => Base'
<1> SUFFICES ASSUME Base, [Next]_vars PROVE Base'
  OBVIOUS
<1>1. CASE WorkerStep
  BY <1>1, BaseStages, BaseHarvest, BaseClaim, BaseRead, BaseScore, BaseNoScore, BaseFinish, BasePump DEF WorkerStep
<1>2. CASE Crash \/ Boot \/ Midnight \/ \E i \in DOMAIN jobs : LeaseLapse(i)
  BY <1>2, BaseCrash, BaseBoot, BaseMidnight, BaseLapse
<1>3. CASE \E c \in Clients : ClickCommit(c)
  BY <1>3, BaseClickCommit
<1>4. ASSUME NEW d \in Docs,
             \/ \E c \in Contents \cup {None} : Edit(d, c)
             \/ \E adoc \in BOOLEAN : WatchNew(d, adoc)
             \/ SeenAgain(d) \/ Missed(d) \/ Exclude(d)
             \/ \E c \in Clients : ClickRead(c, d)
             \/ \E n \in 1..MaxBatch, located \in BOOLEAN, seen \in {None, "pending", "running"} :
                  ReviewEvents(d, n, located, seen)
             \/ \E located \in BOOLEAN : ModifyEvent(d, located)
             \/ DeleteEvent(d) \/ RestoreEvent(d)
             \/ \E outcome \in {"sent", "failed"}, delivered \in BOOLEAN : Push(d, outcome, delivered)
             \/ WindowRuns(d) \/ WindowCaps(d)
      PROVE  Base'
  BY <1>4, BaseOthers, BaseWatchNew, BaseReviewEvents, BaseDelete, BasePump
<1>5. CASE UNCHANGED vars
  BY <1>5 DEF vars, Base, TypeOK, Placed
<1> QED
  BY <1>1, <1>2, <1>3, <1>4, <1>5 DEF Next

(* Every state is of its type, and the mark of the executed job agrees     *)
(* with the place of the worker.                                           *)
THEOREM Types == Spec => [](TypeOK /\ Placed)
<1>1. Base <=> TypeOK /\ Placed
  BY DEF Base
<1> QED
  BY <1>1, BaseInit, BaseStep, PTL DEF Spec

-----------------------------------------------------------------------------
(* What else keeps the four invariants: who has read the body, which text  *)
(* was scored last, what a deleted document owes, which messages went out  *)
(* since their rows were last written.                                     *)
Downloaded ==
  \A i \in DOMAIN jobs : jobs[i].mine /\ worker.pc \in {"score", "finish"} =>
    jobs[i].read \/ doc[jobs[i].doc].excluded
PrintsAgree == \A d \in Docs : doc[d].print = latest[d].print
OwedIsLive == \A d \in Docs : owed[d] => ~doc[d].deleted
CalmIsKnown == \A d \in Docs : calm[d] => doc[d].known
EchoesBounded == \A d \in Docs : echoes[d] <= crashes + (IF worker.out[d] = None THEN 0 ELSE 1)
DownIsIdle == worker.pc = "down" => \A d \in Docs : worker.out[d] = None

IInv == /\ Base /\ Downloaded /\ PrintsAgree /\ OwedIsLive /\ CalmIsKnown /\ EchoesBounded
        /\ DownIsIdle /\ NoLostEdit /\ QuietAfterDelete /\ NoRepeatScore

LEMMA InvInit == Init => IInv
<1> SUFFICES ASSUME Init PROVE IInv
  OBVIOUS
<1>1. Base
  BY BaseInit
<1>2. \A d \in Docs : doc[d].print = None /\ doc[d].deleted = FALSE
  BY DEF Init
<1> QED
  BY <1>1, <1>2 DEF Init, IInv, Downloaded, PrintsAgree, OwedIsLive, CalmIsKnown, EchoesBounded,
     DownIsIdle, NoLostEdit, QuietAfterDelete, NoRepeatScore, Active, PendingRows, Idle

(* Every job of the queue is still there, read or not as it was; other     *)
(* jobs are new, unread and none of the worker's.                          *)
Grown ==
  /\ jobs' \in Seq(Job) /\ DOMAIN jobs \subseteq DOMAIN jobs'
  /\ \A i \in DOMAIN jobs : jobs'[i] = jobs[i]
  /\ \A i \in DOMAIN jobs' \ DOMAIN jobs : ~jobs'[i].read /\ ~jobs'[i].mine

LEMMA GrownBy ==
  ASSUME Base, NEW new \in Seq(Job), jobs' = jobs \o new, \A i \in DOMAIN new : ~new[i].read /\ ~new[i].mine
  PROVE  /\ Grown
         /\ \A d \in Docs : (\A i \in DOMAIN new : new[i].doc # d) => Active(d)' = Active(d)
         /\ \A i \in DOMAIN new : \E k \in Active(new[i].doc)' : ~jobs'[k].read
<1>1. jobs \in Seq(Job)
  BY DEF Base, TypeOK
<1>2. /\ jobs' \in Seq(Job) /\ DOMAIN jobs \subseteq DOMAIN jobs'
      /\ \A i \in DOMAIN jobs : jobs'[i] = jobs[i]
      /\ \A i \in DOMAIN new : Len(jobs) + i \in DOMAIN jobs' /\ jobs'[Len(jobs) + i] = new[i]
      /\ \A i \in DOMAIN jobs' \ DOMAIN jobs : i - Len(jobs) \in DOMAIN new /\ jobs'[i] = new[i - Len(jobs)]
  BY <1>1, SeqConcat
<1>3. Grown
  BY <1>2 DEF Grown
<1>4. ASSUME NEW d \in Docs, \A i \in DOMAIN new : new[i].doc # d
      PROVE  Active(d)' = Active(d)
  BY <1>2, <1>4 DEF Active
<1>5. \A i \in DOMAIN new : \E k \in Active(new[i].doc)' : ~jobs'[k].read
  BY <1>2 DEF Active
<1> QED
  BY <1>3, <1>4, <1>5

LEMMA GrownByOne ==
  ASSUME Base, NEW d \in Docs, NEW t \in {"auto", "manual_rerun"}, jobs' = Append(jobs, NewJob(d, t))
  PROVE  /\ Grown
         /\ \A e \in Docs \ {d} : Active(e)' = Active(e)
         /\ \E k \in Active(d)' : ~jobs'[k].read
<1> DEFINE new == <<NewJob(d, t)>>
<1>1. NewJob(d, t) \in Job /\ ~NewJob(d, t).mine /\ ~NewJob(d, t).read /\ NewJob(d, t).doc = d
  BY NewJobType DEF NewJob
<1>2. jobs' = jobs \o new /\ new \in Seq(Job) /\ DOMAIN new = {1} /\ new[1] = NewJob(d, t)
  BY SMTT(20), ZenonT(30), <1>1, AppendIsConcat DEF Base, TypeOK
<1> HIDE DEF new
<1> QED
  BY <1>1, <1>2, GrownBy

(* A queue that only grew keeps what the worker and the documents rely on. *)
LEMMA GrownMine ==
  ASSUME Base, Grown, worker.pc \in {"read", "score"}
  PROVE  Mine' = Mine /\ jobs'[Mine] = jobs[Mine] /\ Mine \in DOMAIN jobs
<1>1. Mine \in DOMAIN jobs /\ jobs[Mine].mine
  BY MineIs
<1>2. \A i \in DOMAIN jobs' : jobs'[i].mine <=> i = Mine
  BY <1>1 DEF Base, Placed, Grown
<1>3. Mine' = Mine
  BY <1>1, <1>2 DEF Mine, Grown
<1> QED
  BY <1>1, <1>3 DEF Grown

LEMMA GrownKeeps ==
  ASSUME Base, Grown, NEW d \in Docs
  PROVE  (\E i \in Active(d) : ~jobs[i].read) => \E i \in Active(d)' : ~jobs'[i].read
BY DEF Grown, Active

(* What a step that leaves the worker and the messages alone may do to a   *)
(* document.                                                               *)
Kept(e) ==
  /\ doc'[e].print = doc[e].print /\ latest'[e].print = latest[e].print
  /\ doc[e].excluded => doc'[e].excluded
  /\ doc[e].known => doc'[e].known
  /\ owed'[e] => ~doc'[e].deleted
  /\ calm'[e] => calm[e] /\ doc'[e].due = None /\ Active(e)' = Active(e)
  /\ owed'[e] /\ ~doc'[e].excluded =>
       \/ doc'[e].due # None
       \/ owed[e] /\ doc'[e].due = doc[e].due /\ doc'[e].excluded = doc[e].excluded
       \/ \E i \in Active(e)' : ~jobs'[i].read

LEMMA KeptIsSafe ==
  ASSUME IInv, Base', Grown, UNCHANGED <<worker, rows, echoes, crashes>>, \A e \in Docs : Kept(e)
  PROVE  IInv'
<1>1. Base
  BY DEF IInv
<1>2. Downloaded'
  <2> SUFFICES ASSUME NEW i \in DOMAIN jobs', jobs'[i].mine, worker.pc \in {"score", "finish"}
               PROVE  jobs'[i].read \/ doc'[jobs'[i].doc].excluded
    BY DEF Downloaded
  <2>1. i \in DOMAIN jobs /\ jobs'[i] = jobs[i] /\ jobs[i].doc \in Docs
    BY <1>1, JobFields DEF Grown, Base, TypeOK
  <2> QED
    BY <2>1 DEF IInv, Downloaded, Kept
<1>3. PrintsAgree' /\ OwedIsLive' /\ CalmIsKnown'
  BY DEF IInv, PrintsAgree, OwedIsLive, CalmIsKnown, Kept
<1>4. EchoesBounded' /\ DownIsIdle'
  BY DEF IInv, EchoesBounded, DownIsIdle
<1>5. NoLostEdit'
  <2> SUFFICES ASSUME NEW e \in Docs, owed'[e], ~doc'[e].excluded, doc'[e].due = None
               PROVE  \E i \in Active(e)' : ~jobs'[i].read
    BY DEF NoLostEdit
  <2>1. CASE owed[e] /\ doc'[e].due = doc[e].due /\ doc'[e].excluded = doc[e].excluded
    BY <1>1, <2>1, GrownKeeps DEF IInv, NoLostEdit
  <2> QED
    BY <2>1 DEF Kept
<1>6. QuietAfterDelete'
  BY DEF IInv, QuietAfterDelete, Kept, PendingRows
<1>7. NoRepeatScore'
  <2> SUFFICES ASSUME worker.pc = "score", jobs'[Mine'].trigger = "auto"
               PROVE  worker.text # latest'[jobs'[Mine'].doc].print
    BY DEF NoRepeatScore
  <2>1. Mine' = Mine /\ jobs'[Mine] = jobs[Mine] /\ Mine \in DOMAIN jobs
    BY <1>1, GrownMine
  <2>2. jobs[Mine].doc \in Docs
    BY <1>1, <2>1, JobFields DEF Base, TypeOK
  <2> QED
    BY <2>1, <2>2 DEF IInv, NoRepeatScore, Kept
<1> QED
  BY <1>2, <1>3, <1>4, <1>5, <1>6, <1>7 DEF IInv

(* A document that a step does not touch, and whose jobs it leaves alone.  *)
LEMMA UntouchedIsKept ==
  ASSUME IInv, NEW e \in Docs, doc'[e] = doc[e], latest'[e] = latest[e], owed'[e] = owed[e],
         calm'[e] = calm[e], Active(e)' = Active(e)
  PROVE  Kept(e)
BY DEF Kept, IInv, OwedIsLive, QuietAfterDelete

LEMMA SameJobs ==
  ASSUME Base, UNCHANGED jobs
  PROVE  Grown /\ \A e \in Docs : Active(e)' = Active(e)
BY DEF Grown, Active, Base, TypeOK

LEMMA InvOthers ==
  ASSUME IInv, NEW d \in Docs,
         \/ \E c \in Contents \cup {None} : Edit(d, c)
         \/ SeenAgain(d) \/ Missed(d) \/ Exclude(d) \/ RestoreEvent(d)
         \/ \E located \in BOOLEAN : ModifyEvent(d, located)
         \/ WindowRuns(d) \/ WindowCaps(d)
         \/ \E c \in Clients : ClickRead(c, d)
  PROVE  IInv'
<1>1. UNCHANGED <<jobs, worker, latest, rows, echoes, crashes>>
  BY DEF Edit, SeenAgain, Missed, Exclude, RestoreEvent, ModifyEvent, WindowRuns, WindowCaps, ClickRead
<1>2. Base /\ Base'
  BY BaseOthers DEF IInv
<1>3. Grown /\ \A e \in Docs : Active(e)' = Active(e)
  BY <1>1, <1>2, SameJobs
<1>4. \A e \in Docs \ {d} : Kept(e)
  BY SMTT(20), ZenonT(30), <1>1, <1>2, <1>3, UntouchedIsKept
  DEF Edit, SeenAgain, Missed, Exclude, RestoreEvent, ModifyEvent,
     Routed, WindowRuns, WindowCaps, ClickRead, Base, TypeOK
<1>5. Kept(d)
  <2>1. /\ doc \in [Docs -> Doc] /\ owed \in [Docs -> BOOLEAN] /\ calm \in [Docs -> BOOLEAN]
        /\ owed[d] => ~doc[d].deleted
        /\ calm[d] => doc[d].due = None
    BY <1>2 DEF IInv, Base, TypeOK, OwedIsLive, QuietAfterDelete
  <2>2. doc[d] \in Doc
    BY <2>1
  <2>3. CASE \/ \E c \in Contents \cup {None} : Edit(d, c)
             \/ \E c \in Clients : ClickRead(c, d)
    BY <1>3, <2>3, UntouchedIsKept DEF Edit, ClickRead
  <2>4. CASE SeenAgain(d) \/ RestoreEvent(d)
    BY ZenonT(30), <1>1, <1>3, <2>1, <2>2, <2>4 DEF SeenAgain, RestoreEvent, Present, Doc, Kept
  <2>5. CASE Missed(d)
    BY <1>1, <1>3, <2>1, <2>2, <2>5 DEF Missed, Doc, Kept
  <2>6. CASE Exclude(d)
    BY <1>1, <1>3, <2>1, <2>2, <2>6 DEF Exclude, Doc, Kept
  <2>7. CASE WindowRuns(d)
    <3>1. doc'[d] = [doc[d] EXCEPT !.due = doc[d].due - 1] /\ doc[d].due \in 1..Quiet
      BY <2>1, <2>7 DEF WindowRuns
    <3>2. doc'[d].due # None /\ doc[d].due # None
      BY <2>2, <3>1, NoneFresh, Sizes DEF Doc
    <3> QED
      BY <1>1, <1>3, <2>1, <2>2, <2>7, <3>1, <3>2 DEF WindowRuns, Doc, Kept
  <2>8. CASE WindowCaps(d)
    BY <1>1, <1>3, <2>1, <2>2, <2>8 DEF WindowCaps, Doc, Kept
  <2>9. ASSUME NEW located \in BOOLEAN, ModifyEvent(d, located)
        PROVE  Kept(d)
    <3> DEFINE w == Written(d, located)
    <3>1. w \in Doc /\ w.print = doc[d].print /\ w.excluded = doc[d].excluded /\ w.due = doc[d].due
          /\ (doc[d].known => w.known) /\ w.deleted \in {FALSE, doc[d].deleted}
      BY <2>2, DocUpdates DEF Written, Present, Doc
    <3> HIDE DEF w
    <3>2. CASE doc[d].excluded
      BY <1>1, <1>3, <2>1, <2>9, <3>1, <3>2 DEF ModifyEvent, Kept, w
    <3>3. CASE ~doc[d].excluded
      <4>1. doc'[d] = Open(w, Quiet)
        BY <2>1, <2>9, <3>3 DEF ModifyEvent, w
      <4>2. doc'[d].due = Quiet /\ doc'[d].print = doc[d].print /\ doc'[d].excluded = doc[d].excluded
            /\ (doc[d].known => doc'[d].known)
        BY <3>1, <4>1 DEF Open, Doc
      <4>3. Quiet # None
        BY NoneFresh, Sizes
      <4>4. owed'[d] = ~doc'[d].deleted /\ ~calm'[d]
        BY <2>1, <2>9, <3>3 DEF ModifyEvent, Routed
      <4> QED
        BY <1>1, <4>2, <4>3, <4>4 DEF Kept
    <3> QED BY <3>2, <3>3
  <2> QED
    BY <2>3, <2>4, <2>5, <2>6, <2>7, <2>8, <2>9
<1> QED
  BY <1>1, <1>2, <1>3, <1>4, <1>5, KeptIsSafe

LEMMA InvWatchNew ==
  ASSUME IInv, NEW d \in Docs, NEW adoc \in BOOLEAN, WatchNew(d, adoc)
  PROVE  IInv'
<1>1. Base /\ Base'
  BY BaseWatchNew DEF IInv
<1>2. /\ Grown /\ \A e \in Docs \ {d} : Active(e)' = Active(e)
      /\ jobs' # jobs => \E k \in Active(d)' : ~jobs'[k].read
      /\ jobs' = jobs => Active(d)' = Active(d)
  BY <1>1, SameJobs, GrownByOne DEF WatchNew
<1>3. \A e \in Docs \ {d} : Kept(e)
  BY <1>1, <1>2, UntouchedIsKept DEF WatchNew, Base, TypeOK
<1>4. Kept(d)
  <2>1. doc[d] \in Doc /\ ~doc[d].known /\ doc'[d] = Present(doc[d])
    BY <1>1 DEF WatchNew, Base, TypeOK
  <2>2. /\ doc'[d].known /\ ~doc'[d].deleted /\ doc'[d].due = doc[d].due
        /\ doc'[d].print = doc[d].print /\ doc'[d].excluded = doc[d].excluded
    BY <2>1 DEF Present, Doc
  <2>3. ~calm[d]
    BY <2>1 DEF IInv, CalmIsKnown
  <2> QED
    BY <1>2, <2>2, <2>3 DEF WatchNew, Kept
<1> QED
  BY <1>1, <1>2, <1>3, <1>4, KeptIsSafe DEF WatchNew

LEMMA InvClickCommit ==
  ASSUME IInv, NEW c \in Clients, ClickCommit(c)
  PROVE  IInv'
<1> DEFINE d == click[c].doc
<1>1. Base /\ Base' /\ d \in Docs
  BY BaseClickCommit DEF IInv, ClickCommit, Base, TypeOK
<1>2. CASE jobs' = jobs /\ calm' = calm
  <2>1. Grown /\ \A e \in Docs : Active(e)' = Active(e)
    BY <1>1, <1>2, SameJobs
  <2>2. \A e \in Docs : Kept(e)
    BY <1>2, <2>1, UntouchedIsKept DEF ClickCommit
  <2> QED
    BY <1>1, <2>1, <2>2, KeptIsSafe DEF ClickCommit
<1>3. CASE jobs' = Append(jobs, NewJob(d, "manual_rerun")) /\ calm' = [calm EXCEPT ![d] = FALSE]
  <2>1. Grown /\ \A e \in Docs \ {d} : Active(e)' = Active(e)
    BY <1>1, <1>3, GrownByOne
  <2>2. \A e \in Docs \ {d} : Kept(e)
    BY <1>1, <1>3, <2>1, UntouchedIsKept DEF ClickCommit, Base, TypeOK
  <2>3. ~calm'[d]
    BY <1>1, <1>3 DEF Base, TypeOK
  <2>4. Kept(d)
    BY <1>1, <2>3 DEF ClickCommit, Kept, IInv, OwedIsLive
  <2> QED
    BY <1>1, <2>1, <2>2, <2>4, KeptIsSafe DEF ClickCommit
<1> QED
  BY <1>2, <1>3 DEF ClickCommit

LEMMA InvReviewEvents ==
  ASSUME IInv, NEW d \in Docs, NEW n \in 1..MaxBatch, NEW located \in BOOLEAN,
         NEW seen \in {None, "pending", "running"}, ReviewEvents(d, n, located, seen)
  PROVE  IInv'
<1> DEFINE w == Written(d, located)
           new == [i \in 1..n |-> NewJob(d, "auto")]
<1>1. Base /\ Base' /\ doc[d] \in Doc /\ jobs \in Seq(Job)
  <2>1. Base /\ Base'
    BY BaseReviewEvents DEF IInv
  <2> QED BY <2>1 DEF Base, TypeOK
<1>2. w \in Doc /\ w.print = doc[d].print /\ w.excluded = doc[d].excluded /\ w.due = doc[d].due
      /\ (doc[d].known => w.known) /\ w.deleted \in {FALSE, doc[d].deleted}
  BY <1>1, DocUpdates DEF Written, Present, Doc
<1> HIDE DEF w
<1>3. CASE doc[d].excluded
  <2>1. /\ doc' = [doc EXCEPT ![d] = w]
        /\ UNCHANGED <<jobs, owed, calm, worker, rows, echoes, crashes, latest>>
    BY <1>3 DEF ReviewEvents, w
  <2>2. Grown /\ \A e \in Docs : Active(e)' = Active(e)
    BY <1>1, <2>1, SameJobs
  <2>3. \A e \in Docs \ {d} : Kept(e)
    BY <1>1, <2>1, <2>2, UntouchedIsKept DEF Base, TypeOK
  <2>4. Kept(d)
    BY <1>1, <1>2, <2>1, <2>2 DEF Kept, IInv, OwedIsLive, QuietAfterDelete, Base, TypeOK
  <2> QED
    BY <1>1, <2>1, <2>2, <2>3, <2>4, KeptIsSafe
<1>4. CASE ~doc[d].excluded
  <2>1. /\ doc' = [doc EXCEPT ![d] = IF seen = "running" THEN Open(w, 0) ELSE Closed(w)]
        /\ jobs' = IF seen = None THEN jobs \o new ELSE jobs
        /\ owed' = [owed EXCEPT ![d] = ~doc'[d].deleted]
        /\ calm' = [calm EXCEPT ![d] = FALSE]
        /\ UNCHANGED <<worker, rows, echoes, crashes, latest>>
        /\ seen \in Looked(d)
    BY <1>4 DEF ReviewEvents, Routed, w
  <2>2. /\ Grown /\ \A e \in Docs \ {d} : Active(e)' = Active(e)
        /\ seen = None => \E k \in Active(d)' : ~jobs'[k].read
    <3>1. CASE seen # None
      BY <1>1, <2>1, <3>1, SameJobs
    <3>2. CASE seen = None
      <4>1. NewJob(d, "auto") \in Job /\ ~NewJob(d, "auto").mine /\ ~NewJob(d, "auto").read
            /\ NewJob(d, "auto").doc = d
        BY NewJobType DEF NewJob
      <4>2. DOMAIN new = 1..n /\ \A i \in 1..n : new[i] = NewJob(d, "auto")
        OBVIOUS
      <4>3. new \in [1..n -> Job] /\ n \in Nat
        BY <4>1, Sizes
      <4> HIDE DEF new
      <4>4. new \in Seq(Job) /\ 1 \in DOMAIN new
        BY <4>2, <4>3
      <4>5. jobs' = jobs \o new
        BY <2>1, <3>2
      <4>6. \A i \in DOMAIN new : ~new[i].mine /\ ~new[i].read /\ new[i].doc = d
        BY <4>1, <4>2
      <4> QED
        BY <1>1, <4>4, <4>5, <4>6, GrownBy
    <3> QED BY <3>1, <3>2
  <2>3. \A e \in Docs \ {d} : Kept(e)
    BY <1>1, <2>1, <2>2, UntouchedIsKept DEF Base, TypeOK
  <2>4. doc'[d] = IF seen = "running" THEN Open(w, 0) ELSE Closed(w)
    BY <1>1, <2>1 DEF Base, TypeOK
  <2>5. /\ doc'[d].print = doc[d].print /\ doc'[d].excluded = doc[d].excluded
        /\ doc[d].known => doc'[d].known
        /\ seen = "running" => doc'[d].due = 0
    BY <1>2, <2>4 DEF Open, Closed, Doc
  <2>6. owed'[d] = ~doc'[d].deleted /\ ~calm'[d]
    BY <1>1, <2>1 DEF Base, TypeOK
  <2>7. seen = "running" => doc'[d].due # None
    BY <2>5, NoneFresh, Sizes
  <2>8. seen = "pending" /\ seen # None => \E k \in Active(d)' : ~jobs'[k].read
    <3> SUFFICES ASSUME seen = "pending", seen # None PROVE \E k \in Active(d)' : ~jobs'[k].read
      OBVIOUS
    <3>1. PICK k \in Active(d) : jobs[k].status = "pending"
      BY <2>1 DEF Looked, Statuses
    <3>2. ~jobs[k].read
      BY <1>1, <3>1, JobFields DEF Active
    <3> QED
      BY <2>1, <3>1, <3>2 DEF Active
  <2>9. Kept(d)
    BY <2>1, <2>2, <2>5, <2>6, <2>7, <2>8 DEF Kept
  <2> QED
    BY <1>1, <2>1, <2>2, <2>3, <2>9, KeptIsSafe
<1> QED
  BY <1>3, <1>4

LEMMA InvDelete ==
  ASSUME IInv, NEW d \in Docs, DeleteEvent(d)
  PROVE  IInv'
<1> DEFINE I == DOMAIN jobs \ Active(d)
           J == DOMAIN rows[d] \ PendingRows(d)
<1>1. Base /\ Base' /\ jobs \in Seq(Job) /\ rows[d] \in Seq(Note) /\ doc[d] \in Doc
  BY BaseDelete DEF IInv, Base, TypeOK
<1>2. jobs' = Only(jobs, I) /\ I \in SUBSET DOMAIN jobs /\ \A i \in I : jobs[i].doc # d
  BY DEF DeleteEvent, Cancelled, Active
<1>3. rows'[d] = Only(rows[d], J) /\ J \in SUBSET DOMAIN rows[d] /\ \A i \in J : rows[d][i].status # "pending"
  BY <1>1 DEF DeleteEvent, Silenced, PendingRows, Base, TypeOK
<1>4. /\ \A k \in DOMAIN jobs' : \E i \in I : jobs'[k] = jobs[i]
      /\ \A i \in I : \E k \in DOMAIN jobs' : jobs'[k] = jobs[i]
  <2> HIDE DEF I
  <2> QED BY <1>1, <1>2, OnlyKeeps
<1>5. \A k \in DOMAIN rows'[d] : rows'[d][k].status # "pending"
  <2> HIDE DEF J
  <2>1. \A k \in DOMAIN Only(rows[d], J) : \E i \in J : Only(rows[d], J)[k] = rows[d][i]
    BY <1>1, <1>3, OnlyKeeps
  <2> QED BY <1>3, <2>1
<1>6. Active(d)' = {} /\ PendingRows(d)' = {}
  BY <1>2, <1>4, <1>5 DEF Active, PendingRows
<1>7. /\ worker.pc = "bridge" /\ UNCHANGED <<worker, latest, crashes>>
      /\ ~owed'[d] /\ echoes'[d] = 0
  BY <1>1 DEF DeleteEvent, AtBridge, Base, TypeOK
<1>70. ASSUME NEW e \in Docs \ {d}
       PROVE  /\ doc'[e] = doc[e] /\ owed'[e] = owed[e] /\ calm'[e] = calm[e]
              /\ rows'[e] = rows[e] /\ echoes'[e] = echoes[e]
  BY <1>1 DEF DeleteEvent, Base, TypeOK
<1>8. doc'[d].print = doc[d].print /\ doc'[d].due = None /\ doc'[d].known
  BY <1>1 DEF DeleteEvent, Closed, Doc, Base, TypeOK
<1>9. \A e \in Docs \ {d} : /\ Active(e) = {} => Active(e)' = {}
                            /\ (\E i \in Active(e) : ~jobs[i].read) => \E i \in Active(e)' : ~jobs'[i].read
  <2> SUFFICES ASSUME NEW e \in Docs \ {d}
               PROVE  /\ Active(e) = {} => Active(e)' = {}
                      /\ (\E i \in Active(e) : ~jobs[i].read) => \E i \in Active(e)' : ~jobs'[i].read
    OBVIOUS
  <2>1. Active(e) \subseteq I
    BY DEF Active
  <2> HIDE DEF I
  <2> QED
    BY <1>2, <1>4, <2>1 DEF Active
<1>10. NoLostEdit'
  <2> SUFFICES ASSUME NEW e \in Docs, owed'[e], ~doc'[e].excluded, doc'[e].due = None
               PROVE  \E i \in Active(e)' : ~jobs'[i].read
    BY DEF NoLostEdit
  <2>1. e # d
    BY <1>7
  <2> QED
    BY <1>70, <1>9, <2>1 DEF IInv, NoLostEdit
<1>11. QuietAfterDelete'
  <2> SUFFICES ASSUME NEW e \in Docs, calm'[e]
               PROVE  Active(e)' = {} /\ doc'[e].due = None /\ PendingRows(e)' = {}
    BY DEF QuietAfterDelete
  <2>1. CASE e = d
    BY <1>6, <1>8, <2>1
  <2>2. CASE e # d
    BY <1>70, <1>9, <2>2 DEF IInv, QuietAfterDelete, PendingRows
  <2> QED BY <2>1, <2>2
<1>12. PrintsAgree' /\ OwedIsLive' /\ CalmIsKnown'
  <2>1. \A e \in Docs : doc'[e].print = doc[e].print /\ latest'[e] = latest[e]
    BY <1>7, <1>70, <1>8
  <2>2. \A e \in Docs : (owed'[e] => ~doc'[e].deleted) /\ (calm'[e] => doc'[e].known)
    BY <1>7, <1>70, <1>8 DEF IInv, OwedIsLive, CalmIsKnown
  <2> QED
    BY <2>1, <2>2 DEF IInv, PrintsAgree, OwedIsLive, CalmIsKnown
<1>13. EchoesBounded'
  <2> SUFFICES ASSUME NEW e \in Docs
               PROVE  echoes'[e] <= crashes + (IF worker.out[e] = None THEN 0 ELSE 1)
    BY <1>7 DEF EchoesBounded
  <2>1. crashes \in Nat
    BY <1>1, Sizes DEF Base, TypeOK
  <2>2. CASE e = d
    BY <1>7, <2>1, <2>2
  <2>3. CASE e # d
    BY <1>70, <2>3 DEF IInv, EchoesBounded
  <2> QED
    BY <2>2, <2>3
<1>14. Downloaded' /\ NoRepeatScore' /\ DownIsIdle'
  BY <1>7 DEF Downloaded, NoRepeatScore, DownIsIdle
<1> QED
  BY <1>1, <1>10, <1>11, <1>12, <1>13, <1>14 DEF IInv

(* A step of the worker that writes no row: it only walks.                 *)
LEMMA InvStages ==
  ASSUME IInv, BridgeDone \/ NothingPending \/ SkipGated \/ NoScore
  PROVE  IInv'
<1>1. Base /\ Base'
  BY BaseStages, BaseNoScore DEF IInv
<1>2. UNCHANGED <<doc, jobs, latest, rows, owed, calm, echoes, crashes>> /\ worker'.out = worker.out
      /\ worker'.pc \in {"harvest", "pump", "finish"}
  BY <1>1 DEF BridgeDone, NothingPending, SkipGated, NoScore, Goto, Base, TypeOK
<1>3. PrintsAgree' /\ OwedIsLive' /\ CalmIsKnown' /\ EchoesBounded' /\ NoLostEdit' /\ QuietAfterDelete'
  BY <1>2 DEF IInv, PrintsAgree, OwedIsLive, CalmIsKnown, EchoesBounded, NoLostEdit, QuietAfterDelete,
     Active, PendingRows
<1>4. NoRepeatScore' /\ DownIsIdle'
  BY <1>2 DEF NoRepeatScore, DownIsIdle
<1>5. Downloaded'
  <2>1. CASE worker'.pc # "finish"
    BY <1>2, <2>1 DEF Downloaded
  <2>2. CASE NoScore
    BY <1>2, <2>2 DEF NoScore, IInv, Downloaded
  <2>3. CASE SkipGated
    <3>1. \A i \in DOMAIN jobs : jobs[i].mine => Mine = i
      BY <1>1, MineIs
    <3>2. doc[jobs[Mine].doc].excluded
      BY <2>3 DEF SkipGated, Gated
    <3> QED
      BY <1>2, <3>1, <3>2 DEF Downloaded
  <2> QED
    BY <1>1, <2>1, <2>2, <2>3 DEF BridgeDone, NothingPending, Goto, Base, TypeOK
<1> QED
  BY <1>1, <1>3, <1>4, <1>5 DEF IInv

LEMMA InvHarvest ==
  ASSUME IInv, NEW seen \in [Docs -> {None, "pending", "running"}], Harvest(seen)
  PROVE  IInv'
<1> DEFINE ready == {d \in Docs : Harvestable(d)}
           fresh == {d \in ready : Wants(d, seen[d])}
<1>1. Base /\ Base'
  BY BaseHarvest DEF IInv
<1>2. PICK order \in [1..Cardinality(fresh) -> fresh] :
        /\ \A d \in fresh : \E i \in DOMAIN order : order[i] = d
        /\ jobs' = jobs \o [i \in DOMAIN order |-> NewJob(order[i], "auto")]
  BY DEF Harvest
<1>3. fresh \subseteq Docs /\ Cardinality(fresh) \in Nat
  BY Sizes, FS_Subset, FS_CardinalityType
<1>4. /\ \A d \in Docs : seen[d] \in Looked(d)
      /\ doc' = [d \in Docs |-> IF d \in ready /\ ~Keeps(d, seen[d]) THEN Closed(doc[d]) ELSE doc[d]]
      /\ UNCHANGED <<latest, rows, owed, calm, echoes, crashes>>
      /\ worker' = [worker EXCEPT !.pc = "claim", !.done = 0]
  BY DEF Harvest
<1>5. \A d \in fresh : d \in Docs /\ Harvestable(d) /\ Wants(d, seen[d])
  OBVIOUS
<1>6. \A d \in Docs : Harvestable(d) /\ Wants(d, seen[d]) => d \in fresh
  OBVIOUS
<1>7. \A d \in Docs : doc'[d] = IF Harvestable(d) /\ ~Keeps(d, seen[d]) THEN Closed(doc[d]) ELSE doc[d]
  BY <1>4
<1> HIDE DEF fresh, ready
<1> DEFINE new == [i \in DOMAIN order |-> NewJob(order[i], "auto")]
<1>8. \A i \in DOMAIN new : new[i] \in Job /\ ~new[i].mine /\ ~new[i].read /\ new[i].doc = order[i]
  BY <1>3, NewJobType DEF NewJob
<1>9. new \in Seq(Job)
  <2>1. new \in [1..Cardinality(fresh) -> Job]
    BY <1>8
  <2> HIDE DEF new
  <2> QED BY <1>3, <2>1, SeqOf
<1>10. jobs' = jobs \o new /\ DOMAIN new = DOMAIN order
  BY <1>2
<1> HIDE DEF new
<1>11. /\ Grown
       /\ \A d \in Docs : (\A i \in DOMAIN new : new[i].doc # d) => Active(d)' = Active(d)
       /\ \A i \in DOMAIN new : \E k \in Active(new[i].doc)' : ~jobs'[k].read
  BY <1>1, <1>8, <1>9, <1>10, GrownBy
<1>12. \A d \in Docs : d \notin fresh => Active(d)' = Active(d)
  <2>1. \A i \in DOMAIN new : new[i].doc \in fresh
    BY <1>8, <1>10
  <2> SUFFICES ASSUME NEW d \in Docs, d \notin fresh PROVE Active(d)' = Active(d)
    OBVIOUS
  <2>2. \A i \in DOMAIN new : new[i].doc # d
    BY <2>1
  <2> QED BY <1>11, <2>2
<1>13. \A d \in fresh : \E k \in Active(d)' : ~jobs'[k].read
  <2> SUFFICES ASSUME NEW d \in fresh PROVE \E k \in Active(d)' : ~jobs'[k].read
    OBVIOUS
  <2>1. PICK i \in DOMAIN order : order[i] = d
    BY <1>2
  <2>2. i \in DOMAIN new /\ new[i].doc = d
    BY <1>8, <1>10, <2>1
  <2> QED BY <1>11, <2>2
<1>14. ASSUME NEW d \in Docs
       PROVE  /\ doc[d] \in Doc
              /\ doc'[d].print = doc[d].print /\ doc'[d].excluded = doc[d].excluded
              /\ doc'[d].deleted = doc[d].deleted /\ doc'[d].known = doc[d].known
              /\ doc[d].due = None => doc'[d].due = None /\ d \notin fresh
  <2>1. doc[d] \in Doc
    BY <1>1 DEF Base, TypeOK
  <2>2. doc'[d] = Closed(doc[d]) \/ doc'[d] = doc[d]
    BY <1>7
  <2>3. d \in fresh => doc[d].due # None
    BY <1>5 DEF Harvestable
  <2>4. LET c == Closed(doc[d])
        IN  /\ c.print = doc[d].print /\ c.excluded = doc[d].excluded
            /\ c.deleted = doc[d].deleted /\ c.known = doc[d].known /\ c.due = None
    BY <2>1 DEF Closed, Doc
  <2> QED
    BY <2>1, <2>2, <2>3, <2>4
<1>15. ASSUME NEW d \in Docs, owed[d], ~doc[d].excluded, doc'[d].due = None
       PROVE  \E k \in Active(d)' : ~jobs'[k].read
  <2>1. CASE doc[d].due = None
    BY <1>1, <1>11, <1>15, <2>1, GrownKeeps DEF IInv, NoLostEdit
  <2>2. CASE doc[d].due # None
    <3>1. doc'[d] # doc[d] /\ ~doc[d].deleted
      BY <1>15, <2>2 DEF IInv, OwedIsLive
    <3>2. Harvestable(d) /\ seen[d] # "running"
      BY <1>7, <3>1 DEF Keeps
    <3>3. CASE seen[d] = None
      BY <1>6, <1>13, <3>1, <3>2, <3>3 DEF Wants
    <3>4. CASE seen[d] # None
      <4>1. seen[d] = "pending"
        BY <3>2, <3>4
      <4>2. PICK k \in Active(d) : jobs[k].status = "pending"
        BY <1>4, <3>4, <4>1 DEF Looked, Statuses
      <4>3. ~jobs[k].read
        BY <1>1, <4>2, JobFields DEF Active, Base, TypeOK
      <4> QED
        BY <1>1, <1>11, <4>2, <4>3, GrownKeeps
    <3> QED BY <3>3, <3>4
  <2> QED BY <2>1, <2>2
<1>16. NoLostEdit'
  BY <1>4, <1>14, <1>15 DEF NoLostEdit
<1>17. QuietAfterDelete'
  <2> SUFFICES ASSUME NEW d \in Docs, calm[d]
               PROVE  Active(d)' = {} /\ doc'[d].due = None /\ PendingRows(d)' = {}
    BY <1>4 DEF QuietAfterDelete
  <2>1. Active(d) = {} /\ doc[d].due = None /\ PendingRows(d) = {}
    BY DEF IInv, QuietAfterDelete
  <2> QED
    BY <1>4, <1>12, <1>14, <2>1 DEF PendingRows
<1>18. PrintsAgree' /\ OwedIsLive' /\ CalmIsKnown'
  BY <1>4, <1>14 DEF IInv, PrintsAgree, OwedIsLive, CalmIsKnown
<1>19. worker'.pc = "claim" /\ worker'.out = worker.out
  BY <1>1, <1>4 DEF Base, TypeOK
<1>20. Downloaded' /\ NoRepeatScore' /\ EchoesBounded' /\ DownIsIdle'
  BY <1>4, <1>19 DEF IInv, Downloaded, DownIsIdle, NoRepeatScore, EchoesBounded
<1> QED
  BY <1>1, <1>16, <1>17, <1>18, <1>20 DEF IInv

(* The queue after a step that rewrites its jobs in place: same documents, *)
(* and what was unread stays unread, except for the documents in S.        *)
Rewritten(S) ==
  /\ DOMAIN jobs' = DOMAIN jobs
  /\ \A i \in DOMAIN jobs : jobs'[i].doc = jobs[i].doc
  /\ \A i \in DOMAIN jobs : jobs[i].doc \notin S /\ ~jobs[i].read => ~jobs'[i].read

LEMMA RewrittenKeeps ==
  ASSUME IInv, NEW S, Rewritten(S), UNCHANGED <<doc, rows, calm>>,
         \A d \in Docs : owed'[d] => owed[d] /\ d \notin S
  PROVE  NoLostEdit' /\ QuietAfterDelete' /\ OwedIsLive' /\ CalmIsKnown'
<1>1. \A d \in Docs : Active(d)' = Active(d)
  BY DEF Rewritten, Active
<1>2. ASSUME NEW d \in Docs, owed'[d], ~doc[d].excluded, doc[d].due = None
      PROVE  \E i \in Active(d)' : ~jobs'[i].read
  <2>1. PICK i \in Active(d) : ~jobs[i].read
    BY <1>2 DEF IInv, NoLostEdit
  <2> QED
    BY <1>1, <1>2, <2>1 DEF Rewritten, Active
<1> QED
  BY <1>1, <1>2 DEF IInv, NoLostEdit, QuietAfterDelete, OwedIsLive, CalmIsKnown, PendingRows

LEMMA InvClaim ==
  ASSUME IInv, Claim
  PROVE  IInv'
<1> DEFINE first == CHOOSE i \in PendingJobs : \A j \in PendingJobs : i <= j
<1>1. Base /\ Base'
  BY BaseClaim DEF IInv
<1>2. /\ jobs' = [jobs EXCEPT ![first].status = "running", ![first].lease = "held", ![first].mine = TRUE]
      /\ worker' = [worker EXCEPT !.pc = "read"]
      /\ UNCHANGED <<doc, latest, rows, owed, calm, echoes, crashes>>
  BY DEF Claim, Goto
<1> HIDE DEF first
<1>3. Rewritten({})
  <2>1. jobs \in Seq(Job)
    BY <1>1 DEF Base, TypeOK
  <2>2. DOMAIN jobs' = DOMAIN jobs /\ \A i \in DOMAIN jobs : jobs[i] \in Job
    BY <1>2, <2>1
  <2>3. \A i \in DOMAIN jobs :
          \/ jobs'[i] = jobs[i]
          \/ jobs'[i] = [jobs[i] EXCEPT !.status = "running", !.lease = "held", !.mine = TRUE]
    BY <1>2, <2>1
  <2>4. \A j \in Job : LET k == [j EXCEPT !.status = "running", !.lease = "held", !.mine = TRUE]
                       IN  k.doc = j.doc /\ k.read = j.read
    BY DEF Job
  <2> QED
    BY <2>2, <2>3, <2>4 DEF Rewritten
<1>4. NoLostEdit' /\ QuietAfterDelete' /\ OwedIsLive' /\ CalmIsKnown'
  BY <1>2, <1>3, RewrittenKeeps
<1>5. worker'.pc = "read" /\ worker'.out = worker.out
  BY <1>1, <1>2 DEF Base, TypeOK
<1>6. PrintsAgree' /\ Downloaded' /\ NoRepeatScore' /\ EchoesBounded' /\ DownIsIdle'
  BY <1>2, <1>5 DEF IInv, DownIsIdle, PrintsAgree, Downloaded, NoRepeatScore, EchoesBounded
<1> QED
  BY <1>1, <1>4, <1>6 DEF IInv

LEMMA InvRead ==
  ASSUME IInv, NEW c \in Contents \cup {None}, Read(c)
  PROVE  IInv'
<1> DEFINE m == Mine
           d == jobs[m].doc
           new == [jobs[m] EXCEPT !.read = TRUE]
<1>1. Base /\ Base' /\ worker.pc = "read"
  BY BaseRead DEF IInv, Read
<1>2. /\ m \in DOMAIN jobs /\ jobs[m].mine /\ jobs[m] \in Job /\ jobs \in Seq(Job)
      /\ \A i \in DOMAIN jobs : jobs[i].mine => i = m
  BY <1>1, MineIs DEF Base, TypeOK
<1>3. /\ worker' = [worker EXCEPT !.text = c,
                      !.pc = IF c = None \/ Unchanged(jobs[m], c) THEN "finish" ELSE "score"]
      /\ owed' = [owed EXCEPT ![d] = FALSE]
      /\ UNCHANGED <<doc, latest, rows, calm, echoes, crashes>>
      /\ jobs' = [jobs EXCEPT ![m] = new]
  BY <1>2 DEF Read
<1>4. d \in Docs /\ new.doc = d /\ new.mine /\ new.read /\ new.trigger = jobs[m].trigger
  BY <1>2, JobFields DEF Job
<1> HIDE DEF m, new
<1>5. /\ DOMAIN jobs' = DOMAIN jobs /\ jobs'[m] = new
      /\ \A i \in DOMAIN jobs \ {m} : jobs'[i] = jobs[i]
  BY <1>2, <1>3
<1>6. Rewritten({d})
  BY <1>4, <1>5 DEF Rewritten
<1>7. \A e \in Docs : owed'[e] => owed[e] /\ e \notin {d}
  BY <1>1, <1>3, <1>4 DEF Base, TypeOK
<1>8. NoLostEdit' /\ QuietAfterDelete' /\ OwedIsLive' /\ CalmIsKnown'
  BY <1>3, <1>6, <1>7, RewrittenKeeps
<1>9. /\ worker'.text = c /\ worker'.out = worker.out
      /\ worker'.pc = IF c = None \/ Unchanged(jobs[m], c) THEN "finish" ELSE "score"
  BY <1>1, <1>3 DEF Base, TypeOK
<1>10. Downloaded'
  BY <1>2, <1>4, <1>5 DEF Downloaded
<1>11. Mine' = m
  <2>1. \A i \in DOMAIN jobs' : jobs'[i].mine <=> i = m
    BY <1>2, <1>4, <1>5
  <2> QED
    BY <1>2, <1>5, <2>1 DEF Mine
<1>12. NoRepeatScore'
  <2> SUFFICES ASSUME worker'.pc = "score", new.trigger = "auto"
               PROVE  c # latest[d].print
    BY <1>3, <1>4, <1>5, <1>9, <1>11 DEF NoRepeatScore
  <2>1. ~Unchanged(jobs[m], c) /\ jobs[m].trigger = "auto"
    BY <1>4, <1>9
  <2> QED
    BY <1>4, <2>1 DEF Unchanged, IInv, PrintsAgree
<1>13. PrintsAgree' /\ EchoesBounded' /\ DownIsIdle'
  BY <1>3, <1>9 DEF IInv, DownIsIdle, PrintsAgree, EchoesBounded
<1> QED
  BY <1>1, <1>8, <1>10, <1>12, <1>13 DEF IInv

LEMMA InvScore ==
  ASSUME IInv, NEW verdict \in Verdict, NEW drop \in BOOLEAN, NEW allowed \in BOOLEAN,
         Score(verdict, drop, allowed)
  PROVE  IInv'
<1> DEFINE m == Mine
           d == jobs[m].doc
<1>1. Base /\ Base' /\ worker.pc = "score"
  BY BaseScore DEF IInv, Score
<1>2. /\ m \in DOMAIN jobs /\ jobs[m].mine /\ jobs[m] \in Job /\ d \in Docs
      /\ \A i \in DOMAIN jobs : jobs[i].mine => i = m
  BY <1>1, MineIs, JobFields DEF Base, TypeOK
<1>3. /\ doc' = [doc EXCEPT ![d].print = worker.text]
      /\ worker' = [worker EXCEPT !.pc = "finish", !.text = None]
      /\ \E n \in BOOLEAN : latest' = [latest EXCEPT ![d] = [verdict |-> verdict, print |-> worker.text, newToday |-> n]]
      /\ \/ rows' = rows
         \/ \E row : rows' = [rows EXCEPT ![d] = Append(@, row)]
      /\ UNCHANGED <<jobs, owed, calm, echoes, crashes>>
  <2>1. latest[d].newToday \/ (latest[d].verdict = None) \in BOOLEAN
    OBVIOUS
  <2> QED BY <1>1, <1>2 DEF Score, Scored, Base, TypeOK
<1> HIDE DEF m
<1>4. /\ doc'[d].print = worker.text /\ latest'[d].print = worker.text
      /\ \A e \in Docs \ {d} : doc'[e] = doc[e] /\ latest'[e] = latest[e] /\ rows'[e] = rows[e]
      /\ worker'.pc = "finish" /\ worker'.out = worker.out
  BY SMTT(20), ZenonT(30), <1>1, <1>2, <1>3 DEF Base, TypeOK
<1>5. /\ doc'[d].due = doc[d].due /\ doc'[d].deleted = doc[d].deleted
      /\ doc'[d].known = doc[d].known /\ doc'[d].excluded = doc[d].excluded
  <2>1. doc[d] \in Doc
    BY <1>1, <1>2 DEF Base, TypeOK
  <2>2. doc'[d] = [doc[d] EXCEPT !.print = worker.text]
    BY <1>1, <1>2, <1>3 DEF Base, TypeOK
  <2> QED BY <2>1, <2>2 DEF Doc
<1>6. ~calm[d]
  BY <1>2 DEF IInv, QuietAfterDelete, Active
<1>7. \A e \in Docs : /\ doc'[e].due = doc[e].due /\ doc'[e].deleted = doc[e].deleted
                      /\ doc'[e].known = doc[e].known /\ doc'[e].excluded = doc[e].excluded
                      /\ doc'[e].print = latest'[e].print
  BY <1>4, <1>5 DEF IInv, PrintsAgree
<1>8. NoLostEdit' /\ OwedIsLive' /\ CalmIsKnown' /\ PrintsAgree'
  BY <1>3, <1>7 DEF IInv, NoLostEdit, OwedIsLive, CalmIsKnown, PrintsAgree, Active
<1>9. QuietAfterDelete'
  <2> SUFFICES ASSUME NEW e \in Docs, calm[e]
               PROVE  Active(e)' = {} /\ doc'[e].due = None /\ PendingRows(e)' = {}
    BY <1>3 DEF QuietAfterDelete
  <2>1. e # d
    BY <1>6
  <2> QED
    BY <1>3, <1>4, <2>1 DEF IInv, QuietAfterDelete, Active, PendingRows
<1>10. Downloaded'
  <2>1. \A i \in DOMAIN jobs : jobs[i].mine => jobs[i].read \/ doc[jobs[i].doc].excluded
    BY <1>1 DEF IInv, Downloaded
  <2> QED
    BY <1>2, <1>3, <1>7, <2>1 DEF Downloaded
<1>11. NoRepeatScore' /\ EchoesBounded' /\ DownIsIdle'
  BY <1>3, <1>4 DEF IInv, DownIsIdle, NoRepeatScore, EchoesBounded
<1> QED
  BY <1>1, <1>8, <1>9, <1>10, <1>11 DEF IInv

LEMMA InvFinish ==
  ASSUME IInv, Finish
  PROVE  IInv'
<1>1. Base /\ Base' /\ worker.pc = "finish"
  BY BaseFinish DEF IInv, Finish
<1>2. UNCHANGED <<doc, latest, rows, owed, calm, echoes, crashes>> /\ worker'.out = worker.out
      /\ worker'.pc \in {"claim", "pump"}
  BY <1>1 DEF Finish, Base, TypeOK
<1>3. /\ \A k \in DOMAIN jobs' : \E i \in DOMAIN jobs : ~jobs[i].mine /\ jobs'[k] = jobs[i]
      /\ \A i \in DOMAIN jobs : ~jobs[i].mine => \E k \in DOMAIN jobs' : jobs'[k] = jobs[i]
  BY <1>1, FinishJobs
<1>4. ASSUME NEW d \in Docs, owed[d], ~doc[d].excluded, doc[d].due = None
      PROVE  \E i \in Active(d)' : ~jobs'[i].read
  <2>1. PICK i \in Active(d) : ~jobs[i].read
    BY <1>4 DEF IInv, NoLostEdit
  <2>2. i \in DOMAIN jobs /\ jobs[i].doc = d
    BY DEF Active
  <2>3. ~jobs[i].mine
    BY <1>1, <1>4, <2>1, <2>2 DEF IInv, Downloaded
  <2>4. PICK k \in DOMAIN jobs' : jobs'[k] = jobs[i]
    BY <1>3, <2>2, <2>3
  <2> QED
    BY <2>1, <2>2, <2>4 DEF Active
<1>5. NoLostEdit'
  BY <1>2, <1>4 DEF NoLostEdit
<1>6. \A d \in Docs : Active(d) = {} => Active(d)' = {}
  BY <1>3 DEF Active
<1>7. QuietAfterDelete'
  BY <1>2, <1>6 DEF IInv, QuietAfterDelete, PendingRows
<1>8. Downloaded' /\ PrintsAgree' /\ OwedIsLive' /\ CalmIsKnown' /\ EchoesBounded' /\ NoRepeatScore'
      /\ DownIsIdle'
  BY <1>2 DEF IInv, DownIsIdle, Downloaded, PrintsAgree, OwedIsLive, CalmIsKnown, EchoesBounded, NoRepeatScore
<1> QED
  BY <1>1, <1>5, <1>7, <1>8 DEF IInv

LEMMA InvPush ==
  ASSUME IInv, NEW d \in Docs, NEW outcome \in {"sent", "failed"}, NEW delivered \in BOOLEAN,
         Push(d, outcome, delivered)
  PROVE  IInv'
<1>1. Base /\ Base' /\ worker.pc = "pump" /\ worker.out[d] = None /\ echoes \in [Docs -> Nat]
  <2>1. Base /\ Base'
    BY BasePump DEF IInv
  <2> QED BY <2>1 DEF Push, Base, TypeOK
<1>2. /\ UNCHANGED <<doc, jobs, latest, rows, owed, calm, crashes>> /\ worker'.pc = "pump"
      /\ worker'.out = [worker.out EXCEPT ![d] = outcome]
      /\ echoes' = echoes \/ echoes' = [echoes EXCEPT ![d] = @ + 1]
  BY <1>1 DEF Push, Base, TypeOK
<1>3. EchoesBounded'
  <2> SUFFICES ASSUME NEW e \in Docs
               PROVE  echoes'[e] <= crashes + (IF worker'.out[e] = None THEN 0 ELSE 1)
    BY <1>2 DEF EchoesBounded
  <2>1. crashes \in Nat /\ echoes[e] \in Nat /\ worker.out \in [Docs -> {None, "sent", "failed"}]
    BY <1>1, Sizes DEF Base, TypeOK
  <2>2. echoes[e] <= crashes + (IF worker.out[e] = None THEN 0 ELSE 1)
    BY DEF IInv, EchoesBounded
  <2>3. CASE e = d
    <3>1. worker'.out[e] # None
      BY <1>2, <2>1, <2>3, NoneFresh
    <3>2. echoes'[e] <= echoes[e] + 1
      BY <1>1, <1>2, <2>1, <2>3
    <3>3. echoes[e] <= crashes /\ echoes'[e] \in Nat
      BY <1>1, <1>2, <2>1, <2>2, <2>3
    <3> QED BY <2>1, <3>1, <3>2, <3>3
  <2>4. CASE e # d
    BY <1>1, <1>2, <2>1, <2>2, <2>4
  <2> QED BY <2>3, <2>4
<1>4. Downloaded' /\ PrintsAgree' /\ OwedIsLive' /\ CalmIsKnown' /\ NoRepeatScore'
      /\ NoLostEdit' /\ QuietAfterDelete' /\ DownIsIdle'
  BY <1>2 DEF IInv, DownIsIdle, Downloaded, PrintsAgree, OwedIsLive, CalmIsKnown, NoRepeatScore, NoLostEdit,
     QuietAfterDelete, Active, PendingRows
<1> QED
  BY <1>1, <1>3, <1>4 DEF IInv

LEMMA InvPumpCommit ==
  ASSUME IInv, PumpCommit
  PROVE  IInv'
<1>1. Base /\ Base'
  BY BasePump DEF IInv
<1>2. /\ UNCHANGED <<doc, jobs, latest, owed, calm, crashes>>
      /\ worker' = Idle /\ worker'.pc = "bridge" /\ \A d \in Docs : worker'.out[d] = None
      /\ \A d \in Docs : rows'[d] = Settled(d)
      /\ \A d \in Docs : echoes'[d] = IF \E i \in DOMAIN rows'[d] : rows'[d][i].status = "pending"
                                      THEN echoes[d] ELSE 0
  BY DEF PumpCommit, Idle
<1>3. \A d \in Docs : worker.out[d] # None \/ PendingRows(d) = {} =>
        \A i \in DOMAIN rows'[d] : rows'[d][i].status # "pending"
  BY <1>1, <1>2, SettledRows
<1>4. EchoesBounded'
  <2> SUFFICES ASSUME NEW d \in Docs PROVE echoes'[d] <= crashes + 0
    BY <1>2 DEF EchoesBounded
  <2>1. crashes \in Nat /\ echoes[d] \in Nat
    BY <1>1, Sizes DEF Base, TypeOK
  <2>2. CASE worker.out[d] = None
    BY <1>2, <2>1, <2>2 DEF IInv, EchoesBounded
  <2>3. CASE worker.out[d] # None
    BY <1>2, <1>3, <2>1, <2>3
  <2> QED BY <2>2, <2>3
<1>5. QuietAfterDelete'
  <2> SUFFICES ASSUME NEW d \in Docs, calm[d]
               PROVE  Active(d)' = {} /\ doc'[d].due = None /\ PendingRows(d)' = {}
    BY <1>2 DEF QuietAfterDelete
  <2> QED
    BY <1>2, <1>3 DEF IInv, QuietAfterDelete, Active, PendingRows
<1>6. Downloaded' /\ PrintsAgree' /\ OwedIsLive' /\ CalmIsKnown' /\ NoRepeatScore' /\ NoLostEdit'
      /\ DownIsIdle'
  BY <1>2 DEF IInv, DownIsIdle, Downloaded, PrintsAgree, OwedIsLive, CalmIsKnown, NoRepeatScore, NoLostEdit, Active
<1> QED
  BY <1>1, <1>4, <1>5, <1>6 DEF IInv

LEMMA InvRestart ==
  ASSUME IInv, Crash \/ Boot
  PROVE  IInv'
<1>1. Base /\ Base'
  BY BaseCrash, BaseBoot DEF IInv
<1>2. /\ UNCHANGED <<doc, latest, rows, owed, calm, echoes>>
      /\ worker'.pc \in {"down", "bridge"} /\ \A d \in Docs : worker'.out[d] = None
  BY DEF Crash, Boot, Idle
<1>3. Rewritten({})
  <2>1. jobs \in Seq(Job)
    BY <1>1 DEF Base, TypeOK
  <2>2. \A i \in DOMAIN jobs : jobs[i] \in Job
    BY <2>1
  <2>3. CASE Crash
    BY <2>2, <2>3, JobUpdates DEF Crash, Rewritten
  <2>4. CASE Boot
    <3>1. DOMAIN jobs' = DOMAIN jobs /\ \A i \in DOMAIN jobs : jobs'[i] = Requeued(jobs[i])
      BY <2>4 DEF Boot
    <3>2. \A i \in DOMAIN jobs : Requeued(jobs[i]).doc = jobs[i].doc
                                 /\ (~jobs[i].read => ~Requeued(jobs[i]).read)
      BY DEF Requeued, NewJob
    <3> QED BY <3>1, <3>2 DEF Rewritten
  <2> QED BY <2>3, <2>4
<1>4. NoLostEdit' /\ QuietAfterDelete' /\ OwedIsLive' /\ CalmIsKnown'
  BY <1>2, <1>3, RewrittenKeeps
<1>5. EchoesBounded'
  <2> SUFFICES ASSUME NEW d \in Docs PROVE echoes[d] <= crashes'
    <3>1. crashes' \in Nat
      BY <1>1, Sizes DEF Base, TypeOK
    <3> QED BY <1>2, <3>1 DEF EchoesBounded
  <2>1. crashes \in Nat /\ echoes[d] \in Nat
    BY <1>1, Sizes DEF Base, TypeOK
  <2>2. echoes[d] <= crashes + (IF worker.out[d] = None THEN 0 ELSE 1)
    BY DEF IInv, EchoesBounded
  <2>3. CASE Crash
    <3>1. crashes' = crashes + 1
      BY <2>3 DEF Crash
    <3> QED BY <2>1, <2>2, <3>1
  <2>4. CASE Boot
    <3>1. worker.out[d] = None /\ crashes' = crashes
      BY <2>4 DEF Boot, IInv, DownIsIdle
    <3> QED BY <2>1, <2>2, <3>1
  <2> QED BY <2>3, <2>4
<1>6. Downloaded' /\ PrintsAgree' /\ NoRepeatScore' /\ DownIsIdle'
  BY <1>2 DEF IInv, DownIsIdle, Downloaded, PrintsAgree, NoRepeatScore
<1> QED
  BY <1>1, <1>4, <1>5, <1>6 DEF IInv

LEMMA InvLapse ==
  ASSUME IInv, NEW i \in DOMAIN jobs, LeaseLapse(i)
  PROVE  IInv'
<1>1. Base /\ Base' /\ jobs \in Seq(Job)
  <2>1. Base /\ Base'
    BY BaseLapse DEF IInv
  <2> QED BY <2>1 DEF Base, TypeOK
<1>2. /\ UNCHANGED <<doc, latest, rows, worker, owed, calm, echoes, crashes>>
      /\ jobs' = [jobs EXCEPT ![i].lease = "lapsed"]
  BY DEF LeaseLapse
<1>3. jobs[i] \in Job /\ jobs[i].lease = "held"
  BY <1>1 DEF LeaseLapse
<1>4. /\ DOMAIN jobs' = DOMAIN jobs
      /\ \A k \in DOMAIN jobs : /\ jobs'[k].doc = jobs[k].doc /\ jobs'[k].read = jobs[k].read
                                /\ jobs'[k].mine = jobs[k].mine /\ jobs'[k].trigger = jobs[k].trigger
  <2>1. LET j == [jobs[i] EXCEPT !.lease = "lapsed"]
        IN  j.doc = jobs[i].doc /\ j.read = jobs[i].read /\ j.mine = jobs[i].mine
            /\ j.trigger = jobs[i].trigger
    BY <1>3 DEF Job
  <2>2. jobs'[i] = [jobs[i] EXCEPT !.lease = "lapsed"] /\ \A k \in DOMAIN jobs \ {i} : jobs'[k] = jobs[k]
    BY <1>1, <1>2
  <2>3. DOMAIN jobs' = DOMAIN jobs
    BY <1>1, <1>2
  <2> QED BY <2>1, <2>2, <2>3
<1>5. Rewritten({})
  BY <1>4 DEF Rewritten
<1>6. NoLostEdit' /\ QuietAfterDelete' /\ OwedIsLive' /\ CalmIsKnown'
  BY <1>2, <1>5, RewrittenKeeps
<1>7. Downloaded' /\ PrintsAgree' /\ EchoesBounded' /\ DownIsIdle'
  BY <1>2, <1>4 DEF IInv, Downloaded, PrintsAgree, EchoesBounded, DownIsIdle
<1>8. NoRepeatScore'
  <2> SUFFICES ASSUME worker.pc = "score" PROVE NoRepeatScore'
    BY <1>2 DEF NoRepeatScore
  <2>1. Mine \in DOMAIN jobs /\ jobs[Mine].mine /\ \A k \in DOMAIN jobs : jobs[k].mine => k = Mine
    BY <1>1, MineIs
  <2>2. Mine' = Mine
    <3>1. \A k \in DOMAIN jobs' : jobs'[k].mine <=> k = Mine
      BY <1>4, <2>1
    <3> QED BY <1>4, <2>1, <3>1 DEF Mine
  <2> QED
    BY <1>2, <1>4, <2>1, <2>2 DEF IInv, NoRepeatScore
<1> QED
  BY <1>1, <1>6, <1>7, <1>8 DEF IInv

LEMMA InvMidnight ==
  ASSUME IInv, Midnight
  PROVE  IInv'
<1>1. Base /\ Base'
  BY BaseMidnight DEF IInv
<1>2. /\ UNCHANGED <<doc, jobs, worker, owed, calm, echoes, crashes>>
      /\ \A d \in Docs : latest'[d] = [latest[d] EXCEPT !.newToday = FALSE]
  BY DEF Midnight
<1>3. \A d \in Docs : latest'[d].print = latest[d].print
  <2>1. \A d \in Docs : latest[d] \in Instance
    BY <1>1 DEF Base, TypeOK
  <2> QED BY <1>2, <2>1 DEF Instance
<1>4. \A d \in Docs : PendingRows(d) = {} => PendingRows(d)' = {}
  BY <1>1, MidnightRows DEF PendingRows
<1>5. NoRepeatScore'
  <2> SUFFICES ASSUME worker.pc = "score" PROVE NoRepeatScore'
    BY <1>2 DEF NoRepeatScore
  <2>1. jobs[Mine].doc \in Docs
    BY <1>1, MineIs, JobFields DEF Base, TypeOK
  <2> QED
    BY <1>2, <1>3, <2>1 DEF IInv, NoRepeatScore, Mine
<1>6. Downloaded' /\ PrintsAgree' /\ OwedIsLive' /\ CalmIsKnown' /\ EchoesBounded' /\ DownIsIdle'
  BY <1>2, <1>3 DEF IInv, Downloaded, PrintsAgree, OwedIsLive, CalmIsKnown, EchoesBounded, DownIsIdle
<1>7. NoLostEdit' /\ QuietAfterDelete'
  BY <1>2, <1>4 DEF IInv, NoLostEdit, QuietAfterDelete, Active
<1> QED
  BY <1>1, <1>5, <1>6, <1>7 DEF IInv

LEMMA InvStep == IInv /\ [Next]_vars => IInv'
<1> SUFFICES ASSUME IInv, [Next]_vars PROVE IInv'
  OBVIOUS
<1>1. CASE WorkerStep
  BY <1>1, InvStages, InvHarvest, InvClaim, InvRead, InvScore, InvFinish, InvPumpCommit DEF WorkerStep
<1>2. CASE Crash \/ Boot \/ Midnight \/ \E i \in DOMAIN jobs : LeaseLapse(i)
  BY <1>2, InvRestart, InvMidnight, InvLapse
<1>3. CASE \E c \in Clients : ClickCommit(c)
  BY <1>3, InvClickCommit
<1>4. ASSUME NEW d \in Docs,
             \/ \E c \in Contents \cup {None} : Edit(d, c)
             \/ \E adoc \in BOOLEAN : WatchNew(d, adoc)
             \/ SeenAgain(d) \/ Missed(d) \/ Exclude(d)
             \/ \E c \in Clients : ClickRead(c, d)
             \/ \E n \in 1..MaxBatch, located \in BOOLEAN, seen \in {None, "pending", "running"} :
                  ReviewEvents(d, n, located, seen)
             \/ \E located \in BOOLEAN : ModifyEvent(d, located)
             \/ DeleteEvent(d) \/ RestoreEvent(d)
             \/ \E outcome \in {"sent", "failed"}, delivered \in BOOLEAN : Push(d, outcome, delivered)
             \/ WindowRuns(d) \/ WindowCaps(d)
      PROVE  IInv'
  BY <1>4, InvOthers, InvWatchNew, InvReviewEvents, InvDelete, InvPush
<1>5. CASE UNCHANGED vars
  <2>1. Base'
    BY <1>5, BaseStep DEF IInv
  <2> QED
    BY <1>5, <2>1 DEF vars, IInv, Downloaded, PrintsAgree, OwedIsLive, CalmIsKnown, EchoesBounded, DownIsIdle,
       NoLostEdit, QuietAfterDelete, NoRepeatScore, Active, PendingRows, Mine
<1> QED
  BY <1>1, <1>2, <1>3, <1>4, <1>5 DEF Next

LEMMA InvAlways == Spec => []IInv
  BY InvInit, InvStep, PTL DEF Spec

(* An edit that reached the pipeline is not forgotten: until some job has  *)
(* read the body, a window is open or an unread job is queued, whatever    *)
(* crashes, interrupted jobs, clicks and duplicate events come between.    *)
THEOREM EditsAreNotLost == Spec => []NoLostEdit
<1>1. IInv => NoLostEdit
  BY DEF IInv
<1> QED
  BY <1>1, InvAlways, PTL

(* After a delete event nothing about the document is queued, waited for   *)
(* or to be pushed until something asks for it again.                      *)
THEOREM DeletedIsQuiet == Spec => []QuietAfterDelete
<1>1. IInv => QuietAfterDelete
  BY DEF IInv
<1> QED
  BY <1>1, InvAlways, PTL

(* An automatic job at the model never holds the text already scored.      *)
THEOREM TextsAreScoredOnce == Spec => []NoRepeatScore
<1>1. IInv => NoRepeatScore
  BY DEF IInv
<1> QED
  BY <1>1, InvAlways, PTL

(* Each message for the same rows beyond the first is paid by a crash.     *)
THEOREM RepeatsArePaid == Spec => []RepeatNeedsCrash
<1>1. IInv => RepeatNeedsCrash
  <2> SUFFICES ASSUME IInv, NEW d \in Docs PROVE echoes[d] <= 1 + crashes
    BY DEF RepeatNeedsCrash
  <2>1. echoes[d] \in Nat /\ crashes \in Nat
    BY Sizes DEF IInv, Base, TypeOK
  <2>2. echoes[d] <= crashes + (IF worker.out[d] = None THEN 0 ELSE 1)
    BY DEF IInv, EchoesBounded
  <2> QED BY <2>1, <2>2
<1> QED
  BY <1>1, InvAlways, PTL
=============================================================================
