------------------------- MODULE UploadQueueProofs -------------------------
(***************************************************************************)
(* For any number of files, slots and strategies: a task has one run, what *)
(* the local check refused is never sent, the user is asked once, a        *)
(* canceled task stays canceled and sends nothing more, the slots are      *)
(* never overdrawn and none is lost.                                       *)
(*                                                                         *)
(* Almost every step ends in Pump(tasks, requests).  Consistent says of    *)
(* such a pair what the invariant says of the store, and PumpKeeps that    *)
(* starting queued tasks keeps it.  Each action is then left with its own  *)
(* tasks and requests.                                                     *)
(***************************************************************************)
EXTENDS UploadQueue, FiniteSetTheorems, WellFoundedInduction, TLAPS

(* A request that is out belongs to a task on the list that was not        *)
(* canceled, or was told to abort.                                         *)
AbortsReach(tasks, requests, ab) ==
    \A t \in Ids : requests[t] # "none" =>
        t \in ab \/ (t \in DOMAIN tasks /\ tasks[t].status # "canceled")

Typed(m, tasks, requests) ==
    /\ DOMAIN tasks \subseteq 1..m
    /\ \A t \in DOMAIN tasks : tasks[t] \in Task /\ tasks[t].batch \in 1..m
    /\ requests \in [Ids -> {"none", "presign", "put", "confirm"}]
    /\ \A t \in Ids : requests[t] # "none" => t \in 1..m

Single(tasks, requests) ==
    \A t \in DOMAIN tasks :
        tasks[t].status # "canceled" => requests[t] = RequestOf(tasks[t].status)

Guarded(tasks) == \A t \in DOMAIN tasks : ~tasks[t].ok => tasks[t].status = "error"

Once(ch, tasks) ==
    \A t \in DOMAIN tasks : tasks[t].status = "needs-decision" =>
        tasks[t].batch \notin DOMAIN ch /\ tasks[t].onConflict = None

Consistent(m, ch, tasks, requests, ab) ==
    /\ Typed(m, tasks, requests)
    /\ Single(tasks, requests)
    /\ Guarded(tasks)
    /\ Once(ch, tasks)
    /\ AbortsReach(tasks, requests, ab)

Inv == TypeOK /\ Consistent(made, choices, task, run, aborted)

-----------------------------------------------------------------------------
(* pump starts queued tasks only. *)
LEMMA StartingIsQueued ==
    ASSUME NEW tasks
    PROVE  \A t \in Starting(tasks) : t \in DOMAIN tasks /\ tasks[t].status = "queued"
  BY DEF Starting

(* Starting the queued tasks there is room for keeps tasks, requests and   *)
(* aborts consistent with one another.                                     *)
LEMMA PumpKeeps ==
    ASSUME NEW m \in 0..MaxTasks, NEW ch, NEW tasks, NEW requests,
           Consistent(m, ch, tasks, requests, aborted),
           Pump(tasks, requests)
    PROVE  Consistent(m, ch, task', run', aborted')
<1> DEFINE start == Starting(tasks)
<1>1. \A t \in start : t \in DOMAIN tasks /\ tasks[t].status = "queued"
  BY StartingIsQueued
<1>2. /\ task' = [t \in DOMAIN tasks |->
                    IF t \in start THEN [tasks[t] EXCEPT !.status = "presigning"] ELSE tasks[t]]
      /\ run' = [t \in Ids |-> IF t \in start THEN "presign" ELSE requests[t]]
      /\ aborted' = {t \in aborted : requests[t] # "none"} \ start
  BY DEF Pump
<1> HIDE DEF start
<1>3. Typed(m, task', run')
  BY <1>1, <1>2 DEF Consistent, Typed, Task, ACTIVE, RUNNING
<1>4. DOMAIN tasks \subseteq Ids
  BY UploadQueueAssumption DEF Consistent, Typed, Ids
<1>5. Single(task', run')
  BY <1>1, <1>2, <1>4 DEF Consistent, Typed, Task, Single, RequestOf
<1>6. Guarded(task')
  BY <1>1, <1>2 DEF Consistent, Typed, Task, Guarded
<1>7. Once(ch, task')
  BY <1>1, <1>2 DEF Consistent, Typed, Task, Once
<1>8. AbortsReach(task', run', aborted')
  BY <1>1, <1>2, <1>4 DEF Consistent, Typed, Task, AbortsReach
<1> QED
  BY <1>3, <1>5, <1>6, <1>7, <1>8 DEF Consistent

(* What a step has to show of the variables that Consistent does not       *)
(* speak of.                                                               *)
Rest ==
    /\ made \in 0..MaxTasks
    /\ DOMAIN choices \subseteq 1..made
    /\ \A b \in DOMAIN choices : choices[b] \in Choices
    /\ aborted \subseteq Ids
    /\ box \in BOOLEAN

LEMMA InvParts == Inv <=> Rest /\ Consistent(made, choices, task, run, aborted)
  BY DEF Inv, TypeOK, Rest, Consistent, Typed

(* Only a task that passed the local check has a request out. *)
LEMMA InFlightPassed ==
    ASSUME Inv, NEW t \in DOMAIN task, run[t] # "none"
    PROVE  task[t].ok
  BY DEF Inv, Consistent, Typed, Single, Guarded, Task, RequestOf

(* A run that ends leaves its task in a status without a request. *)
LEMMA EndKeeps ==
    ASSUME NEW t \in Ids, NEW tasks, Inv, run[t] # "none",
           DOMAIN tasks = DOMAIN task,
           \A u \in DOMAIN task \ {t} : tasks[u] = task[u],
           t \in DOMAIN task =>
              /\ tasks[t] \in Task
              /\ tasks[t].ok = task[t].ok
              /\ tasks[t].batch = task[t].batch
              /\ RequestOf(tasks[t].status) = "none"
              /\ tasks[t].status = "needs-decision" =>
                    tasks[t].batch \notin DOMAIN choices /\ tasks[t].onConflict = None,
           End(t, tasks), UNCHANGED << made, choices, box >>
    PROVE  Inv'
<1> DEFINE requests == [run EXCEPT ![t] = "none"]
<1>0. Rest /\ Consistent(made, choices, task, run, aborted)
  BY InvParts
<1>1. Typed(made, tasks, requests)
  BY <1>0 DEF Consistent, Typed
<1>2. Single(tasks, requests)
  BY <1>0 DEF Consistent, Typed, Single
<1>3. Guarded(tasks)
  BY <1>0, InFlightPassed DEF Consistent, Guarded
<1>4. Once(choices, tasks)
  BY <1>0 DEF Consistent, Once
<1>5. AbortsReach(tasks, requests, aborted)
  BY <1>0 DEF Consistent, Typed, AbortsReach
<1>6. Consistent(made, choices, tasks, requests, aborted)
  BY <1>1, <1>2, <1>3, <1>4, <1>5 DEF Consistent
<1>7. Pump(tasks, requests)
  BY DEF End
<1>8. Consistent(made, choices, task', run', aborted')
  <2> HIDE DEF requests
  <2> QED BY <1>0, <1>6, <1>7, PumpKeeps DEF Rest
<1>9. Rest'
  BY <1>0, <1>7 DEF Rest, Pump
<1> QED
  BY <1>8, <1>9 DEF Inv, TypeOK, Rest, Consistent, Typed

(* From one request to the next. *)
LEMMA ProceedKeeps ==
    ASSUME NEW t \in Ids, NEW request, NEW status, Inv, run[t] # "none",
           << request, status >> \in {<< "put", "uploading" >>, << "confirm", "confirming" >>},
           Proceed(t, request, status), UNCHANGED << made, choices, box >>
    PROVE  Inv'
<1>0. Rest /\ Consistent(made, choices, task, run, aborted)
  BY InvParts
<1>1. CASE isCanceled(t)
  <2>1. t \in DOMAIN task /\ task[t].status = "canceled"
    BY <1>1 DEF isCanceled, With
  <2>2. End(t, task)
    BY <1>1 DEF Proceed
  <2> QED
    BY <1>0, <2>1, <2>2, EndKeeps DEF Consistent, Typed, RequestOf
<1>2. CASE ~isCanceled(t) /\ t \in aborted
  <2>1. End(t, Patch(t, "canceled"))
    BY <1>2 DEF Proceed
  <2>2. Patch(t, "canceled") =
           IF t \in DOMAIN task THEN [task EXCEPT ![t].status = "canceled"] ELSE task
    BY DEF Patch
  <2> DEFINE tasks == Patch(t, "canceled")
  <2>3. /\ DOMAIN tasks = DOMAIN task
        /\ \A u \in DOMAIN task \ {t} : tasks[u] = task[u]
        /\ t \in DOMAIN task => tasks[t] = [task[t] EXCEPT !.status = "canceled"]
    BY <2>2
  <2>4. t \in DOMAIN task =>
           /\ tasks[t] \in Task
           /\ tasks[t].ok = task[t].ok
           /\ tasks[t].batch = task[t].batch
           /\ tasks[t].status = "canceled"
    BY <1>0, <2>3 DEF Consistent, Typed, Task
  <2> HIDE DEF tasks
  <2> QED
    BY <2>1, <2>3, <2>4, EndKeeps DEF RequestOf, tasks
<1>3. CASE ~isCanceled(t) /\ t \notin aborted
  <2>1. t \in DOMAIN task /\ task[t].status # "canceled"
    BY <1>0, <1>3 DEF Consistent, AbortsReach
  <2>2. /\ task' = [task EXCEPT ![t].status = status]
        /\ run' = [run EXCEPT ![t] = request]
        /\ aborted' = aborted
    BY <1>3, <2>1 DEF Proceed, Patch
  <2>3. task[t].ok
    BY <2>1, InFlightPassed
  <2>4. status \in {"uploading", "confirming"} /\ request = RequestOf(status)
    BY DEF RequestOf
  <2>5. \A u \in DOMAIN task : task'[u] = IF u = t THEN [task[t] EXCEPT !.status = status]
                                          ELSE task[u]
    BY <2>2
  <2>6. Typed(made, task', run')
    BY <1>0, <2>2, <2>4, <2>5 DEF Consistent, Typed, Task, ACTIVE, RUNNING, RequestOf
  <2>7. Single(task', run')
    BY <1>0, <2>1, <2>2, <2>4, <2>5 DEF Consistent, Typed, Task, Single
  <2>8. Guarded(task') /\ Once(choices, task')
    BY <1>0, <2>1, <2>2, <2>3, <2>4, <2>5 DEF Consistent, Typed, Task, Guarded, Once
  <2>9. AbortsReach(task', run', aborted')
    BY <1>0, <2>1, <2>2, <2>4, <2>5 DEF Consistent, Typed, Task, AbortsReach
  <2>10. Consistent(made, choices, task', run', aborted') /\ Rest'
    BY <1>0, <2>2, <2>6, <2>7, <2>8, <2>9 DEF Consistent, Rest
  <2> QED
    BY <2>10 DEF Inv, TypeOK, Rest, Consistent, Typed
<1> QED
  BY <1>1, <1>2, <1>3

-----------------------------------------------------------------------------
(* The answers *)

(* A run that ends with a status that has no request and is no question. *)
LEMMA PatchEndKeeps ==
    ASSUME NEW t \in Ids, NEW status \in {"done", "error", "canceled"}, Inv, run[t] # "none",
           End(t, Patch(t, status)), UNCHANGED << made, choices, box >>
    PROVE  Inv'
<1> DEFINE tasks == Patch(t, status)
<1>1. /\ DOMAIN tasks = DOMAIN task
      /\ \A u \in DOMAIN task \ {t} : tasks[u] = task[u]
      /\ t \in DOMAIN task => tasks[t] = [task[t] EXCEPT !.status = status]
  BY DEF Patch
<1>2. t \in DOMAIN task =>
         /\ tasks[t] \in Task
         /\ tasks[t].ok = task[t].ok
         /\ tasks[t].batch = task[t].batch
         /\ tasks[t].status = status
  BY <1>1 DEF Inv, Consistent, Typed, Task
<1>3. End(t, tasks)
  OBVIOUS
<1> HIDE DEF tasks
<1> QED
  BY <1>1, <1>2, <1>3, EndKeeps DEF RequestOf

(* A run that ends and leaves its canceled task as it is. *)
LEMMA CanceledEndKeeps ==
    ASSUME NEW t \in Ids, Inv, run[t] # "none", isCanceled(t),
           End(t, task), UNCHANGED << made, choices, box >>
    PROVE  Inv'
<1>1. t \in DOMAIN task /\ task[t].status = "canceled" /\ task[t] \in Task
  BY DEF isCanceled, With, Inv, TypeOK
<1> QED
  BY <1>1, EndKeeps DEF RequestOf

(* A task whose name is taken is parked unasked, canceled, or queued with  *)
(* the batch's answer.                                                     *)
LEMMA ConflictEndKeeps ==
    ASSUME NEW t \in Ids, Inv, run[t] # "none",
           t \in DOMAIN task => task[t].onConflict = None,
           End(t, applyConflict(t)), UNCHANGED << made, choices, box >>
    PROVE  Inv'
<1> DEFINE tasks == applyConflict(t)
<1>0. Rest /\ Consistent(made, choices, task, run, aborted)
  BY InvParts
<1>1. CASE t \notin DOMAIN task
  <2>1. End(t, task)
    BY <1>1 DEF applyConflict
  <2> QED
    BY <1>1, <2>1, EndKeeps
<1>2. CASE t \in DOMAIN task
  <2>1. /\ DOMAIN tasks = DOMAIN task
        /\ \A u \in DOMAIN task \ {t} : tasks[u] = task[u]
    BY <1>2 DEF applyConflict, Patch
  <2>2. \/ /\ task[t].batch \notin DOMAIN choices
           /\ tasks[t] = [task[t] EXCEPT !.status = "needs-decision"]
        \/ tasks[t] = [task[t] EXCEPT !.status = "canceled"]
        \/ /\ task[t].batch \in DOMAIN choices
           /\ choices[task[t].batch] # "CANCEL"
           /\ tasks[t] = [task[t] EXCEPT !.status = "queued",
                                         !.onConflict = choices[task[t].batch]]
    BY <1>2 DEF applyConflict, Patch
  <2>3. task[t] \in Task
    BY <1>0, <1>2 DEF Consistent, Typed
  <2>4. /\ tasks[t] \in Task
        /\ tasks[t].ok = task[t].ok
        /\ tasks[t].batch = task[t].batch
        /\ tasks[t].status \in {"needs-decision", "canceled", "queued"}
        /\ tasks[t].status = "needs-decision" =>
              tasks[t].batch \notin DOMAIN choices /\ tasks[t].onConflict = None
    BY <1>0, <1>2, <2>2, <2>3 DEF Rest, Choices, Task, ACTIVE, RUNNING
  <2>5. End(t, tasks)
    OBVIOUS
  <2> HIDE DEF tasks
  <2> QED
    BY <2>1, <2>4, <2>5, EndKeeps DEF RequestOf
<1> QED
  BY <1>1, <1>2

LEMMA SettlesKeeps ==
    ASSUME NEW t \in Ids, Inv, Settles(t)
    PROVE  Inv'
<1>1. CASE Presigned(t)
  BY <1>1, ProceedKeeps DEF Presigned
<1>2. CASE NameConflict(t)
  <2>0. run[t] # "none" /\ UNCHANGED << made, choices, box >>
    BY <1>2 DEF NameConflict
  <2>1. CASE isCanceled(t)
    <3>1. End(t, task)
      BY <1>2, <2>1 DEF NameConflict
    <3> QED BY <2>0, <2>1, <3>1, CanceledEndKeeps
  <2>2. CASE ~isCanceled(t) /\ t \in DOMAIN task /\ task[t].onConflict # None
    <3>1. End(t, Patch(t, "error"))
      BY <1>2, <2>2 DEF NameConflict
    <3> QED BY <2>0, <3>1, PatchEndKeeps
  <2>3. CASE ~isCanceled(t) /\ (t \in DOMAIN task => task[t].onConflict = None)
    <3>1. End(t, applyConflict(t))
      BY <1>2, <2>3 DEF NameConflict
    <3> QED BY <2>0, <2>3, <3>1, ConflictEndKeeps
  <2> QED BY <2>1, <2>2, <2>3
<1>3. CASE Stored(t)
  BY <1>3, ProceedKeeps DEF Stored
<1>4. CASE Confirmed(t)
  BY <1>4, PatchEndKeeps DEF Confirmed
<1>5. CASE Fails(t)
  <2>0. run[t] # "none" /\ UNCHANGED << made, choices, box >>
    BY <1>5 DEF Fails
  <2>1. CASE isCanceled(t)
    <3>1. End(t, task)
      BY <1>5, <2>1 DEF Fails
    <3> QED BY <2>0, <2>1, <3>1, CanceledEndKeeps
  <2>2. CASE ~isCanceled(t)
    <3>1. End(t, Patch(t, "error"))
      BY <1>5, <2>2 DEF Fails
    <3> QED BY <2>0, <3>1, PatchEndKeeps
  <2> QED BY <2>1, <2>2
<1> QED
  BY <1>1, <1>2, <1>3, <1>4, <1>5 DEF Settles

-----------------------------------------------------------------------------
(* The user *)

(* A click that leaves the requests alone and pumps. *)
LEMMA ClickKeeps ==
    ASSUME NEW tasks, NEW m \in 0..MaxTasks, NEW ch,
           Inv, Consistent(m, ch, tasks, run, aborted), Pump(tasks, run),
           made' = m, choices' = ch, box' = box,
           DOMAIN ch \subseteq 1..m, \A b \in DOMAIN ch : ch[b] \in Choices
    PROVE  Inv'
<1>1. Consistent(m, ch, task', run', aborted')
  BY PumpKeeps
<1>2. aborted' \subseteq Ids
  BY DEF Pump, Inv, TypeOK
<1> QED
  BY <1>1, <1>2 DEF Inv, TypeOK, Consistent, Typed

(* New tasks have new ids, and no request of theirs is out. *)
LEMMA EnqueueKeeps ==
    ASSUME NEW n \in 1..(MaxTasks - made), NEW bad, Inv, Enqueue(n, bad)
    PROVE  Inv'
<1> DEFINE added == made + 1 .. made + n
           tasks == [t \in DOMAIN task \cup added |->
                        IF t \in added
                        THEN [batch |-> made + 1, ok |-> t \notin bad, onConflict |-> None,
                              status |-> IF t \in bad THEN "error" ELSE "queued"]
                        ELSE task[t]]
<1>0. Rest /\ Consistent(made, choices, task, run, aborted) /\ MaxTasks \in Nat
  BY InvParts, UploadQueueAssumption
<1>1. /\ made + n \in 0..MaxTasks
      /\ added \subseteq Ids
      /\ made + 1 \in Ids \cap 1..(made + n)
      /\ DOMAIN task \cap added = {}
      /\ DOMAIN task \cup added \subseteq 1..(made + n)
      /\ 1..made \subseteq 1..(made + n)
  BY <1>0 DEF Rest, Consistent, Typed, Ids
<1>2. \A t \in added : /\ tasks[t] \in Task
                       /\ tasks[t].batch \in 1..(made + n)
                       /\ tasks[t].status = IF tasks[t].ok THEN "queued" ELSE "error"
  BY <1>1 DEF Task, ACTIVE, RUNNING
<1>3. \A t \in DOMAIN task : tasks[t] = task[t]
  BY <1>1
<1>4. DOMAIN tasks = DOMAIN task \cup added
  OBVIOUS
<1>5. made' = made + n /\ Pump(tasks, run) /\ choices' = choices /\ box' = box
  BY DEF Enqueue
<1>6. \A t \in added : run[t] = "none"
  BY <1>0, <1>1 DEF Rest, Consistent, Typed
<1> HIDE DEF tasks, added
<1>7. Typed(made + n, tasks, run)
  BY <1>0, <1>1, <1>2, <1>3, <1>4 DEF Consistent, Typed
<1>8. Single(tasks, run)
  BY <1>0, <1>2, <1>3, <1>4, <1>6 DEF Consistent, Single, RequestOf
<1>9. Guarded(tasks) /\ Once(choices, tasks)
  BY <1>0, <1>2, <1>3, <1>4 DEF Consistent, Guarded, Once, Task
<1>10. AbortsReach(tasks, run, aborted)
  BY <1>0, <1>2, <1>3, <1>4 DEF Consistent, AbortsReach, Task
<1>11. Consistent(made + n, choices, tasks, run, aborted)
  BY <1>7, <1>8, <1>9, <1>10 DEF Consistent
<1>12. DOMAIN choices \subseteq 1..(made + n) /\ \A b \in DOMAIN choices : choices[b] \in Choices
  BY <1>0, <1>1 DEF Rest
<1> QED
  BY <1>1, <1>5, <1>11, <1>12, ClickKeeps

LEMMA CancelKeeps ==
    ASSUME NEW t \in Ids, Inv, Cancel(t)
    PROVE  Inv'
<1>0. Rest /\ Consistent(made, choices, task, run, aborted)
  BY InvParts
<1>1. /\ t \in DOMAIN task /\ task[t] \in Task
      /\ task[t].status \in ACTIVE \ {"needs-decision"}
  BY <1>0 DEF Cancel, With, Consistent, Typed
<1>2. task' = [task EXCEPT ![t].status = "canceled"]
  BY <1>1 DEF Cancel, Patch
<1>3. \A u \in DOMAIN task :
         task'[u] = IF u = t THEN [task[t] EXCEPT !.status = "canceled"] ELSE task[u]
  BY <1>2
<1>4. /\ aborted' = IF run[t] = "none" THEN aborted ELSE aborted \cup {t}
      /\ UNCHANGED << made, choices, run, box >>
  BY DEF Cancel
<1>5. task[t].ok
  BY <1>0, <1>1 DEF Consistent, Guarded, ACTIVE, RUNNING
<1>6. Typed(made, task', run)
  BY <1>0, <1>1, <1>2, <1>3 DEF Consistent, Typed, Task
<1>7. Single(task', run) /\ Guarded(task') /\ Once(choices, task')
  BY <1>0, <1>1, <1>2, <1>3, <1>5 DEF Consistent, Single, Guarded, Once, Task
<1>8. AbortsReach(task', run, aborted')
  BY <1>0, <1>1, <1>2, <1>3, <1>4 DEF Consistent, AbortsReach, Task
<1>9. Consistent(made, choices, task', run, aborted')
  BY <1>0, <1>6, <1>7, <1>8 DEF Consistent
<1> QED
  BY <1>0, <1>4, <1>9 DEF Rest, Inv, TypeOK, Consistent, Typed

LEMMA RetryKeeps ==
    ASSUME NEW t \in Ids, Inv, Retry(t)
    PROVE  Inv'
<1>0. Rest /\ Consistent(made, choices, task, run, aborted)
  BY InvParts
<1> DEFINE tasks == Patch(t, "queued")
<1>1. t \in DOMAIN task /\ task[t] \in Task /\ task[t].status = "error" /\ task[t].ok
  BY <1>0 DEF Retry, With, Consistent, Typed
<1>2. /\ DOMAIN tasks = DOMAIN task
      /\ \A u \in DOMAIN task :
            tasks[u] = IF u = t THEN [task[t] EXCEPT !.status = "queued"] ELSE task[u]
  BY <1>1 DEF Patch
<1>3. Pump(tasks, run) /\ UNCHANGED << made, choices, box >>
  BY DEF Retry
<1> HIDE DEF tasks
<1>4. Typed(made, tasks, run)
  BY <1>0, <1>1, <1>2 DEF Consistent, Typed, Task, ACTIVE
<1>5. Single(tasks, run) /\ Guarded(tasks) /\ Once(choices, tasks)
  BY <1>0, <1>1, <1>2 DEF Consistent, Single, Guarded, Once, Task, RequestOf
<1>6. AbortsReach(tasks, run, aborted)
  BY <1>0, <1>1, <1>2 DEF Consistent, AbortsReach, Task
<1>7. Consistent(made, choices, tasks, run, aborted)
  BY <1>0, <1>4, <1>5, <1>6 DEF Consistent
<1> QED
  BY <1>0, <1>3, <1>7, ClickKeeps DEF Rest

LEMMA ClearFinishedKeeps ==
    ASSUME Inv, ClearFinished
    PROVE  Inv'
<1>0. Rest /\ Consistent(made, choices, task, run, aborted)
  BY InvParts
<1> DEFINE kept == DOMAIN task \ With({"done", "canceled"})
<1>1. /\ DOMAIN task' = kept
      /\ \A t \in kept : task'[t] = task[t]
      /\ DOMAIN choices' \subseteq DOMAIN choices
      /\ \A b \in DOMAIN choices' : choices'[b] = choices[b]
      /\ UNCHANGED << made, run, aborted, box >>
  BY DEF ClearFinished
<1>2. \A t \in DOMAIN task \ kept : task[t].status \in {"done", "canceled"}
  BY DEF With
<1>3. kept \subseteq DOMAIN task
  OBVIOUS
<1> HIDE DEF kept
<1>4. \A t \in DOMAIN task \ kept : run[t] = "none" \/ t \in aborted
  <2> SUFFICES ASSUME NEW t \in DOMAIN task \ kept
               PROVE  run[t] = "none" \/ t \in aborted
    OBVIOUS
  <2>1. CASE task[t].status = "done"
    BY <1>0, <2>1 DEF Consistent, Single, RequestOf
  <2>2. CASE task[t].status = "canceled"
    <3>1. t \in Ids
      BY <1>0, UploadQueueAssumption DEF Consistent, Typed, Rest, Ids
    <3> QED
      BY <1>0, <2>2, <3>1 DEF Consistent, AbortsReach
  <2> QED
    BY <1>2, <2>1, <2>2
<1>5. Typed(made, task', run)
  BY <1>0, <1>1, <1>3 DEF Consistent, Typed
<1>6. Single(task', run) /\ Guarded(task') /\ Once(choices', task')
  BY <1>0, <1>1, <1>3 DEF Consistent, Single, Guarded, Once
<1>7. AbortsReach(task', run, aborted)
  BY <1>0, <1>1, <1>3, <1>4 DEF Consistent, AbortsReach
<1>8. Consistent(made, choices', task', run, aborted)
  BY <1>5, <1>6, <1>7 DEF Consistent
<1> QED
  BY <1>0, <1>1, <1>8 DEF Rest, Inv, TypeOK, Consistent, Typed

(* Whoever is answered for leaves the dialog, and with the box the batch   *)
(* is answered for as a whole.                                             *)
LEMMA AnswerKeeps ==
    ASSUME NEW t \in Ids, NEW choice \in Choices, Inv, Answer(t, choice)
    PROVE  Inv'
<1>0. Rest /\ Consistent(made, choices, task, run, aborted)
  BY InvParts
<1> DEFINE b == task[t].batch
           targets == IF box THEN Parked(b) ELSE {t}
           ch == IF box
                 THEN [x \in DOMAIN choices \cup {b} |-> IF x = b THEN choice ELSE choices[x]]
                 ELSE choices
           tasks == [u \in DOMAIN task |->
                        IF u \notin targets THEN task[u]
                        ELSE IF choice = "CANCEL" THEN [task[u] EXCEPT !.status = "canceled"]
                        ELSE [task[u] EXCEPT !.status = "queued", !.onConflict = choice]]
<1>1. ch = choices' /\ Pump(tasks, run) /\ UNCHANGED << made, box >>
  BY DEF Answer
<1>2. t \in DOMAIN task /\ task[t].status = "needs-decision"
  BY DEF Answer, Asked, With
<1>3. \A u \in targets : u \in DOMAIN task /\ task[u].status = "needs-decision"
  BY <1>2 DEF Parked, With
<1>4. \A u \in DOMAIN task : task[u] \in Task
  BY <1>0 DEF Consistent, Typed
<1>5. DOMAIN tasks = DOMAIN task /\ \A u \in DOMAIN task \ targets : tasks[u] = task[u]
  OBVIOUS
<1>6. \A u \in targets : /\ tasks[u] \in Task
                         /\ tasks[u].ok = task[u].ok
                         /\ tasks[u].batch = task[u].batch
                         /\ tasks[u].status \in {"queued", "canceled"}
  BY <1>3, <1>4 DEF Task, Choices, ACTIVE, RUNNING
<1>7. \A u \in DOMAIN task \ targets : task[u].status = "needs-decision" =>
         task[u].batch \notin DOMAIN ch
  BY <1>0 DEF Consistent, Once, Parked, With
<1>8. \A u \in targets : task[u].ok /\ run[u] = "none"
  BY <1>0, <1>3 DEF Consistent, Guarded, Single, RequestOf
<1>9. \A x \in DOMAIN ch : ch[x] \in Choices
  BY <1>0 DEF Rest
<1>10. b \in 1..made /\ DOMAIN ch \subseteq 1..made
  BY <1>0, <1>2 DEF Rest, Consistent, Typed
<1> HIDE DEF tasks, targets, b, ch
<1>11. Typed(made, tasks, run)
  BY <1>0, <1>5, <1>6 DEF Consistent, Typed
<1>12. Single(tasks, run) /\ Guarded(tasks)
  BY <1>0, <1>5, <1>6, <1>8 DEF Consistent, Single, Guarded, RequestOf
<1>13. Once(ch, tasks)
  BY <1>0, <1>5, <1>6, <1>7 DEF Consistent, Once
<1>14. AbortsReach(tasks, run, aborted)
  BY <1>0, <1>5, <1>6, <1>8 DEF Consistent, AbortsReach
<1>15. Consistent(made, ch, tasks, run, aborted)
  BY <1>0, <1>11, <1>12, <1>13, <1>14 DEF Consistent
<1> QED
  BY <1>0, <1>1, <1>9, <1>10, <1>15, ClickKeeps DEF Rest

-----------------------------------------------------------------------------
LEMMA InitInv == Init => Inv
<1> SUFFICES ASSUME Init PROVE Inv
  OBVIOUS
<1>1. DOMAIN task = {} /\ DOMAIN choices = {}
  BY DEF Init
<1>2. made \in 0..MaxTasks /\ made = 0 /\ aborted = {} /\ box = FALSE
  BY UploadQueueAssumption DEF Init
<1>3. run \in [Ids -> {"none", "presign", "put", "confirm"}] /\ \A t \in Ids : run[t] = "none"
  BY DEF Init
<1> QED
  BY <1>1, <1>2, <1>3
  DEF Inv, TypeOK, Consistent, Typed, Single, Guarded, Once, AbortsReach

LEMMA NextInv == Inv /\ [Next]_vars => Inv'
<1> SUFFICES ASSUME Inv, [Next]_vars
             PROVE  Inv'
  OBVIOUS
<1>1. ASSUME NEW n \in 1..(MaxTasks - made), NEW bad, Enqueue(n, bad)
      PROVE  Inv'
  BY <1>1, EnqueueKeeps
<1>2. ASSUME NEW t \in Ids, Settles(t) \/ Cancel(t) \/ Retry(t)
      PROVE  Inv'
  BY <1>2, SettlesKeeps, CancelKeeps, RetryKeeps
<1>3. CASE ClearFinished
  BY <1>3, ClearFinishedKeeps
<1>4. CASE Tick
  <2>1. UNCHANGED << made, task, choices, run, aborted >> /\ box' \in BOOLEAN
    BY <1>4 DEF Tick, Inv, TypeOK
  <2> QED
    BY <2>1 DEF Inv, TypeOK, Consistent, Typed, Single, Guarded, Once, AbortsReach
<1>5. ASSUME NEW t \in Ids, NEW choice \in Choices, Answer(t, choice)
      PROVE  Inv'
  BY <1>5, AnswerKeeps
<1>6. CASE UNCHANGED vars
  BY <1>6 DEF vars, Inv, TypeOK, Consistent, Typed, Single, Guarded, Once, AbortsReach
<1> QED
  BY <1>1, <1>2, <1>3, <1>4, <1>5, <1>6 DEF Next

(* The inductive invariant: types, one run per task, the local check, one  *)
(* question per file and batch, and aborts that reach every canceled run.  *)
THEOREM QueueCorrect == Spec => []Inv
  BY InitInv, NextInv, PTL DEF Spec

(* Every reachable store is well typed, and ids are never used twice.      *)
THEOREM TypeCorrect == Spec => []TypeOK
<1>1. Inv => TypeOK
  BY DEF Inv
<1> QED
  BY <1>1, QueueCorrect, PTL

(* The request under way is the one the task's status tells of             *)
(* (uploadStore.ts).                                                       *)
THEOREM RunsCorrect == Spec => []OneRunPerTask
<1>1. Inv => OneRunPerTask
  BY DEF Inv, Consistent, Single, OneRunPerTask, isCanceled, With
<1> QED
  BY <1>1, QueueCorrect, PTL

(* What localRejection refused stays refused, retries included.            *)
THEOREM RefusalsCorrect == Spec => []RefusedNeverSent
<1>1. Inv => RefusedNeverSent
  BY DEF Inv, Consistent, Guarded, RefusedNeverSent
<1> QED
  BY <1>1, QueueCorrect, PTL

(* Nobody is asked about a file, or a batch, that was answered for.        *)
THEOREM QuestionsCorrect == Spec => []AskedOnce
<1>1. Inv => AskedOnce
  BY DEF Inv, Consistent, Once, AskedOnce, With
<1> QED
  BY <1>1, QueueCorrect, PTL
-----------------------------------------------------------------------------
(* What a step may never do *)

(* pump sends nothing but presigns, and touches queued tasks only. *)
LEMMA PumpSends ==
    ASSUME NEW tasks, NEW requests, Pump(tasks, requests)
    PROVE  /\ \A t \in Ids : run'[t] \in {"presign", requests[t]}
           /\ DOMAIN task' = DOMAIN tasks
           /\ \A t \in DOMAIN tasks : tasks[t].status # "queued" => task'[t] = tasks[t]
<1>1. \A t \in Starting(tasks) : tasks[t].status = "queued"
  BY StartingIsQueued
<1> QED
  BY <1>1 DEF Pump

LEMMA EndSends ==
    ASSUME NEW t \in Ids, NEW tasks, Inv, End(t, tasks)
    PROVE  \A u \in Ids : run'[u] \in {"presign", "none", run[u]}
<1>1. \A u \in Ids : [run EXCEPT ![t] = "none"][u] \in {"none", run[u]}
  BY DEF Inv, TypeOK
<1> QED
  BY <1>1, PumpSends, ZenonT(60) DEF End

LEMMA ProceedSends ==
    ASSUME NEW t \in Ids, NEW request, NEW status, Inv, run[t] # "none",
           Proceed(t, request, status)
    PROVE  \A u \in Ids : \/ run'[u] \in {"presign", "none", run[u]}
                          \/ u \in DOMAIN task /\ ~isCanceled(u)
<1>1. CASE isCanceled(t)
  <2>1. End(t, task)
    BY <1>1 DEF Proceed
  <2> QED
    BY <2>1, EndSends
<1>2. CASE ~isCanceled(t) /\ t \in aborted
  <2>1. End(t, Patch(t, "canceled"))
    BY <1>2 DEF Proceed
  <2> QED
    BY <2>1, EndSends
<1>3. CASE ~isCanceled(t) /\ t \notin aborted
  <2>1. t \in DOMAIN task
    BY <1>3 DEF Inv, Consistent, AbortsReach
  <2>2. run' = [run EXCEPT ![t] = request]
    BY <1>3 DEF Proceed
  <2>3. \A u \in Ids \ {t} : run'[u] = run[u]
    BY <2>2 DEF Inv, TypeOK
  <2> QED
    BY <1>3, <2>1, <2>3
<1> QED
  BY <1>1, <1>2, <1>3

LEMMA SettlesSends ==
    ASSUME NEW t \in Ids, Inv, Settles(t)
    PROVE  \A u \in Ids : \/ run'[u] \in {"presign", "none", run[u]}
                          \/ u \in DOMAIN task /\ ~isCanceled(u)
<1>1. CASE Presigned(t)
  <2>1. run[t] # "none" /\ Proceed(t, "put", "uploading")
    BY <1>1 DEF Presigned
  <2> QED
    BY <2>1, ProceedSends
<1>2. CASE Stored(t)
  <2>1. run[t] # "none" /\ Proceed(t, "confirm", "confirming")
    BY <1>2 DEF Stored
  <2> QED
    BY <2>1, ProceedSends
<1>3. CASE NameConflict(t) \/ Confirmed(t) \/ Fails(t)
  <2>1. \E tasks : End(t, tasks)
    BY <1>3 DEF NameConflict, Confirmed, Fails
  <2> QED
    BY <2>1, EndSends
<1> QED
  BY <1>1, <1>2, <1>3 DEF Settles

(* A canceled file sends no further request: the status stops its run, and *)
(* for a task that was cleared since, the aborted signal does              *)
(* (uploadStore.ts, putWithProgress.ts).                                   *)
THEOREM CancelsStopRequests == Spec => NothingSentAfterCancel
<1> DEFINE Sends == \A t \in Ids : run'[t] # run[t] /\ run'[t] \in {"put", "confirm"} =>
                       t \in DOMAIN task /\ ~isCanceled(t)
<1>1. Inv /\ [Next]_vars => [Sends]_vars
  <2> SUFFICES ASSUME Inv, Next
               PROVE  Sends
    OBVIOUS
  <2>1. ASSUME NEW t \in Ids, Settles(t)
        PROVE  Sends
    BY <2>1, SettlesSends
  <2>2. ASSUME NEW n \in 1..(MaxTasks - made), NEW bad, Enqueue(n, bad)
        PROVE  Sends
    BY <2>2, PumpSends DEF Enqueue
  <2>3. ASSUME NEW t \in Ids, Retry(t)
        PROVE  Sends
    BY <2>3, PumpSends DEF Retry
  <2>4. ASSUME NEW t \in Ids, NEW choice \in Choices, Answer(t, choice)
        PROVE  Sends
    BY <2>4, PumpSends DEF Answer
  <2>5. ASSUME ClearFinished \/ Tick \/ \E t \in Ids : Cancel(t)
        PROVE  Sends
    BY <2>5 DEF ClearFinished, Tick, Cancel
  <2> QED
    BY <2>1, <2>2, <2>3, <2>4, <2>5 DEF Next
<1> QED
  BY <1>1, QueueCorrect, PTL DEF Spec, NothingSentAfterCancel

(* An answer leaves a canceled task canceled, unless it is a confirm's.    *)
LEMMA SettlesLeaves ==
    ASSUME NEW u \in Ids, Inv, Settles(u),
           NEW t \in With({"canceled"}), t \in DOMAIN task'
    PROVE  \/ task'[t].status = "canceled"
           \/ task'[t].status = "done" /\ run[t] = "confirm"
<1>1. t \in DOMAIN task /\ task[t].status = "canceled" /\ task[t] \in Task
  BY DEF With, Inv, TypeOK
<1>2. ASSUME NEW tasks, End(u, tasks), t \in DOMAIN tasks => tasks[t].status # "queued"
      PROVE  task'[t] = tasks[t] /\ t \in DOMAIN tasks
  BY <1>2, PumpSends DEF End
<1>3. ASSUME End(u, task)
      PROVE  task'[t].status = "canceled"
  BY <1>1, <1>2, <1>3
<1>4. ASSUME NEW status \in {"canceled", "error", "done"}, End(u, Patch(u, status))
      PROVE  task'[t].status = IF t = u THEN status ELSE "canceled"
  <2>1. t \in DOMAIN Patch(u, status)
    BY <1>1 DEF Patch
  <2>2. Patch(u, status)[t].status = IF t = u THEN status ELSE "canceled"
    BY <1>1 DEF Patch, Task
  <2> QED
    BY <1>2, <1>4, <2>1, <2>2
<1>5. isCanceled(t)
  BY DEF isCanceled
<1>6. ASSUME NEW request, NEW status, Proceed(u, request, status)
      PROVE  task'[t].status = "canceled"
  <2>1. CASE isCanceled(u)
    BY <1>3, <1>6, <2>1 DEF Proceed
  <2>2. CASE ~isCanceled(u) /\ u \in aborted
    <3>1. End(u, Patch(u, "canceled"))
      BY <1>6, <2>2 DEF Proceed
    <3> QED
      BY <1>4, <3>1
  <2>3. CASE ~isCanceled(u) /\ u \notin aborted
    <3>1. t # u /\ task' = Patch(u, status)
      BY <1>5, <1>6, <2>3 DEF Proceed
    <3> QED
      BY <1>1, <3>1 DEF Patch
  <2> QED
    BY <2>1, <2>2, <2>3
<1>7. CASE Presigned(u) \/ Stored(u)
  BY <1>6, <1>7 DEF Presigned, Stored
<1>8. CASE NameConflict(u)
  <2>1. CASE isCanceled(u)
    BY <1>3, <1>8, <2>1 DEF NameConflict
  <2>2. CASE ~isCanceled(u) /\ u \in DOMAIN task /\ task[u].onConflict # None
    <3>1. End(u, Patch(u, "error")) /\ t # u
      BY <1>5, <1>8, <2>2 DEF NameConflict
    <3> QED
      BY <1>4, <3>1
  <2>3. CASE ~isCanceled(u) /\ ~(u \in DOMAIN task /\ task[u].onConflict # None)
    <3>1. End(u, applyConflict(u)) /\ t # u
      BY <1>5, <1>8, <2>3 DEF NameConflict
    <3>2. t \in DOMAIN applyConflict(u) /\ applyConflict(u)[t] = task[t]
      BY <1>1, <3>1 DEF applyConflict, Patch
    <3> QED
      BY <1>1, <1>2, <3>1, <3>2
  <2> QED
    BY <2>1, <2>2, <2>3
<1>9. CASE Confirmed(u)
  <2>1. End(u, Patch(u, "done")) /\ run[u] = "confirm"
    BY <1>9 DEF Confirmed
  <2> QED
    BY <1>4, <2>1
<1>10. CASE Fails(u)
  <2>1. CASE isCanceled(u)
    BY <1>3, <1>10, <2>1 DEF Fails
  <2>2. CASE ~isCanceled(u)
    <3>1. End(u, Patch(u, "error")) /\ t # u
      BY <1>5, <1>10, <2>2 DEF Fails
    <3> QED
      BY <1>4, <3>1
  <2> QED
    BY <2>1, <2>2
<1> QED
  BY <1>7, <1>8, <1>9, <1>10 DEF Settles

(* Nothing brings a canceled task back but a confirm that had succeeded    *)
(* already (run in uploadStore.ts).                                        *)
THEOREM CancelsAreFinal == Spec => CancelIsFinal
<1> DEFINE Final == \A t \in With({"canceled"}) \cap DOMAIN task' :
                       \/ task'[t].status = "canceled"
                       \/ task'[t].status = "done" /\ run[t] = "confirm"
<1>1. Inv /\ [Next]_vars => [Final]_vars
  <2> SUFFICES ASSUME Inv, Next, NEW t \in With({"canceled"}), t \in DOMAIN task'
               PROVE  \/ task'[t].status = "canceled"
                      \/ task'[t].status = "done" /\ run[t] = "confirm"
    OBVIOUS
  <2>0. t \in DOMAIN task /\ task[t].status = "canceled" /\ t \in 1..made
    BY DEF With, Inv, TypeOK
  <2>1. ASSUME NEW tasks, Pump(tasks, run), t \in DOMAIN tasks, tasks[t] = task[t]
        PROVE  task'[t].status = "canceled"
    BY <2>0, <2>1, PumpSends
  <2>2. ASSUME NEW u \in Ids, Settles(u)
        PROVE  \/ task'[t].status = "canceled"
               \/ task'[t].status = "done" /\ run[t] = "confirm"
    BY <2>2, SettlesLeaves
  <2>3. ASSUME NEW n \in 1..(MaxTasks - made), NEW bad, Enqueue(n, bad)
        PROVE  task'[t].status = "canceled"
    <3>1. t \notin made + 1 .. made + n
      BY <2>0 DEF Inv, TypeOK
    <3> QED
      BY <2>0, <2>1, <2>3, <3>1 DEF Enqueue
  <2>4. ASSUME NEW u \in Ids, Retry(u)
        PROVE  task'[t].status = "canceled"
    <3>1. u # t /\ Pump(Patch(u, "queued"), run)
      BY <2>0, <2>4 DEF Retry, With
    <3>2. t \in DOMAIN Patch(u, "queued") /\ Patch(u, "queued")[t] = task[t]
      BY <2>0, <3>1 DEF Patch
    <3> QED
      BY <2>1, <3>1, <3>2
  <2>5. ASSUME NEW u \in Ids, NEW choice \in Choices, Answer(u, choice)
        PROVE  task'[t].status = "canceled"
    <3>1. t \notin IF box THEN Parked(task[u].batch) ELSE {u}
      BY <2>0, <2>5 DEF Answer, Asked, Parked, With
    <3> QED
      BY <2>0, <2>1, <2>5, <3>1 DEF Answer
  <2>6. ASSUME ClearFinished \/ Tick
        PROVE  task'[t].status = "canceled"
    BY <2>0, <2>6 DEF ClearFinished, Tick
  <2>7. ASSUME NEW u \in Ids, Cancel(u)
        PROVE  task'[t].status = "canceled"
    BY <2>0, <2>7 DEF Cancel, Patch, Inv, TypeOK, Task
  <2> QED
    BY <2>2, <2>3, <2>4, <2>5, <2>6, <2>7 DEF Next
<1> QED
  BY <1>1, QueueCorrect, PTL DEF Spec, CancelIsFinal
-----------------------------------------------------------------------------
(* The budget *)

(* Every set of numbers has a smallest. *)
LEMMA Smallest ==
    ASSUME NEW T, T \subseteq Nat, T # {}
    PROVE  \E x \in T : \A y \in T : x <= y
<1>1. PICK x \in T : \A y \in T : ~ (<<y, x>> \in OpToRel(<, Nat))
  BY NatLessThanWellFounded, WFMin
<1>2. \A y \in T : ~ (y < x)
  BY <1>1 DEF OpToRel
<1> QED
  BY <1>2

LEMMA SomeIds ==
    ASSUME NEW N \in Nat, NEW Q, Q \subseteq 1..N
    PROVE  IsFiniteSet(Q) /\ Cardinality(Q) \in Nat
<1>1. IsFiniteSet(1..N)
  <2>1. 1 \in Int /\ N \in Int
    OBVIOUS
  <2> QED
    BY <2>1, FS_Interval
<1>2. IsFiniteSet(Q)
  <2>1. Q \in SUBSET (1..N)
    OBVIOUS
  <2> QED
    BY <1>1, <2>1, FS_Subset
<1> QED
  BY <1>2, FS_CardinalityType

(* The first k of the queued tasks are at most k. *)
LEMMA FirstOnes ==
    ASSUME NEW N \in Nat, NEW Q, Q \subseteq 1..N, NEW k \in Int,
           NEW S, S = {t \in Q : Cardinality({u \in Q : u < t}) < k}
    PROVE  /\ IsFiniteSet(S) /\ Cardinality(S) \in Nat
           /\ S # {} => Cardinality(S) <= k
<1>1. IsFiniteSet(Q)
  BY SomeIds
<1>2. S \subseteq Q /\ IsFiniteSet(S) /\ Cardinality(S) \in Nat
  BY <1>1, FS_Subset, FS_CardinalityType
<1>3. SUFFICES ASSUME S # {}
               PROVE  Cardinality(S) <= k
  BY <1>2
<1> DEFINE T == {x \in Nat : \E t \in S : x = N - t}
<1>4. T \subseteq Nat /\ T # {}
  <2>1. PICK t \in S : TRUE
    BY <1>3
  <2>2. N - t \in Nat
    BY <1>2, <2>1
  <2>3. N - t \in T
    BY <2>1, <2>2
  <2> QED
    BY <2>3
<1> HIDE DEF T
<1>5. PICK x \in T : \A y \in T : x <= y
  BY <1>4, Smallest
<1> USE DEF T
<1>6. PICK t \in S : x = N - t
  BY <1>5
<1>7. ASSUME NEW u \in S
      PROVE  u <= t
  <2>1. u \in 1..N /\ t \in 1..N
    BY <1>2
  <2>2. N - u \in T
    BY <2>1
  <2> HIDE DEF T
  <2>3. x <= N - u
    BY <2>2, <1>5
  <2> QED
    BY <2>1, <2>3, <1>6
<1> HIDE DEF T
<1> DEFINE before == {u \in Q : u < t}
<1>8. S \subseteq before \cup {t}
  <2> SUFFICES ASSUME NEW u \in S, u # t
               PROVE  u \in before
    OBVIOUS
  <2>1. u \in Q /\ u \in 1..N /\ t \in 1..N /\ u <= t
    BY <1>2, <1>7
  <2> QED
    BY <2>1
<1>9. IsFiniteSet(before) /\ Cardinality(before) \in Nat /\ Cardinality(before) < k
  BY <1>1, FS_Subset, FS_CardinalityType
<1>10. t \notin before
  BY <1>2
<1> HIDE DEF before
<1>11. /\ IsFiniteSet(before \cup {t})
       /\ Cardinality(before \cup {t}) = Cardinality(before) + 1
  BY <1>9, <1>10, FS_AddElement
<1>12. Cardinality(S) <= Cardinality(before \cup {t})
  BY <1>8, <1>11, FS_Subset
<1> QED
  BY <1>2, <1>9, <1>11, <1>12

(* What a step hands to pump runs no task that did not run before; pump    *)
(* then starts no more than there is room for.                             *)
RunningIn(tasks) == {t \in DOMAIN tasks : tasks[t].status \in RUNNING}

LEMMA PumpWithinBudget ==
    ASSUME NEW tasks, NEW requests, WithinBudget, Inv, Pump(tasks, requests),
           DOMAIN tasks \subseteq Ids, RunningIn(tasks) \subseteq With(RUNNING)
    PROVE  WithinBudget'
<1> DEFINE queued == {t \in DOMAIN tasks : tasks[t].status \in {"queued"}}
           k == MaxConcurrent - Cardinality(RunningIn(tasks))
           start == {t \in queued : Cardinality({u \in queued : u < t}) < k}
<1>1. MaxConcurrent \in Nat /\ MaxTasks \in Nat
  BY UploadQueueAssumption
<1>2. DOMAIN task \subseteq 1..MaxTasks
  BY <1>1 DEF Inv, TypeOK
<1>3. IsFiniteSet(With(RUNNING)) /\ Cardinality(With(RUNNING)) \in Nat
  <2>1. With(RUNNING) \subseteq 1..MaxTasks
    BY <1>2 DEF With
  <2> QED
    BY <1>1, <2>1, SomeIds
<1>4. /\ IsFiniteSet(RunningIn(tasks)) /\ Cardinality(RunningIn(tasks)) \in Nat
      /\ Cardinality(RunningIn(tasks)) <= MaxConcurrent
  <2>1. /\ IsFiniteSet(RunningIn(tasks))
        /\ Cardinality(RunningIn(tasks)) <= Cardinality(With(RUNNING))
    BY <1>3, FS_Subset
  <2>2. Cardinality(RunningIn(tasks)) \in Nat
    BY <2>1, FS_CardinalityType
  <2> QED
    BY <1>1, <1>3, <2>1, <2>2 DEF WithinBudget
<1>5. Starting(tasks) = start
  BY DEF Starting, RunningIn
<1>6. queued \subseteq 1..MaxTasks
  BY DEF Ids
<1>7. /\ IsFiniteSet(start) /\ Cardinality(start) \in Nat
      /\ start # {} => Cardinality(start) <= k
  <2>1. k \in Int
    BY <1>1, <1>4
  <2>2. PICK Q, j, S : Q = queued /\ j = k /\ S = start
    OBVIOUS
  <2>3. S = {t \in Q : Cardinality({u \in Q : u < t}) < j}
    BY <2>2
  <2>4. Q \subseteq 1..MaxTasks /\ j \in Int
    BY <2>1, <2>2, <1>6
  <2> HIDE DEF queued, k, start
  <2>5. /\ IsFiniteSet(S) /\ Cardinality(S) \in Nat
        /\ S # {} => Cardinality(S) <= j
    BY <2>3, <2>4, <1>1, FirstOnes
  <2> QED
    BY <2>2, <2>5
<1>8. With(RUNNING)' \subseteq RunningIn(tasks) \cup start
  <2>1. task' = [t \in DOMAIN tasks |->
                   IF t \in start THEN [tasks[t] EXCEPT !.status = "presigning"] ELSE tasks[t]]
    BY <1>5 DEF Pump
  <2> HIDE DEF start
  <2> QED
    BY <2>1 DEF With, RunningIn
<1> HIDE DEF start
<1>9. /\ IsFiniteSet(RunningIn(tasks) \cup start)
      /\ Cardinality(RunningIn(tasks) \cup start)
            <= Cardinality(RunningIn(tasks)) + Cardinality(start)
  <2>1. /\ IsFiniteSet(RunningIn(tasks) \cup start)
        /\ Cardinality(RunningIn(tasks) \cup start)
              = Cardinality(RunningIn(tasks)) + Cardinality(start)
                   - Cardinality(RunningIn(tasks) \cap start)
    BY <1>4, <1>7, FS_Union
  <2>2. Cardinality(RunningIn(tasks) \cap start) \in Nat
    BY <1>7, FS_Intersection, FS_CardinalityType
  <2> QED
    BY <1>4, <1>7, <2>1, <2>2
<1>10. start = {} => Cardinality(start) = 0
  BY FS_EmptySet
<1>11. Cardinality(RunningIn(tasks)) + Cardinality(start) <= MaxConcurrent
  BY <1>1, <1>4, <1>7, <1>10
<1>12. /\ IsFiniteSet(With(RUNNING)')
       /\ Cardinality(With(RUNNING)') <= Cardinality(RunningIn(tasks) \cup start)
  BY <1>8, <1>9, FS_Subset
<1>13. Cardinality(With(RUNNING)') \in Nat /\ Cardinality(RunningIn(tasks) \cup start) \in Nat
  BY <1>9, <1>12, FS_CardinalityType
<1> QED
  BY <1>1, <1>4, <1>7, <1>9, <1>11, <1>12, <1>13 DEF WithinBudget

(* Steps that do not pump and start nothing. *)
LEMMA FewerWithinBudget ==
    ASSUME WithinBudget, Inv, With(RUNNING)' \subseteq With(RUNNING)
    PROVE  WithinBudget'
<1>1. MaxConcurrent \in Nat /\ MaxTasks \in Nat
  BY UploadQueueAssumption
<1>2. IsFiniteSet(With(RUNNING)) /\ Cardinality(With(RUNNING)) \in Nat
  <2>1. With(RUNNING) \subseteq 1..MaxTasks
    BY <1>1 DEF With, Inv, TypeOK
  <2> QED
    BY <1>1, <2>1, SomeIds
<1>3. /\ IsFiniteSet(With(RUNNING)')
      /\ Cardinality(With(RUNNING)') <= Cardinality(With(RUNNING))
  BY <1>2, FS_Subset
<1>4. Cardinality(With(RUNNING)') \in Nat
  BY <1>3, FS_CardinalityType
<1> QED
  BY <1>1, <1>2, <1>3, <1>4 DEF WithinBudget
(* A task given another status that is not one of a run. *)
LEMMA PatchRunsNothing ==
    ASSUME Inv, NEW t, NEW status, status \notin RUNNING
    PROVE  /\ DOMAIN Patch(t, status) = DOMAIN task
           /\ RunningIn(Patch(t, status)) \subseteq With(RUNNING)
  BY DEF Patch, RunningIn, With

LEMMA SameRunsNothing == RunningIn(task) \subseteq With(RUNNING)
  BY DEF RunningIn, With

LEMMA ConflictRunsNothing ==
    ASSUME Inv, NEW t
    PROVE  /\ DOMAIN applyConflict(t) = DOMAIN task
           /\ RunningIn(applyConflict(t)) \subseteq With(RUNNING)
<1>1. /\ "needs-decision" \notin RUNNING /\ "canceled" \notin RUNNING
      /\ "queued" \notin RUNNING
  BY DEF RUNNING
<1>2. CASE t \notin DOMAIN task
  BY <1>2, SameRunsNothing DEF applyConflict
<1>3. CASE t \in DOMAIN task /\ task[t].batch \notin DOMAIN choices
  <2>1. applyConflict(t) = Patch(t, "needs-decision")
    BY <1>3 DEF applyConflict
  <2> QED
    BY <1>1, <2>1, PatchRunsNothing
<1>4. CASE /\ t \in DOMAIN task /\ task[t].batch \in DOMAIN choices
           /\ choices[task[t].batch] = "CANCEL"
  <2>1. applyConflict(t) = Patch(t, "canceled")
    BY <1>4 DEF applyConflict
  <2> QED
    BY <1>1, <2>1, PatchRunsNothing
<1>5. CASE /\ t \in DOMAIN task /\ task[t].batch \in DOMAIN choices
           /\ choices[task[t].batch] # "CANCEL"
  <2>1. PICK c : c = choices[task[t].batch]
    OBVIOUS
  <2>2. applyConflict(t) = [task EXCEPT ![t].status = "queued", ![t].onConflict = c]
    BY <1>5, <2>1 DEF applyConflict
  <2>3. task[t] \in Task
    BY <1>5 DEF Inv, TypeOK
  <2> QED
    BY <1>1, <1>5, <2>2, <2>3 DEF RunningIn, With, Task
<1> QED
  BY <1>2, <1>3, <1>4, <1>5

LEMMA EndWithinBudget ==
    ASSUME NEW t, NEW tasks, WithinBudget, Inv, End(t, tasks),
           DOMAIN tasks = DOMAIN task, RunningIn(tasks) \subseteq With(RUNNING)
    PROVE  WithinBudget'
<1>1. DOMAIN tasks \subseteq Ids
  BY UploadQueueAssumption DEF Inv, TypeOK, Ids
<1> QED
  BY <1>1, PumpWithinBudget DEF End

(* A run that goes on has its slot already. *)
LEMMA ProceedWithinBudget ==
    ASSUME NEW t \in Ids, NEW request, NEW status \in RUNNING, WithinBudget, Inv,
           run[t] # "none", Proceed(t, request, status)
    PROVE  WithinBudget'
<1>1. CASE isCanceled(t)
  BY <1>1, SameRunsNothing, EndWithinBudget DEF Proceed
<1>2. CASE ~isCanceled(t) /\ t \in aborted
  <2>1. End(t, Patch(t, "canceled")) /\ "canceled" \notin RUNNING
    BY <1>2 DEF Proceed, RUNNING
  <2> QED
    BY <2>1, PatchRunsNothing, EndWithinBudget
<1>3. CASE ~isCanceled(t) /\ t \notin aborted
  <2>1. t \in DOMAIN task /\ task[t].status # "canceled" /\ task[t] \in Task
    BY <1>3 DEF Inv, Consistent, AbortsReach, Typed
  <2>2. run[t] = RequestOf(task[t].status)
    BY <2>1 DEF Inv, Consistent, Single
  <2>3. task[t].status \in RUNNING
    BY <2>2 DEF RequestOf, RUNNING
  <2>4. task' = [task EXCEPT ![t].status = status]
    BY <1>3, <2>1 DEF Proceed, Patch
  <2>5. With(RUNNING)' \subseteq With(RUNNING)
    BY <2>1, <2>3, <2>4 DEF With
  <2> QED
    BY <2>5, FewerWithinBudget
<1> QED
  BY <1>1, <1>2, <1>3

LEMMA SettlesWithinBudget ==
    ASSUME NEW t \in Ids, WithinBudget, Inv, Settles(t)
    PROVE  WithinBudget'
<1>0. /\ {"uploading", "confirming"} \subseteq RUNNING
      /\ {"error", "done"} \cap RUNNING = {}
  BY DEF RUNNING
<1>1. CASE Presigned(t)
  BY <1>0, <1>1, ProceedWithinBudget DEF Presigned
<1>2. CASE Stored(t)
  BY <1>0, <1>2, ProceedWithinBudget DEF Stored
<1>3. CASE NameConflict(t)
  <2>1. \/ End(t, task)
        \/ End(t, Patch(t, "error"))
        \/ End(t, applyConflict(t))
    BY <1>3 DEF NameConflict
  <2> QED
    BY <1>0, <2>1, SameRunsNothing, PatchRunsNothing, ConflictRunsNothing, EndWithinBudget
<1>4. CASE Confirmed(t)
  BY <1>0, <1>4, PatchRunsNothing, EndWithinBudget DEF Confirmed
<1>5. CASE Fails(t)
  <2>1. End(t, task) \/ End(t, Patch(t, "error"))
    BY <1>5 DEF Fails
  <2> QED
    BY <1>0, <2>1, SameRunsNothing, PatchRunsNothing, EndWithinBudget
<1> QED
  BY <1>1, <1>2, <1>3, <1>4, <1>5 DEF Settles

LEMMA ClickWithinBudget ==
    ASSUME WithinBudget, Inv, Next
    PROVE  WithinBudget'
<1>0. DOMAIN task \subseteq 1..made /\ made \in 0..MaxTasks /\ MaxTasks \in Nat
  BY UploadQueueAssumption DEF Inv, TypeOK
<1>1. ASSUME NEW n \in 1..(MaxTasks - made), NEW bad, Enqueue(n, bad)
      PROVE  WithinBudget'
  <2> DEFINE added == made + 1 .. made + n
             tasks == [t \in DOMAIN task \cup added |->
                          IF t \in added
                          THEN [batch |-> made + 1, ok |-> t \notin bad, onConflict |-> None,
                                status |-> IF t \in bad THEN "error" ELSE "queued"]
                          ELSE task[t]]
  <2>1. Pump(tasks, run)
    BY <1>1 DEF Enqueue
  <2>2. DOMAIN tasks \subseteq Ids
    BY <1>0, <1>1 DEF Ids
  <2>3. \A t \in added : tasks[t].status \in {"error", "queued"}
    OBVIOUS
  <2>4. \A t \in DOMAIN tasks \ added : t \in DOMAIN task /\ tasks[t] = task[t]
    OBVIOUS
  <2> HIDE DEF tasks, added
  <2>5. RunningIn(tasks) \subseteq With(RUNNING)
    BY <2>3, <2>4 DEF RunningIn, With, RUNNING
  <2> QED
    BY <2>1, <2>2, <2>5, PumpWithinBudget
<1>2. ASSUME NEW t \in Ids, Cancel(t)
      PROVE  WithinBudget'
  <2>1. With(RUNNING)' \subseteq With(RUNNING)
    BY <1>2 DEF Cancel, Patch, With, RUNNING
  <2> QED
    BY <2>1, FewerWithinBudget
<1>3. ASSUME NEW t \in Ids, Retry(t)
      PROVE  WithinBudget'
  <2>1. Pump(Patch(t, "queued"), run) /\ "queued" \notin RUNNING
    BY <1>3 DEF Retry, RUNNING
  <2>2. DOMAIN Patch(t, "queued") \subseteq Ids
    BY <1>0, <2>1, PatchRunsNothing DEF Ids
  <2> QED
    BY <2>1, <2>2, PatchRunsNothing, PumpWithinBudget
<1>4. CASE ClearFinished
  <2>1. With(RUNNING)' \subseteq With(RUNNING)
    BY <1>4 DEF ClearFinished, With
  <2> QED
    BY <2>1, FewerWithinBudget
<1>5. CASE Tick
  <2>1. With(RUNNING)' \subseteq With(RUNNING)
    BY <1>5 DEF Tick, With
  <2> QED
    BY <2>1, FewerWithinBudget
<1>6. ASSUME NEW t \in Ids, NEW choice \in Choices, Answer(t, choice)
      PROVE  WithinBudget'
  <2> DEFINE targets == IF box THEN Parked(task[t].batch) ELSE {t}
             tasks == [u \in DOMAIN task |->
                          IF u \notin targets THEN task[u]
                          ELSE IF choice = "CANCEL" THEN [task[u] EXCEPT !.status = "canceled"]
                          ELSE [task[u] EXCEPT !.status = "queued", !.onConflict = choice]]
  <2>1. Pump(tasks, run)
    BY <1>6 DEF Answer
  <2>2. DOMAIN tasks \subseteq Ids
    BY <1>0 DEF Ids
  <2>3. \A u \in DOMAIN task : task[u] \in Task
    BY DEF Inv, TypeOK
  <2> HIDE DEF targets
  <2>4. \A u \in DOMAIN tasks :
            tasks[u] = task[u] \/ tasks[u].status \in {"canceled", "queued"}
    BY <2>3 DEF Task
  <2>5. DOMAIN tasks = DOMAIN task
    OBVIOUS
  <2> HIDE DEF tasks
  <2>6. RunningIn(tasks) \subseteq With(RUNNING)
    BY <2>4, <2>5 DEF RunningIn, With, RUNNING
  <2> QED
    BY <2>1, <2>2, <2>6, PumpWithinBudget
<1> QED
  BY <1>1, <1>2, <1>3, <1>4, <1>5, <1>6, SettlesWithinBudget DEF Next

(* The slots are never overdrawn, for any number of files and slots        *)
(* (pump in uploadStore.ts).                                               *)
THEOREM BudgetCorrect == Spec => []WithinBudget
<1>1. Init => WithinBudget
  <2> SUFFICES ASSUME Init PROVE WithinBudget
    OBVIOUS
  <2>1. With(RUNNING) = {}
    BY DEF Init, With
  <2> QED
    BY <2>1, FS_EmptySet, UploadQueueAssumption DEF WithinBudget
<1>2. Inv /\ WithinBudget /\ [Next]_vars => WithinBudget'
  <2>1. UNCHANGED vars /\ WithinBudget => WithinBudget'
    BY DEF vars, WithinBudget, With
  <2> QED
    BY <2>1, ClickWithinBudget
<1> QED
  BY <1>1, <1>2, QueueCorrect, PTL DEF Spec
-----------------------------------------------------------------------------
(* No slot is lost *)

(* The first k of the queued tasks are at least k, if one is left over.    *)
LEMMA FirstFill ==
    ASSUME NEW N \in Nat, NEW Q, Q \subseteq 1..N, NEW k \in Int,
           NEW S, S = {t \in Q : Cardinality({u \in Q : u < t}) < k}, Q \ S # {}
    PROVE  IsFiniteSet(S) /\ Cardinality(S) \in Nat /\ Cardinality(S) >= k
<1> DEFINE left == Q \ S
<1>0. Q \subseteq Nat
  OBVIOUS
<1>1. left \subseteq Nat /\ left # {}
  BY <1>0
<1> HIDE DEF left
<1>2. PICK t \in left : \A u \in left : t <= u
  BY <1>1, Smallest
<1> USE DEF left
<1> DEFINE before == {u \in Q : u < t}
<1>3. before \subseteq S
  <2> SUFFICES ASSUME NEW u \in Q, u < t, u \notin S
               PROVE  FALSE
    OBVIOUS
  <2>1. t <= u /\ u \in 1..N /\ t \in 1..N
    BY <1>2
  <2> QED
    BY <2>1
<1>4. Cardinality(before) \in Nat /\ S \subseteq 1..N
  <2>1. before \subseteq 1..N
    OBVIOUS
  <2> QED
    BY <2>1, SomeIds
<1>5. ~(Cardinality(before) < k)
  BY <1>2
<1> HIDE DEF before
<1>6. IsFiniteSet(S) /\ Cardinality(S) \in Nat
  BY <1>4, SomeIds
<1>7. Cardinality(before) <= Cardinality(S)
  BY <1>3, <1>6, FS_Subset
<1> QED
  BY <1>4, <1>5, <1>6, <1>7

LEMMA SetsAStatus ==
    ASSUME NEW r, NEW status, [r EXCEPT !.status = status] \in Task
    PROVE  [r EXCEPT !.status = status].status = status
<1>1. "status" \in DOMAIN [r EXCEPT !.status = status]
  BY DEF Task
<1>2. "status" \in DOMAIN r
  BY <1>1
<1> QED
  BY <1>2

(* Pump leaves no task queued while there is room for another run.         *)
LEMMA PumpFills ==
    ASSUME NEW tasks, NEW requests, Inv', Pump(tasks, requests), DOMAIN tasks \subseteq Ids,
           With({"queued"})' # {}
    PROVE  Cardinality(With(RUNNING)') >= MaxConcurrent
<1> DEFINE queued == {t \in DOMAIN tasks : tasks[t].status \in {"queued"}}
           k == MaxConcurrent - Cardinality(RunningIn(tasks))
           start == {t \in queued : Cardinality({u \in queued : u < t}) < k}
<1>1. MaxConcurrent \in Nat /\ MaxTasks \in Nat
  BY UploadQueueAssumption
<1>2. /\ IsFiniteSet(RunningIn(tasks)) /\ Cardinality(RunningIn(tasks)) \in Nat
      /\ queued \subseteq 1..MaxTasks
  <2>1. RunningIn(tasks) \subseteq 1..MaxTasks
    BY DEF RunningIn, Ids
  <2> QED
    BY <1>1, <2>1, SomeIds DEF Ids
<1>3. start \subseteq queued
  OBVIOUS
<1>4. task' = [t \in DOMAIN tasks |->
                 IF t \in start THEN [tasks[t] EXCEPT !.status = "presigning"] ELSE tasks[t]]
  BY DEF Pump, Starting, RunningIn
<1> HIDE DEF start
<1>5. \A t \in start : t \in DOMAIN task' /\ task'[t].status = "presigning"
  <2> SUFFICES ASSUME NEW t \in start
               PROVE  t \in DOMAIN task' /\ task'[t].status = "presigning"
    OBVIOUS
  <2>1. t \in DOMAIN task' /\ task'[t] = [tasks[t] EXCEPT !.status = "presigning"]
    BY <1>3, <1>4
  <2>2. task'[t] \in Task
    BY <2>1 DEF Inv, TypeOK
  <2> QED
    BY <2>1, <2>2, SetsAStatus
<1> USE DEF start
<1>6. queued \ start # {}
  <2> HIDE DEF start
  <2>1. PICK t \in DOMAIN task' : task'[t].status = "queued"
    BY DEF With
  <2>2. t \in DOMAIN tasks /\ t \notin start
    BY <1>4, <1>5, <2>1
  <2> QED
    BY <1>4, <2>1, <2>2
<1>7. IsFiniteSet(start) /\ Cardinality(start) \in Nat /\ Cardinality(start) >= k
  <2>1. PICK Q, j, S : Q = queued /\ j = k /\ S = start
    OBVIOUS
  <2>2. S = {t \in Q : Cardinality({u \in Q : u < t}) < j}
    BY <2>1
  <2>3. k \in Int
    BY <1>1, <1>2
  <2> HIDE DEF queued, k, start
  <2>4. Q \subseteq 1..MaxTasks /\ j \in Int /\ Q \ S # {}
    BY <1>2, <1>6, <2>1, <2>3
  <2>5. IsFiniteSet(S) /\ Cardinality(S) \in Nat /\ Cardinality(S) >= j
    BY <1>1, <2>2, <2>4, FirstFill
  <2> QED
    BY <2>1, <2>5
<1>8. RunningIn(tasks) \cap start = {}
  <2> HIDE DEF start
  <2> QED
    BY <1>3 DEF RunningIn, RUNNING
<1>9. With(RUNNING)' = RunningIn(tasks) \cup start
  <2> HIDE DEF start
  <2>1. \A t \in DOMAIN tasks \ start : task'[t] = tasks[t]
    BY <1>4
  <2>2. \A t \in start : t \in DOMAIN task' /\ task'[t].status \in RUNNING
    BY <1>5 DEF RUNNING
  <2>3. DOMAIN task' = DOMAIN tasks
    BY <1>4
  <2> QED
    BY <1>3, <2>1, <2>2, <2>3 DEF With, RunningIn
<1> HIDE DEF start
<1>10. Cardinality(With(RUNNING)') = Cardinality(RunningIn(tasks)) + Cardinality(start)
  <2>1. Cardinality(RunningIn(tasks) \cup start)
          = Cardinality(RunningIn(tasks)) + Cardinality(start)
               - Cardinality(RunningIn(tasks) \cap start)
    BY <1>2, <1>7, FS_Union
  <2>2. Cardinality({}) = 0
    BY FS_EmptySet
  <2> QED
    <3>1. Cardinality(RunningIn(tasks) \cap start) = 0
      BY <1>8, <2>2
    <3>2. Cardinality(With(RUNNING)') = Cardinality(RunningIn(tasks) \cup start)
      BY <1>9
    <3> QED
      BY <1>2, <1>7, <2>1, <3>1, <3>2
<1> QED
  BY <1>1, <1>2, <1>7, <1>10

(* The tasks with a request out. *)
Out == {t \in Ids : run[t] # "none"}

LEMMA PumpedIsBusy ==
    ASSUME Inv', NEW tasks, NEW requests, Pump(tasks, requests), DOMAIN tasks \subseteq Ids
    PROVE  NoSlotIdle'
<1> SUFFICES ASSUME With({"queued"})' # {}
             PROVE  Cardinality(Out') >= MaxConcurrent
  BY DEF NoSlotIdle, Out
<1>1. Cardinality(With(RUNNING)') >= MaxConcurrent
  BY PumpFills
<1>2. With(RUNNING)' \subseteq Out'
  <2> SUFFICES ASSUME NEW t \in DOMAIN task', task'[t].status \in RUNNING
               PROVE  t \in Ids /\ run'[t] # "none"
    BY DEF With, Out
  <2>1. t \in Ids
    BY UploadQueueAssumption DEF Inv, TypeOK, Ids
  <2>2. run'[t] = RequestOf(task'[t].status)
    BY DEF Inv, Consistent, Single, RUNNING
  <2> QED
    BY <2>1, <2>2 DEF RequestOf, RUNNING
<1>3. IsFiniteSet(Out') /\ Cardinality(Out') \in Nat
  <2>1. Out' \subseteq 1..MaxTasks
    BY DEF Out, Ids
  <2> QED
    BY <2>1, SomeIds, UploadQueueAssumption
<1>4. /\ IsFiniteSet(With(RUNNING)') /\ Cardinality(With(RUNNING)') \in Nat
      /\ Cardinality(With(RUNNING)') <= Cardinality(Out')
  BY <1>2, <1>3, FS_Subset, FS_CardinalityType
<1> QED
  BY <1>1, <1>3, <1>4, UploadQueueAssumption

(* Steps that do not pump queue nothing and end no request.                *)
LEMMA StillBusy ==
    ASSUME NoSlotIdle, With({"queued"})' \subseteq With({"queued"}), Out' = Out
    PROVE  NoSlotIdle'
  BY DEF NoSlotIdle, Out

LEMMA EndIsBusy ==
    ASSUME NEW t, NEW tasks, Inv, Inv', End(t, tasks), DOMAIN tasks = DOMAIN task
    PROVE  NoSlotIdle'
<1>1. DOMAIN tasks \subseteq Ids
  BY UploadQueueAssumption DEF Inv, TypeOK, Ids
<1> QED
  BY <1>1, PumpedIsBusy DEF End

LEMMA SameTasks ==
    ASSUME NEW t
    PROVE  /\ \A status : DOMAIN Patch(t, status) = DOMAIN task
           /\ DOMAIN applyConflict(t) = DOMAIN task
  BY DEF Patch, applyConflict

(* From one request to the next the task keeps its slot; a run that stops  *)
(* there instead hands it on.                                              *)
LEMMA ProceedIsBusy ==
    ASSUME NEW t \in Ids, NEW request \in {"put", "confirm"}, NEW status \in RUNNING,
           NoSlotIdle, Inv, Inv', run[t] # "none", Proceed(t, request, status)
    PROVE  NoSlotIdle'
<1>1. CASE isCanceled(t)
  BY <1>1, EndIsBusy DEF Proceed
<1>2. CASE ~isCanceled(t) /\ t \in aborted
  BY <1>2, SameTasks, EndIsBusy DEF Proceed
<1>3. CASE ~isCanceled(t) /\ t \notin aborted
  <2>1. task' = Patch(t, status) /\ run' = [run EXCEPT ![t] = request]
    BY <1>3 DEF Proceed
  <2>2. run \in [Ids -> {"none", "presign", "put", "confirm"}]
    BY DEF Inv, TypeOK
  <2>3. Out' = Out
    BY <2>1, <2>2 DEF Out
  <2>4. status # "queued"
    BY DEF RUNNING
  <2>5. \A u \in DOMAIN task : task[u] \in Task
    BY DEF Inv, TypeOK
  <2>6. With({"queued"})' \subseteq With({"queued"})
    BY <2>1, <2>4, <2>5 DEF With, Patch, Task
  <2> QED
    BY <2>3, <2>6, StillBusy
<1> QED
  BY <1>1, <1>2, <1>3

LEMMA SettlesIsBusy ==
    ASSUME NEW t \in Ids, NoSlotIdle, Inv, Inv', Settles(t)
    PROVE  NoSlotIdle'
<1>1. CASE Presigned(t)
  BY <1>1, ProceedIsBusy DEF Presigned, RUNNING
<1>2. CASE Stored(t)
  BY <1>2, ProceedIsBusy DEF Stored, RUNNING
<1>3. CASE NameConflict(t)
  <2>1. \/ End(t, task)
        \/ End(t, Patch(t, "error"))
        \/ End(t, applyConflict(t))
    BY <1>3 DEF NameConflict
  <2> QED
    BY <2>1, SameTasks, EndIsBusy
<1>4. CASE Confirmed(t)
  BY <1>4, SameTasks, EndIsBusy DEF Confirmed
<1>5. CASE Fails(t)
  <2>1. End(t, task) \/ End(t, Patch(t, "error"))
    BY <1>5 DEF Fails
  <2> QED
    BY <2>1, SameTasks, EndIsBusy
<1> QED
  BY <1>1, <1>2, <1>3, <1>4, <1>5 DEF Settles

LEMMA ClickIsBusy ==
    ASSUME NoSlotIdle, Inv, Inv', Next
    PROVE  NoSlotIdle'
<1>0. DOMAIN task \subseteq 1..made /\ made \in 0..MaxTasks /\ MaxTasks \in Nat
  BY UploadQueueAssumption DEF Inv, TypeOK
<1>1. ASSUME NEW n \in 1..(MaxTasks - made), NEW bad, Enqueue(n, bad)
      PROVE  NoSlotIdle'
  <2> DEFINE added == made + 1 .. made + n
             tasks == [t \in DOMAIN task \cup added |->
                          IF t \in added
                          THEN [batch |-> made + 1, ok |-> t \notin bad, onConflict |-> None,
                                status |-> IF t \in bad THEN "error" ELSE "queued"]
                          ELSE task[t]]
  <2>1. Pump(tasks, run)
    BY <1>1 DEF Enqueue
  <2>2. DOMAIN tasks \subseteq Ids
    BY <1>0, <1>1 DEF Ids
  <2> HIDE DEF tasks
  <2> QED
    BY <2>1, <2>2, PumpedIsBusy
<1>2. ASSUME NEW t \in Ids, Cancel(t)
      PROVE  NoSlotIdle'
  <2>1. run' = run /\ task' = [task EXCEPT ![t].status = "canceled"]
    BY <1>2 DEF Cancel, Patch, With
  <2>2. \A u \in DOMAIN task : task[u] \in Task
    BY DEF Inv, TypeOK
  <2>3. With({"queued"})' \subseteq With({"queued"})
    BY <2>1, <2>2 DEF With, Task
  <2>4. Out' = Out
    BY <2>1 DEF Out
  <2> QED
    BY <2>3, <2>4, StillBusy
<1>3. ASSUME NEW t \in Ids, Retry(t)
      PROVE  NoSlotIdle'
  <2>1. Pump(Patch(t, "queued"), run)
    BY <1>3 DEF Retry
  <2>2. DOMAIN Patch(t, "queued") \subseteq Ids
    BY <1>0, SameTasks DEF Ids
  <2> QED
    BY <2>1, <2>2, PumpedIsBusy
<1>4. CASE ClearFinished
  <2>1. With({"queued"})' \subseteq With({"queued"})
    BY <1>4 DEF ClearFinished, With
  <2>2. Out' = Out
    BY <1>4 DEF ClearFinished, Out
  <2> QED
    BY <2>1, <2>2, StillBusy
<1>5. CASE Tick
  <2>1. With({"queued"})' = With({"queued"}) /\ Out' = Out
    BY <1>5 DEF Tick, With, Out
  <2> QED
    BY <2>1, StillBusy
<1>6. ASSUME NEW t \in Ids, NEW choice \in Choices, Answer(t, choice)
      PROVE  NoSlotIdle'
  <2> DEFINE targets == IF box THEN Parked(task[t].batch) ELSE {t}
             tasks == [u \in DOMAIN task |->
                          IF u \notin targets THEN task[u]
                          ELSE IF choice = "CANCEL" THEN [task[u] EXCEPT !.status = "canceled"]
                          ELSE [task[u] EXCEPT !.status = "queued", !.onConflict = choice]]
  <2>1. Pump(tasks, run)
    BY <1>6 DEF Answer
  <2>2. DOMAIN tasks \subseteq Ids
    BY <1>0 DEF Ids
  <2> HIDE DEF tasks
  <2> QED
    BY <2>1, <2>2, PumpedIsBusy
<1> QED
  BY <1>1, <1>2, <1>3, <1>4, <1>5, <1>6, SettlesIsBusy DEF Next

(* A task waits in the queue only while as many requests are out as there  *)
(* are slots: whatever way a run ends, also one that was canceled long     *)
(* before, its slot is handed on (run and pump in uploadStore.ts).         *)
THEOREM SlotsCorrect == Spec => []NoSlotIdle
<1>1. Init => NoSlotIdle
  BY DEF Init, NoSlotIdle, With
<1>2. Inv /\ Inv' /\ NoSlotIdle /\ [Next]_vars => NoSlotIdle'
  <2>1. UNCHANGED vars /\ NoSlotIdle => NoSlotIdle'
    BY DEF vars, NoSlotIdle, With
  <2> QED
    BY <2>1, ClickIsBusy
<1> QED
  BY <1>1, <1>2, QueueCorrect, PTL DEF Spec
=============================================================================
