---------------------------- MODULE UploadQueue ----------------------------
(***************************************************************************)
(* The browser's upload queue: the store behind the panel, the requests it *)
(* has under way, and the dialog that asks what to do about a name that is *)
(* taken.                                                                  *)
(*                                                                         *)
(* run() is cut where it awaits an answer; what it does between two awaits *)
(* is one action, pump() included, for nothing else runs meanwhile.  The   *)
(* user acts between any two of them, through the buttons on screen alone. *)
(* An answer may arrive although the request was aborted; that an abort    *)
(* surfaces as an error is Fails, the branch being the same.               *)
(***************************************************************************)
EXTENDS Integers, FiniteSets

CONSTANTS
    MaxConcurrent,  \* MAX_CONCURRENT
    MaxTasks,       \* bound: how many files are ever dropped
    Strategies,     \* what presign may be told about a taken name
    None            \* undefined

ASSUME UploadQueueAssumption ==
    /\ MaxConcurrent \in Nat \ {0}
    /\ MaxTasks \in Nat
    /\ None \notin Strategies \cup {"CANCEL"}

VARIABLES
    made,     \* how many tasks were enqueued: their ids are 1..made
    task,     \* the tasks in the store
    choices,  \* batchChoices; a batch is named by its first task
    run,      \* run[t]: the request of t that awaits its answer
    aborted,  \* the tasks whose request under way was told to abort
    box       \* applyToAll, the state of the dialog's checkbox

vars == << made, task, choices, run, aborted, box >>

Ids == 1..MaxTasks
Choices == Strategies \cup {"CANCEL"}
RUNNING == {"presigning", "uploading", "confirming"}
ACTIVE == RUNNING \cup {"queued", "needs-decision"}

With(S) == {t \in DOMAIN task : task[t].status \in S}
Parked(b) == {t \in With({"needs-decision"}) : task[t].batch = b}

-----------------------------------------------------------------------------
(* uploadStore.ts: patch, pump and the checkpoints of run *)

(* A task that was cleared meanwhile takes no patch. *)
Patch(t, status) ==
    IF t \in DOMAIN task THEN [task EXCEPT ![t].status = status] ELSE task

isCanceled(t) == t \in With({"canceled"})

(* Mutant: requests that wait for a confirm take no slot. *)
Starting_confirmingFree(tasks) ==
    LET is(S) == {t \in DOMAIN tasks : tasks[t].status \in S}
        slots == MaxConcurrent - Cardinality(is({"presigning", "uploading"}))
    IN  {t \in is({"queued"}) : Cardinality({u \in is({"queued"}) : u < t}) < slots}

(* The first queued tasks, as many as there are slots. *)
Starting(tasks) ==
    LET is(S) == {t \in DOMAIN tasks : tasks[t].status \in S}
        slots == MaxConcurrent - Cardinality(is(RUNNING))
    IN  {t \in is({"queued"}) : Cardinality({u \in is({"queued"}) : u < t}) < slots}

(* The tasks and requests given, with the runs that pump() starts. *)
Pump(tasks, requests) ==
    LET start == Starting(tasks) IN
    /\ task' = [t \in DOMAIN tasks |->
                  IF t \in start THEN [tasks[t] EXCEPT !.status = "presigning"] ELSE tasks[t]]
    /\ run' = [t \in Ids |-> IF t \in start THEN "presign" ELSE requests[t]]
    /\ aborted' = {t \in aborted : requests[t] # "none"} \ start

End(t, tasks) == Pump(tasks, [run EXCEPT ![t] = "none"])

(* Mutant: the queue is not pumped when a canceled run ends. *)
Proceed_noPump(t, request, status) ==
    IF isCanceled(t)
    THEN run' = [run EXCEPT ![t] = "none"] /\ aborted' = aborted \ {t} /\ UNCHANGED task
    ELSE IF t \in aborted
    THEN End(t, Patch(t, "canceled"))
    ELSE /\ task' = Patch(t, status)
         /\ run' = [run EXCEPT ![t] = request]
         /\ UNCHANGED aborted

(* Mutant: the next request does not look at the signal. *)
Proceed_signalIgnored(t, request, status) ==
    IF isCanceled(t)
    THEN End(t, task)
    ELSE /\ task' = Patch(t, status)
         /\ run' = [run EXCEPT ![t] = request]
         /\ UNCHANGED aborted

(* From one request to the next: past the checkpoint, and the next request *)
(* is not sent if the signal is aborted already.                           *)
Proceed(t, request, status) ==
    IF isCanceled(t)
    THEN End(t, task)
    ELSE IF t \in aborted
    THEN End(t, Patch(t, "canceled"))
    ELSE /\ task' = Patch(t, status)
         /\ run' = [run EXCEPT ![t] = request]
         /\ UNCHANGED aborted

(* Mutant: the batch's answer is not asked for. *)
applyConflict_asks(t) == Patch(t, "needs-decision")

(* What becomes of a task whose name is taken. *)
applyConflict(t) ==
    IF t \notin DOMAIN task THEN task
    ELSE LET b == task[t].batch IN
         IF b \notin DOMAIN choices THEN Patch(t, "needs-decision")
         ELSE IF choices[b] = "CANCEL" THEN Patch(t, "canceled")
         ELSE [task EXCEPT ![t].status = "queued", ![t].onConflict = choices[b]]

-----------------------------------------------------------------------------
(* Answers *)

Presigned(t) ==
    /\ run[t] = "presign"
    /\ Proceed(t, "put", "uploading")
    /\ UNCHANGED << made, choices, box >>

(* 409 NAME_CONFLICT.  After a strategy was sent it is an error. *)
NameConflict(t) ==
    /\ run[t] = "presign"
    /\ End(t, IF isCanceled(t) THEN task
              ELSE IF t \in DOMAIN task /\ task[t].onConflict # None THEN Patch(t, "error")
              ELSE applyConflict(t))
    /\ UNCHANGED << made, choices, box >>

Stored(t) ==
    /\ run[t] = "put"
    /\ Proceed(t, "confirm", "confirming")
    /\ UNCHANGED << made, choices, box >>

(* No checkpoint here: the file is in the room. *)
Confirmed(t) ==
    /\ run[t] = "confirm"
    /\ End(t, Patch(t, "done"))
    /\ UNCHANGED << made, choices, box >>

(* Mutant: the error is shown whatever the user did meanwhile. *)
Fails_error(t) ==
    /\ run[t] # "none"
    /\ End(t, Patch(t, "error"))
    /\ UNCHANGED << made, choices, box >>

Fails(t) ==
    /\ run[t] # "none"
    /\ End(t, IF isCanceled(t) THEN task ELSE Patch(t, "error"))
    /\ UNCHANGED << made, choices, box >>

-----------------------------------------------------------------------------
(* The user *)

(* One drop of n files; those in bad are refused before any request. *)
Enqueue(n, bad) ==
    LET added == made + 1 .. made + n IN
    /\ made' = made + n
    /\ Pump([t \in DOMAIN task \cup added |->
                IF t \in added
                THEN [batch |-> made + 1, ok |-> t \notin bad, onConflict |-> None,
                      status |-> IF t \in bad THEN "error" ELSE "queued"]
                ELSE task[t]],
            run)
    /\ UNCHANGED << choices, box >>

(* The panel offers it for everything active but a parked task. *)
Cancel(t) ==
    /\ t \in With(ACTIVE \ {"needs-decision"})
    /\ task' = Patch(t, "canceled")
    /\ aborted' = IF run[t] = "none" THEN aborted ELSE aborted \cup {t}
    /\ UNCHANGED << made, choices, run, box >>

(* Mutant: offered for canceled tasks too. *)
Retry_canceled(t) ==
    /\ t \in With({"error", "canceled"}) /\ task[t].ok
    /\ Pump(Patch(t, "queued"), run)
    /\ UNCHANGED << made, choices, box >>

(* A file refused locally stays refused. *)
Retry(t) ==
    /\ t \in With({"error"}) /\ task[t].ok
    /\ Pump(Patch(t, "queued"), run)
    /\ UNCHANGED << made, choices, box >>

(* The panel offers it when nothing is active. *)
ClearFinished ==
    LET kept == DOMAIN task \ With({"done", "canceled"})
        live == {task[t].batch : t \in kept}
    IN  /\ With(ACTIVE) = {}
        /\ task' = [t \in kept |-> task[t]]
        /\ choices' = [b \in DOMAIN choices \cap live |-> choices[b]]
        /\ UNCHANGED << made, run, aborted, box >>

(* ConflictDialog.tsx: the dialog is about the first parked task. *)
Asked(t) == t \in With({"needs-decision"}) /\ \A u \in With({"needs-decision"}) : t <= u

(* The checkbox is there if the batch has another conflict.  The dialog    *)
(* stays mounted, so that the box keeps its state from prompt to prompt.   *)
Tick ==
    /\ \E t \in Ids : Asked(t) /\ Parked(task[t].batch) # {t}
    /\ box' = ~box
    /\ UNCHANGED << made, task, choices, run, aborted >>

(* resolveConflict. *)
Answer(t, choice) ==
    LET b == task[t].batch
        targets == IF box THEN Parked(b) ELSE {t}
    IN  /\ Asked(t)
        /\ choices' = IF box
                      THEN [x \in DOMAIN choices \cup {b} |->
                               IF x = b THEN choice ELSE choices[x]]
                      ELSE choices
        /\ Pump([u \in DOMAIN task |->
                    IF u \notin targets THEN task[u]
                    ELSE IF choice = "CANCEL" THEN [task[u] EXCEPT !.status = "canceled"]
                    ELSE [task[u] EXCEPT !.status = "queued", !.onConflict = choice]],
                run)
        /\ UNCHANGED << made, box >>

-----------------------------------------------------------------------------
Init ==
    /\ made = 0
    /\ task = [t \in {} |-> None]
    /\ choices = [b \in {} |-> None]
    /\ run = [t \in Ids |-> "none"]
    /\ aborted = {}
    /\ box = FALSE

Settles(t) ==
    Presigned(t) \/ NameConflict(t) \/ Stored(t) \/ Confirmed(t) \/ Fails(t)

Next ==
    \/ \E n \in 1..(MaxTasks - made) : \E bad \in SUBSET (made + 1 .. made + n) : Enqueue(n, bad)
    \/ \E t \in Ids : Settles(t) \/ Cancel(t) \/ Retry(t)
    \/ ClearFinished
    \/ Tick
    \/ \E t \in Ids, choice \in Choices : Answer(t, choice)

(* Every request is answered, fails or is aborted in the end; the user     *)
(* need not do anything.                                                   *)
Fairness == \A t \in Ids : WF_vars(Settles(t))

Spec == Init /\ [][Next]_vars /\ Fairness

-----------------------------------------------------------------------------
Task == [batch : Ids, ok : BOOLEAN, onConflict : Strategies \cup {None},
         status : ACTIVE \cup {"done", "error", "canceled"}]

TypeOK ==
    /\ made \in 0..MaxTasks
    /\ DOMAIN task \subseteq 1..made
    /\ \A t \in DOMAIN task : task[t] \in Task
    /\ DOMAIN choices \subseteq 1..made
    /\ \A b \in DOMAIN choices : choices[b] \in Choices
    /\ run \in [Ids -> {"none", "presign", "put", "confirm"}]
    /\ aborted \subseteq Ids
    /\ box \in BOOLEAN

(* Never more than MAX_CONCURRENT tasks run, whatever is canceled, retried *)
(* or answered while requests are under way (pump in uploadStore.ts).      *)
WithinBudget == Cardinality(With(RUNNING)) <= MaxConcurrent

(* No slot is lost: while a task is queued as many requests are out as     *)
(* there are slots.  A slot may be free only because a canceled run has    *)
(* still to end; cancel does not pump, so every way a run ends must        *)
(* (run and cancel in uploadStore.ts).                                     *)
NoSlotIdle ==
    With({"queued"}) # {} => Cardinality({t \in Ids : run[t] # "none"}) >= MaxConcurrent

(* The request a task's status tells of. *)
RequestOf(status) ==
    CASE status = "presigning" -> "presign"
      [] status = "uploading"  -> "put"
      [] status = "confirming" -> "confirm"
      [] OTHER                 -> "none"

(* A task has at most one run: unless it was canceled, the request under   *)
(* way is the one its status tells of, so that no answer of an earlier     *)
(* attempt can reach a later one.                                          *)
OneRunPerTask ==
    \A t \in DOMAIN task : ~isCanceled(t) => run[t] = RequestOf(task[t].status)

(* A canceled file sends no further request, even if the answer overtook   *)
(* the abort, and even if the task has left the list by then.              *)
NothingSentAfterCancel ==
    [][\A t \in Ids : run'[t] # run[t] /\ run'[t] \in {"put", "confirm"} =>
          t \in DOMAIN task /\ ~isCanceled(t)]_vars

(* A canceled task stays canceled, with one exception the code makes on    *)
(* purpose: a confirm that had already succeeded is reported.              *)
CancelIsFinal ==
    [][\A t \in With({"canceled"}) \cap DOMAIN task' :
          \/ task'[t].status = "canceled"
          \/ task'[t].status = "done" /\ run[t] = "confirm"]_vars

(* What the local check refused never becomes a request: nothing behind it *)
(* checks the type again (localRejection in uploadStore.ts).               *)
RefusedNeverSent == \A t \in DOMAIN task : ~task[t].ok => task[t].status = "error"

(* The user is asked once: no file of a batch that was answered as a whole *)
(* waits for an answer, however late its conflict is reported, and a file  *)
(* that was answered for is not asked about again.                         *)
AskedOnce ==
    \A t \in With({"needs-decision"}) :
        task[t].batch \notin DOMAIN choices /\ task[t].onConflict = None

(* Every upload comes to rest: done, failed, canceled or waiting for the   *)
(* user.  A user who retries for ever may starve it, as the queue starts   *)
(* tasks in the order they were dropped in.                                *)
UploadsSettle ==
    LET going == With(RUNNING \cup {"queued"}) IN
    \/ []<><<\E u \in Ids : Retry(u)>>_vars
    \/ \A t \in Ids : t \in going ~> t \notin going
=============================================================================
