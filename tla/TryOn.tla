------------------------------- MODULE TryOn -------------------------------
(***************************************************************************)
(* Virtual try-on (handler/tryon.go, service/tryon/): a request passes the *)
(* vertical gate and the daily quota, its task is stored in Redis, and a   *)
(* pipeline of paid calls runs under a semaphore and a deadline of five    *)
(* minutes, while the browser follows it on a stream.                      *)
(*                                                                         *)
(* Redis keys of a task: data (what the client is shown) and status (what  *)
(* ends the stream, five minutes to live). A look is the pair of hashes of *)
(* the two images: the key of the cache of results.                        *)
(***************************************************************************)
EXTENDS Naturals, FiniteSets

CONSTANTS Tasks, Looks, DailyQuota,
          StreamSlots,       \* values of MaxConcurrentSSE
          MaxFaults  \* bound: Redis calls that fail

VARIABLES
    slots,   \* MaxConcurrentSSE: pipelines, and streams, at a time (fixed at start)
    task,    \* task[t]: [pc, look]
    redis,   \* redis[t]: the keys of the task: [data, status, result]
    late,    \* late[t]: the deadline of the task's pipeline has passed
    stream,  \* stream[t]: "none", "open", or the status it ended with
    dayCount,   \* the shop's counter of the day
    results, \* looks with a result in the cache
    paid,    \* paid[k]: generations submitted for the look
    rivals,   \* tasks that missed while another was at work on the same look
    lost, torn, faults  \* looks that lost a result; tasks with a lost write; count

tryonVars == <<slots, task, redis, late, stream, dayCount, results, paid, rivals,
               lost, torn, faults>>

TryOnConstants == IsFiniteSet(Tasks) /\ Looks # {} /\ MaxFaults \in Nat

Terminal == {"completed", "cached", "failed"}
NoKeys == [data |-> "none", status |-> "none", result |-> FALSE]
Off == [pc |-> "off", look |-> CHOOSE k \in Looks : TRUE]
Running == {t \in Tasks : task[t].pc \notin {"off", "stored", "refused", "done"}}

TryOnInit ==
    /\ slots \in StreamSlots
    /\ task = [t \in Tasks |-> Off] /\ redis = [t \in Tasks |-> NoKeys]
    /\ late = [t \in Tasks |-> FALSE] /\ stream = [t \in Tasks |-> "none"]
    /\ dayCount = 0 /\ results = {} /\ paid = [k \in Looks |-> 0]
    /\ rivals = {} /\ lost = {} /\ torn = {} /\ faults = 0

RedisFails == faults < MaxFaults /\ faults' = faults + 1
\* The writes of a step reach Redis, or one of them is lost: an expired context
\* loses them all, otherwise a failing write is logged and the pipeline goes on.
\* Every progress report rewrites data.status and status together.
WriteKeys(t, data, status, result) ==
    \/ /\ ~late[t] /\ UNCHANGED <<torn, faults>>
       /\ redis' = [redis EXCEPT ![t] = [data |-> data, status |-> status,
                                        result |-> result]]
    \/ /\ late[t] /\ UNCHANGED <<redis, faults>> /\ torn' = torn \cup {t}
    \/ /\ ~late[t] /\ RedisFails /\ torn' = torn \cup {t}
       /\ redis' \in {[redis EXCEPT ![t].data = data, ![t].result = result],
                      [redis EXCEPT ![t].status = status], redis}
Progress(t, status) == WriteKeys(t, status, status, redis[t].result)
Advance(t, pc) == task' = [task EXCEPT ![t].pc = pc]

\* Create: the counter of the day counts the refused requests too; without an
\* answer of Redis nothing is counted. The data is removed again when the
\* status cannot be stored.
Create(t, k) ==
    /\ task[t].pc = "off"
    /\ \/ dayCount' = dayCount + 1 /\ faults' = faults
       \/ dayCount' = dayCount /\ RedisFails
    /\ \/ /\ dayCount' <= DailyQuota
          /\ task' = [task EXCEPT ![t] = [pc |-> "stored", look |-> k]]
          /\ redis' = [redis EXCEPT ![t] = [data |-> "pending", status |-> "pending",
                                            result |-> FALSE]]
       \/ Advance(t, "refused") /\ UNCHANGED redis
    /\ UNCHANGED <<late, stream, results, paid, rivals, lost, torn>>
\* The select on the semaphore: without a slot both keys are deleted, the quota
\* stays spent.
Dispatch(t) ==
    /\ task[t].pc = "stored"
    /\ IF Cardinality(Running) < slots
       THEN Advance(t, "load") /\ UNCHANGED redis
       ELSE Advance(t, "refused") /\ redis' = [redis EXCEPT ![t] = NoKeys]
    /\ UNCHANGED <<late, stream, dayCount, results, paid, rivals, lost, torn, faults>>
Deadline(t) ==
    /\ t \in Running /\ ~late[t] /\ late' = [late EXCEPT ![t] = TRUE]
    /\ UNCHANGED <<task, redis, stream, dayCount, results, paid, rivals, lost, torn, faults>>

\* Run loads the task; without it the pipeline ends and nobody is told.
Load(t) ==
    /\ task[t].pc = "load"
    /\ \/ ~late[t] /\ Advance(t, "validate") /\ UNCHANGED <<torn, faults>>
       \/ /\ Advance(t, "done") /\ torn' = torn \cup {t}
          /\ IF late[t] THEN UNCHANGED faults ELSE RedisFails
    /\ UNCHANGED <<redis, late, stream, dayCount, results, paid, rivals, lost>>

\* handleFailure: the error goes to data and to status. A generation that had
\* been submitted is lost with it.
\* Seeded bug: the status key keeps the last report.
FailQuietly(t, losing) ==
    /\ Advance(t, "done") /\ WriteKeys(t, "failed", redis[t].status, redis[t].result)
    /\ lost' = IF losing THEN lost \cup {task[t].look} ELSE lost
    /\ UNCHANGED <<late, stream, dayCount, results, paid, rivals>>
HandleFailure(t, losing) ==
    /\ Advance(t, "done") /\ WriteKeys(t, "failed", "failed", redis[t].result)
    /\ lost' = IF losing THEN lost \cup {task[t].look} ELSE lost
    /\ UNCHANGED <<late, stream, dayCount, results, paid, rivals>>
Step(t, from, to, status) ==
    /\ task[t].pc = from /\ Advance(t, to) /\ Progress(t, status)
    /\ UNCHANGED <<late, stream, dayCount, results, paid, rivals, lost>>

Validate(t) ==    \* ValidateImage of both: host, size, format, dimensions
    \/ ~late[t] /\ Step(t, "validate", "lookup", "validating")
    \/ task[t].pc = "validate" /\ HandleFailure(t, FALSE)
\* getPhashCache: an error is a miss.
Working(k) == 
    {t \in Tasks :
        /\ task[t].look = k
        /\ task[t].pc \in {"preprocess", "parse", "submit", "poll", "check", "refine", "remember"}}
LookUp(t) ==
    /\ task[t].pc = "lookup"
    /\ \/ /\ task[t].look \in results /\ ~late[t] /\ Advance(t, "done")
          /\ WriteKeys(t, "cached", "cached", TRUE) /\ UNCHANGED <<rivals, lost>>
       \/ /\ Advance(t, "preprocess") /\ UNCHANGED <<redis, torn>>
          /\ IF task[t].look \notin results \/ late[t] THEN UNCHANGED <<lost, faults>>
             ELSE RedisFails /\ lost' = lost \cup {task[t].look}
          /\ rivals' = IF Working(task[t].look) = {} THEN rivals ELSE rivals \cup {t}
    /\ UNCHANGED <<late, stream, dayCount, results, paid>>
Preprocess(t) ==  \* crops and uploads both; on an error the originals are used
    Step(t, "preprocess", "parse", "parsing")
Parse(t) ==       \* ParseGarment
    \/ ~late[t] /\ Step(t, "parse", "submit", "parsing")
    \/ task[t].pc = "parse" /\ HandleFailure(t, FALSE)
Submit(t) ==      \* TryonPlus, submitAsync: what is submitted is paid for
    \/ /\ task[t].pc = "submit" /\ ~late[t]
       /\ Advance(t, "poll") /\ Progress(t, "generating")
       /\ paid' = [paid EXCEPT ![task[t].look] = @ + 1]
       /\ UNCHANGED <<late, stream, dayCount, results, rivals, lost>>
    \/ task[t].pc = "submit" /\ HandleFailure(t, FALSE)
PollTask(t) ==    \* one failed poll, a failed task or 120 s give the job up
    \/ ~late[t] /\ Step(t, "poll", "check", "generating")
    \/ task[t].pc = "poll" /\ HandleFailure(t, TRUE)
\* A bad score and a failed Refiner are logged: the result is used as it is.
CheckQuality(t) == Step(t, "check", "refine", "generating")
Refine(t) == Step(t, "refine", "remember", "refining")

Remember(t) ==    \* setPhashCache; whether to enhance, the request has said
    /\ task[t].pc = "remember"
    /\ Advance(t, "enhance") \/ Advance(t, "complete")
    /\ \/ ~late[t] /\ results' = results \cup {task[t].look} /\ UNCHANGED <<lost, faults>>
       \/ /\ IF late[t] THEN UNCHANGED faults ELSE RedisFails
          /\ lost' = lost \cup {task[t].look} /\ UNCHANGED results
    /\ UNCHANGED <<redis, late, stream, dayCount, paid, rivals, torn>>
Enhance(t) == Step(t, "enhance", "complete", "uploading") \* its failure is logged
Complete(t) ==    \* shows the unenhanced result, whatever Enhance made
    /\ task[t].pc = "complete" /\ Advance(t, "done")
    /\ WriteKeys(t, "completed", "completed", TRUE)
    /\ UNCHANGED <<late, stream, dayCount, results, paid, rivals, lost>>

\* The pipelines live in the process that took the request: a restart ends them.
TryOnRestart ==
    /\ Running # {} /\ task' = [t \in Tasks |-> IF t \in Running
                                               THEN [task[t] EXCEPT !.pc = "done"] ELSE task[t]]
    /\ stream' = [t \in Tasks |-> IF stream[t] = "open" THEN "none" ELSE stream[t]]
    /\ torn' = torn \cup Running /\ lost' = lost \cup {task[t].look : t \in Running}
    /\ UNCHANGED <<redis, late, dayCount, results, paid, rivals, faults>>
ResultExpires(k) == /\ k \in results /\ results' = results \ {k} /\ lost' = lost \cup {k}
                    /\ UNCHANGED <<task, redis, late, stream, dayCount, paid, rivals, torn, faults>>
\* Five minutes after the last report.
StatusExpires(t) ==
    /\ redis[t].status \notin {"none", "pending"} /\ t \notin Running
    /\ redis' = [redis EXCEPT ![t].status = "none"]
    /\ UNCHANGED <<task, late, stream, dayCount, results, paid, rivals, lost, torn, faults>>

\* StreamProgress ends when it reads a terminal status and sends data.status.
StreamProgress(t) ==
    /\ stream[t] = "none" /\ Cardinality({x \in Tasks : stream[x] = "open"}) < slots
    /\ task[t].pc \notin {"off", "refused"} /\ stream' = [stream EXCEPT ![t] = "open"]
    /\ UNCHANGED <<task, redis, late, dayCount, results, paid, rivals, lost, torn, faults>>
StreamEnds(t) ==
    /\ stream[t] = "open" /\ redis[t].status \in Terminal
    /\ stream' = [stream EXCEPT ![t] = redis[t].data]
    /\ UNCHANGED <<task, redis, late, dayCount, results, paid, rivals, lost, torn, faults>>

TryOnNext == slots' = slots /\
    (\/ \E t \in Tasks, k \in Looks : Create(t, k)
     \/ \E t \in Tasks :
        \/ Dispatch(t) \/ Deadline(t) \/ Load(t) \/ Validate(t) \/ LookUp(t) \/ Preprocess(t)
        \/ Parse(t) \/ Submit(t) \/ PollTask(t) \/ CheckQuality(t) \/ Refine(t) \/ Remember(t)
        \/ Enhance(t) \/ Complete(t)
        \/ StatusExpires(t) \/ StreamProgress(t) \/ StreamEnds(t)
     \/ TryOnRestart \/ \E k \in Looks : ResultExpires(k))

TryOnSpec == TryOnInit /\ [][TryOnNext]_tryonVars

TryOnTypeOK ==
    /\ \A t \in Tasks : redis[t].result \in BOOLEAN /\ task[t].look \in Looks
    /\ results \subseteq Looks /\ paid \in [Looks -> Nat] /\ lost \subseteq Looks
    /\ torn \subseteq Tasks /\ faults \in 0..MaxFaults /\ dayCount \in Nat

\* A pipeline that has ended has left an end in both keys (status until it
\* expires), with a result exactly when it did not fail, and a stream has told
\* the browser that end: unless the deadline, an error of Redis or a restart took
\* a write away.
TasksSettled == \A t \in Tasks \ torn :
    /\ task[t].pc = "done" => /\ redis[t].data \in Terminal
                              /\ redis[t].status \in {redis[t].data, "none"}
                              /\ redis[t].result = (redis[t].data # "failed")
    /\ stream[t] \in Terminal \cup {"none", "open"}
\* A look is paid for once, and once more for each task that looked it up while
\* another was at work on it: unless a result was lost on the way or expired.
Rivals(k) == {t \in rivals : task[t].look = k}
PaidOnce == \A k \in Looks \ lost : paid[k] <= 1 + Cardinality(Rivals(k))
\* Neither a deadline nor a lost write makes a stream lie, and only a race or a loss
\* pays twice.
TryOnSound == TasksSettled /\ PaidOnce
=============================================================================
