------------------------------ MODULE Delivery ------------------------------
(* The dispatcher of src/noreply_gateway/delivery.py on top of the queue of  *)
(* Store.tla: delivery workers (asyncio tasks), the administrator's pause,   *)
(* retry and cancel, the group commit of new mail, shutdown with its drain   *)
(* and its cancellation of tasks, crashes and restarts, and the upstream     *)
(* service as ground truth of what was really sent.                          *)
(*                                                                           *)
(* A task runs alone between two awaits, so an action below is what a task   *)
(* does from one await to the next.  A database job commits and its caller   *)
(* resumes later; the two are one action except where something can be seen  *)
(* in between (the pause setting).                                           *)
EXTENDS Store, Backend

CONSTANTS
    Workers,         \* delivery.workers tasks
    Admins,          \* concurrent administration requests
    RetryBase, RetryMax, MaxAttempts,   \* delivery.retry_*_seconds, max_attempts
    ProviderDelays,  \* delays a provider's answer may ask for, 0 for none
    AuthDelay,       \* 60 s after AuthenticationRequired (delivery.py:91)
    ExtraAuthDelay,  \* 300 s after AdditionalAuthenticationRequired (delivery.py:88)
    NoMail,          \* a worker without a message
    Enabled          \* bound: the kinds of trouble this instance may meet

Troubles == {"crash", "fault", "cancel", "auth", "throttle", "reject", "ambiguous", "unexpected"}

Max2(a, b) == IF a > b THEN a ELSE b
Min2(a, b) == IF a < b THEN a ELSE b

(* Mutant: a backoff that starts at zero. *)
BackoffFromZero(attempts) == Min2(RetryMax, RetryBase * (attempts - 1))

(* The exponential backoff; its jitter of up to 20 % only lengthens it. *)
Backoff(attempts) == Min2(RetryMax, RetryBase * 2^Min2(attempts - 1, 16))

(* Every delay that an attempt can ask for; from the 17th on backoff is constant. *)
AttemptDelays ==
    {AuthDelay, ExtraAuthDelay}
        \cup {Max2(delay, Backoff(attempts)) : delay \in ProviderDelays, attempts \in 1..17}

ASSUME DelaysCover == AttemptDelays \subseteq Delays \cup {0}

ASSUME DeliveryAssumption ==
    /\ IsFiniteSet(Workers) /\ IsFiniteSet(Admins) /\ Workers \cap Admins = {}
    /\ RetryBase \in Nat \ {0} /\ RetryMax \in Nat \ {0} /\ MaxAttempts \in Nat \ {0}
    /\ ProviderDelays \subseteq Nat
    /\ AuthDelay \in Nat \ {0} /\ ExtraAuthDelay \in Nat \ {0}
    /\ NoMail \notin Messages
    /\ Enabled \subseteq Troubles

VARIABLES
    phase,       \* service.serve: "down", "running", "stopping" (close() drains), "cancelling"
    pc, job, result,   \* per worker: where it awaits, its message, the result to record
    dispatcher,  \* Dispatcher.paused and .cooldown_until, in memory
    calls,       \* set_setting("paused") jobs not yet executed, per caller
    resumes,     \* callers whose job has committed, in the order the loop resumes them
    copies,      \* ground truth: how often upstream accepted a message
    late         \* ground truth: requests of it given up on that upstream may still accept

workerVars   == <<pc, job, result>>
pauseVars    == <<calls, resumes>>
truthVars    == <<copies, late>>
deliveryVars == <<storeVars, phase, workerVars, dispatcher, pauseVars, truthVars>>

-----------------------------------------------------------------------------
(* Small operators *)

Stopping  == phase \in {"stopping", "cancelling"}
Scheduled == phase \in {"running", "stopping"}     \* workers not cancelled

(* The in-memory part of the worker's tests, delivery.py:61 and 65. *)
Held == dispatcher.paused \/ dispatcher.cooldown_until > now

InFlight(w)  == pc[w] \in {"sending", "taken", "pausing", "finishing", "lastfinish"}
Owners(m)    == {w \in Workers : InFlight(w) /\ job[w] = m}

Outcome(status, delay, cooldown) == [status |-> status, delay |-> delay, cooldown |-> cooldown]
NoResult == Outcome("submitted", 0, FALSE)

Goto(w, where) == pc' = [pc EXCEPT ![w] = where]

(* The handler of Retryable, delivery.py:92-100. *)
Retryable(attempts, delay, cooldown) ==
    Outcome(IF attempts >= MaxAttempts THEN "failed" ELSE "retry",
            Max2(delay, Backoff(attempts)), cooldown)

-----------------------------------------------------------------------------
(* _worker: tests, rate permit, tests again, claim *)

MayStart == ~Held /\ healthy

(* Mutant: a paused worker does not look at the stop event. *)
SeesStopUnlessHeld == Stopping /\ ~Held

SeesStop == Stopping                                    \* delivery.py:59

Starts(w) ==
    /\ Scheduled /\ pc[w] = "top" /\ ~SeesStop /\ MayStart
    /\ Goto(w, "permit")
    /\ UNCHANGED <<storeVars, phase, job, result, dispatcher, pauseVars, truthVars>>

Ends(w) ==
    /\ Scheduled /\ pc[w] = "top" /\ SeesStop
    /\ Goto(w, "done")
    /\ UNCHANGED <<storeVars, phase, job, result, dispatcher, pauseVars, truthVars>>

(* delivery.py:65: the tests repeated after the wait for the permit. *)
MustGoBack == Stopping \/ Held

Permitted(w) ==
    /\ Scheduled /\ pc[w] = "permit"
    /\ Goto(w, IF MustGoBack THEN "top" ELSE "claiming")
    /\ UNCHANGED <<storeVars, phase, job, result, dispatcher, pauseVars, truthVars>>

Claims(w, m) ==
    /\ Scheduled /\ pc[w] = "claiming" /\ ClaimTakes(m)
    /\ Goto(w, "sending") /\ job' = [job EXCEPT ![w] = m]
    /\ UNCHANGED <<phase, result, dispatcher, pauseVars, truthVars>>

ClaimFindsOld(w, m) ==
    /\ Scheduled /\ pc[w] = "claiming" /\ ClaimExpires(m)
    /\ Goto(w, "top")
    /\ UNCHANGED <<phase, job, result, dispatcher, pauseVars, truthVars>>

ClaimFindsNothing(w) ==
    /\ Scheduled /\ pc[w] = "claiming" /\ NothingToClaim
    /\ Goto(w, "top")
    /\ UNCHANGED <<storeVars, phase, job, result, dispatcher, pauseVars, truthVars>>

(* _worker's handler of any exception, delivery.py:78-81. *)
ClaimFails(w) ==
    /\ "fault" \in Enabled /\ Scheduled /\ pc[w] = "claiming" /\ Fault
    /\ Goto(w, "top")
    /\ UNCHANGED <<phase, job, result, dispatcher, pauseVars, truthVars>>

-----------------------------------------------------------------------------
(* _attempt: backend.send and its outcomes.  The mail is "taken" once upstream *)
(* has accepted it; Backend says in which class the request may end then.      *)

MayEnd(w, class) ==
    Scheduled /\ pc[w] \in {"sending", "taken"} /\ class \in Endings[pc[w] = "taken"]

UpstreamAccepts(w) ==
    /\ pc[w] = "sending"
    /\ Goto(w, "taken") /\ copies' = [copies EXCEPT ![job[w]] = @ + 1]
    /\ UNCHANGED <<storeVars, phase, job, result, dispatcher, pauseVars, late>>

Records(w, r) == Goto(w, "finishing") /\ result' = [result EXCEPT ![w] = r]

Confirmed(w) ==
    /\ MayEnd(w, "submitted")
    /\ Records(w, Outcome("submitted", 0, FALSE))
    /\ UNCHANGED <<storeVars, phase, job, dispatcher, pauseVars, truthVars>>

(* Retryable; only one without a connection sets no cooldown. *)
Refused(w, delay, cooldown) ==
    LET r == Retryable(messages[job[w]].attempts, delay, cooldown)
    IN  /\ "throttle" \in Enabled
        /\ MayEnd(w, IF cooldown THEN "throttled" ELSE "unreached") /\ (cooldown \/ delay = 0)
        /\ Records(w, r)
        /\ dispatcher' = IF cooldown
                         THEN [dispatcher EXCEPT !.cooldown_until = Max2(@, now + r.delay)]
                         ELSE dispatcher
        /\ UNCHANGED <<storeVars, phase, job, pauseVars, truthVars>>

Rejected(w) ==
    /\ "reject" \in Enabled /\ MayEnd(w, "permanent")
    /\ Records(w, Outcome("failed", 0, FALSE))
    /\ UNCHANGED <<storeVars, phase, job, dispatcher, pauseVars, truthVars>>

(* The request of an attempt given up on may still be accepted later. *)
GivenUp(w) == IF pc[w] = "sending" THEN [late EXCEPT ![job[w]] = @ + 1] ELSE late

(* The result of an attempt whose outcome is unknown. *)
Doubtful == Outcome("uncertain", 0, FALSE)

LostAnswer(w) ==
    /\ "ambiguous" \in Enabled /\ MayEnd(w, "uncertain")
    /\ Records(w, Doubtful) /\ late' = GivenUp(w)
    /\ UNCHANGED <<storeVars, phase, job, dispatcher, pauseVars, copies>>

(* An exception nobody expected also halts the queue, delivery.py:108-110. *)
Unexpected(w) ==
    /\ "unexpected" \in Enabled /\ Scheduled /\ pc[w] \in {"sending", "taken"}
    /\ Records(w, Doubtful) /\ late' = GivenUp(w) /\ healthy' = FALSE
    /\ UNCHANGED <<messages, quota, counters, settings, acks, up, now, phase, job,
                   dispatcher, pauseVars, copies>>

ExtraLoginNeeded(w) ==
    /\ "auth" \in Enabled /\ MayEnd(w, "auth")
    /\ Records(w, Outcome("retry", ExtraAuthDelay, FALSE))
    /\ UNCHANGED <<storeVars, phase, job, dispatcher, pauseVars, truthVars>>

(* AuthenticationRequired: await self.pause(True), delivery.py:89-91. *)
LoginNeeded(w) ==
    /\ "auth" \in Enabled /\ MayEnd(w, "auth")
    /\ Goto(w, "pausing") /\ calls' = [calls EXCEPT ![w] = "pause"]
    /\ UNCHANGED <<storeVars, phase, job, result, dispatcher, resumes, truthVars>>

(* A request given up on reaches the service after all. *)
LateAcceptance(m) ==
    /\ late[m] > 0
    /\ late' = [late EXCEPT ![m] = @ - 1] /\ copies' = [copies EXCEPT ![m] = @ + 1]
    /\ UNCHANGED <<storeVars, phase, workerVars, dispatcher, pauseVars>>

-----------------------------------------------------------------------------
(* store.finish at the end of _attempt *)

Released(w) == job' = [job EXCEPT ![w] = NoMail] /\ result' = [result EXCEPT ![w] = NoResult]

(* Mutant: a worker waits for the end of a pause before it records a result. *)
MayFinishUnheld(w) == Scheduled /\ pc[w] = "finishing" /\ ~Held

MayFinish(w) == Scheduled /\ pc[w] = "finishing"

Finishes(w) ==
    /\ MayFinish(w)
    /\ Finish(job[w], result[w].status, result[w].delay, result[w].cooldown)
    /\ Goto(w, "top") /\ Released(w)
    /\ UNCHANGED <<phase, dispatcher, pauseVars, truthVars>>

(* The commit fails, or the row is not "sending" (RuntimeError): the worker    *)
(* halts the queue and forgets the message.                                    *)
FinishFails(w) ==
    /\ MayFinish(w)
    /\ "fault" \in Enabled \/ ~CanFinish(job[w])
    /\ Fault
    /\ Goto(w, "top") /\ Released(w)
    /\ UNCHANGED <<phase, dispatcher, pauseVars, truthVars>>

-----------------------------------------------------------------------------
(* Dispatcher.pause: the database first, memory when the loop resumes the     *)
(* caller.  One executor thread and a FIFO event loop resume in commit order. *)

Asks(a, b) ==
    /\ phase = "running" /\ calls[a] = "none" /\ \A i \in DOMAIN resumes : resumes[i].caller # a
    /\ calls' = [calls EXCEPT ![a] = IF b THEN "pause" ELSE "resume"]
    /\ UNCHANGED <<storeVars, phase, workerVars, dispatcher, resumes, truthVars>>

PauseCommits(c) ==
    /\ phase # "down" /\ calls[c] # "none"
    /\ SetPaused(calls[c] = "pause")
    /\ resumes' = Append(resumes, [caller |-> c, paused |-> calls[c] = "pause"])
    /\ calls' = [calls EXCEPT ![c] = "none"]
    /\ UNCHANGED <<phase, workerVars, dispatcher, truthVars>>

(* A failing commit raises in the caller: an administrator sees an error page, *)
(* a worker leaves _attempt and halts the queue with its message unfinished.   *)
PauseFails(c) ==
    /\ "fault" \in Enabled /\ phase # "down" /\ calls[c] # "none"
    /\ calls' = [calls EXCEPT ![c] = "none"]
    /\ IF c \in Workers
       THEN Fault /\ Goto(c, "top") /\ Released(c)
       ELSE UNCHANGED <<storeVars, workerVars>>
    /\ UNCHANGED <<phase, dispatcher, resumes, truthVars>>

(* A task that was cancelled meanwhile resumes with the cancellation instead. *)
Listens(c) == c \in Workers => pc[c] = "pausing"

PauseResumes ==
    /\ phase # "down" /\ resumes # <<>>
    /\ LET r == Head(resumes)
       IN  /\ dispatcher' = IF Listens(r.caller)
                            THEN [dispatcher EXCEPT !.paused = r.paused] ELSE dispatcher
           /\ IF r.caller \in Workers /\ Listens(r.caller)
              THEN Records(r.caller, Outcome("retry", AuthDelay, FALSE))
              ELSE UNCHANGED <<pc, result>>
    /\ resumes' = Tail(resumes)
    /\ UNCHANGED <<storeVars, phase, job, calls, truthVars>>

-----------------------------------------------------------------------------
(* What else the running service does to the queue. *)

(* The writer runs until the dispatcher has been closed (service.py:54-60). *)
NewMail(batch, S) ==
    /\ phase # "down" /\ InsertBatch(batch, S)
    /\ UNCHANGED <<phase, workerVars, dispatcher, pauseVars, truthVars>>

OperatorRetries(m, ack) ==
    /\ phase = "running" /\ Retry(m, ack)
    /\ UNCHANGED <<phase, workerVars, dispatcher, pauseVars, truthVars>>

OperatorCancels(m) ==
    /\ phase = "running" /\ Cancel(m)
    /\ UNCHANGED <<phase, workerVars, dispatcher, pauseVars, truthVars>>

(* _housekeeping, delivery.py:115-124; its job may run behind the stop event. *)
HousekeepingRuns ==
    /\ phase # "down" /\ Housekeeping
    /\ UNCHANGED <<phase, workerVars, dispatcher, pauseVars, truthVars>>

(* The writer or the housekeeping task meets a failing job. *)
OtherTaskFails ==
    /\ "fault" \in Enabled /\ phase # "down" /\ Fault
    /\ UNCHANGED <<phase, workerVars, dispatcher, pauseVars, truthVars>>

TimePasses ==
    Tick /\ UNCHANGED <<phase, workerVars, dispatcher, pauseVars, truthVars>>

-----------------------------------------------------------------------------
(* Start, shutdown (Dispatcher.close), crash *)

NewDispatcher == [paused |-> FALSE, cooldown_until |-> 0]

(* Mutant: a start without the persisted settings. *)
LoadedNothing == NewDispatcher

(* Dispatcher.start, delivery.py:29-33. *)
Loaded == [paused |-> settings'.paused, cooldown_until |-> settings'.cooldown_until]

Start(mb) ==
    /\ phase = "down" /\ Open(mb)
    /\ phase' = "running"
    /\ pc' = [w \in Workers |-> "top"]
    /\ dispatcher' = Loaded
    /\ UNCHANGED <<job, result, pauseVars, truthVars>>

(* The web runner has been cleaned up before close() sets "stopping". *)
BeginStop ==
    /\ phase = "running"
    /\ \A a \in Admins : calls[a] = "none"
    /\ \A i \in DOMAIN resumes : resumes[i].caller \in Workers
    /\ phase' = "stopping"
    /\ UNCHANGED <<storeVars, workerVars, dispatcher, pauseVars, truthVars>>

(* shutdown_seconds are over: task.cancel() for every task that still runs. *)
DrainTimesOut ==
    /\ "cancel" \in Enabled /\ phase = "stopping" /\ \E w \in Workers : pc[w] # "done"
    /\ phase' = "cancelling"
    /\ UNCHANGED <<storeVars, workerVars, dispatcher, pauseVars, truthVars>>

Cancellable(w) == phase = "cancelling" /\ pc[w] \notin {"done", "lastfinish"}

(* The cancelled task no longer waits; its job has not run and never will. *)
CancelDropsJob(w) ==
    /\ Cancellable(w) /\ pc[w] \notin {"sending", "taken"}
    /\ Goto(w, "done") /\ Released(w)
    /\ calls' = [calls EXCEPT ![w] = "none"]
    /\ UNCHANGED <<storeVars, phase, dispatcher, resumes, truthVars>>

(* The job was already running, and commits with nobody to receive its result: *)
(* a claim leaves its message in "sending".                                    *)
CancelAfterClaim(w, m) ==
    /\ Cancellable(w) /\ pc[w] = "claiming" /\ (ClaimTakes(m) \/ ClaimExpires(m))
    /\ Goto(w, "done")
    /\ UNCHANGED <<phase, job, result, dispatcher, pauseVars, truthVars>>

CancelAfterFinish(w) ==
    /\ Cancellable(w) /\ pc[w] = "finishing"
    /\ Finish(job[w], result[w].status, result[w].delay, result[w].cooldown)
    /\ Goto(w, "done") /\ Released(w)
    /\ UNCHANGED <<phase, dispatcher, pauseVars, truthVars>>

CancelAfterPause(w) ==
    /\ Cancellable(w) /\ calls[w] # "none" /\ SetPaused(TRUE)
    /\ Goto(w, "done") /\ Released(w) /\ calls' = [calls EXCEPT ![w] = "none"]
    /\ UNCHANGED <<phase, dispatcher, resumes, truthVars>>

(* Cancelled in backend.send: the shielded finish, delivery.py:105-107. *)
CancelInSend(w) ==
    /\ Cancellable(w) /\ pc[w] \in {"sending", "taken"}
    /\ Goto(w, "lastfinish") /\ result' = [result EXCEPT ![w] = Doubtful]
    /\ late' = GivenUp(w)
    /\ UNCHANGED <<storeVars, phase, job, dispatcher, pauseVars, copies>>

LastFinish(w) ==
    /\ pc[w] = "lastfinish"
    /\ \/ Finish(job[w], result[w].status, result[w].delay, result[w].cooldown)
       \/ "fault" \in Enabled /\ Fault
    /\ Goto(w, "done") /\ Released(w)
    /\ UNCHANGED <<phase, dispatcher, pauseVars, truthVars>>

Forgotten ==
    /\ phase' = "down" /\ dispatcher' = NewDispatcher
    /\ pc' = [w \in Workers |-> "off"] /\ job' = [w \in Workers |-> NoMail]
    /\ result' = [w \in Workers |-> NoResult]
    /\ calls' = [c \in Workers \cup Admins |-> "none"] /\ resumes' = <<>>

(* close() returns and serve() goes on to store.close(). *)
Exit ==
    /\ Stopping /\ \A w \in Workers : pc[w] = "done"
    /\ Stop /\ Forgotten /\ UNCHANGED truthVars

(* Power failure or kill: requests on the wire are given up on. *)
Crash ==
    /\ "crash" \in Enabled /\ phase # "down" /\ Stop /\ Forgotten
    /\ late' = [m \in Messages |->
                  late[m] + Cardinality({w \in Workers : pc[w] = "sending" /\ job[w] = m})]
    /\ UNCHANGED copies

-----------------------------------------------------------------------------
DeliveryInit ==
    /\ StoreInit
    /\ phase = "down" /\ dispatcher = NewDispatcher
    /\ pc = [w \in Workers |-> "off"] /\ job = [w \in Workers |-> NoMail]
    /\ result = [w \in Workers |-> NoResult]
    /\ calls = [c \in Workers \cup Admins |-> "none"] /\ resumes = <<>>
    /\ copies = [m \in Messages |-> 0] /\ late = [m \in Messages |-> 0]

Worker(w) ==
    \/ Starts(w) \/ Ends(w) \/ Permitted(w)
    \/ \E m \in Messages : Claims(w, m) \/ ClaimFindsOld(w, m)
    \/ ClaimFindsNothing(w)
    \/ Confirmed(w)
    \/ \E delay \in ProviderDelays, cooldown \in BOOLEAN : Refused(w, delay, cooldown)
    \/ Rejected(w) \/ LostAnswer(w) \/ Unexpected(w) \/ ExtraLoginNeeded(w) \/ LoginNeeded(w)
    \/ Finishes(w)
    \/ LastFinish(w)

CancelTask(w) ==
    \/ CancelDropsJob(w)
    \/ \E m \in Messages : CancelAfterClaim(w, m)
    \/ CancelAfterFinish(w) \/ CancelAfterPause(w) \/ CancelInSend(w)

Trouble ==
    \/ \E w \in Workers : ClaimFails(w) \/ FinishFails(w)
    \/ \E c \in Workers \cup Admins : PauseFails(c)
    \/ OtherTaskFails
    \/ Crash

Operator ==
    \/ \E a \in Admins, b \in BOOLEAN : Asks(a, b)
    \/ \E m \in Messages, ack \in BOOLEAN : OperatorRetries(m, ack)
    \/ \E m \in Messages : OperatorCancels(m)

DeliveryNext ==
    \/ \E w \in Workers : Worker(w) \/ UpstreamAccepts(w) \/ CancelTask(w)
    \/ \E m \in Messages : LateAcceptance(m)
    \/ \E c \in Workers \cup Admins : PauseCommits(c)
    \/ PauseResumes
    \/ Operator
    \/ \E batch \in Batches : \E S \in SUBSET Messages : NewMail(batch, S)
    \/ HousekeepingRuns
    \/ \E mb \in Mailboxes : Start(mb)
    \/ BeginStop \/ DrainTimesOut \/ Exit
    \/ Trouble
    \/ TimePasses

DeliverySpec == DeliveryInit /\ [][DeliveryNext]_deliveryVars

(* The event loop runs every ready task, the executor every job, and a request *)
(* ends by its total timeout (service.py:32); once stopping, the drain is       *)
(* bounded by shutdown_seconds and every cancelled task ends.  Nothing makes    *)
(* operators act, mail arrive, upstream accept or the process stop or start.    *)
Fairness ==
    /\ \A w \in Workers : WF_deliveryVars(Worker(w)) /\ WF_deliveryVars(CancelTask(w))
    /\ \A c \in Workers \cup Admins : WF_deliveryVars(PauseCommits(c))
    /\ WF_deliveryVars(PauseResumes)
    /\ WF_deliveryVars(Exit)

FairDeliverySpec == DeliverySpec /\ Fairness

-----------------------------------------------------------------------------
(* Properties *)

DeliveryTypeOK ==
    /\ StoreTypeOK
    /\ phase \in {"down", "running", "stopping", "cancelling"}
    /\ pc \in [Workers -> {"off", "top", "permit", "claiming", "sending", "taken", "pausing",
                           "finishing", "lastfinish", "done"}]
    /\ job \in [Workers -> Messages \cup {NoMail}]
    /\ result \in [Workers -> [status : Results, delay : Nat, cooldown : BOOLEAN]]
    /\ dispatcher \in [paused : BOOLEAN, cooldown_until : Nat]
    /\ calls \in [Workers \cup Admins -> {"none", "pause", "resume"}]
    /\ resumes \in Seq([caller : Workers \cup Admins, paused : BOOLEAN])
    /\ copies \in [Messages -> Nat] /\ late \in [Messages -> Nat]

(* The promise of README.md:211-216: upstream gets a mail once, plus at most   *)
(* once for every time an operator accepted the risk of a duplicate, whatever  *)
(* answers are lost, whatever is cancelled at shutdown and wherever the        *)
(* process dies.                                                               *)
NoUnacknowledgedDuplicate ==
    \A m \in Messages : copies[m] + late[m] <= 1 + acks[m]

(* A mail that the gateway may send again by itself, or an operator without    *)
(* acknowledgement, is one whose every attempt so far upstream surely refused  *)
(* or the operator has answered for.                                           *)
SafeToRetry ==
    \A m \in Messages :
        messages[m].status \in {"queued", "retry", "failed"} => copies[m] + late[m] <= acks[m]

(* A worker in an attempt has its message to itself and finds it "sending"     *)
(* when it finishes: _finish never raises "no longer in sending state".        *)
AttemptIsExclusive ==
    /\ DeliveryTypeOK
    /\ \A w \in Workers : InFlight(w) =>
          CanFinish(job[w]) /\ Owners(job[w]) = {w}

(* Whatever administrators and workers ask for concurrently, once their calls  *)
(* have returned the flag in memory is the persisted one (delivery.py:37-39):  *)
(* a restart does not undo or bring back a pause.                              *)
PauseAgrees ==
    phase = "running" /\ resumes = <<>> => dispatcher.paused = settings.paused

(* Every acceptance by upstream is in the recipient ledger while the budget's  *)
(* window has not passed (docs/SOURCE_PARITY.md:25).                           *)
LedgerCovers ==
    \A m \in Messages : now <= Window => copies[m] <= Cardinality({q \in quota : q.msg = m})

(* A cooldown that the workers obey is also in the database, unless an attempt *)
(* is about to record it or the queue halted before it could: restarts keep it *)
(* (docs/DEPLOYMENT.md:87).                                                    *)
CooldownPersists ==
    \/ settings.cooldown_until >= dispatcher.cooldown_until
    \/ ~healthy \/ phase = "cancelling"
    \/ \E w \in Workers : pc[w] = "finishing" /\ result[w].cooldown

(* The promise of README.md:218, "20 automatic attempts". *)
AttemptLimit == \A m \in Messages : messages[m].attempts <= MaxAttempts

(* The promise of README.md:222, "Queue faults halt intake and sending". *)
HaltedQueueSendsNothing ==
    [][\A m \in Messages :
        CanFinish(m)' /\ ~CanFinish(m) => healthy]_deliveryVars

(* Every attempt ends with a recorded result unless a fault or a shutdown      *)
(* interferes: no message is stuck in "sending" in a healthy service.          *)
AttemptsEnd ==
    \A m \in Messages :
        messages[m].status = "sending" ~> \/ messages[m].status # "sending"
                                          \/ ~healthy \/ phase \in {"cancelling", "down"}

(* A shutdown ends, with attempts in flight, a pause in force, failing jobs or *)
(* cancelled tasks.                                                            *)
ShutdownEnds == phase = "stopping" ~> phase = "down"

=============================================================================
