---------------------------- MODULE DeliveryProofs ----------------------------
(* The dispatcher, for any number of workers, administrators and mails: it    *)
(* uses the queue only by its operations, each mail goes through MailLifecycle *)
(* and no mail reaches upstream twice unless an operator accepted that.        *)
EXTENDS DeliveryRefinement, StoreProofs, SequenceTheorems

-----------------------------------------------------------------------------
(* Operators *)

(* Upstream confirms or leaves open what it has taken, and only confirms that. *)
LEMMA EndingsOfAttempts ==
    Endings[TRUE] \subseteq {"submitted", "uncertain"} /\ "submitted" \notin Endings[FALSE]
<1>1. ASSUME NEW r \in Responses, MayFollow(r, TRUE)
      PROVE  Classes(r) \subseteq {"submitted", "uncertain"}
  <2>1. CASE Confirms(r)
    BY <2>1 DEF Confirms, Responses, HttpCodes, Bodies, Classes, Plain, Interpreted
  <2>2. CASE SaysLittle(r)
    BY <2>2 DEF SaysLittle, Responses, HttpCodes, Bodies, Classes, Plain, Interpreted
  <2> QED  BY <1>1, <2>1, <2>2 DEF MayFollow
<1>2. ASSUME NEW r \in Responses, MayFollow(r, FALSE)
      PROVE  "submitted" \notin Classes(r)
  BY <1>2 DEF MayFollow, Confirms, Responses, HttpCodes, Bodies, Classes, Plain, Interpreted
<1>3. Endings[TRUE] = NoAnswer(TRUE) \cup UNION {Classes(r) : r \in {s \in Responses : MayFollow(s, TRUE)}}
  BY DEF Endings
<1>4. Endings[FALSE] = NoAnswer(FALSE) \cup UNION {Classes(r) : r \in {s \in Responses : MayFollow(s, FALSE)}}
  BY DEF Endings
<1> QED
  BY <1>1, <1>2, <1>3, <1>4 DEF NoAnswer

(* A backoff is never zero, and never longer than what the queue is told of.   *)
LEMMA BackoffRange ==
    ASSUME NEW attempts \in Nat \ {0}
    PROVE  /\ Backoff(attempts) \in Nat \ {0}
           /\ \A delay \in ProviderDelays : Max2(delay, Backoff(attempts)) \in Delays \cup {0}
<1> DEFINE k == Min2(attempts - 1, 16)
<1>1. k \in 0..16 /\ Min2((k + 1) - 1, 16) = k /\ k + 1 \in 1..17
  BY DEF Min2
<1> HIDE DEF k
<1>2. 2^k \in Nat \ {0}
  <2>1. IsFiniteSet(1..k) /\ Cardinality(1..k) = k
    <3>1. IsFiniteSet(1..k) /\ Cardinality(1..k) = IF 1 > k THEN 0 ELSE k - 1 + 1
      BY <1>1, FS_Interval
    <3> QED  BY <1>1, <3>1
  <2>2. IsFiniteSet(SUBSET (1..k)) /\ Cardinality(SUBSET (1..k)) = 2^k
    BY <2>1, FS_SUBSET
  <2>3. 2^k # 0
    BY <2>2, FS_EmptySet
  <2> QED  BY <2>2, <2>3, FS_CardinalityType
<1>3. Backoff(attempts) \in Nat \ {0}
  <2> DEFINE p == 2^k
  <2>1. RetryBase * p \in Nat \ {0}
    <3>1. \A a, b \in Nat \ {0} : a * b \in Nat \ {0}
      OBVIOUS
    <3> QED  BY <1>2, <3>1, DeliveryAssumption
  <2> QED  BY <2>1, DeliveryAssumption DEF Backoff, Min2, k
<1>4. Backoff(k + 1) = Backoff(attempts)
  BY <1>1 DEF Backoff, k
<1> QED
  BY <1>1, <1>3, <1>4, DelaysCover DEF AttemptDelays

-----------------------------------------------------------------------------
(* The queue is used as Store says *)

(* A recorded result is an argument that _finish is specified for.             *)
LEMMA FinishIsSpecified ==
    ASSUME DeliveryTypeOK, AttemptsApart, ResultsFit, NEW w \in Workers,
           pc[w] \in {"finishing", "lastfinish"},
           Finish(job[w], result[w].status, result[w].delay, result[w].cooldown)
    PROVE  StoreNext
<1> DEFINE m == job[w]
           status == result[w].status
           delay == result[w].delay
           gc == result[w].cooldown
<1>1. m \in Messages
  BY DEF AttemptsApart, InFlight
<1>2. status \in Results /\ gc \in BOOLEAN
  BY DEF DeliveryTypeOK
<1>3. delay \in Delays \cup {0} /\ FinishArguments(status, delay, gc)
  BY DEF ResultsFit
<1>4. Finish(m, status, delay, gc)
  OBVIOUS
<1> HIDE DEF m, status, delay, gc
<1> QED
  BY <1>1, <1>2, <1>3, <1>4 DEF StoreNext

(* Whatever worker, operator, start or stop does, the queue makes one of its   *)
(* own steps or none.                                                          *)
LEMMA QueueStep ==
    ASSUME DeliveryTypeOK, PhasesAgree, AttemptsApart, ResultsFit, DeliveryNext
    PROVE  [StoreNext]_storeVars
<1>1. ASSUME NEW w \in Workers, Worker(w) \/ UpstreamAccepts(w) \/ CancelTask(w)
      PROVE  [StoreNext]_storeVars
  <2>1. CASE Starts(w) \/ Ends(w) \/ Permitted(w) \/ ClaimFindsNothing(w)
    BY <2>1 DEF Starts, Ends, Permitted, ClaimFindsNothing
  <2>2. CASE \E m \in Messages : Claims(w, m) \/ ClaimFindsOld(w, m) \/ CancelAfterClaim(w, m)
    BY <2>2 DEF Claims, ClaimFindsOld, CancelAfterClaim, StoreNext
  <2>3. CASE \E delay \in ProviderDelays, cooldown \in BOOLEAN : Refused(w, delay, cooldown)
    BY <2>3 DEF Refused
  <2>4. CASE \/ Confirmed(w) \/ Rejected(w) \/ LostAnswer(w) \/ ExtraLoginNeeded(w)
             \/ LoginNeeded(w) \/ UpstreamAccepts(w) \/ CancelDropsJob(w) \/ CancelInSend(w)
    BY <2>4 DEF Confirmed, Rejected, LostAnswer, ExtraLoginNeeded, LoginNeeded,
                UpstreamAccepts, CancelDropsJob, CancelInSend
  <2>5. CASE Unexpected(w)
    <3>1. Fault \/ UNCHANGED storeVars
      BY <2>5 DEF Unexpected, Fault, Scheduled, PhasesAgree
    <3> QED  BY <3>1 DEF StoreNext
  <2>6. CASE Finishes(w) \/ CancelAfterFinish(w)
    BY <2>6, FinishIsSpecified DEF Finishes, MayFinish, CancelAfterFinish
  <2>7. CASE LastFinish(w)
    BY <2>7, FinishIsSpecified DEF LastFinish, StoreNext
  <2>8. CASE CancelAfterPause(w)
    BY <2>8 DEF CancelAfterPause, StoreNext
  <2> QED
    BY <1>1, <2>1, <2>2, <2>3, <2>4, <2>5, <2>6, <2>7, <2>8 DEF Worker, CancelTask
<1>2. ASSUME NEW m \in Messages, LateAcceptance(m)
      PROVE  [StoreNext]_storeVars
  BY <1>2 DEF LateAcceptance
<1>3. ASSUME NEW c \in Workers \cup Admins, PauseCommits(c)
      PROVE  [StoreNext]_storeVars
  BY <1>3 DEF PauseCommits, StoreNext
<1>4. CASE PauseResumes
  BY <1>4 DEF PauseResumes
<1>5. CASE Operator
  BY <1>5 DEF Operator, Asks, OperatorRetries, OperatorCancels, StoreNext
<1>6. ASSUME NEW batch \in Batches, NEW S \in SUBSET Messages, NewMail(batch, S)
      PROVE  [StoreNext]_storeVars
  BY <1>6 DEF NewMail, StoreNext
<1>7. CASE HousekeepingRuns \/ BeginStop \/ DrainTimesOut \/ Exit \/ TimePasses
  BY <1>7 DEF HousekeepingRuns, BeginStop, DrainTimesOut, Exit, TimePasses, StoreNext
<1>8. CASE \E mb \in Mailboxes : Start(mb)
  BY <1>8 DEF Start, StoreNext
<1>9. CASE Trouble
  BY <1>9 DEF Trouble, ClaimFails, FinishFails, PauseFails, OtherTaskFails, Crash, StoreNext
<1> QED
  BY <1>1, <1>2, <1>3, <1>4, <1>5, <1>6, <1>7, <1>8, <1>9 DEF DeliveryNext

-----------------------------------------------------------------------------
(* Attempts *)

(* The rows that are "sending" stay so, and no others become so.               *)
SendingSame(except) ==
    \A m \in Messages \ except :
        /\ CanFinish(m)' <=> CanFinish(m)
        /\ CanFinish(m) => messages'[m].attempts = messages[m].attempts

(* Only a claim and a finish move a row into and out of "sending", one row; a  *)
(* start moves all of them out.                                                *)
LEMMA SendingRows ==
    ASSUME StoreTypeOK
    PROVE  /\ SetPaused(TRUE) \/ SetPaused(FALSE) \/ Stop \/ Fault \/ Tick \/ Housekeeping
                => SendingSame({})
           /\ \A batch \in Batches : \A S \in SUBSET Messages :
                InsertBatch(batch, S) => SendingSame({})
           /\ \A m \in Messages : \A ack \in BOOLEAN :
                Retry(m, ack) \/ Cancel(m) \/ ClaimExpires(m) => SendingSame({})
           /\ \A m \in Messages : ClaimTakes(m) =>
                /\ SendingSame({m}) /\ ~CanFinish(m) /\ CanFinish(m)'
                /\ messages'[m].attempts >= 1
           /\ \A m \in Messages : \A status \in Results : \A delay, gc :
                Finish(m, status, delay, gc) =>
                    SendingSame({m}) /\ CanFinish(m) /\ ~CanFinish(m)'
           /\ \A mb : Open(mb) => \A m \in Messages : ~CanFinish(m)'
<1> USE DEF SendingSame, CanFinish, StoreTypeOK
<1>1. SetPaused(TRUE) \/ SetPaused(FALSE) \/ Stop \/ Fault \/ Tick => SendingSame({})
  BY DEF SetPaused, Stop, Fault, Tick
<1>2. Housekeeping => SendingSame({})
  BY DEF Housekeeping, Purgeable, Blank
<1>3. ASSUME NEW batch \in Batches, NEW S \in SUBSET Messages, InsertBatch(batch, S)
      PROVE  SendingSame({})
  <2>1. \A i \in DOMAIN batch : batch[i] \in In("absent")
    BY DEF Batches
  <2>2. S \subseteq {batch[i] : i \in DOMAIN batch}
    BY <1>3 DEF InsertBatch
  <2>3. \A m \in S : messages[m].status = "absent"
    BY <2>1, <2>2 DEF In
  <2> QED  BY <1>3, <2>3 DEF InsertBatch, NewRow
<1>4. ASSUME NEW m \in Messages, NEW ack \in BOOLEAN, Retry(m, ack) \/ Cancel(m) \/ ClaimExpires(m)
      PROVE  SendingSame({})
  <2>1. ~CanFinish(m)
    BY <1>4 DEF Retry, Cancel, Changeable, ClaimExpires, Heads, Ready
  <2>2. ~CanFinish(m)' /\ \A n \in Messages \ {m} : messages'[n] = messages[n]
    <3>1. CASE Retry(m, ack)
      BY <3>1 DEF Retry, Requeued, Rows
    <3>2. CASE Cancel(m)
      BY <3>2 DEF Cancel, Cancelled, Rows
    <3>3. CASE ClaimExpires(m)
      BY <3>3 DEF ClaimExpires, Rows
    <3> QED  BY <1>4, <3>1, <3>2, <3>3
  <2> QED  BY <2>1, <2>2
<1>5. ASSUME NEW m \in Messages, ClaimTakes(m)
      PROVE  SendingSame({m}) /\ ~CanFinish(m) /\ CanFinish(m)' /\ messages'[m].attempts >= 1
  BY <1>5 DEF ClaimTakes, Claimable, Heads, Ready, Attempted, Rows
<1>6. ASSUME NEW m \in Messages, NEW status \in Results, NEW delay, NEW gc,
             Finish(m, status, delay, gc)
      PROVE  SendingSame({m}) /\ CanFinish(m) /\ ~CanFinish(m)'
  BY <1>6 DEF Finish, Finished, Results, Rows
<1>7. ASSUME NEW mb, Open(mb), NEW m \in Messages
      PROVE  ~CanFinish(m)'
  BY <1>7 DEF Open, Recovered, Rows
<1> HIDE DEF SendingSame, CanFinish, StoreTypeOK
<1> QED
  BY <1>1, <1>2, <1>3, <1>4, <1>5, <1>6, <1>7

-----------------------------------------------------------------------------
(* Types and phases *)

(* The mail of an attempt has been claimed at least once.                      *)
LEMMA AttemptCounted ==
    ASSUME StoreTypeOK, AttemptsApart, NEW w \in Workers, pc[w] \in {"sending", "taken"}
    PROVE  messages[job[w]].attempts \in Nat \ {0}
<1>1. job[w] \in Messages /\ messages[job[w]].attempts >= 1
  BY DEF AttemptsApart, InFlight
<1>2. messages[job[w]] \in Rows
  BY <1>1 DEF StoreTypeOK
<1> QED  BY <1>1, <1>2 DEF Rows

(* The state of workers, pauses and of upstream keeps its type; the queue's    *)
(* type is preserved by its own steps.                                         *)
LEMMA TypesKept ==
    ASSUME DeliveryTypeOK, StoreTypeOK', PhasesAgree, AttemptsApart, DeliveryNext
    PROVE  DeliveryTypeOK'
<1> USE DEF DeliveryTypeOK, workerVars, pauseVars, truthVars
<1>0. /\ NoResult \in [status : Results, delay : Nat, cooldown : BOOLEAN]
      /\ Doubtful \in [status : Results, delay : Nat, cooldown : BOOLEAN]
      /\ Outcome("submitted", 0, FALSE) \in [status : Results, delay : Nat, cooldown : BOOLEAN]
      /\ Outcome("failed", 0, FALSE) \in [status : Results, delay : Nat, cooldown : BOOLEAN]
      /\ Outcome("retry", AuthDelay, FALSE) \in [status : Results, delay : Nat, cooldown : BOOLEAN]
      /\ Outcome("retry", ExtraAuthDelay, FALSE) \in [status : Results, delay : Nat, cooldown : BOOLEAN]
  BY DeliveryAssumption DEF Outcome, Results, NoResult, Doubtful
<1>a. ASSUME NEW w \in Workers, Released(w)
      PROVE  /\ job' \in [Workers -> Messages \cup {NoMail}]
             /\ result' \in [Workers -> [status : Results, delay : Nat, cooldown : BOOLEAN]]
  BY <1>0, <1>a DEF Released
<1>b. ASSUME NEW w \in Workers,
             \/ Goto(w, "top") \/ Goto(w, "done") \/ Goto(w, "finishing") \/ Goto(w, "lastfinish")
      PROVE  pc' \in [Workers -> {"off", "top", "permit", "claiming", "sending", "taken", "pausing",
                                  "finishing", "lastfinish", "done"}]
  BY <1>b DEF Goto
<1>1. ASSUME NEW w \in Workers, Worker(w) \/ UpstreamAccepts(w) \/ CancelTask(w)
      PROVE  DeliveryTypeOK'
  <2>1. CASE Starts(w) \/ Ends(w) \/ Permitted(w) \/ ClaimFindsNothing(w)
    <3>1. CASE Starts(w)
      BY <3>1 DEF Starts, Goto
    <3>2. CASE Ends(w)
      BY <3>2 DEF Ends, Goto
    <3>3. CASE Permitted(w)
      BY <3>3 DEF Permitted, Goto
    <3>4. CASE ClaimFindsNothing(w)
      BY <3>4 DEF ClaimFindsNothing, Goto
    <3> QED  BY <2>1, <3>1, <3>2, <3>3, <3>4
  <2>2. ASSUME NEW m \in Messages, Claims(w, m) \/ ClaimFindsOld(w, m) \/ CancelAfterClaim(w, m)
        PROVE  DeliveryTypeOK'
    <3>1. CASE Claims(w, m)
      BY <3>1 DEF Claims, Goto
    <3>2. CASE ClaimFindsOld(w, m)
      BY <3>2 DEF ClaimFindsOld, Goto
    <3>3. CASE CancelAfterClaim(w, m)
      BY <3>3 DEF CancelAfterClaim, Goto
    <3> QED  BY <2>2, <3>1, <3>2, <3>3
  <2>3. ASSUME NEW delay \in ProviderDelays, NEW cooldown \in BOOLEAN, Refused(w, delay, cooldown)
        PROVE  DeliveryTypeOK'
    <3> DEFINE attempts == messages[job[w]].attempts
               r == Retryable(attempts, delay, cooldown)
    <3>1. attempts \in Nat \ {0}
      BY <2>3, AttemptCounted DEF Refused, MayEnd, DeliveryTypeOK
    <3>2. r \in [status : Results, delay : Nat, cooldown : BOOLEAN] /\ r.delay \in Nat
      <4>1. Max2(delay, Backoff(attempts)) \in Nat
        BY <3>1, BackoffRange, DeliveryAssumption DEF Max2
      <4> QED  BY <4>1 DEF Retryable, Outcome, Results
    <3> HIDE DEF r
    <3>4. dispatcher.cooldown_until \in Nat /\ now \in Nat /\ r.delay \in Nat
      BY <3>2 DEF StoreTypeOK, DeliveryTypeOK
    <3>3. Max2(dispatcher.cooldown_until, now + r.delay) \in Nat
      BY <3>4 DEF Max2
    <3> QED  BY <2>3, <3>2, <3>3 DEF Refused, Records, Goto, r
  <2>0. ASSUME pc[w] = "sending" \/ pc[w] = "taken"
        PROVE  GivenUp(w) \in [Messages -> Nat]
    <3>1. job[w] \in Messages
      BY <2>0 DEF AttemptsApart, InFlight
    <3> QED  BY <3>1 DEF GivenUp
  <2>4. CASE Confirmed(w) \/ Rejected(w) \/ LostAnswer(w) \/ ExtraLoginNeeded(w) \/ Unexpected(w)
    <3>1. /\ pc[w] = "sending" \/ pc[w] = "taken"
          /\ \E r \in [status : Results, delay : Nat, cooldown : BOOLEAN] : Records(w, r)
          /\ late' = late \/ late' = GivenUp(w)
          /\ UNCHANGED <<phase, job, dispatcher, calls, resumes, copies>>
      BY <1>0, <2>4 DEF Confirmed, Rejected, LostAnswer, ExtraLoginNeeded, Unexpected, MayEnd
    <3> QED  BY <2>0, <3>1 DEF Records, Goto
  <2>5. CASE LoginNeeded(w)
    BY <2>5 DEF LoginNeeded, Goto
  <2>6. CASE UpstreamAccepts(w)
    <3>1. job[w] \in Messages
      BY <2>6 DEF UpstreamAccepts, AttemptsApart, InFlight
    <3> QED  BY <2>6, <3>1 DEF UpstreamAccepts, Goto
  <2>7. CASE CancelInSend(w)
    <3>1. GivenUp(w) \in [Messages -> Nat]
      BY <2>0, <2>7 DEF CancelInSend
    <3>2. result' \in [Workers -> [status : Results, delay : Nat, cooldown : BOOLEAN]]
      BY <1>0, <2>7 DEF CancelInSend
    <3>3. pc' \in [Workers -> {"off", "top", "permit", "claiming", "sending", "taken", "pausing",
                               "finishing", "lastfinish", "done"}]
      BY <1>b, <2>7 DEF CancelInSend
    <3> QED  BY <2>7, <3>1, <3>2, <3>3 DEF CancelInSend
  <2>8. CASE CancelDropsJob(w) \/ CancelAfterPause(w)
    <3>1. /\ Goto(w, "done") /\ Released(w)
          /\ calls' = [calls EXCEPT ![w] = "none"]
          /\ UNCHANGED <<phase, dispatcher, resumes, truthVars>>
      BY <2>8 DEF CancelDropsJob, CancelAfterPause
    <3> QED  BY <1>a, <1>b, <3>1
  <2>9. CASE Finishes(w) \/ CancelAfterFinish(w) \/ LastFinish(w)
    <3>1. /\ \E place \in {"top", "done"} : Goto(w, place)
          /\ Released(w)
          /\ UNCHANGED <<phase, dispatcher, pauseVars, truthVars>>
      BY <2>9 DEF Finishes, CancelAfterFinish, LastFinish
    <3> QED  BY <1>a, <1>b, <3>1
  <2> QED
    BY <1>1, <2>1, <2>2, <2>3, <2>4, <2>5, <2>6, <2>7, <2>8, <2>9 DEF Worker, CancelTask
<1>2. ASSUME NEW m \in Messages, LateAcceptance(m)
      PROVE  DeliveryTypeOK'
  BY <1>2 DEF LateAcceptance
<1>3. ASSUME NEW c \in Workers \cup Admins, PauseCommits(c)
      PROVE  DeliveryTypeOK'
  BY <1>3 DEF PauseCommits
<1>4. CASE PauseResumes
  <2>1. Head(resumes).paused \in BOOLEAN /\ resumes' \in Seq([caller : Workers \cup Admins, paused : BOOLEAN])
    <3>1. Head(resumes) \in [caller : Workers \cup Admins, paused : BOOLEAN]
      <4>1. resumes # <<>>
        BY <1>4 DEF PauseResumes
      <4> QED  BY <4>1, HeadTailProperties
    <3> QED  BY <1>4, <3>1 DEF PauseResumes
  <2>2. dispatcher' \in [paused : BOOLEAN, cooldown_until : Nat]
    BY <1>4, <2>1 DEF PauseResumes
  <2>3. /\ pc' = pc \/ \E w \in Workers : Goto(w, "finishing")
        /\ result' = result \/ \E w \in Workers : result' = [result EXCEPT ![w] = Outcome("retry", AuthDelay, FALSE)]
        /\ UNCHANGED <<phase, job, calls, copies, late>>
    BY <1>4 DEF PauseResumes, Records
  <2>4. result' \in [Workers -> [status : Results, delay : Nat, cooldown : BOOLEAN]]
    BY <1>0, <2>3
  <2> QED  BY <2>1, <2>2, <2>3, <2>4 DEF Goto
<1>5. CASE Operator
  BY <1>5 DEF Operator, Asks, OperatorRetries, OperatorCancels
<1>6. ASSUME NEW batch \in Batches, NEW S \in SUBSET Messages, NewMail(batch, S)
      PROVE  DeliveryTypeOK'
  BY <1>6 DEF NewMail
<1>7. CASE HousekeepingRuns \/ BeginStop \/ DrainTimesOut \/ TimePasses
  BY <1>7 DEF HousekeepingRuns, BeginStop, DrainTimesOut, TimePasses
<1>8. ASSUME NEW mb \in Mailboxes, Start(mb)
      PROVE  DeliveryTypeOK'
  BY <1>8 DEF Start, Loaded, StoreTypeOK
<1>9. CASE Exit
  BY <1>0, <1>9 DEF Exit, Forgotten, NewDispatcher
<1>10. CASE Crash
  <2> DEFINE OnWire(m) == Cardinality({w \in Workers : pc[w] = "sending" /\ job[w] = m})
  <2>1. \A m : OnWire(m) \in Nat
    BY FS_Subset, FS_CardinalityType, DeliveryAssumption
  <2>2. late' \in [Messages -> Nat] /\ copies' = copies
    <3>1. copies' = copies /\ late' = [m \in Messages |-> late[m] + OnWire(m)]
      BY <1>10 DEF Crash
    <3> HIDE DEF OnWire
    <3>2. \A m \in Messages : late[m] + OnWire(m) \in Nat
      BY <2>1
    <3> QED  BY <3>1, <3>2
  <2>3. Forgotten
    BY <1>10 DEF Crash
  <2> QED  BY <1>0, <2>2, <2>3 DEF Forgotten, NewDispatcher
<1>11. ASSUME NEW w \in Workers, ClaimFails(w) \/ FinishFails(w)
       PROVE  DeliveryTypeOK'
  <2>1. /\ Goto(w, "top")
        /\ Released(w) \/ UNCHANGED <<job, result>>
        /\ UNCHANGED <<phase, dispatcher, pauseVars, truthVars>>
    BY <1>11 DEF ClaimFails, FinishFails
  <2> QED  BY <1>a, <1>b, <2>1
<1>12. ASSUME NEW c \in Workers \cup Admins, PauseFails(c)
       PROVE  DeliveryTypeOK'
  <2>1. /\ \/ c \in Workers /\ Goto(c, "top") /\ Released(c)
           \/ UNCHANGED workerVars
        /\ calls' = [calls EXCEPT ![c] = "none"]
        /\ UNCHANGED <<phase, dispatcher, resumes, truthVars>>
    BY <1>12 DEF PauseFails
  <2> QED  BY <1>a, <1>b, <2>1
<1>13. CASE OtherTaskFails
  BY <1>13 DEF OtherTaskFails
<1> QED
  BY <1>1, <1>2, <1>3, <1>4, <1>5, <1>6, <1>7, <1>8, <1>9, <1>10, <1>11, <1>12, <1>13
     DEF DeliveryNext, Trouble

(* Only a start and an end of the process open and close the file.             *)
LEMMA UpChanges ==
    /\ \A b : SetPaused(b) => up' = up
    /\ Fault \/ Tick \/ Housekeeping => up' = up
    /\ \A batch, S : InsertBatch(batch, S) => up' = up
    /\ \A m, ack : Retry(m, ack) \/ Cancel(m) \/ ClaimExpires(m) \/ ClaimTakes(m) => up' = up
    /\ \A m, status, delay, gc : Finish(m, status, delay, gc) => up' = up
  BY DEF SetPaused, Fault, Tick, Housekeeping, InsertBatch, Retry, Cancel, ClaimExpires,
         ClaimTakes, Finish

(* File, process and tasks stay in step.                                       *)
LEMMA PhasesKept ==
    ASSUME DeliveryTypeOK, PhasesAgree, DeliveryNext
    PROVE  PhasesAgree'
<1> USE UpChanges DEF PhasesAgree, Goto, workerVars, storeVars
<1>t. pc \in [Workers -> {"off", "top", "permit", "claiming", "sending", "taken", "pausing",
                          "finishing", "lastfinish", "done"}]
      /\ DOMAIN result = Workers
  BY DEF DeliveryTypeOK
<1>1. ASSUME NEW w \in Workers, Worker(w) \/ UpstreamAccepts(w) \/ CancelTask(w)
      PROVE  PhasesAgree'
  <2>1. CASE Starts(w) \/ Ends(w) \/ Permitted(w) \/ ClaimFindsNothing(w) \/ UpstreamAccepts(w)
    BY <1>t, <2>1 DEF Starts, Ends, Permitted, ClaimFindsNothing, UpstreamAccepts, Scheduled
  <2>2. ASSUME NEW m \in Messages, Claims(w, m) \/ ClaimFindsOld(w, m) \/ CancelAfterClaim(w, m)
        PROVE  PhasesAgree'
    BY <1>t, <2>2 DEF Claims, ClaimFindsOld, CancelAfterClaim, Scheduled, Cancellable
  <2>3. ASSUME NEW r, Records(w, r), Scheduled, up' = up, phase' = phase
        PROVE  PhasesAgree'
    BY <1>t, <2>3 DEF Records, Scheduled
  <2>4. CASE \/ Confirmed(w) \/ Rejected(w) \/ LostAnswer(w) \/ ExtraLoginNeeded(w) \/ Unexpected(w)
             \/ \E delay \in ProviderDelays, cooldown \in BOOLEAN : Refused(w, delay, cooldown)
    BY <2>3, <2>4 DEF Confirmed, Rejected, LostAnswer, ExtraLoginNeeded, Unexpected, Refused, MayEnd
  <2>5. CASE LoginNeeded(w)
    BY <1>t, <2>5 DEF LoginNeeded, MayEnd, Scheduled
  <2>6. ASSUME Goto(w, "lastfinish"), phase = "cancelling", phase' = phase, up' = up,
               result' = [result EXCEPT ![w] = Doubtful]
        PROVE  PhasesAgree'
    BY <1>t, <2>6
  <2>7. CASE CancelInSend(w)
    BY <2>6, <2>7 DEF CancelInSend, Cancellable
  <2>8. CASE \/ CancelDropsJob(w) \/ CancelAfterPause(w) \/ Finishes(w) \/ CancelAfterFinish(w)
             \/ LastFinish(w)
    <3>1. /\ phase # "down" /\ phase' = phase /\ up' = up /\ Released(w)
          /\ \E place \in {"top", "done"} : Goto(w, place)
      BY <1>t, <2>8 DEF CancelDropsJob, CancelAfterPause, Finishes, MayFinish, Scheduled,
                   CancelAfterFinish, LastFinish, Cancellable
    <3> QED  BY <1>t, <3>1 DEF Released
  <2> QED
    BY <1>1, <2>1, <2>2, <2>4, <2>5, <2>7, <2>8 DEF Worker, CancelTask
<1>2. CASE \/ \E m \in Messages : LateAcceptance(m)
           \/ \E c \in Workers \cup Admins : PauseCommits(c)
           \/ \E batch \in Batches : \E S \in SUBSET Messages : NewMail(batch, S)
           \/ HousekeepingRuns \/ TimePasses \/ OtherTaskFails \/ Operator
  <2>1. up' = up /\ UNCHANGED <<phase, pc, result>>
    BY <1>2 DEF LateAcceptance, PauseCommits, NewMail, HousekeepingRuns, TimePasses,
                OtherTaskFails, Operator, Asks, OperatorRetries, OperatorCancels
  <2> QED  BY <2>1
<1>3. CASE PauseResumes
  <2>1. /\ phase # "down" /\ phase' = phase /\ up' = up
        /\ \/ UNCHANGED <<pc, result>>
           \/ \E w \in Workers : \E r : Records(w, r) /\ pc[w] = "pausing"
    BY <1>3 DEF PauseResumes, Listens
  <2> QED  BY <1>t, <2>1 DEF Records
<1>4. CASE BeginStop \/ DrainTimesOut
  BY <1>4 DEF BeginStop, DrainTimesOut
<1>5. CASE \E mb \in Mailboxes : Start(mb)
  BY <1>5 DEF Start, Open
<1>6. CASE Exit \/ Crash
  BY <1>6 DEF Exit, Crash, Forgotten, Stop
<1>7. ASSUME NEW w \in Workers, ClaimFails(w) \/ FinishFails(w) \/ PauseFails(w)
      PROVE  PhasesAgree'
  <2>1. /\ phase # "down" /\ phase' = phase /\ up' = up /\ Goto(w, "top")
        /\ Released(w) \/ UNCHANGED result
    BY <1>7 DEF ClaimFails, FinishFails, PauseFails, MayFinish, Scheduled
  <2> QED  BY <1>t, <2>1 DEF Released
<1>8. CASE \E c \in Admins : PauseFails(c)
  <2>1. up' = up /\ UNCHANGED <<phase, pc, result>>
    BY <1>8, DeliveryAssumption DEF PauseFails
  <2> QED  BY <2>1
<1> QED
  BY <1>1, <1>2, <1>3, <1>4, <1>5, <1>6, <1>7, <1>8 DEF DeliveryNext, Trouble

-----------------------------------------------------------------------------
(* Attempts stay apart *)

(* No attempt begins, no row moves.                                            *)
LEMMA ApartWhenQuiet ==
    ASSUME AttemptsApart, SendingSame({}),
           \A v \in Workers : InFlight(v)' => InFlight(v) /\ job'[v] = job[v]
    PROVE  AttemptsApart'
<1> USE DEF AttemptsApart, SendingSame
<1>1. \A v \in Workers : InFlight(v)' => job'[v] \in Messages /\ messages'[job'[v]].status = "sending"
  BY DEF CanFinish
<1>2. \A m \in Messages : CanFinish(m)' => messages'[m].attempts >= 1
  OBVIOUS
<1>3. \A u, v \in Workers : InFlight(u)' /\ InFlight(v)' /\ job'[u] = job'[v] => u = v
  OBVIOUS
<1> QED  BY <1>1, <1>2, <1>3 DEF CanFinish

(* An attempt begins, with a row that was not being sent: nobody has it.       *)
LEMMA ApartAfterClaim ==
    ASSUME AttemptsApart, StoreTypeOK, NEW m \in Messages, ClaimTakes(m),
           \A v \in Workers : InFlight(v)' =>
               \/ InFlight(v) /\ job'[v] = job[v]
               \/ job'[v] = m /\ \A u \in Workers : InFlight(u)' /\ u # v => InFlight(u) /\ job'[u] = job[u]
    PROVE  AttemptsApart'
<1> USE DEF AttemptsApart
<1>1. /\ SendingSame({m}) /\ ~CanFinish(m) /\ messages'[m].status = "sending"
      /\ messages'[m].attempts >= 1
  BY SendingRows DEF CanFinish
<1>2. \A n \in Messages : CanFinish(n) => n # m /\ messages'[n].status = "sending"
  BY <1>1 DEF SendingSame, CanFinish
<1>3. \A v \in Workers : InFlight(v)' => job'[v] \in Messages /\ messages'[job'[v]].status = "sending"
  BY <1>1, <1>2
<1>4. \A n \in Messages : CanFinish(n)' => messages'[n].attempts >= 1
  BY <1>1 DEF SendingSame
<1>5. \A u, v \in Workers : InFlight(u)' /\ InFlight(v)' /\ job'[u] = job'[v] => u = v
  BY <1>2
<1> QED  BY <1>3, <1>4, <1>5 DEF CanFinish

(* An attempt ends with its row.                                               *)
LEMMA ApartAfterFinish ==
    ASSUME AttemptsApart, DeliveryTypeOK, NEW w \in Workers, InFlight(w), ~InFlight(w)',
           Finish(job[w], result[w].status, result[w].delay, result[w].cooldown),
           \A v \in Workers \ {w} : pc'[v] = pc[v] /\ job'[v] = job[v]
    PROVE  AttemptsApart'
<1>1. PICK m \in Messages : m = job[w]
  BY DEF AttemptsApart
<1>2. SendingSame({m}) /\ ~CanFinish(m)'
  <2> DEFINE s == result[w].status
             d == result[w].delay
             c == result[w].cooldown
  <2>1. Finish(m, s, d, c) /\ s \in Results /\ StoreTypeOK
    BY <1>1 DEF DeliveryTypeOK
  <2> HIDE DEF s, d, c
  <2> QED  BY <2>1, SendingRows
<1>3. \A v \in Workers : InFlight(v)' => v # w /\ InFlight(v) /\ job'[v] = job[v] /\ job[v] # m
  BY <1>1 DEF AttemptsApart, InFlight
<1>4. \A v \in Workers : InFlight(v)' => job'[v] \in Messages /\ messages'[job'[v]].status = "sending"
  BY <1>2, <1>3 DEF AttemptsApart, SendingSame, CanFinish
<1>5. \A n \in Messages : CanFinish(n)' => messages'[n].attempts >= 1
  BY <1>2 DEF AttemptsApart, SendingSame
<1> QED  BY <1>3, <1>4, <1>5 DEF AttemptsApart, CanFinish

(* Attempts stay apart.                                                        *)
LEMMA ApartKept ==
    ASSUME DeliveryTypeOK, PhasesAgree, AttemptsApart, DeliveryNext
    PROVE  AttemptsApart'
<1>t. pc \in [Workers -> {"off", "top", "permit", "claiming", "sending", "taken", "pausing",
                          "finishing", "lastfinish", "done"}]
      /\ DOMAIN job = Workers /\ StoreTypeOK
  BY DEF DeliveryTypeOK
<1>q. UNCHANGED storeVars => SendingSame({})
  BY DEF storeVars, SendingSame, CanFinish
<1> USE DEF Goto, workerVars
<1>1. ASSUME NEW w \in Workers, Worker(w) \/ UpstreamAccepts(w) \/ CancelTask(w)
      PROVE  AttemptsApart'
  <2>1. CASE Starts(w) \/ Ends(w) \/ Permitted(w) \/ ClaimFindsNothing(w)
    BY <1>t, <1>q, <2>1, ApartWhenQuiet DEF Starts, Ends, Permitted, ClaimFindsNothing, InFlight
  <2>2. CASE UpstreamAccepts(w) \/ LoginNeeded(w) \/ CancelInSend(w) \/ CancelDropsJob(w)
    <3>1. /\ UNCHANGED storeVars
          /\ \/ /\ InFlight(w) /\ UNCHANGED job
                /\ \E place \in {"taken", "pausing", "lastfinish"} : Goto(w, place)
             \/ Goto(w, "done") /\ Released(w)
      BY <2>2 DEF UpstreamAccepts, LoginNeeded, CancelInSend, CancelDropsJob, MayEnd, InFlight
    <3> QED  BY <1>t, <1>q, <3>1, ApartWhenQuiet DEF InFlight, Released
  <2>3. ASSUME NEW m \in Messages, Claims(w, m) \/ CancelAfterClaim(w, m), ClaimTakes(m)
        PROVE  AttemptsApart'
    BY <1>t, <2>3, ApartAfterClaim DEF Claims, CancelAfterClaim, InFlight
  <2>4. ASSUME NEW m \in Messages, ClaimFindsOld(w, m) \/ (CancelAfterClaim(w, m) /\ ClaimExpires(m))
        PROVE  AttemptsApart'
    <3>1. SendingSame({})
      BY <1>t, <2>4, SendingRows DEF ClaimFindsOld
    <3> QED  BY <1>t, <2>4, <3>1, ApartWhenQuiet DEF ClaimFindsOld, CancelAfterClaim, InFlight
  <2>5. CASE \/ Confirmed(w) \/ Rejected(w) \/ LostAnswer(w) \/ ExtraLoginNeeded(w) \/ Unexpected(w)
             \/ \E delay \in ProviderDelays, cooldown \in BOOLEAN : Refused(w, delay, cooldown)
    <3>1. InFlight(w) /\ UNCHANGED <<messages, job>> /\ Goto(w, "finishing")
      BY <2>5 DEF Confirmed, Rejected, LostAnswer, ExtraLoginNeeded, Unexpected, Refused, MayEnd,
                  Records, InFlight, storeVars
    <3>2. SendingSame({})
      BY <3>1 DEF SendingSame, CanFinish
    <3> QED  BY <1>t, <3>1, <3>2, ApartWhenQuiet DEF InFlight
  <2>6. CASE Finishes(w) \/ CancelAfterFinish(w) \/ (LastFinish(w) /\ ~Fault)
    <3>1. /\ InFlight(w) /\ (Goto(w, "top") \/ Goto(w, "done")) /\ Released(w)
          /\ Finish(job[w], result[w].status, result[w].delay, result[w].cooldown)
      BY <2>6 DEF Finishes, MayFinish, CancelAfterFinish, LastFinish, InFlight
    <3>2. ~InFlight(w)' /\ \A v \in Workers \ {w} : pc'[v] = pc[v] /\ job'[v] = job[v]
      BY <1>t, <3>1 DEF Released, InFlight
    <3> QED  BY <3>1, <3>2, ApartAfterFinish
  <2>7. CASE CancelAfterPause(w) \/ (LastFinish(w) /\ Fault)
    <3>1. SendingSame({})
      BY <1>t, <2>7, SendingRows DEF CancelAfterPause
    <3>2. Goto(w, "done") /\ Released(w)
      BY <2>7 DEF CancelAfterPause, LastFinish
    <3> QED  BY <1>t, <3>1, <3>2, ApartWhenQuiet DEF InFlight, Released
  <2>8. ASSUME NEW m \in Messages, CancelAfterClaim(w, m)
        PROVE  ClaimTakes(m) \/ ClaimExpires(m)
    BY <2>8 DEF CancelAfterClaim
  <2>9. ASSUME NEW m \in Messages, Claims(w, m)
        PROVE  ClaimTakes(m)
    BY <2>9 DEF Claims
  <2> QED
    BY <1>1, <2>1, <2>2, <2>3, <2>4, <2>5, <2>6, <2>7, <2>8, <2>9 DEF Worker, CancelTask
<1>2. CASE \/ \E m \in Messages : LateAcceptance(m)
           \/ \E c \in Workers \cup Admins : PauseCommits(c)
           \/ \E batch \in Batches : \E S \in SUBSET Messages : NewMail(batch, S)
           \/ HousekeepingRuns \/ TimePasses \/ OtherTaskFails \/ Operator
           \/ BeginStop \/ DrainTimesOut
  <2>1. SendingSame({})
    <3>1. \A c : SetPaused(calls[c] = "pause") => SetPaused(TRUE) \/ SetPaused(FALSE)
      BY DEF SetPaused
    <3> QED
      BY <1>t, <1>q, <1>2, <3>1, SendingRows
         DEF LateAcceptance, PauseCommits, NewMail, HousekeepingRuns, TimePasses,
             OtherTaskFails, Operator, Asks, OperatorRetries, OperatorCancels, BeginStop, DrainTimesOut
  <2>2. UNCHANGED <<pc, job>>
    BY <1>2 DEF LateAcceptance, PauseCommits, NewMail, HousekeepingRuns, TimePasses,
                OtherTaskFails, Operator, Asks, OperatorRetries, OperatorCancels,
                BeginStop, DrainTimesOut
  <2> QED  BY <2>1, <2>2, ApartWhenQuiet DEF InFlight
<1>3. CASE PauseResumes
  <2>1. /\ UNCHANGED storeVars /\ UNCHANGED job
        /\ \/ UNCHANGED pc
           \/ \E w \in Workers : Goto(w, "finishing") /\ pc[w] = "pausing"
    BY <1>3 DEF PauseResumes, Listens, Records
  <2> QED  BY <1>t, <1>q, <2>1, ApartWhenQuiet DEF InFlight
<1>4. CASE \E mb \in Mailboxes : Start(mb)
  <2>1. \A m \in Messages : ~CanFinish(m)'
    BY <1>t, <1>4, SendingRows DEF Start
  <2>2. \A w \in Workers : ~InFlight(w)'
    BY <1>4 DEF Start, InFlight
  <2> QED  BY <2>1, <2>2 DEF AttemptsApart
<1>5. CASE Exit \/ Crash
  <2>1. SendingSame({})
    BY <1>t, <1>5, SendingRows DEF Exit, Crash
  <2>2. \A w \in Workers : ~InFlight(w)'
    BY <1>5 DEF Exit, Crash, Forgotten, InFlight
  <2> QED  BY <2>1, <2>2, ApartWhenQuiet
<1>6. ASSUME NEW w \in Workers, ClaimFails(w) \/ FinishFails(w) \/ PauseFails(w)
      PROVE  AttemptsApart'
  <2>1. SendingSame({})
    BY <1>t, <1>6, SendingRows DEF ClaimFails, FinishFails, PauseFails
  <2>2. Goto(w, "top") /\ (Released(w) \/ UNCHANGED job)
    BY <1>6 DEF ClaimFails, FinishFails, PauseFails
  <2> QED  BY <1>t, <2>1, <2>2, ApartWhenQuiet DEF InFlight, Released
<1>7. CASE \E c \in Admins : PauseFails(c)
  <2>1. SendingSame({}) /\ UNCHANGED <<pc, job>>
    BY <1>q, <1>7, DeliveryAssumption DEF PauseFails
  <2> QED  BY <2>1, ApartWhenQuiet DEF InFlight
<1> QED
  BY <1>1, <1>2, <1>3, <1>4, <1>5, <1>6, <1>7 DEF DeliveryNext, Trouble

-----------------------------------------------------------------------------
(* Results, pauses and cooldowns *)

Fitting(r) == FinishArguments(r.status, r.delay, r.cooldown) /\ r.delay \in Delays \cup {0}

(* The outcomes that the handlers of _attempt record are arguments of _finish. *)
LEMMA OutcomesFit ==
    /\ Fitting(Outcome("submitted", 0, FALSE)) /\ Fitting(Outcome("failed", 0, FALSE))
    /\ Fitting(Doubtful)
    /\ Fitting(Outcome("retry", AuthDelay, FALSE)) /\ Fitting(Outcome("retry", ExtraAuthDelay, FALSE))
    /\ \A attempts \in Nat \ {0}, delay \in ProviderDelays, cooldown \in BOOLEAN :
         Fitting(Retryable(attempts, delay, cooldown))
<1>1. AuthDelay \in Delays /\ AuthDelay > 0 /\ ExtraAuthDelay \in Delays /\ ExtraAuthDelay > 0
  BY DelaysCover, DeliveryAssumption DEF AttemptDelays
<1>2. ASSUME NEW attempts \in Nat \ {0}, NEW delay \in ProviderDelays, NEW cooldown \in BOOLEAN
      PROVE  Fitting(Retryable(attempts, delay, cooldown))
  <2> DEFINE d == Max2(delay, Backoff(attempts))
  <2>1. d \in Delays \cup {0} /\ d > 0
    BY BackoffRange, DeliveryAssumption DEF Max2
  <2> HIDE DEF d
  <2> QED  BY <2>1 DEF Fitting, Retryable, Outcome, FinishArguments, d
<1> QED
  BY <1>1, <1>2 DEF Fitting, FinishArguments, Results, Outcome, Doubtful

(* A worker with a result to record keeps it, or has just chosen a fitting one. *)
LEMMA ResultsKept ==
    ASSUME DeliveryTypeOK, AttemptsApart, ResultsFit, DeliveryNext
    PROVE  ResultsFit'
<1>t. pc \in [Workers -> {"off", "top", "permit", "claiming", "sending", "taken", "pausing",
                          "finishing", "lastfinish", "done"}]
      /\ DOMAIN result = Workers
  BY DEF DeliveryTypeOK
<1> DEFINE Recording(v) == pc[v] \in {"finishing", "lastfinish"}
<1>f. ASSUME \A v \in Workers : Recording(v)' =>
                \/ Recording(v) /\ result'[v] = result[v]
                \/ Fitting(result'[v])
      PROVE  ResultsFit'
  BY <1>f DEF ResultsFit, Fitting
<1>r. ASSUME NEW w \in Workers, NEW r, Fitting(r), Records(w, r)
      PROVE  ResultsFit'
  BY <1>t, <1>f, <1>r DEF Records, Goto
<1>g. ASSUME NEW w \in Workers, NEW place \in {"top", "permit", "claiming", "sending", "taken", "pausing", "done"},
             Goto(w, place), Released(w) \/ UNCHANGED result
      PROVE  ResultsFit'
  BY <1>t, <1>f, <1>g DEF Goto, Released
<1> HIDE DEF Recording
<1>1. ASSUME NEW w \in Workers, Worker(w) \/ UpstreamAccepts(w) \/ CancelTask(w)
      PROVE  ResultsFit'
  <2>1. CASE \/ Starts(w) \/ Ends(w) \/ Permitted(w) \/ ClaimFindsNothing(w) \/ UpstreamAccepts(w)
             \/ LoginNeeded(w)
             \/ \E m \in Messages : Claims(w, m) \/ ClaimFindsOld(w, m) \/ CancelAfterClaim(w, m)
    BY <1>g, <2>1 DEF Starts, Ends, Permitted, ClaimFindsNothing, UpstreamAccepts, LoginNeeded,
                      Claims, ClaimFindsOld, CancelAfterClaim
  <2>2. CASE \/ CancelDropsJob(w) \/ CancelAfterPause(w) \/ Finishes(w) \/ CancelAfterFinish(w)
             \/ LastFinish(w)
    BY <1>g, <2>2 DEF CancelDropsJob, CancelAfterPause, Finishes, CancelAfterFinish, LastFinish
  <2>3. CASE Confirmed(w) \/ Rejected(w) \/ LostAnswer(w) \/ ExtraLoginNeeded(w) \/ Unexpected(w)
    BY <1>r, <2>3, OutcomesFit DEF Confirmed, Rejected, LostAnswer, ExtraLoginNeeded, Unexpected
  <2>4. ASSUME NEW delay \in ProviderDelays, NEW cooldown \in BOOLEAN, Refused(w, delay, cooldown)
        PROVE  ResultsFit'
    <3>1. messages[job[w]].attempts \in Nat \ {0}
      BY <2>4, AttemptCounted DEF Refused, MayEnd, DeliveryTypeOK
    <3> QED  BY <1>r, <2>4, <3>1, OutcomesFit DEF Refused
  <2>5. CASE CancelInSend(w)
    <3>1. Goto(w, "lastfinish") /\ result' = [result EXCEPT ![w] = Doubtful]
      BY <2>5 DEF CancelInSend
    <3> QED  BY <1>t, <1>f, <3>1, OutcomesFit DEF Goto, Recording
  <2> QED  BY <1>1, <2>1, <2>2, <2>3, <2>4, <2>5 DEF Worker, CancelTask
<1>2. CASE PauseResumes
  <2>1. \/ UNCHANGED <<pc, result>>
        \/ \E w \in Workers : Records(w, Outcome("retry", AuthDelay, FALSE))
    BY <1>2 DEF PauseResumes
  <2>2. CASE UNCHANGED <<pc, result>>
    BY <2>2, <1>f DEF Recording
  <2> QED  BY <1>r, <2>1, <2>2, OutcomesFit
<1>3. CASE \/ \E m \in Messages : LateAcceptance(m)
           \/ \E c \in Workers \cup Admins : PauseCommits(c)
           \/ \E batch \in Batches : \E S \in SUBSET Messages : NewMail(batch, S)
           \/ HousekeepingRuns \/ TimePasses \/ OtherTaskFails \/ Operator
           \/ BeginStop \/ DrainTimesOut \/ \E c \in Admins : PauseFails(c)
  <2>1. UNCHANGED <<pc, result>>
    BY <1>3, DeliveryAssumption DEF workerVars, LateAcceptance, PauseCommits, NewMail,
       HousekeepingRuns, TimePasses, OtherTaskFails, Operator, Asks, OperatorRetries,
       OperatorCancels, BeginStop, DrainTimesOut, PauseFails
  <2> QED  BY <1>f, <2>1 DEF Recording
<1>4. CASE Exit \/ Crash \/ \E mb \in Mailboxes : Start(mb)
  BY <1>f, <1>4 DEF Exit, Crash, Forgotten, Start, Recording
<1>5. ASSUME NEW w \in Workers, ClaimFails(w) \/ FinishFails(w) \/ PauseFails(w)
      PROVE  ResultsFit'
  BY <1>g, <1>5 DEF ClaimFails, FinishFails, PauseFails
<1> QED
  BY <1>1, <1>2, <1>3, <1>4, <1>5 DEF DeliveryNext, Trouble

(* Only set_setting changes the pause that is in the database.                 *)
LEMMA PausedChanges ==
    ASSUME StoreTypeOK
    PROVE  /\ \A b \in BOOLEAN : SetPaused(b) => settings'.paused = b
           /\ Stop \/ Fault \/ Tick \/ Housekeeping => settings' = settings
           /\ \A batch, S : InsertBatch(batch, S) => settings' = settings
           /\ \A m, ack : Retry(m, ack) \/ Cancel(m) \/ ClaimExpires(m) \/ ClaimTakes(m)
                => settings' = settings
           /\ \A m, status, delay, gc : Finish(m, status, delay, gc)
                => settings'.paused = settings.paused
           /\ \A mb : Open(mb) => settings'.paused = settings.paused
  BY DEF SetPaused, Stop, Fault, Tick, Housekeeping, InsertBatch, Retry, Cancel, ClaimExpires,
         ClaimTakes, Finish, Open, StoreTypeOK

(* Commits and the answers to them stay in one order, of which the database    *)
(* has the last and the memory the first.                                      *)
LEMMA PausesKept ==
    ASSUME DeliveryTypeOK, PhasesAgree, PausesInOrder, DeliveryNext
    PROVE  PausesInOrder'
<1> DEFINE Requests == [caller : Workers \cup Admins, paused : BOOLEAN]
<1>t. /\ pc \in [Workers -> {"off", "top", "permit", "claiming", "sending", "taken", "pausing",
                             "finishing", "lastfinish", "done"}]
      /\ calls \in [Workers \cup Admins -> {"none", "pause", "resume"}]
      /\ resumes \in Seq(Requests)
      /\ dispatcher \in [paused : BOOLEAN, cooldown_until : Nat]
      /\ StoreTypeOK
  BY DEF DeliveryTypeOK
<1>q. ASSUME UNCHANGED <<calls, resumes>>, settings'.paused = settings.paused,
             dispatcher'.paused = dispatcher.paused,
             \/ phase' = phase
             \/ phase' = "stopping" /\ phase = "running"
             \/ phase' = "cancelling",
             \A w \in Workers : pc[w] = "pausing" <=> pc'[w] = "pausing"
      PROVE  PausesInOrder'
  BY <1>q, <1>t DEF PausesInOrder, Scheduled
<1>s. ASSUME NEW w \in Workers, NEW place \in {"top", "permit", "claiming", "sending", "taken", "finishing",
                                           "lastfinish", "done"},
             Goto(w, place), pc[w] # "pausing"
      PROVE  \A v \in Workers : pc[v] = "pausing" <=> pc'[v] = "pausing"
  BY <1>s, <1>t DEF Goto
<1>1. ASSUME NEW w \in Workers, Worker(w) \/ UpstreamAccepts(w) \/ CancelTask(w)
      PROVE  PausesInOrder'
  <2>1. CASE \/ Starts(w) \/ Ends(w) \/ Permitted(w) \/ ClaimFindsNothing(w) \/ UpstreamAccepts(w)
             \/ Confirmed(w) \/ Rejected(w) \/ LostAnswer(w) \/ ExtraLoginNeeded(w) \/ Unexpected(w)
             \/ \E delay \in ProviderDelays, cooldown \in BOOLEAN : Refused(w, delay, cooldown)
             \/ CancelInSend(w)
    <3>1. /\ pc[w] # "pausing"
          /\ \E place \in {"top", "permit", "claiming", "taken", "finishing", "lastfinish", "done"} : Goto(w, place)
      BY <2>1 DEF Starts, Ends, Permitted, ClaimFindsNothing, UpstreamAccepts, Confirmed, Rejected,
                  LostAnswer, ExtraLoginNeeded, Unexpected, Refused, CancelInSend, MayEnd, Records
    <3>2. UNCHANGED <<calls, resumes, settings, phase>>
      BY <2>1 DEF Starts, Ends, Permitted, ClaimFindsNothing, UpstreamAccepts, Confirmed, Rejected,
                  LostAnswer, ExtraLoginNeeded, Unexpected, Refused, CancelInSend, pauseVars, storeVars
    <3>3. dispatcher'.paused = dispatcher.paused
      BY <1>t, <2>1 DEF Starts, Ends, Permitted, ClaimFindsNothing, UpstreamAccepts, Confirmed, Rejected,
                  LostAnswer, ExtraLoginNeeded, Unexpected, Refused, CancelInSend
    <3> QED  BY <1>q, <1>s, <3>1, <3>2, <3>3
  <2>2. CASE \/ \E m \in Messages : Claims(w, m) \/ ClaimFindsOld(w, m) \/ CancelAfterClaim(w, m)
             \/ Finishes(w) \/ CancelAfterFinish(w) \/ LastFinish(w)
    <3>1. /\ pc[w] # "pausing"
          /\ \E place \in {"top", "sending", "done"} : Goto(w, place)
          /\ UNCHANGED <<calls, resumes, phase, dispatcher>>
      BY <2>2 DEF Claims, ClaimFindsOld, CancelAfterClaim, Finishes, MayFinish, CancelAfterFinish,
                  LastFinish, pauseVars
    <3>2. settings'.paused = settings.paused
      BY <1>t, <2>2, PausedChanges DEF Claims, ClaimFindsOld, CancelAfterClaim, Finishes, CancelAfterFinish,
                  LastFinish
    <3> QED  BY <1>q, <1>s, <3>1, <3>2
  <2>3. CASE LoginNeeded(w)
    <3>1. /\ pc[w] # "pausing" /\ Goto(w, "pausing") /\ calls' = [calls EXCEPT ![w] = "pause"]
          /\ UNCHANGED <<resumes, phase, dispatcher, settings>> /\ Scheduled
      BY <2>3 DEF LoginNeeded, MayEnd, storeVars
    <3> QED  BY <1>t, <3>1 DEF PausesInOrder, Goto, Scheduled
  <2>4. CASE CancelDropsJob(w) \/ CancelAfterPause(w)
    <3>1. /\ phase = "cancelling" /\ UNCHANGED <<phase, resumes>>
          /\ calls' = [calls EXCEPT ![w] = "none"] /\ Goto(w, "done")
      BY <2>4 DEF CancelDropsJob, CancelAfterPause, Cancellable
    <3> QED  BY <1>t, <3>1 DEF PausesInOrder, Goto, Scheduled
  <2> QED  BY <1>1, <2>1, <2>2, <2>3, <2>4 DEF Worker, CancelTask
<1>2. CASE \/ \E m \in Messages : LateAcceptance(m)
           \/ \E batch \in Batches : \E S \in SUBSET Messages : NewMail(batch, S)
           \/ HousekeepingRuns \/ TimePasses \/ OtherTaskFails
           \/ \E m \in Messages, ack \in BOOLEAN : OperatorRetries(m, ack)
           \/ \E m \in Messages : OperatorCancels(m)
           \/ BeginStop \/ DrainTimesOut
  <2>1. /\ UNCHANGED <<calls, resumes, dispatcher, pc>>
        /\ \/ phase' = phase
           \/ phase' = "stopping" /\ phase = "running"
           \/ phase' = "cancelling"
    BY <1>2 DEF LateAcceptance, NewMail, HousekeepingRuns, TimePasses, OtherTaskFails, OperatorRetries,
                OperatorCancels, BeginStop, DrainTimesOut, pauseVars, workerVars
  <2>2. settings'.paused = settings.paused
    BY <1>t, <1>2, PausedChanges
       DEF LateAcceptance, NewMail, HousekeepingRuns, TimePasses, OtherTaskFails, OperatorRetries,
           OperatorCancels, BeginStop, DrainTimesOut, storeVars
  <2> QED  BY <1>q, <2>1, <2>2
<1>3. ASSUME NEW a \in Admins, NEW b \in BOOLEAN, Asks(a, b)
      PROVE  PausesInOrder'
  <2>1. /\ calls' = [calls EXCEPT ![a] = IF b THEN "pause" ELSE "resume"]
        /\ UNCHANGED <<resumes, phase, dispatcher, settings, pc>>
    BY <1>3 DEF Asks, storeVars, workerVars
  <2>2. \A w \in Workers : calls'[w] = calls[w]
    BY <1>t, <2>1, DeliveryAssumption
  <2> QED  BY <1>t, <2>1, <2>2 DEF PausesInOrder, Scheduled
<1>4. ASSUME NEW c \in Workers \cup Admins, PauseCommits(c)
      PROVE  PausesInOrder'
  <2> DEFINE b == calls[c] = "pause"
             r == [caller |-> c, paused |-> b]
             n == Len(resumes)
  <2>1. /\ phase # "down" /\ calls[c] # "none" /\ SetPaused(b) /\ resumes' = Append(resumes, r)
        /\ calls' = [calls EXCEPT ![c] = "none"]
        /\ UNCHANGED <<phase, dispatcher, pc>>
    BY <1>4 DEF PauseCommits, workerVars
  <2>2. settings'.paused = b
    BY <1>t, <2>1, PausedChanges
  <2>3. /\ n \in Nat /\ DOMAIN resumes = 1..n /\ DOMAIN resumes' = 1..(n + 1)
        /\ \A i \in 1..n : resumes'[i] = resumes[i]
        /\ resumes'[n + 1] = r /\ resumes' # <<>> /\ Len(resumes') = n + 1
    BY <1>t, <2>1
  <2>4. r.caller = c /\ r.paused = b
    OBVIOUS
  <2> HIDE DEF b, r, n
  <2>5. \A i \in DOMAIN resumes : resumes[i].caller = c /\ c \in Workers => FALSE
    BY <2>1 DEF PausesInOrder
  <2>6. ASSUME NEW w \in Workers, calls'[w] # "none"
        PROVE  pc'[w] = "pausing" /\ calls'[w] = "pause"
    <3>1. calls'[w] = calls[w]
      BY <1>t, <2>1, <2>6
    <3> QED  BY <2>1, <2>6, <3>1 DEF PausesInOrder
  <2>7. ASSUME NEW i \in DOMAIN resumes', resumes'[i].caller \in Workers
        PROVE  /\ Scheduled => pc[resumes'[i].caller] = "pausing"
               /\ pc[resumes'[i].caller] = "pausing" =>
                    /\ calls'[resumes'[i].caller] = "none"
                    /\ \A j \in DOMAIN resumes' : resumes'[i].caller = resumes'[j].caller => i = j
    <3>1. CASE i = n + 1
      <4>1. resumes'[i].caller = c /\ c \in Workers
        BY <2>3, <2>4, <2>7, <3>1
      <4>2. pc[c] = "pausing" /\ calls'[c] = "none"
        BY <1>t, <2>1, <4>1 DEF PausesInOrder
      <4>3. ASSUME NEW j \in 1..(n + 1), resumes'[j].caller = c
            PROVE  j = n + 1
        <5>1. CASE j \in 1..n
          BY <2>3, <2>5, <4>1, <4>3, <5>1
        <5> QED  BY <2>3, <5>1
      <4> QED  BY <2>3, <3>1, <4>1, <4>2, <4>3
    <3>2. CASE i \in 1..n
      <4>1. resumes'[i] = resumes[i] /\ i \in DOMAIN resumes
        BY <2>3, <3>2
      <4>2. resumes[i].caller # c
        BY <2>5, <2>7, <3>2, <4>1
      <4>3. /\ Scheduled => pc[resumes[i].caller] = "pausing"
            /\ pc[resumes[i].caller] = "pausing" =>
                 /\ calls[resumes[i].caller] = "none"
                 /\ \A j \in DOMAIN resumes : resumes[i].caller = resumes[j].caller => i = j
        BY <2>7, <4>1 DEF PausesInOrder
      <4>4. calls'[resumes[i].caller] = calls[resumes[i].caller]
        BY <1>t, <2>1, <2>7, <4>1, <4>2
      <4>5. pc[resumes[i].caller] = "pausing" =>
               \A j \in 1..(n + 1) : resumes'[j].caller = resumes[i].caller => i = j
        BY <2>3, <2>4, <4>2, <4>3
      <4> QED  BY <2>3, <4>1, <4>3, <4>4, <4>5
    <3> QED  BY <2>3, <3>1, <3>2
  <2>8. phase' = "running" => settings'.paused = resumes'[Len(resumes')].paused
    BY <2>2, <2>3, <2>4
  <2> QED  BY <2>1, <2>3, <2>6, <2>7, <2>8 DEF PausesInOrder, Scheduled
<1>5. CASE PauseResumes
  <2> DEFINE r == Head(resumes)
             n == Len(resumes)
  <2>1. /\ phase # "down" /\ resumes # <<>> /\ resumes' = Tail(resumes)
        /\ dispatcher' = IF Listens(r.caller) THEN [dispatcher EXCEPT !.paused = r.paused] ELSE dispatcher
        /\ UNCHANGED <<phase, calls, settings>>
    BY <1>5 DEF PauseResumes, storeVars
  <2>2. /\ n \in Nat /\ n >= 1 /\ DOMAIN resumes = 1..n /\ DOMAIN resumes' = 1..(n - 1)
        /\ Len(resumes') = n - 1 /\ \A i \in 1..(n - 1) : resumes'[i] = resumes[i + 1]
        /\ r = resumes[1] /\ r.paused \in BOOLEAN
        /\ resumes' = <<>> <=> n = 1
    <3>1. resumes' \in Seq(Requests) /\ r \in Requests /\ Len(resumes') = n - 1
          /\ \A i \in 1..Len(resumes') : resumes'[i] = resumes[i + 1]
      BY <1>t, <2>1, HeadTailProperties
    <3>2. n \in Nat /\ DOMAIN resumes = 1..n /\ n # 0 /\ r = resumes[1]
      BY <1>t, <2>1
    <3>3. DOMAIN resumes' = 1..(n - 1) /\ (resumes' = <<>> <=> n = 1)
      BY <3>1, <3>2
    <3>4. r.paused \in BOOLEAN
      BY <3>1
    <3> HIDE DEF r, n, Requests
    <3> QED  BY <3>1, <3>2, <3>3, <3>4
  <2>3. /\ r.caller \in Workers /\ pc[r.caller] = "pausing" => Goto(r.caller, "finishing")
        /\ ~(r.caller \in Workers /\ pc[r.caller] = "pausing") => pc' = pc
    BY <1>5 DEF PauseResumes, Listens, Records
  <2> HIDE DEF r, n
  <2>4. \A w \in Workers :
            \/ pc'[w] = pc[w]
            \/ w = r.caller /\ pc[w] = "pausing" /\ pc'[w] # "pausing"
    BY <1>t, <2>3 DEF Goto
  <2>5. 1 \in DOMAIN resumes /\ resumes[1].caller = r.caller
    BY <2>2
  <2>6. ASSUME NEW w \in Workers, calls[w] # "none"
        PROVE  pc'[w] = "pausing"
    <3>1. pc[w] = "pausing"
      BY <2>6 DEF PausesInOrder
    <3>2. w # r.caller
      BY <2>5, <2>6, <3>1 DEF PausesInOrder
    <3> QED  BY <2>4, <3>1, <3>2
  <2>7. ASSUME NEW i \in DOMAIN resumes', NEW w \in Workers, resumes'[i].caller = w
        PROVE  /\ Scheduled => pc'[w] = "pausing"
               /\ pc'[w] = "pausing" =>
                    /\ calls[w] = "none"
                    /\ \A j \in DOMAIN resumes' : resumes'[j].caller = w => i = j
    <3>1. i \in 1..(n - 1) /\ i + 1 \in DOMAIN resumes /\ resumes[i + 1].caller = w /\ i + 1 # 1
      BY <2>2, <2>7
    <3>2. /\ Scheduled => pc[w] = "pausing"
          /\ pc[w] = "pausing" =>
               /\ calls[w] = "none"
               /\ \A k \in DOMAIN resumes : resumes[k].caller = w => i + 1 = k
      BY <3>1 DEF PausesInOrder
    <3>3. pc[w] = "pausing" <=> pc'[w] = "pausing"
      BY <2>4, <2>5, <3>1, <3>2
    <3>4. pc[w] = "pausing" => \A j \in 1..(n - 1) : resumes'[j].caller = w => i = j
      BY <2>2, <3>1, <3>2
    <3> QED  BY <2>2, <3>2, <3>3, <3>4
  <2>8. ASSUME phase = "running"
        PROVE  settings'.paused = IF resumes' = <<>> THEN dispatcher'.paused
                                  ELSE resumes'[Len(resumes')].paused
    <3>1. dispatcher'.paused = r.paused
      <4>1. Listens(r.caller)
        BY <2>5, <2>8 DEF PausesInOrder, Listens, Scheduled
      <4> QED  BY <1>t, <2>1, <2>2, <4>1
    <3>2. settings'.paused = resumes[n].paused
      BY <2>1, <2>8 DEF PausesInOrder, n
    <3>3. CASE n = 1
      BY <2>2, <3>1, <3>2, <3>3
    <3>4. CASE n > 1
      BY <2>2, <3>2, <3>4
    <3> QED  BY <2>2, <3>3, <3>4
  <2> QED  BY <2>1, <2>6, <2>7, <2>8 DEF PausesInOrder, Scheduled
<1>6. CASE \E mb \in Mailboxes : Start(mb)
  <2>1. /\ phase = "down" /\ phase' = "running" /\ UNCHANGED <<calls, resumes>>
        /\ dispatcher'.paused = settings'.paused
    BY <1>6 DEF Start, Loaded, pauseVars
  <2> QED  BY <1>t, <2>1 DEF PausesInOrder, PhasesAgree, Scheduled
<1>7. CASE Exit \/ Crash
  BY <1>7 DEF Exit, Crash, Forgotten, PausesInOrder
<1>8. ASSUME NEW w \in Workers, ClaimFails(w) \/ FinishFails(w)
      PROVE  PausesInOrder'
  <2>1. /\ pc[w] # "pausing" /\ Goto(w, "top") /\ UNCHANGED <<calls, resumes, phase, dispatcher>>
    BY <1>8 DEF ClaimFails, FinishFails, MayFinish, pauseVars
  <2>2. settings' = settings
    BY <1>t, <1>8, PausedChanges DEF ClaimFails, FinishFails
  <2> QED  BY <1>q, <1>s, <2>1, <2>2
<1>9. ASSUME NEW c \in Workers \cup Admins, PauseFails(c)
      PROVE  PausesInOrder'
  <2>1. /\ calls[c] # "none" /\ calls' = [calls EXCEPT ![c] = "none"]
        /\ UNCHANGED <<resumes, phase, dispatcher>>
        /\ (c \in Workers /\ Goto(c, "top")) \/ pc' = pc
    BY <1>9 DEF PauseFails, workerVars
  <2>2. settings' = settings
    BY <1>t, <1>9, PausedChanges DEF PauseFails, storeVars
  <2> QED  BY <1>t, <2>1, <2>2 DEF PausesInOrder, Goto, Scheduled
<1> QED
  BY <1>1, <1>2, <1>3, <1>4, <1>5, <1>6, <1>7, <1>8, <1>9 DEF DeliveryNext, Trouble, Operator

(* Time goes on, and while the process runs nothing heals it.                  *)
LEMMA TimeGoesOn ==
    ASSUME StoreTypeOK, [StoreNext]_storeVars
    PROVE  now' >= now /\ (up /\ healthy' => healthy)
<1>1. now \in Nat
  BY DEF StoreTypeOK
<1>2. CASE \/ \E batch \in Batches : \E S \in SUBSET Messages : InsertBatch(batch, S)
           \/ \E m \in Messages : ClaimExpires(m) \/ ClaimTakes(m) \/ Cancel(m)
           \/ \E m \in Messages, status \in Results, delay \in Delays \cup {0}, gc \in BOOLEAN :
                  Finish(m, status, delay, gc)
           \/ \E m \in Messages, ack \in BOOLEAN : Retry(m, ack)
           \/ \E b \in BOOLEAN : SetPaused(b)
           \/ Housekeeping \/ Stop \/ UNCHANGED storeVars
  <2>1. UNCHANGED <<healthy, now>>
    BY <1>2 DEF InsertBatch, ClaimExpires, ClaimTakes, Finish, Retry, Cancel, SetPaused,
                Housekeeping, Stop, storeVars
  <2> QED  BY <1>1, <2>1
<1>3. CASE Fault
  <2>1. ~healthy' /\ now' = now
    BY <1>3, Zenon DEF Fault
  <2> QED  BY <1>1, <2>1
<1>4. CASE Tick
  <2>1. healthy' = healthy /\ now' = now + 1
    BY <1>4 DEF Tick
  <2> QED  BY <1>1, <2>1
<1>5. CASE \E mb \in Mailboxes : Open(mb)
  <2>1. ~up /\ now' = now
    BY <1>5 DEF Open
  <2> QED  BY <1>1, <2>1
<1> QED  BY <1>2, <1>3, <1>4, <1>5, Zenon DEF StoreNext

(* A cooldown reaches the database, unless the queue halts or the worker that  *)
(* has to record it is cancelled.                                              *)
LEMMA CooldownsKept ==
    ASSUME DeliveryTypeOK, StoreTypeOK', PhasesAgree, AttemptsApart, ResultsFit, CooldownOnItsWay,
           DeliveryNext
    PROVE  CooldownOnItsWay'
<1>t. /\ pc \in [Workers -> {"off", "top", "permit", "claiming", "sending", "taken", "pausing",
                             "finishing", "lastfinish", "done"}]
      /\ result \in [Workers -> [status : Results, delay : Nat, cooldown : BOOLEAN]]
      /\ dispatcher \in [paused : BOOLEAN, cooldown_until : Nat]
      /\ StoreTypeOK /\ settings.cooldown_until \in Nat /\ settings'.cooldown_until \in Nat
      /\ now \in Nat /\ now' \in Nat
      /\ \A w \in Workers : result[w].delay \in Nat
  <2>1. /\ StoreTypeOK
        /\ pc \in [Workers -> {"off", "top", "permit", "claiming", "sending", "taken", "pausing",
                               "finishing", "lastfinish", "done"}]
        /\ result \in [Workers -> [status : Results, delay : Nat, cooldown : BOOLEAN]]
        /\ dispatcher \in [paused : BOOLEAN, cooldown_until : Nat]
    BY DEF DeliveryTypeOK
  <2>2. settings.cooldown_until \in Nat /\ now \in Nat
    BY <2>1 DEF StoreTypeOK
  <2>3. settings'.cooldown_until \in Nat /\ now' \in Nat
    BY DEF StoreTypeOK
  <2>4. \A w \in Workers : result[w].delay \in Nat
    BY <2>1
  <2> QED  BY <2>1, <2>2, <2>3, <2>4, Zenon
<1>m. settings'.cooldown_until >= settings.cooldown_until
  BY <1>t, QueueStep, CooldownGrows
<1>r. up => (healthy' => healthy) /\ now' >= now
  BY <1>t, QueueStep, TimeGoesOn
<1> DEFINE Recording(w) == /\ pc[w] = "finishing" /\ result[w].cooldown
                           /\ now + result[w].delay >= dispatcher.cooldown_until
<1>k. ASSUME phase # "down", phase = "cancelling" => phase' = "cancelling",
             dispatcher'.cooldown_until = dispatcher.cooldown_until,
             \A w \in Workers :
                pc[w] = "finishing" =>
                    \/ pc'[w] = "finishing" /\ result'[w] = result[w]
                    \/ ~Recording(w)
      PROVE  CooldownOnItsWay'
  <2>1. CASE settings.cooldown_until >= dispatcher.cooldown_until
    BY <1>t, <1>m, <1>k, <2>1 DEF CooldownOnItsWay
  <2>2. CASE ~healthy \/ phase = "cancelling"
    BY <1>r, <1>k, <2>2 DEF CooldownOnItsWay, PhasesAgree
  <2>3. ASSUME NEW w \in Workers, Recording(w)
        PROVE  CooldownOnItsWay'
    <3>1. pc'[w] = "finishing" /\ result'[w] = result[w] /\ now' >= now
      BY <1>r, <1>k, <2>3 DEF PhasesAgree
    <3>2. now' + result'[w].delay >= dispatcher'.cooldown_until
      BY <1>t, <1>k, <2>3, <3>1
    <3> QED  BY <2>3, <3>1, <3>2 DEF CooldownOnItsWay
  <2> QED  BY <2>1, <2>2, <2>3 DEF CooldownOnItsWay
<1>h. ~healthy' \/ phase' = "cancelling" \/ settings'.cooldown_until >= dispatcher'.cooldown_until
        => CooldownOnItsWay'
  BY DEF CooldownOnItsWay
<1>1. ASSUME NEW w \in Workers, Worker(w) \/ UpstreamAccepts(w) \/ CancelTask(w)
      PROVE  CooldownOnItsWay'
  <2>0. phase # "down"
    BY <1>1 DEF Worker, UpstreamAccepts, CancelTask, PhasesAgree, Starts, Ends, Permitted, Claims,
       ClaimFindsOld, ClaimFindsNothing, Confirmed, Refused, Rejected, LostAnswer, Unexpected,
       ExtraLoginNeeded, LoginNeeded, Finishes, MayFinish, LastFinish, CancelDropsJob,
       CancelAfterClaim, CancelAfterFinish, CancelAfterPause, CancelInSend, Cancellable, MayEnd, Scheduled
  <2>1. CASE \/ Starts(w) \/ Ends(w) \/ Permitted(w) \/ ClaimFindsNothing(w) \/ UpstreamAccepts(w)
             \/ \E m \in Messages : Claims(w, m) \/ ClaimFindsOld(w, m)
             \/ Confirmed(w) \/ Rejected(w) \/ LostAnswer(w) \/ ExtraLoginNeeded(w) \/ LoginNeeded(w)
    <3>1. /\ pc[w] # "finishing" /\ \E place : Goto(w, place)
          /\ result' = result \/ \E r : result' = [result EXCEPT ![w] = r]
          /\ UNCHANGED <<phase, dispatcher>>
      BY <2>1 DEF Starts, Ends, Permitted, ClaimFindsNothing, UpstreamAccepts, Claims, ClaimFindsOld,
                  Confirmed, Rejected, LostAnswer, ExtraLoginNeeded, LoginNeeded, MayEnd, Records
    <3>2. \A v \in Workers : pc[v] = "finishing" => pc'[v] = "finishing" /\ result'[v] = result[v]
      BY <1>t, <3>1 DEF Goto
    <3> QED  BY <1>k, <2>0, <3>1, <3>2
  <2>2. ASSUME NEW delay \in ProviderDelays, NEW cooldown \in BOOLEAN, Refused(w, delay, cooldown)
        PROVE  CooldownOnItsWay'
    <3> DEFINE r == Retryable(messages[job[w]].attempts, delay, cooldown)
    <3>1. /\ pc[w] # "finishing" /\ Records(w, r) /\ UNCHANGED <<storeVars, phase>>
          /\ dispatcher' = IF cooldown
                           THEN [dispatcher EXCEPT !.cooldown_until = Max2(@, now + r.delay)]
                           ELSE dispatcher
          /\ r.cooldown = cooldown
      BY <2>2 DEF Refused, MayEnd, Retryable, Outcome
    <3>a. messages[job[w]].attempts \in Nat \ {0}
      BY <2>2, AttemptCounted DEF Refused, MayEnd, DeliveryTypeOK
    <3>b. r.delay \in Nat
      BY <3>a, BackoffRange, DeliveryAssumption DEF Retryable, Outcome, Max2
    <3> HIDE DEF r
    <3>2. /\ pc' = [pc EXCEPT ![w] = "finishing"] /\ result' = [result EXCEPT ![w] = r]
          /\ settings' = settings /\ healthy' = healthy /\ now' = now
      BY <3>1 DEF Records, Goto, storeVars
    <3>3. \A v \in Workers : pc[v] = "finishing" => pc'[v] = "finishing" /\ result'[v] = result[v]
      BY <1>t, <3>1, <3>2
    <3>4. CASE ~cooldown
      BY <1>k, <2>0, <3>1, <3>3, <3>4
    <3>5. CASE cooldown /\ now + r.delay >= dispatcher.cooldown_until
      <4>1. /\ dispatcher'.cooldown_until = now + r.delay
            /\ pc'[w] = "finishing" /\ result'[w] = r
        BY <1>t, <3>b, <3>1, <3>2, <3>5 DEF Max2
      <4>2. /\ pc'[w] = "finishing" /\ result'[w].cooldown
            /\ now' + result'[w].delay >= dispatcher'.cooldown_until
        <5>1. result'[w].cooldown
          BY <3>1, <3>5, <4>1, Zenon
        <5> QED  BY <1>t, <3>b, <3>2, <4>1, <5>1
      <4> QED  BY <4>2 DEF CooldownOnItsWay
    <3>6. CASE cooldown /\ now + r.delay < dispatcher.cooldown_until
      <4>1. dispatcher'.cooldown_until = dispatcher.cooldown_until
        BY <1>t, <3>b, <3>1, <3>6 DEF Max2
      <4> QED  BY <1>k, <2>0, <3>1, <3>3, <4>1
    <3> QED  BY <1>t, <3>b, <3>4, <3>5, <3>6
  <2>3. CASE Unexpected(w)
    BY <1>h, <2>3 DEF Unexpected
  <2>4. CASE Finishes(w)
    <3>1. /\ pc' = [pc EXCEPT ![w] = "top"] /\ result' = [result EXCEPT ![w] = NoResult]
          /\ UNCHANGED <<phase, dispatcher>> /\ phase # "cancelling" /\ InFlight(w)
          /\ Finish(job[w], result[w].status, result[w].delay, result[w].cooldown)
      BY <2>4 DEF Finishes, MayFinish, Goto, Released, Scheduled, InFlight
    <3>2. PICK m \in Messages : m = job[w]
      BY <3>1 DEF AttemptsApart
    <3>3. result[w].cooldown => settings'.cooldown_until >= now + result[w].delay
      <4> DEFINE s == result[w].status
                 d == result[w].delay
                 c == result[w].cooldown
      <4>1. s \in Results /\ d \in Nat /\ c \in BOOLEAN /\ Finish(m, s, d, c)
        BY <1>t, <3>1, <3>2
      <4> HIDE DEF s, d, c
      <4>0. StoreTypeOK
        BY <1>t
      <4>2. c => settings'.cooldown_until >= now + d
        BY <4>0, <4>1, CooldownGrows, Zenon
      <4> QED  BY <4>2, Zenon DEF c, d
    <3>4. CASE Recording(w)
      BY <1>t, <1>h, <3>1, <3>3, <3>4
    <3>5. CASE ~Recording(w)
      <4>1. \A v \in Workers : v = w \/ (pc'[v] = pc[v] /\ result'[v] = result[v])
        BY <1>t, <3>1
      <4> QED  BY <1>k, <2>0, <3>1, <3>5, <4>1
    <3> QED  BY <3>4, <3>5
  <2>5. CASE LastFinish(w) \/ CancelTask(w)
    <3>1. phase' = "cancelling"
      BY <2>5 DEF LastFinish, CancelTask, CancelDropsJob, CancelAfterClaim, CancelAfterFinish,
                  CancelAfterPause, CancelInSend, Cancellable, PhasesAgree
    <3> QED  BY <1>h, <3>1
  <2> QED  BY <1>1, <2>1, <2>2, <2>3, <2>4, <2>5 DEF Worker
<1>2. CASE PauseResumes
  <2>1. /\ phase # "down" /\ phase' = phase
        /\ UNCHANGED <<pc, result>> \/ \E w \in Workers : \E r : Records(w, r) /\ pc[w] = "pausing"
    BY <1>2 DEF PauseResumes, Listens
  <2>2. dispatcher'.cooldown_until = dispatcher.cooldown_until
    BY <1>t, <1>2 DEF PauseResumes
  <2>3. \A v \in Workers : pc[v] = "finishing" => pc'[v] = "finishing" /\ result'[v] = result[v]
    BY <1>t, <2>1 DEF Records, Goto
  <2> QED  BY <1>k, <2>1, <2>2, <2>3
<1>3. CASE \/ \E m \in Messages : LateAcceptance(m)
           \/ \E c \in Workers \cup Admins : PauseCommits(c)
           \/ \E batch \in Batches : \E S \in SUBSET Messages : NewMail(batch, S)
           \/ HousekeepingRuns \/ TimePasses \/ OtherTaskFails \/ Operator
           \/ BeginStop \/ DrainTimesOut \/ \E c \in Admins : PauseFails(c)
  <2>1. UNCHANGED <<pc, result, dispatcher>>
        /\ (phase = "cancelling" \/ phase = "down" => phase' = phase)
    BY <1>3, DeliveryAssumption DEF workerVars, LateAcceptance, PauseCommits, NewMail,
       HousekeepingRuns, TimePasses, OtherTaskFails, Operator, Asks, OperatorRetries,
       OperatorCancels, BeginStop, DrainTimesOut, PauseFails
  <2>2. CASE phase # "down"
    BY <1>k, <2>1, <2>2
  <2>3. CASE phase = "down"
    <3>1. healthy' = healthy
      BY <1>3, <2>3 DEF PhasesAgree, LateAcceptance, PauseCommits, NewMail, HousekeepingRuns, TimePasses,
         OtherTaskFails, Operator, Asks, OperatorRetries, OperatorCancels, BeginStop, DrainTimesOut,
         PauseFails, storeVars, Tick
    <3>2. \A w \in Workers : pc[w] # "finishing"
      BY <2>3 DEF PhasesAgree
    <3> QED  BY <1>t, <1>m, <2>1, <2>3, <3>1, <3>2 DEF CooldownOnItsWay
  <2> QED  BY <2>2, <2>3
<1>4. CASE \E mb \in Mailboxes : Start(mb)
  <2>1. dispatcher'.cooldown_until = settings'.cooldown_until
    BY <1>4 DEF Start, Loaded
  <2> QED  BY <1>t, <1>h, <2>1
<1>5. CASE Exit \/ Crash
  <2>1. dispatcher'.cooldown_until = 0
    BY <1>5 DEF Exit, Crash, Forgotten, NewDispatcher
  <2> QED  BY <1>t, <1>h, <2>1
<1>6. ASSUME NEW w \in Workers, ClaimFails(w) \/ FinishFails(w) \/ PauseFails(w)
      PROVE  CooldownOnItsWay'
  BY <1>h, <1>6 DEF ClaimFails, FinishFails, PauseFails, Fault
<1> QED
  BY <1>1, <1>2, <1>3, <1>4, <1>5, <1>6 DEF DeliveryNext, Trouble
-----------------------------------------------------------------------------
(* The stage of a mail *)

(* What the stage of a mail says of its row and of the worker that has it.     *)
StageFact(m) ==
    /\ messages[m].status = "absent"                        => Stage(m) = "none"
    /\ messages[m].status \in {"queued", "retry", "failed"} => Stage(m) = "held"
    /\ messages[m].status = "uncertain"                     => Stage(m) = "doubtful"
    /\ messages[m].status = "submitted"                     => Stage(m) = "sent"
    /\ messages[m].status = "cancelled"                     => Stage(m) = "withdrawn"
    /\ messages[m].status = "purged"                        => Stage(m) = "gone"
    /\ \A w \in Workers : InFlight(w) /\ job[w] = m         => Stage(m) = StageAt(w)
    /\ CanFinish(m) /\ (\A w \in Workers : InFlight(w) => job[w] # m) => Stage(m) = "doubtful"

StagesAgree == \A m \in Messages : StageFact(m)

(* Each row, and the worker that holds it, decides the stage.                  *)
LEMMA StageFacts == AttemptsApart => StagesAgree
<1> SUFFICES ASSUME AttemptsApart, NEW m \in Messages
             PROVE  StageFact(m)
  BY DEF StagesAgree
<1>1. ASSUME messages[m].status # "sending"
      PROVE  \A w \in Workers : InFlight(w) => job[w] # m
  BY <1>1 DEF AttemptsApart, CanFinish
<1>2. ASSUME NEW w \in Workers, InFlight(w), job[w] = m
      PROVE  Stage(m) = StageAt(w)
  <2>1. messages[m].status = "sending" /\ Owners(m) = {w}
    BY <1>2 DEF AttemptsApart, CanFinish, Owners
  <2> QED  BY <2>1 DEF Stage
<1>3. ASSUME CanFinish(m), \A w \in Workers : InFlight(w) => job[w] # m
      PROVE  Stage(m) = "doubtful"
  <2>1. Owners(m) = {}
    BY <1>3 DEF Owners
  <2> QED  BY <1>3, <2>1 DEF Stage, CanFinish
<1>4. /\ messages[m].status = "absent"                        => Stage(m) = "none"
      /\ messages[m].status \in {"queued", "retry", "failed"} => Stage(m) = "held"
      /\ messages[m].status = "uncertain"                     => Stage(m) = "doubtful"
      /\ messages[m].status = "submitted"                     => Stage(m) = "sent"
      /\ messages[m].status = "cancelled"                     => Stage(m) = "withdrawn"
      /\ messages[m].status = "purged"                        => Stage(m) = "gone"
  BY DEF Stage
<1> QED  BY <1>2, <1>3, <1>4 DEF StageFact

(* The same after a step.                                                      *)
LEMMA StageFactsNext == AttemptsApart' => StagesAgree'
  BY StageFacts, PTL

(* Requests that upstream accepted, and those it may still accept.             *)
Exposures(m) == copies[m] + late[m]

Kept(m)    == Exposures(m)' = Exposures(m) /\ acks'[m] = acks[m]
Exposed(m) == Exposures(m)' = Exposures(m) + 1 /\ acks'[m] = acks[m]

Goes(m, from, to) == Stage(m) \in from /\ Stage(m)' \in to

Unmoved(m) == Stage(m)' = Stage(m) /\ Kept(m)

(* What MailLifecycle allows of one mail.                                      *)
MailMoves(m) ==
    \/ Unmoved(m)
    \/ Kept(m) /\ \/ Goes(m, {"none", "trying"}, {"held"})
                  \/ Goes(m, {"held"}, {"trying"})
                  \/ Goes(m, {"held", "trying", "taken"}, {"doubtful"})
                  \/ Goes(m, {"held", "doubtful"}, {"withdrawn"})
                  \/ Goes(m, {"taken"}, {"sent"})
                  \/ Goes(m, {"sent", "withdrawn"}, {"gone"})
    \/ Exposed(m) /\ Goes(m, {"trying"}, {"taken", "doubtful"})
    \/ /\ Exposures(m)' = Exposures(m) /\ acks'[m] = acks[m] + 1
       /\ Goes(m, {"doubtful"}, {"held"})

(* A mail moves only if its row, its worker or what upstream has of it does.   *)
LEMMA UntouchedMail ==
    ASSUME DeliveryTypeOK, DeliveryTypeOK', AttemptsApart, AttemptsApart', NEW m \in Messages, Kept(m),
           messages'[m].status = messages[m].status,
           \A w \in Workers : (InFlight(w) /\ job[w] = m) <=> (InFlight(w)' /\ job'[w] = m),
           \A w \in Workers : InFlight(w) /\ job[w] = m => StageAt(w)' = StageAt(w)
    PROVE  Unmoved(m)
<1>1. StageFact(m) /\ StageFact(m)'
  BY StageFacts, StageFactsNext DEF StagesAgree
<1>2. CASE \E w \in Workers : InFlight(w) /\ job[w] = m
  BY <1>1, <1>2 DEF StageFact, Unmoved
<1>3. CASE CanFinish(m) /\ \A w \in Workers : InFlight(w) => job[w] # m
  BY <1>1, <1>3 DEF StageFact, Unmoved, CanFinish
<1>4. CASE ~CanFinish(m)
  <2>1. messages[m].status \in Statuses \cup NoRow
    BY DEF DeliveryTypeOK, StoreTypeOK, Rows
  <2> QED  BY <1>1, <1>4, <2>1 DEF StageFact, Unmoved, CanFinish, Statuses, NoRow
<1> QED  BY <1>2, <1>3, <1>4

(* A worker moves no mail but the one it has or takes.                         *)
LEMMA OtherMail ==
    ASSUME DeliveryTypeOK, DeliveryTypeOK', AttemptsApart, AttemptsApart', NEW m \in Messages, Kept(m),
           messages'[m].status = messages[m].status,
           NEW w \in Workers, ~(InFlight(w) /\ job[w] = m), ~(InFlight(w)' /\ job'[w] = m),
           \A v \in Workers \ {w} : pc'[v] = pc[v] /\ job'[v] = job[v] /\ result'[v] = result[v]
    PROVE  Unmoved(m)
<1>1. \A v \in Workers : (InFlight(v) /\ job[v] = m) <=> (InFlight(v)' /\ job'[v] = m)
  BY DEF InFlight
<1>2. \A v \in Workers : InFlight(v) /\ job[v] = m => StageAt(v)' = StageAt(v)
  BY DEF StageAt
<1> QED  BY <1>1, <1>2, UntouchedMail

(* The mail that a worker has.                                                 *)
LEMMA OwnMail ==
    ASSUME AttemptsApart, AttemptsApart', NEW w \in Workers, InFlight(w), NEW m \in Messages, m = job[w]
    PROVE  /\ CanFinish(m) /\ Stage(m) = StageAt(w) /\ StageAt(w) \in {"trying", "taken", "doubtful"}
           /\ InFlight(w)' /\ job'[w] = m => Stage(m)' = StageAt(w)'
           /\ /\ ~InFlight(w)' /\ messages'[m].status = "sending"
              /\ \A v \in Workers \ {w} : pc'[v] = pc[v] /\ job'[v] = job[v]
              => Stage(m)' = "doubtful"
<1>1. StageFact(m) /\ StageFact(m)'
  BY StageFacts, StageFactsNext DEF StagesAgree
<1>2. CanFinish(m) /\ \A v \in Workers \ {w} : InFlight(v) => job[v] # m
  BY DEF AttemptsApart
<1>3. StageAt(w) \in {"trying", "taken", "doubtful"}
  BY DEF StageAt
<1>4. ASSUME ~InFlight(w)', messages'[m].status = "sending",
             \A v \in Workers \ {w} : pc'[v] = pc[v] /\ job'[v] = job[v]
      PROVE  Stage(m)' = "doubtful"
  <2>1. \A v \in Workers : InFlight(v)' => job'[v] # m
    BY <1>2, <1>4 DEF InFlight
  <2> QED  BY <1>1, <1>4, <2>1 DEF StageFact, CanFinish
<1> QED  BY <1>1, <1>2, <1>3, <1>4 DEF StageFact

(* A worker loses its mail: somebody has to decide what became of it.          *)
LEMMA AbandonedMail ==
    ASSUME DeliveryTypeOK, DeliveryTypeOK', AttemptsApart, AttemptsApart', NEW w \in Workers,
           Goto(w, "top") \/ Goto(w, "done"), Released(w),
           UNCHANGED <<messages, acks, copies, late>>, NEW m \in Messages
    PROVE  MailMoves(m)
<1>1. Kept(m) /\ messages'[m].status = messages[m].status
  BY DEF Kept, Exposures
<1>2. /\ ~InFlight(w)'
      /\ \A v \in Workers \ {w} : pc'[v] = pc[v] /\ job'[v] = job[v] /\ result'[v] = result[v]
  BY DEF Goto, Released, InFlight, DeliveryTypeOK
<1>3. CASE ~(InFlight(w) /\ job[w] = m)
  BY <1>1, <1>2, <1>3, OtherMail DEF MailMoves
<1>4. CASE InFlight(w) /\ job[w] = m
  BY <1>1, <1>2, <1>4, OwnMail DEF MailMoves, Goes, CanFinish, Unmoved
<1> QED  BY <1>3, <1>4

(* A request goes out, is answered or is given up on.                          *)
LEMMA AttemptedMail ==
    ASSUME DeliveryTypeOK, DeliveryTypeOK', AttemptsApart, AttemptsApart', NEW w \in Workers,
           \/ UpstreamAccepts(w) \/ Confirmed(w) \/ Rejected(w) \/ LostAnswer(w) \/ Unexpected(w)
           \/ \E delay \in ProviderDelays, cooldown \in BOOLEAN : Refused(w, delay, cooldown)
           \/ ExtraLoginNeeded(w) \/ LoginNeeded(w) \/ CancelInSend(w),
           NEW m \in Messages
    PROVE  MailMoves(m)
<1> DEFINE own == job[w]
<1>t. /\ DOMAIN pc = Workers /\ DOMAIN result = Workers
      /\ copies \in [Messages -> Nat] /\ late \in [Messages -> Nat]
  BY DEF DeliveryTypeOK
<1>1. /\ pc[w] \in {"sending", "taken"} /\ UNCHANGED <<messages, acks, job>>
      /\ \E place \in {"taken", "finishing", "pausing", "lastfinish"} : Goto(w, place)
      /\ result' = result \/ \E r : result' = [result EXCEPT ![w] = r]
  BY DEF UpstreamAccepts, Confirmed, Rejected, LostAnswer, Unexpected, Refused, ExtraLoginNeeded,
         LoginNeeded, CancelInSend, MayEnd, Records, storeVars
<1>2. /\ InFlight(w) /\ InFlight(w)' /\ own \in Messages /\ job'[w] = own
      /\ \A v \in Workers \ {w} : pc'[v] = pc[v] /\ job'[v] = job[v] /\ result'[v] = result[v]
  BY <1>t, <1>1 DEF InFlight, Goto, AttemptsApart
<1>3. /\ copies' = copies \/ copies' = [copies EXCEPT ![own] = @ + 1]
      /\ late' = late \/ late' = [late EXCEPT ![own] = @ + 1]
  BY DEF UpstreamAccepts, Confirmed, Rejected, LostAnswer, Unexpected, Refused, ExtraLoginNeeded,
         LoginNeeded, CancelInSend, GivenUp, truthVars
<1>4. CASE m # own
  <2>1. Kept(m) /\ messages'[m].status = messages[m].status
    BY <1>t, <1>1, <1>3, <1>4 DEF Kept, Exposures
  <2> QED  BY <1>2, <1>4, <2>1, OtherMail DEF MailMoves
<1>5. CASE m = own
  <2>1. Stage(m) = StageAt(w) /\ Stage(m)' = StageAt(w)' /\ acks'[m] = acks[m]
    BY <1>1, <1>2, <1>5, OwnMail
  <2>2. CASE UpstreamAccepts(w)
    <3>1. pc[w] = "sending" /\ pc'[w] = "taken" /\ copies'[m] = copies[m] + 1 /\ late'[m] = late[m]
      BY <1>t, <1>5, <2>2 DEF UpstreamAccepts, Goto
    <3>2. Exposed(m)
      BY <1>t, <2>1, <3>1 DEF Exposed, Exposures
    <3> QED  BY <2>1, <3>1, <3>2 DEF MailMoves, Goes, StageAt
  <2>3. CASE Confirmed(w)
    <3>1. pc[w] = "taken" /\ pc'[w] = "finishing" /\ result'[w].status = "submitted" /\ UNCHANGED <<copies, late>>
      BY <1>t, <2>3, EndingsOfAttempts DEF Confirmed, MayEnd, Records, Goto, Outcome, truthVars
    <3> QED  BY <2>1, <3>1 DEF MailMoves, Unmoved, Kept, Exposures, StageAt
  <2>4. CASE \/ \E delay \in ProviderDelays, cooldown \in BOOLEAN : Refused(w, delay, cooldown)
             \/ Rejected(w) \/ ExtraLoginNeeded(w)
    <3>1. pc[w] = "sending" /\ UNCHANGED <<copies, late>>
      BY <1>1, <2>4, EndingsOfAttempts DEF Refused, Rejected, ExtraLoginNeeded, MayEnd, truthVars
    <3>2. pc'[w] = "finishing" /\ result'[w].status \in {"retry", "failed"}
      BY <1>t, <2>4 DEF Refused, Rejected, ExtraLoginNeeded, Records, Goto, Outcome, Retryable
    <3> QED  BY <2>1, <3>1, <3>2 DEF MailMoves, Unmoved, Kept, Exposures, StageAt
  <2>5. CASE LoginNeeded(w)
    <3>1. pc[w] = "sending" /\ pc'[w] = "pausing" /\ UNCHANGED <<copies, late>>
      BY <1>t, <1>1, <2>5, EndingsOfAttempts DEF LoginNeeded, MayEnd, truthVars, Goto
    <3> QED  BY <2>1, <3>1 DEF MailMoves, Unmoved, Kept, Exposures, StageAt
  <2>6. CASE LostAnswer(w) \/ Unexpected(w) \/ CancelInSend(w)
    <3>1. late' = GivenUp(w) /\ copies' = copies
          /\ pc'[w] \in {"finishing", "lastfinish"} /\ result'[w].status = "uncertain"
      BY <1>t, <2>6 DEF LostAnswer, Unexpected, CancelInSend, Records, Goto, Doubtful, Outcome
    <3>2. Stage(m)' = "doubtful"
      BY <2>1, <3>1 DEF StageAt
    <3>3. CASE pc[w] = "sending"
      <4>1. Exposed(m)
        BY <1>t, <1>5, <2>1, <3>1, <3>3 DEF Exposed, Exposures, GivenUp
      <4> QED  BY <2>1, <3>2, <3>3, <4>1 DEF MailMoves, Goes, StageAt
    <3>4. CASE pc[w] = "taken"
      BY <2>1, <3>1, <3>2, <3>4 DEF MailMoves, Goes, StageAt, Kept, Exposures, GivenUp
    <3> QED  BY <1>1, <3>3, <3>4
  <2> QED  BY <2>2, <2>3, <2>4, <2>5, <2>6
<1> QED  BY <1>4, <1>5
(* A result is recorded: the mail is sent, held again or stays in doubt.       *)
LEMMA FinishedMail ==
    ASSUME DeliveryTypeOK, DeliveryTypeOK', PhasesAgree, AttemptsApart, AttemptsApart',
           NEW w \in Workers, pc[w] \in {"finishing", "lastfinish"},
           Goto(w, "top") \/ Goto(w, "done"), Released(w), UNCHANGED <<copies, late>>,
           Finish(job[w], result[w].status, result[w].delay, result[w].cooldown),
           NEW m \in Messages
    PROVE  MailMoves(m)
<1>1. PICK own \in Messages : own = job[w]
  BY DEF AttemptsApart, InFlight
<1>2. PICK status \in Results : status = result[w].status
  BY DEF DeliveryTypeOK
<1>3. /\ InFlight(w) /\ ~InFlight(w)'
      /\ \A v \in Workers \ {w} : pc'[v] = pc[v] /\ job'[v] = job[v] /\ result'[v] = result[v]
  BY DEF Goto, Released, InFlight, DeliveryTypeOK
<1>4. acks' = acks /\ \E delay : messages' = [messages EXCEPT ![own] = Finished(@, status, delay)]
  BY <1>1, <1>2 DEF Finish
<1>5. /\ messages'[own].status = status
      /\ \A n \in Messages : n # own => messages'[n] = messages[n]
  BY <1>4 DEF Finished, DeliveryTypeOK, StoreTypeOK, Rows
<1>6. Kept(m)
  BY <1>4 DEF Kept, Exposures
<1>7. CASE m # own
  BY <1>1, <1>3, <1>5, <1>6, <1>7, OtherMail DEF MailMoves
<1>8. CASE m = own
  <2>1. Stage(m) = StageAt(w)
    BY <1>1, <1>3, <1>8, OwnMail
  <2>2. StageFact(m)'
    BY StageFactsNext DEF StagesAgree
  <2>3. StageAt(w) = IF status = "uncertain" THEN "doubtful"
                     ELSE IF status = "submitted" THEN "taken" ELSE "trying"
    BY <1>2 DEF StageAt
  <2>4. Stage(m)' = IF status = "uncertain" THEN "doubtful"
                    ELSE IF status = "submitted" THEN "sent" ELSE "held"
    BY <1>5, <1>8, <2>2 DEF StageFact, Results
  <2> QED  BY <1>2, <1>6, <2>1, <2>3, <2>4 DEF MailMoves, Unmoved, Goes, Results
<1> QED  BY <1>7, <1>8

(* The queue gives a mail to a worker, or to nobody, or no longer tries it.    *)
LEMMA ClaimedMail ==
    ASSUME DeliveryTypeOK, DeliveryTypeOK', AttemptsApart, AttemptsApart', NEW w \in Workers,
           NEW own \in Messages, Claims(w, own) \/ ClaimFindsOld(w, own) \/ CancelAfterClaim(w, own),
           NEW m \in Messages
    PROVE  MailMoves(m)
<1>1. /\ ~InFlight(w) /\ (ClaimTakes(own) \/ ClaimExpires(own))
      /\ \A v \in Workers \ {w} : pc'[v] = pc[v] /\ job'[v] = job[v] /\ result'[v] = result[v]
      /\ UNCHANGED <<copies, late>>
  <2>1. CASE Claims(w, own)
    BY <2>1 DEF Claims, InFlight, Goto, truthVars, DeliveryTypeOK
  <2>2. CASE ClaimFindsOld(w, own)
    BY <2>2 DEF ClaimFindsOld, InFlight, Goto, truthVars, DeliveryTypeOK
  <2>3. CASE CancelAfterClaim(w, own)
    BY <2>3 DEF CancelAfterClaim, InFlight, Goto, truthVars, DeliveryTypeOK
  <2> QED  BY <2>1, <2>2, <2>3
<1>2. /\ messages[own].status \in {"queued", "retry"} /\ acks' = acks
      /\ \A n \in Messages : n # own => messages'[n] = messages[n]
      /\ ClaimTakes(own) => messages'[own].status = "sending"
      /\ ClaimExpires(own) => messages'[own].status = "failed"
  <2>1. messages[own].status \in {"queued", "retry"} /\ acks' = acks
    BY <1>1 DEF ClaimTakes, Claimable, ClaimExpires, Heads, Ready
  <2>2. messages[own] \in Rows /\ messages \in [Messages -> Rows]
    BY DEF DeliveryTypeOK, StoreTypeOK
  <2>3. CASE ClaimTakes(own)
    <3>1. messages' = [messages EXCEPT ![own] = Attempted(messages[own])]
      BY <2>3 DEF ClaimTakes
    <3>2. Attempted(messages[own]).status = "sending"
      BY <2>2 DEF Attempted, Rows
    <3>3. ~ClaimExpires(own)
      BY <2>3 DEF ClaimTakes, Claimable, ClaimExpires
    <3> QED  BY <2>1, <2>2, <3>1, <3>2, <3>3
  <2>4. CASE ClaimExpires(own)
    <3>1. messages' = [messages EXCEPT ![own].status = "failed", ![own].updated = now]
      BY <2>4 DEF ClaimExpires
    <3>2. ~ClaimTakes(own)
      BY <2>4 DEF ClaimTakes, Claimable, ClaimExpires
    <3> QED  BY <2>1, <2>2, <3>1, <3>2 DEF Rows
  <2> QED  BY <1>1, <2>3, <2>4
<1>3. Kept(m)
  BY <1>1, <1>2 DEF Kept, Exposures
<1>4. ~InFlight(w)
  BY DEF Claims, ClaimFindsOld, CancelAfterClaim, InFlight
<1>5. InFlight(w)' => job'[w] = own /\ pc'[w] = "sending" /\ ClaimTakes(own)
  BY DEF Claims, ClaimFindsOld, CancelAfterClaim, InFlight, Goto, DeliveryTypeOK
<1>6. CASE m # own
  BY <1>1, <1>2, <1>3, <1>4, <1>5, <1>6, OtherMail DEF MailMoves
<1>7. CASE m = own
  <2>1. StageFact(m) /\ StageFact(m)'
    BY StageFacts, StageFactsNext DEF StagesAgree
  <2>2. Stage(m) = "held" /\ \A v \in Workers : ~(InFlight(v) /\ job[v] = m)
    BY <1>2, <1>7, <2>1 DEF StageFact, AttemptsApart, CanFinish
  <2>3. CASE messages'[m].status = "failed"
    BY <1>3, <2>1, <2>2, <2>3 DEF StageFact, MailMoves, Unmoved
  <2>4. CASE messages'[m].status = "sending" /\ InFlight(w)'
    <3>1. Stage(m)' = "trying"
      BY <1>5, <1>7, <2>1, <2>4 DEF StageFact, StageAt
    <3> QED  BY <1>3, <2>2, <3>1 DEF MailMoves, Goes
  <2>5. CASE messages'[m].status = "sending" /\ ~InFlight(w)'
    <3>1. Stage(m)' = "doubtful"
      BY <1>1, <2>1, <2>2, <2>5 DEF StageFact, CanFinish, InFlight
    <3> QED  BY <1>3, <2>2, <3>1 DEF MailMoves, Goes
  <2> QED  BY <1>1, <1>2, <1>7, <2>3, <2>4, <2>5
<1> QED  BY <1>6, <1>7

(* No worker has a part in what happens to a mail's row.                       *)
LEMMA RowMoves ==
    ASSUME DeliveryTypeOK, DeliveryTypeOK', AttemptsApart, AttemptsApart',
           UNCHANGED <<pc, job, result, copies, late>>, NEW m \in Messages,
           \/ \E batch \in Batches : \E S \in SUBSET Messages : InsertBatch(batch, S)
           \/ \E n \in Messages, ack \in BOOLEAN : Retry(n, ack)
           \/ \E n \in Messages : Cancel(n)
           \/ Housekeeping
    PROVE  MailMoves(m)
<1>1. Exposures(m)' = Exposures(m)
  BY DEF Exposures
<1>2. StageFact(m) /\ StageFact(m)'
  BY StageFacts, StageFactsNext DEF StagesAgree
<1>3. ASSUME messages'[m] = messages[m], acks'[m] = acks[m]
      PROVE  MailMoves(m)
  <2>1. Unmoved(m)
    BY <1>1, <1>3, UntouchedMail DEF Kept, InFlight, StageAt
  <2> QED  BY <2>1 DEF MailMoves
<1>4. messages[m] \in Rows /\ acks[m] \in Nat
  BY StoreAssumption DEF DeliveryTypeOK, StoreTypeOK
<1>5. ASSUME NEW batch \in Batches, NEW S \in SUBSET Messages, InsertBatch(batch, S)
      PROVE  MailMoves(m)
  <2>1. S \subseteq In("absent") /\ acks' = acks
    BY <1>5 DEF InsertBatch, Batches
  <2>2. CASE m \in S
    <3>1. messages[m].status = "absent" /\ messages'[m].status = "queued"
      BY <1>5, <2>1, <2>2 DEF InsertBatch, NewRow, In
    <3> QED  BY <1>1, <1>2, <2>1, <3>1 DEF StageFact, MailMoves, Kept, Goes
  <2>3. CASE m \notin S
    BY <1>3, <1>5, <2>1, <2>3 DEF InsertBatch
  <2> QED  BY <2>2, <2>3
<1>6. ASSUME NEW n \in Messages, NEW ack \in BOOLEAN, Retry(n, ack)
      PROVE  MailMoves(m)
  <2>1. CASE m # n
    <3>1. messages'[m] = messages[m] /\ acks'[m] = acks[m]
      BY <1>6, <2>1 DEF Retry, DeliveryTypeOK, StoreTypeOK
    <3> QED  BY <1>3, <3>1
  <2>2. CASE m = n
    <3>1. messages'[m].status = "queued"
      <4>1. messages'[m] = Requeued(messages[m])
        BY <1>6, <2>2 DEF Retry, DeliveryTypeOK, StoreTypeOK
      <4> QED  BY <1>4, <4>1 DEF Requeued, Rows
    <3>2. messages[m].status \in {"queued", "retry", "failed", "uncertain"}
      BY <1>4, <1>6, <2>2 DEF Retry, Changeable, HasRow, Rows, Statuses, NoRow
    <3>3. CASE messages[m].status = "uncertain"
      <4>1. acks'[m] = acks[m] + 1
        BY <1>6, <2>2, <3>3 DEF Retry, NeedsAck, DeliveryTypeOK, StoreTypeOK
      <4> QED  BY <1>1, <1>2, <3>1, <3>3, <4>1 DEF StageFact, MailMoves, Goes
    <3>4. CASE messages[m].status # "uncertain"
      <4>1. acks'[m] = acks[m]
        BY <1>6, <3>4, <2>2 DEF Retry
      <4> QED  BY <1>1, <1>2, <3>1, <3>2, <3>4, <4>1 DEF StageFact, MailMoves, Unmoved, Kept
    <3> QED  BY <3>3, <3>4
  <2> QED  BY <2>1, <2>2
<1>7. ASSUME NEW n \in Messages, Cancel(n)
      PROVE  MailMoves(m)
  <2>1. CASE m # n
    <3>1. messages'[m] = messages[m] /\ acks'[m] = acks[m]
      BY <1>7, <2>1 DEF Cancel, DeliveryTypeOK, StoreTypeOK
    <3> QED  BY <1>3, <3>1
  <2>2. CASE m = n
    <3>1. messages'[m].status = "cancelled" /\ acks'[m] = acks[m]
      <4>1. messages'[m] = Cancelled(messages[m]) /\ acks' = acks
        BY <1>7, <2>2 DEF Cancel, DeliveryTypeOK, StoreTypeOK
      <4> QED  BY <1>4, <4>1 DEF Cancelled, Rows
    <3>2. messages[m].status \in {"queued", "retry", "failed", "uncertain"}
      BY <1>4, <1>7, <2>2 DEF Cancel, Changeable, HasRow, Rows, Statuses, NoRow
    <3> QED  BY <1>1, <1>2, <3>1, <3>2 DEF StageFact, MailMoves, Kept, Goes
  <2> QED  BY <2>1, <2>2
<1>8. CASE Housekeeping
  <2>1. acks' = acks
    BY <1>8 DEF Housekeeping
  <2>2. CASE Purgeable(m)
    <3>1. messages'[m].status = "purged" /\ messages[m].status \in {"submitted", "cancelled"}
      BY <1>8, <2>2 DEF Housekeeping, Purgeable, Blank
    <3> QED  BY <1>1, <1>2, <2>1, <3>1 DEF StageFact, MailMoves, Kept, Goes
  <2>3. CASE ~Purgeable(m)
    BY <1>3, <1>8, <2>1, <2>3 DEF Housekeeping
  <2> QED  BY <2>2, <2>3
<1> QED  BY <1>5, <1>6, <1>7, <1>8

(* The process ends, with attempts in flight or without, or starts again.      *)
LEMMA ProcessMoves ==
    ASSUME DeliveryTypeOK, DeliveryTypeOK', PhasesAgree, AttemptsApart, AttemptsApart', NEW m \in Messages,
           Exit \/ Crash \/ \E mb \in Mailboxes : Start(mb)
    PROVE  MailMoves(m)
<1>t. copies[m] \in Nat /\ late[m] \in Nat /\ messages[m] \in Rows
  BY DEF DeliveryTypeOK, StoreTypeOK
<1>2. StageFact(m) /\ StageFact(m)'
  BY StageFacts, StageFactsNext DEF StagesAgree
<1>3. \A w \in Workers : ~InFlight(w)'
  BY DEF Exit, Crash, Start, Forgotten, InFlight
<1>4. CASE Exit
  <2>1. Kept(m) /\ messages' = messages /\ \A w \in Workers : ~InFlight(w)
    BY <1>4 DEF Exit, Stop, Kept, Exposures, truthVars, InFlight
  <2> QED  BY <1>3, <2>1, UntouchedMail DEF MailMoves
<1>5. ASSUME NEW mb \in Mailboxes, Start(mb)
      PROVE  MailMoves(m)
  <2>1. Kept(m) /\ messages'[m] = Recovered(messages[m]) /\ \A w \in Workers : ~InFlight(w)
    BY <1>5 DEF Start, Open, Kept, Exposures, truthVars, InFlight, PhasesAgree
  <2>2. CASE messages[m].status = "sending"
    <3>1. messages'[m].status = "uncertain"
      BY <1>t, <2>1, <2>2 DEF Recovered, Rows
    <3> QED  BY <1>2, <2>1, <2>2, <3>1 DEF StageFact, CanFinish, MailMoves, Unmoved
  <2>3. CASE messages[m].status # "sending"
    <3>1. messages'[m].status = messages[m].status
      BY <2>1, <2>3 DEF Recovered
    <3> QED  BY <1>3, <2>1, <3>1, UntouchedMail DEF MailMoves
  <2> QED  BY <2>2, <2>3
<1>6. CASE Crash
  <2> DEFINE Wire == {w \in Workers : pc[w] = "sending" /\ job[w] = m}
  <2>1. /\ messages' = messages /\ acks' = acks /\ copies' = copies
        /\ late'[m] = late[m] + Cardinality(Wire)
    BY <1>6 DEF Crash, Stop
  <2>2. ASSUME NEW w \in Workers, InFlight(w), job[w] = m
        PROVE  MailMoves(m)
    <3>1. Stage(m) = StageAt(w) /\ StageAt(w) \in {"trying", "taken", "doubtful"} /\ CanFinish(m)
      BY <2>2, OwnMail
    <3>2. Stage(m)' = "doubtful"
      BY <1>2, <1>3, <2>1, <3>1 DEF StageFact, CanFinish
    <3>3. CASE pc[w] = "sending"
      <4>1. Wire = {w}
        BY <2>2, <3>3 DEF AttemptsApart, InFlight
      <4>2. Cardinality(Wire) = 1
        BY <4>1, FS_Singleton
      <4> HIDE DEF Wire
      <4>3. Exposed(m)
        BY <1>t, <2>1, <4>2 DEF Exposed, Exposures
      <4> QED  BY <3>1, <3>2, <3>3, <4>3 DEF MailMoves, Goes, StageAt
    <3>4. CASE pc[w] # "sending"
      <4>1. Wire = {}
        BY <2>2, <3>4 DEF AttemptsApart, InFlight
      <4>2. Cardinality(Wire) = 0
        BY <4>1, FS_EmptySet
      <4> HIDE DEF Wire
      <4>3. Kept(m)
        BY <1>t, <2>1, <4>2 DEF Kept, Exposures
      <4> QED  BY <3>1, <3>2, <4>3 DEF MailMoves, Goes, Unmoved
    <3> QED  BY <3>3, <3>4
  <2>3. ASSUME \A w \in Workers : ~(InFlight(w) /\ job[w] = m)
        PROVE  MailMoves(m)
    <3>1. Wire = {}
      BY <2>3 DEF InFlight
    <3>2. Cardinality(Wire) = 0
      BY <3>1, FS_EmptySet
    <3> HIDE DEF Wire
    <3>3. Kept(m)
      BY <1>t, <2>1, <3>2 DEF Kept, Exposures
    <3> QED  BY <1>3, <2>1, <2>3, <3>3, UntouchedMail DEF MailMoves
  <2> QED  BY <2>2, <2>3
<1> QED  BY <1>4, <1>5, <1>6

(* Whatever happens, each mail goes on in its lifecycle or stays where it is.  *)
LEMMA EveryMailMoves ==
    ASSUME DeliveryTypeOK, DeliveryTypeOK', PhasesAgree, AttemptsApart, AttemptsApart', DeliveryNext,
           NEW m \in Messages
    PROVE  MailMoves(m)
<1>t. /\ DOMAIN pc = Workers /\ DOMAIN result = Workers /\ DOMAIN job = Workers
      /\ copies \in [Messages -> Nat] /\ late \in [Messages -> Nat]
  BY DEF DeliveryTypeOK
<1>q. ASSUME UNCHANGED <<messages, acks, pc, job, result, copies, late>>
      PROVE  MailMoves(m)
  BY <1>q, UntouchedMail DEF Kept, Exposures, InFlight, StageAt, MailMoves
<1>1. ASSUME NEW w \in Workers, Worker(w) \/ UpstreamAccepts(w) \/ CancelTask(w) \/ ClaimFails(w)
                                \/ FinishFails(w) \/ PauseFails(w)
      PROVE  MailMoves(m)
  <2>1. CASE Starts(w) \/ Ends(w) \/ Permitted(w) \/ ClaimFindsNothing(w) \/ ClaimFails(w)
    <3>1. /\ UNCHANGED <<messages, acks, job, result, copies, late>> /\ ~InFlight(w)
          /\ \E place \in {"permit", "done", "top", "claiming"} : Goto(w, place)
      BY <2>1 DEF Starts, Ends, Permitted, ClaimFindsNothing, ClaimFails, Fault, InFlight, storeVars, truthVars
    <3>2. ~InFlight(w)' /\ \A v \in Workers \ {w} : pc'[v] = pc[v]
      BY <1>t, <3>1 DEF Goto, InFlight
    <3> QED  BY <3>1, <3>2, OtherMail DEF Kept, Exposures, MailMoves
  <2>2. ASSUME NEW own \in Messages, Claims(w, own) \/ ClaimFindsOld(w, own) \/ CancelAfterClaim(w, own)
        PROVE  MailMoves(m)
    BY <2>2, ClaimedMail
  <2>3. CASE \/ UpstreamAccepts(w) \/ Confirmed(w) \/ Rejected(w) \/ LostAnswer(w) \/ Unexpected(w)
             \/ \E delay \in ProviderDelays, cooldown \in BOOLEAN : Refused(w, delay, cooldown)
             \/ ExtraLoginNeeded(w) \/ LoginNeeded(w) \/ CancelInSend(w)
    BY <2>3, AttemptedMail
  <2>4. CASE \/ CancelDropsJob(w) \/ CancelAfterPause(w) \/ FinishFails(w) \/ PauseFails(w)
             \/ LastFinish(w) /\ Fault
    <3>1. /\ Goto(w, "top") \/ Goto(w, "done")
          /\ Released(w) /\ UNCHANGED <<messages, acks, copies, late>>
      BY <2>4 DEF CancelDropsJob, CancelAfterPause, FinishFails, PauseFails, LastFinish, Fault,
                  SetPaused, storeVars, truthVars
    <3> QED  BY <3>1, AbandonedMail
  <2>5. CASE Finishes(w) \/ CancelAfterFinish(w) \/ (LastFinish(w) /\ ~Fault)
    <3>1. /\ pc[w] \in {"finishing", "lastfinish"} /\ Released(w) /\ UNCHANGED <<copies, late>>
          /\ Goto(w, "top") \/ Goto(w, "done")
          /\ Finish(job[w], result[w].status, result[w].delay, result[w].cooldown)
      BY <2>5 DEF Finishes, MayFinish, CancelAfterFinish, LastFinish, truthVars
    <3> QED  BY <3>1, FinishedMail
  <2> QED  BY <1>1, <2>1, <2>2, <2>3, <2>4, <2>5 DEF Worker, CancelTask
<1>2. ASSUME NEW n \in Messages, LateAcceptance(n)
      PROVE  MailMoves(m)
  <2>1. UNCHANGED <<messages, acks, pc, job, result>> /\ Exposures(m)' = Exposures(m)
    BY <1>t, <1>2 DEF LateAcceptance, Exposures, storeVars, workerVars
  <2> QED  BY <2>1, UntouchedMail DEF Kept, InFlight, StageAt, MailMoves
<1>3. CASE \/ \E c \in Workers \cup Admins : PauseCommits(c)
           \/ TimePasses \/ OtherTaskFails \/ BeginStop \/ DrainTimesOut
           \/ \E a \in Admins, b \in BOOLEAN : Asks(a, b)
           \/ \E a \in Admins : PauseFails(a)
  <2>1. UNCHANGED <<messages, acks, pc, job, result, copies, late>>
    BY <1>3, DeliveryAssumption
       DEF PauseCommits, TimePasses, OtherTaskFails, BeginStop, DrainTimesOut, Asks, PauseFails,
           SetPaused, Tick, Fault, storeVars, workerVars, truthVars
  <2> QED  BY <1>q, <2>1
<1>4. CASE PauseResumes
  <2>1. /\ UNCHANGED <<messages, acks, job, copies, late>>
        /\ \/ UNCHANGED <<pc, result>>
           \/ \E w \in Workers : pc[w] = "pausing" /\ Records(w, Outcome("retry", AuthDelay, FALSE))
    BY <1>4 DEF PauseResumes, Listens, storeVars, truthVars
  <2>2. ASSUME NEW w \in Workers, pc[w] = "pausing", Records(w, Outcome("retry", AuthDelay, FALSE))
        PROVE  MailMoves(m)
    <3>1. /\ pc' = [pc EXCEPT ![w] = "finishing"] /\ result'[w].status = "retry"
          /\ \A v \in Workers \ {w} : pc'[v] = pc[v] /\ result'[v] = result[v]
      BY <1>t, <2>2 DEF Records, Goto, Outcome
    <3>2. \A v \in Workers : (InFlight(v) <=> InFlight(v)') /\ StageAt(v)' = StageAt(v)
      BY <1>t, <2>2, <3>1 DEF InFlight, StageAt
    <3> QED  BY <2>1, <3>2, UntouchedMail DEF Kept, Exposures, MailMoves
  <2> QED  BY <1>q, <2>1, <2>2
<1>5. CASE \/ \E n \in Messages, ack \in BOOLEAN : OperatorRetries(n, ack)
           \/ \E n \in Messages : OperatorCancels(n)
           \/ \E batch \in Batches : \E S \in SUBSET Messages : NewMail(batch, S)
           \/ HousekeepingRuns
  <2>1. UNCHANGED <<pc, job, result, copies, late>>
    BY <1>5 DEF OperatorRetries, OperatorCancels, NewMail, HousekeepingRuns, workerVars, truthVars
  <2> QED  BY <1>5, <2>1, RowMoves DEF OperatorRetries, OperatorCancels, NewMail, HousekeepingRuns
<1>6. CASE Exit \/ Crash \/ \E mb \in Mailboxes : Start(mb)
  BY <1>6, ProcessMoves
<1> QED
  BY <1>1, <1>2, <1>3, <1>4, <1>5, <1>6 DEF DeliveryNext, Trouble, Operator
-----------------------------------------------------------------------------
(* The ledger of recipients *)

(* Marking the rows of a mail as counted loses none of them.                   *)
LEMMA MarkedSameNumber ==
    ASSUME StoreTypeOK, LedgerWellFormed, NEW Q \in SUBSET quota
    PROVE  Cardinality({[q EXCEPT !.state = "counted"] : q \in Q}) = Cardinality(Q)
<1> DEFINE T == {[q EXCEPT !.state = "counted"] : q \in Q}
           f == [q \in Q |-> [q EXCEPT !.state = "counted"]]
<1>1. IsFiniteSet(Q)
  BY FS_Subset DEF StoreTypeOK
<1>2. \A p, q \in Q : f[p] = f[q] => p = q
  <2> SUFFICES ASSUME NEW p \in Q, NEW q \in Q, f[p] = f[q]
               PROVE  p = q
    OBVIOUS
  <2>1. f[p].id = p.id /\ f[q].id = q.id
    BY MarkedRow DEF StoreTypeOK
  <2> QED  BY <2>1 DEF LedgerWellFormed
<1>3. f \in Surjection(Q, T)
  BY DEF Surjection
<1>4. f \in Injection(Q, T)
  <2>1. f \in [Q -> T]
    OBVIOUS
  <2> HIDE DEF T, f
  <2> QED  BY <1>2, <2>1 DEF Injection, IsInjective
<1>5. Cardinality(T) = Cardinality(Q)
  <2> HIDE DEF T, f
  <2> QED  BY <1>1, <1>3, <1>4, FS_Surjection
<1> QED  BY <1>5

(* The rows of a mail in the ledger: a claim adds one, a sure refusal takes    *)
(* its one back, nothing else does within the budget's window.                 *)
LEMMA LedgerSteps ==
    ASSUME StoreInv, StoreTypeOK', [StoreNext]_storeVars, now' <= Window, NEW m \in Messages
    PROVE  /\ Cardinality(LedgerRows(m)) \in Nat /\ Cardinality(LedgerRows(m))' \in Nat
           /\ \/ Cardinality(LedgerRows(m))' >= Cardinality(LedgerRows(m))
              \/ /\ CanFinish(m) /\ messages'[m].status \in {"retry", "failed"}
                 /\ Cardinality(LedgerRows(m))' = Cardinality(LedgerRows(m)) - 1
           /\ ~CanFinish(m) /\ CanFinish(m)'
                => Cardinality(LedgerRows(m))' = Cardinality(LedgerRows(m)) + 1
           /\ CanFinish(m) => acks'[m] = acks[m]
<1> DEFINE R == LedgerRows(m)
           n == Cardinality(R)
<1> USE DEF StoreInv
<1>1. IsFiniteSet(R) /\ IsFiniteSet(R') /\ n \in Nat /\ n' \in Nat
  <2>1. IsFiniteSet(LedgerRows(m)) /\ IsFiniteSet(LedgerRows(m)')
    <3>1. LedgerRows(m) \in SUBSET quota /\ LedgerRows(m)' \in SUBSET quota'
      BY DEF LedgerRows
    <3> QED  BY <3>1, FS_Subset DEF StoreTypeOK
  <2> QED  BY <2>1, FS_CardinalityType
<1>2. ASSUME quota' = quota, CanFinish(m)' => CanFinish(m), CanFinish(m) => acks'[m] = acks[m]
      PROVE  n' >= n /\ ~(~CanFinish(m) /\ CanFinish(m)') /\ (CanFinish(m) => acks'[m] = acks[m])
  BY <1>1, <1>2 DEF LedgerRows
<1>3. ASSUME \/ \E batch \in Batches : \E S \in SUBSET Messages : InsertBatch(batch, S)
             \/ \E k \in Messages : ClaimExpires(k)
             \/ \E k \in Messages : Cancel(k)
             \/ \E b \in BOOLEAN : SetPaused(b)
             \/ Stop \/ Fault \/ Tick \/ UNCHANGED storeVars
      PROVE  n' >= n /\ ~(~CanFinish(m) /\ CanFinish(m)') /\ (CanFinish(m) => acks'[m] = acks[m])
  <2>1. quota' = quota /\ acks' = acks
    BY <1>3 DEF InsertBatch, ClaimExpires, Cancel, SetPaused, Stop, Fault, Tick, storeVars
  <2>2. SendingSame({})
    <3>1. CASE UNCHANGED storeVars
      BY <3>1 DEF storeVars, SendingSame, CanFinish
    <3>2. \A b \in BOOLEAN : SetPaused(b) => SetPaused(TRUE) \/ SetPaused(FALSE)
      OBVIOUS
    <3> QED  BY <1>3, <3>1, <3>2, SendingRows
  <2>3. CanFinish(m)' <=> CanFinish(m)
    BY <2>2 DEF SendingSame
  <2> QED  BY <1>2, <2>1, <2>3
<1>4. ASSUME NEW k \in Messages, NEW ack \in BOOLEAN, Retry(k, ack)
      PROVE  n' >= n /\ ~(~CanFinish(m) /\ CanFinish(m)') /\ (CanFinish(m) => acks'[m] = acks[m])
  <2>1. quota' = quota /\ ~CanFinish(k) /\ (k # m => acks'[m] = acks[m])
    BY <1>4 DEF Retry, Changeable, CanFinish, StoreTypeOK
  <2>2. SendingSame({})
    BY <1>4, SendingRows
  <2> QED  BY <1>2, <2>1, <2>2 DEF SendingSame
<1>5. ASSUME Housekeeping
      PROVE  n' >= n /\ ~(~CanFinish(m) /\ CanFinish(m)') /\ (CanFinish(m) => acks'[m] = acks[m])
  <2>1. \A q \in quota : q.at \in Nat /\ now \in Nat /\ Window \in Nat /\ now' = now
    BY <1>5, StoreAssumption DEF StoreTypeOK, QuotaRows, Housekeeping
  <2>2. \A q \in quota : ~Forgettable(q)
    BY <2>1 DEF Forgettable
  <2>3. quota' = quota /\ acks' = acks
    BY <1>5, <2>2 DEF Housekeeping
  <2>4. SendingSame({})
    BY <1>5, SendingRows
  <2>5. CanFinish(m)' <=> CanFinish(m)
    BY <2>4 DEF SendingSame
  <2> QED  BY <1>2, <2>3, <2>5
<1>6. ASSUME NEW mb \in Mailboxes, Open(mb)
      PROVE  n' = n /\ ~CanFinish(m)' /\ acks' = acks
  <2>1. acks' = acks /\ quota' = {[q EXCEPT !.state = "counted"] : q \in quota}
    BY <1>6 DEF Open
  <2>2. \A q \in quota : [q EXCEPT !.state = "counted"].msg = q.msg
    BY MarkedRow DEF StoreTypeOK
  <2>3. LedgerRows(m)' = {[q EXCEPT !.state = "counted"] : q \in LedgerRows(m)}
    BY <2>1, <2>2 DEF LedgerRows
  <2>4. Cardinality(LedgerRows(m)') = Cardinality(LedgerRows(m))
    BY <2>3, MarkedSameNumber DEF LedgerRows
  <2>5. ~CanFinish(m)'
    BY <1>6, SendingRows
  <2> QED  BY <2>1, <2>4, <2>5
<1>7. ASSUME NEW k \in Messages, ClaimTakes(k)
      PROVE  /\ n' = IF k = m THEN n + 1 ELSE n
             /\ k # m => (CanFinish(m)' <=> CanFinish(m))
             /\ k = m => ~CanFinish(m)
             /\ acks' = acks
  <2> DEFINE r == Reservation(k)
  <2>1. acks' = acks /\ quota' = quota \cup {r} /\ r.msg = k /\ r.id = FreshId
    BY <1>7 DEF ClaimTakes, Reservation
  <2>2. r \notin quota
    BY <2>1, FreshIdIsFresh DEF StoreTypeOK
  <2> HIDE DEF r
  <2>3. CASE k = m
    <3>1. LedgerRows(m)' = LedgerRows(m) \cup {r} /\ r \notin LedgerRows(m)
      BY <2>1, <2>2, <2>3 DEF LedgerRows
    <3>2. Cardinality(LedgerRows(m)') = Cardinality(LedgerRows(m)) + 1
      BY <1>1, <3>1, FS_AddElement
    <3>3. ~CanFinish(m)
      BY <1>7, <2>3, SendingRows
    <3> QED  BY <2>1, <2>3, <3>2, <3>3
  <2>4. CASE k # m
    <3>1. LedgerRows(m)' = LedgerRows(m)
      BY <2>1, <2>4 DEF LedgerRows
    <3>2. CanFinish(m)' <=> CanFinish(m)
      BY <1>7, <2>4, SendingRows DEF SendingSame
    <3> QED  BY <2>1, <2>4, <3>1, <3>2
  <2> QED  BY <2>3, <2>4
<1>8. ASSUME NEW k \in Messages, NEW status \in Results, NEW delay \in Delays \cup {0}, NEW gc \in BOOLEAN,
             Finish(k, status, delay, gc)
      PROVE  /\ acks' = acks
             /\ \/ n' = n
                \/ n' = n - 1 /\ CanFinish(m) /\ messages'[m].status \in {"retry", "failed"}
             /\ CanFinish(m)' => CanFinish(m)
  <2>1. acks' = acks /\ quota' = Settled(k, status)
    BY <1>8 DEF Finish
  <2>2. SendingSame({k}) /\ CanFinish(k) /\ ~CanFinish(k)'
    BY <1>8, SendingRows
  <2>3. \A q \in quota : [q EXCEPT !.state = "counted"].msg = q.msg
    BY MarkedRow DEF StoreTypeOK
  <2>4. CASE k # m
    <3>1. LedgerRows(m)' = LedgerRows(m)
      <4>1. /\ \A p \in quota' : \E q \in quota :
                p.msg = q.msg /\ (p = q \/ (p = [q EXCEPT !.state = "counted"] /\ q.msg = k))
            /\ \A q \in quota : q.msg # k => q \in quota'
        BY <2>1, SettledRows
      <4> QED  BY <2>4, <4>1 DEF LedgerRows
    <3>2. CanFinish(m)' <=> CanFinish(m)
      BY <2>2, <2>4 DEF SendingSame
    <3> QED  BY <2>1, <3>1, <3>2
  <2>5. CASE k = m
    <3>1. Cardinality(Reserved(m)) = 1 /\ IsFiniteSet(Reserved(m))
      <4>1. Reserved(m) \in SUBSET quota
        BY DEF Reserved
      <4> QED  BY <2>2, <2>5, <4>1, FS_Subset DEF ReservationMatches, CanFinish, StoreTypeOK
    <3>2. PICK q \in quota : Reserved(m) = {q}
      <4>1. \E q : Reserved(m) = {q}
        BY <3>1, FS_Singleton
      <4> QED  BY <4>1 DEF Reserved
    <3> DEFINE p == [q EXCEPT !.state = "counted"]
    <3>3. q \in LedgerRows(m) /\ p.msg = m /\ p.id = q.id
      BY <3>2, MarkedRow DEF Reserved, LedgerRows, StoreTypeOK
    <3>4. Cardinality(LedgerRows(m) \ {q}) = n - 1 /\ IsFiniteSet(LedgerRows(m) \ {q})
      BY <1>1, <3>3, FS_RemoveElement
    <3>5. CASE Counts(status)
      <4>1. quota' = (quota \ {q}) \cup {p}
        BY <2>1, <2>5, <3>2, <3>5 DEF Settled
      <4>2. p \notin LedgerRows(m) \ {q}
        BY <3>3 DEF LedgerWellFormed, LedgerRows
      <4> HIDE DEF p
      <4>3. LedgerRows(m)' = (LedgerRows(m) \ {q}) \cup {p}
        BY <3>3, <4>1 DEF LedgerRows
      <4>4. Cardinality(LedgerRows(m)') = (n - 1) + 1
        BY <3>4, <4>2, <4>3, FS_AddElement
      <4> QED  BY <1>1, <2>1, <2>2, <2>5, <4>4
    <3>6. CASE ~Counts(status)
      <4>1. quota' = quota \ {q}
        BY <2>1, <2>5, <3>2, <3>6 DEF Settled
      <4>2. LedgerRows(m)' = LedgerRows(m) \ {q}
        BY <4>1 DEF LedgerRows
      <4>3. messages'[m].status = status
        <5>1. messages' = [messages EXCEPT ![m] = Finished(messages[m], status, delay)]
              /\ messages[m] \in Rows
          BY <1>8, <2>5 DEF Finish, StoreTypeOK
        <5> QED  BY <5>1 DEF Finished, StoreTypeOK, Rows
      <4> QED  BY <2>1, <2>2, <2>5, <3>4, <3>6, <4>2, <4>3 DEF Counts, Results
    <3> QED  BY <3>5, <3>6
  <2> QED  BY <2>4, <2>5
<1> HIDE DEF n, R, StoreInv
<1>9. /\ \/ n' >= n
         \/ /\ CanFinish(m) /\ messages'[m].status \in {"retry", "failed"}
            /\ n' = n - 1
      /\ ~CanFinish(m) /\ CanFinish(m)' => n' = n + 1
      /\ CanFinish(m) => acks'[m] = acks[m]
  <2>1. CASE \E k \in Messages : ClaimTakes(k)
    BY <1>1, <1>7, <2>1
  <2>2. CASE \E k \in Messages, status \in Results, delay \in Delays \cup {0}, gc \in BOOLEAN :
                 Finish(k, status, delay, gc)
    BY <1>1, <1>8, <2>2
  <2>3. CASE \E mb \in Mailboxes : Open(mb)
    BY <1>1, <1>6, <2>3
  <2> QED  BY <1>3, <1>4, <1>5, <2>1, <2>2, <2>3 DEF StoreNext
<1> QED  BY <1>1, <1>9 DEF n, R

(* The ledger stays ahead of what upstream has or may have.                    *)
LEMMA LedgerKept ==
    ASSUME DeliveryInv, StoreTypeOK', DeliveryTypeOK', AttemptsApart', DeliveryNext
    PROVE  LedgerAhead'
<1> SUFFICES ASSUME NEW m \in Messages, now' <= Window
             PROVE  Exposures(m)' + (IF Stage(m)' = "trying" THEN 1 ELSE 0)
                        <= Cardinality(LedgerRows(m))'
  BY DEF LedgerAhead, Exposures
<1> DEFINE e == Exposures(m)
           n == Cardinality(LedgerRows(m))
<1>1. MailMoves(m)
  BY EveryMailMoves DEF DeliveryInv
<1>2. [StoreNext]_storeVars
  BY QueueStep DEF DeliveryInv
<1>3. /\ n \in Nat /\ n' \in Nat
      /\ \/ n' >= n
         \/ CanFinish(m) /\ messages'[m].status \in {"retry", "failed"} /\ n' = n - 1
      /\ ~CanFinish(m) /\ CanFinish(m)' => n' = n + 1
      /\ CanFinish(m) => acks'[m] = acks[m]
  BY <1>2, LedgerSteps DEF DeliveryInv
<1>4. e \in Nat /\ e' \in Nat /\ acks[m] \in Nat
  <2>1. \A i, j \in Nat : i + j \in Nat
    OBVIOUS
  <2>2. acks[m] \in Nat
    BY StoreAssumption DEF DeliveryInv, StoreTypeOK, StoreInv
  <2>3. copies[m] \in Nat /\ late[m] \in Nat /\ copies'[m] \in Nat /\ late'[m] \in Nat
    BY DEF DeliveryInv, DeliveryTypeOK
  <2> QED  BY <2>1, <2>2, <2>3 DEF Exposures
<1>5. e + (IF Stage(m) = "trying" THEN 1 ELSE 0) <= n
  <2>1. now <= Window
    <3>1. now' >= now
      BY <1>2, TimeGoesOn DEF DeliveryInv, StoreInv
    <3>2. now \in Nat /\ now' \in Nat /\ Window \in Nat
      BY StoreAssumption DEF DeliveryInv, StoreInv, StoreTypeOK
    <3> QED  BY <3>1, <3>2
  <2> QED  BY <2>1 DEF DeliveryInv, LedgerAhead, Exposures
<1>6. StageFact(m) /\ StageFact(m)'
  BY StageFacts, StageFactsNext DEF StagesAgree, DeliveryInv
<1>7. /\ CanFinish(m) => Stage(m) \in {"trying", "taken", "doubtful"}
      /\ ~CanFinish(m) => Stage(m) \in {"none", "held", "doubtful", "sent", "withdrawn", "gone"}
      /\ Stage(m)' = "trying" => CanFinish(m)'
      /\ messages'[m].status \in {"retry", "failed"} => Stage(m)' = "held"
  <2>1. messages[m].status \in Statuses \cup NoRow /\ messages'[m].status \in Statuses \cup NoRow
    BY DEF DeliveryInv, DeliveryTypeOK, StoreTypeOK, Rows
  <2>2. CanFinish(m) => Stage(m) \in {"trying", "taken", "doubtful"}
    BY <1>6 DEF StageFact, StageAt
  <2> QED  BY <1>6, <2>1, <2>2 DEF StageFact, CanFinish, Statuses, NoRow
<1> HIDE DEF e, n
<1>8. \/ e' = e /\ Stage(m)' = Stage(m) /\ acks'[m] = acks[m]
      \/ e' = e /\ Stage(m)' # "trying" /\ (Stage(m)' = "held" => Stage(m) \in {"none", "trying"} \/ acks'[m] = acks[m] + 1)
      \/ e' = e /\ Stage(m) = "held" /\ Stage(m)' = "trying"
      \/ e' = e + 1 /\ Stage(m) = "trying" /\ Stage(m)' \in {"taken", "doubtful"}
  BY <1>1 DEF MailMoves, Unmoved, Kept, Exposed, Goes, e
<1>9. CASE CanFinish(m) /\ messages'[m].status \in {"retry", "failed"}
  BY <1>3, <1>4, <1>5, <1>7, <1>8, <1>9 DEF e, n
<1>10. CASE n' >= n
  BY <1>3, <1>4, <1>5, <1>7, <1>8, <1>10 DEF e, n
<1> QED  BY <1>3, <1>9, <1>10

-----------------------------------------------------------------------------
(* The lifecycle of a mail *)

MailOf(m) == [stage |-> Stage(m), exposures |-> copies[m] + late[m], acks |-> acks[m]]

Acknowledged(r) == [r EXCEPT !.stage = "held", !.acks = @ + 1]

(* The records MailLifecycle makes of a mail, field by field.                  *)
LEMMA MailRecord ==
    ASSUME NEW from, NEW to, NEW e, NEW k, NEW r,
           r = [stage |-> from, exposures |-> e, acks |-> k]
    PROVE  /\ r.stage = from
           /\ Lifecycle!Moved(r, to) = [stage |-> to, exposures |-> e, acks |-> k]
           /\ Lifecycle!Exposed(r, to) = [stage |-> to, exposures |-> e + 1, acks |-> k]
           /\ Acknowledged(r) = [stage |-> "held", exposures |-> e, acks |-> k + 1]
<1> DEFINE x == Lifecycle!Exposed(r, to)
           h == Acknowledged(r)
<1>1. r.stage = from /\ r.exposures = e /\ r.acks = k /\ DOMAIN r = {"stage", "exposures", "acks"}
  OBVIOUS
<1>2. Lifecycle!Moved(r, to) = [stage |-> to, exposures |-> e, acks |-> k]
  BY DEF Lifecycle!Moved
<1>3. /\ x = [f \in {"stage", "exposures", "acks"} |-> x[f]]
      /\ x.stage = to /\ x.exposures = e + 1 /\ x.acks = k
  BY <1>1 DEF Lifecycle!Exposed
<1>4. /\ h = [f \in {"stage", "exposures", "acks"} |-> h[f]]
      /\ h.stage = "held" /\ h.exposures = e /\ h.acks = k + 1
  BY <1>1 DEF Acknowledged
<1> HIDE DEF x, h
<1>5. x = [stage |-> to, exposures |-> e + 1, acks |-> k]
  BY <1>3
<1>6. h = [stage |-> "held", exposures |-> e, acks |-> k + 1]
  BY <1>4
<1> QED  BY <1>1, <1>2, <1>5, <1>6 DEF x, h

(* What happens to a mail in the service is a step of its lifecycle.           *)
LEMMA MovesAreSteps ==
    ASSUME NEW m, MailMoves(m)
    PROVE  MailOf(m)' = MailOf(m) \/ Lifecycle!Step(MailOf(m), MailOf(m)')
<1> DEFINE r == MailOf(m)
<1>1. /\ r.stage = Stage(m)
      /\ \A to : Lifecycle!Moved(r, to)
                  = [stage |-> to, exposures |-> Exposures(m), acks |-> acks[m]]
      /\ \A to : Lifecycle!Exposed(r, to)
                  = [stage |-> to, exposures |-> Exposures(m) + 1, acks |-> acks[m]]
      /\ Acknowledged(r) = [stage |-> "held", exposures |-> Exposures(m), acks |-> acks[m] + 1]
  <2> DEFINE e == Exposures(m)
  <2>1. r = [stage |-> Stage(m), exposures |-> e, acks |-> acks[m]]
    BY DEF MailOf, Exposures
  <2> HIDE DEF r, e
  <2>2. ASSUME NEW to
        PROVE  /\ r.stage = Stage(m)
               /\ Lifecycle!Moved(r, to) = [stage |-> to, exposures |-> e, acks |-> acks[m]]
               /\ Lifecycle!Exposed(r, to)
                    = [stage |-> to, exposures |-> e + 1, acks |-> acks[m]]
               /\ Acknowledged(r)
                    = [stage |-> "held", exposures |-> e, acks |-> acks[m] + 1]
    BY <2>1, MailRecord
  <2> QED  BY <2>2 DEF e
<1>2. /\ MailOf(m) = [stage |-> Stage(m), exposures |-> Exposures(m), acks |-> acks[m]]
      /\ MailOf(m)' = [stage |-> Stage(m)', exposures |-> Exposures(m)', acks |-> acks'[m]]
  BY DEF MailOf, Exposures
<1> HIDE DEF r
<1>3. CASE Unmoved(m)
  BY <1>2, <1>3 DEF Unmoved, Kept
<1>4. CASE Kept(m) /\ \/ Goes(m, {"none", "trying"}, {"held"})
                      \/ Goes(m, {"held"}, {"trying"})
                      \/ Goes(m, {"held", "trying", "taken"}, {"doubtful"})
                      \/ Goes(m, {"held", "doubtful"}, {"withdrawn"})
                      \/ Goes(m, {"taken"}, {"sent"})
                      \/ Goes(m, {"sent", "withdrawn"}, {"gone"})
  <2>1. MailOf(m)' = Lifecycle!Moved(r, Stage(m)')
    BY <1>1, <1>2, <1>4 DEF Kept
  <2> QED  BY <1>1, <1>4, <2>1 DEF Goes, Lifecycle!Step, r
<1>5. CASE Exposed(m) /\ Goes(m, {"trying"}, {"taken", "doubtful"})
  <2>1. MailOf(m)' = Lifecycle!Exposed(r, Stage(m)')
    BY <1>1, <1>2, <1>5 DEF Exposed
  <2> QED  BY <1>1, <1>5, <2>1 DEF Goes, Lifecycle!Step, r
<1>6. CASE /\ Exposures(m)' = Exposures(m) /\ acks'[m] = acks[m] + 1
           /\ Goes(m, {"doubtful"}, {"held"})
  <2>1. MailOf(m)' = Acknowledged(r)
    BY <1>1, <1>2, <1>6 DEF Goes
  <2> QED  BY <1>1, <1>6, <2>1 DEF Goes, Lifecycle!Step, Acknowledged, r
<1> QED  BY <1>3, <1>4, <1>5, <1>6 DEF MailMoves

-----------------------------------------------------------------------------
(* The invariant *)

(* Before the first start nothing is attempted and nothing is recorded.        *)
LEMMA DeliveryStarts == DeliveryInit => DeliveryInv
<1> SUFFICES ASSUME DeliveryInit
             PROVE  DeliveryInv
  OBVIOUS
<1> USE DEF DeliveryInit
<1>1. StoreInv
  BY InitKeeps
<1>2. NoResult \in [status : Results, delay : Nat, cooldown : BOOLEAN]
  BY DEF NoResult, Outcome, Results
<1>3. DeliveryTypeOK
  BY <1>1, <1>2 DEF DeliveryTypeOK, StoreInv, NewDispatcher
<1>4. PhasesAgree /\ AttemptsApart /\ ResultsFit
  BY DEF PhasesAgree, AttemptsApart, ResultsFit, InFlight, CanFinish, StoreInit, Blank
<1>5. PausesInOrder
  BY DEF PausesInOrder
<1>6. CooldownOnItsWay
  BY DEF CooldownOnItsWay, NewDispatcher, StoreInit
<1>7. LedgerAhead
  <2> SUFFICES ASSUME NEW m \in Messages
               PROVE  copies[m] + late[m] + (IF Stage(m) = "trying" THEN 1 ELSE 0)
                        <= Cardinality(LedgerRows(m))
    BY DEF LedgerAhead
  <2>1. Stage(m) = "none"
    BY DEF Stage, StoreInit, Blank
  <2>2. LedgerRows(m) = {}
    BY DEF LedgerRows, StoreInit
  <2> QED  BY <2>1, <2>2, FS_EmptySet
<1> QED  BY <1>1, <1>3, <1>4, <1>5, <1>6, <1>7 DEF DeliveryInv

(* Every step of the service keeps the invariant.                             *)
LEMMA DeliveryKept == DeliveryInv /\ [DeliveryNext]_deliveryVars => DeliveryInv'
<1>1. ASSUME DeliveryInv, DeliveryNext
      PROVE  DeliveryInv'
  <2> USE <1>1
  <2>1. StoreInv'
    BY QueueStep, StepKeeps DEF DeliveryInv
  <2>2. StoreTypeOK'
    BY <2>1 DEF StoreInv
  <2>3. DeliveryTypeOK'
    BY <2>2, TypesKept DEF DeliveryInv
  <2>4. PhasesAgree' /\ AttemptsApart' /\ ResultsFit' /\ PausesInOrder'
    BY PhasesKept, ApartKept, ResultsKept, PausesKept DEF DeliveryInv
  <2>5. CooldownOnItsWay'
    BY <2>2, CooldownsKept DEF DeliveryInv
  <2>6. LedgerAhead'
    BY <2>2, <2>3, <2>4, LedgerKept
  <2> QED  BY <2>1, <2>3, <2>4, <2>5, <2>6 DEF DeliveryInv
<1>2. ASSUME DeliveryInv, UNCHANGED deliveryVars
      PROVE  DeliveryInv'
  <2>1. UNCHANGED storeVars /\ UNCHANGED workerVars /\ UNCHANGED pauseVars /\ UNCHANGED truthVars
        /\ UNCHANGED phase
    BY <1>2 DEF deliveryVars
  <2>2. StoreInv'
    BY <1>2, <2>1, StepKeeps DEF DeliveryInv
  <2>3. DeliveryTypeOK' /\ PhasesAgree' /\ ResultsFit' /\ PausesInOrder' /\ CooldownOnItsWay'
    <3>1. /\ phase' = phase /\ dispatcher' = dispatcher /\ settings' = settings
          /\ up' = up /\ healthy' = healthy /\ now' = now
          /\ pc' = pc /\ job' = job /\ result' = result /\ calls' = calls /\ resumes' = resumes
          /\ copies' = copies /\ late' = late
      <4>1. up' = up /\ healthy' = healthy /\ now' = now /\ settings' = settings
        BY <2>1 DEF storeVars
      <4>2. /\ pc' = pc /\ job' = job /\ result' = result /\ calls' = calls
            /\ resumes' = resumes /\ copies' = copies /\ late' = late
        BY <2>1 DEF workerVars, pauseVars, truthVars
      <4>3. phase' = phase /\ dispatcher' = dispatcher
        BY <1>2 DEF deliveryVars
      <4> QED  BY <4>1, <4>2, <4>3
    <3>2. DeliveryTypeOK'
      BY <1>2, <2>2, <3>1, Zenon DEF DeliveryInv, DeliveryTypeOK, StoreInv
    <3>3. PhasesAgree'
      BY <1>2, <3>1, Zenon DEF DeliveryInv, PhasesAgree
    <3>4. ResultsFit'
      BY <1>2, <3>1, Zenon DEF DeliveryInv, ResultsFit
    <3>5. PausesInOrder'
      BY <1>2, <3>1, Zenon DEF DeliveryInv, PausesInOrder, Scheduled
    <3>6. CooldownOnItsWay'
      BY <1>2, <3>1, Zenon DEF DeliveryInv, CooldownOnItsWay
    <3> QED  BY <3>2, <3>3, <3>4, <3>5, <3>6
  <2> USE <1>2, <2>1 DEF DeliveryInv, storeVars, workerVars, pauseVars, truthVars
  <2>4. \A m : (CanFinish(m)' <=> CanFinish(m))
    BY DEF CanFinish
  <2>5. AttemptsApart'
    BY <2>4 DEF AttemptsApart, InFlight
  <2>6. LedgerAhead'
    <3>1. now' = now /\ copies' = copies /\ late' = late
      OBVIOUS
    <3>2. ASSUME NEW m
          PROVE  LedgerRows(m)' = LedgerRows(m) /\ Stage(m)' = Stage(m)
      <4>1. LedgerRows(m)' = LedgerRows(m)
        BY DEF LedgerRows
      <4>2. Owners(m)' = Owners(m) /\ \A w : StageAt(w)' = StageAt(w)
        BY DEF Owners, InFlight, StageAt
      <4>3. messages' = messages
        OBVIOUS
      <4> QED  BY <4>1, <4>2, <4>3 DEF Stage
    <3> QED  BY <3>1, <3>2, Zenon DEF LedgerAhead
  <2> QED  BY <2>2, <2>3, <2>5, <2>6
<1> QED  BY <1>1, <1>2

(* The invariant of the dispatcher and its queue (delivery.py with store.py).  *)
THEOREM DeliveryInvariance == DeliverySpec => []DeliveryInv
  BY DeliveryStarts, DeliveryKept, PTL DEF DeliverySpec

(* The dispatcher calls the queue only as the queue is specified for.          *)
THEOREM UsesQueue == DeliverySpec => QueueSpec
<1>1. DeliveryInit => StoreInit
  BY DEF DeliveryInit
<1>2. DeliveryInv /\ [DeliveryNext]_deliveryVars => [StoreNext]_storeVars
  BY QueueStep DEF DeliveryInv, deliveryVars
<1> QED
  BY <1>1, <1>2, DeliveryInvariance, PTL DEF DeliverySpec, QueueSpec, StoreSpec

(* Whatever workers, operators, crashes and shutdowns do, each mail goes only  *)
(* through the stages of MailLifecycle.                                        *)
THEOREM ImplementsLifecycle == DeliverySpec => LifecycleSpec
<1>1. DeliveryInit => Lifecycle!MailInit
  <2> SUFFICES ASSUME DeliveryInit, NEW m \in Messages
               PROVE  Stage(m) = "none" /\ copies[m] + late[m] = 0 /\ acks[m] = 0
    BY DEF Lifecycle!MailInit, Lifecycle!NewMail
  <2> QED  BY DEF DeliveryInit, StoreInit, Stage, Blank
<1>2. DeliveryInv /\ DeliveryInv' /\ [DeliveryNext]_deliveryVars
        => [Lifecycle!MailNext]_([m \in Messages |-> MailOf(m)])
  <2>1. ASSUME DeliveryInv, DeliveryInv', DeliveryNext
        PROVE  Lifecycle!MailNext
    <3>1. \A m \in Messages : MailMoves(m)
      BY <2>1, EveryMailMoves DEF DeliveryInv
    <3> QED  BY <3>1, MovesAreSteps DEF Lifecycle!MailNext, MailOf
  <2>2. ASSUME UNCHANGED deliveryVars
        PROVE  UNCHANGED [m \in Messages |-> MailOf(m)]
    BY <2>2 DEF deliveryVars, storeVars, workerVars, pauseVars, truthVars, MailOf, Stage, StageAt, Owners, InFlight
  <2> QED  BY <2>1, <2>2
<1> QED
  BY <1>1, <1>2, DeliveryInvariance, PTL DEF DeliverySpec, LifecycleSpec, Lifecycle!MailSpec, MailOf

-----------------------------------------------------------------------------
(* What follows *)

(* One step of one mail keeps its record well formed and its promises         *)
(* (README.md:203-216).                                                        *)
LEMMA StepKeepsPromises ==
    ASSUME NEW r \in Lifecycle!MailRecords, NEW s, Lifecycle!Promises(r), Lifecycle!Step(r, s)
    PROVE  s \in Lifecycle!MailRecords /\ Lifecycle!Promises(s)
<1> DEFINE e == r.exposures
           k == r.acks
<1>1. r = [stage |-> r.stage, exposures |-> e, acks |-> k]
      /\ r.stage \in Lifecycle!Stages /\ e \in Nat /\ k \in Nat
  BY DEF Lifecycle!MailRecords
<1>2. ASSUME NEW to
      PROVE  /\ Lifecycle!Moved(r, to) = [stage |-> to, exposures |-> e, acks |-> k]
             /\ Lifecycle!Exposed(r, to) = [stage |-> to, exposures |-> e + 1, acks |-> k]
             /\ Acknowledged(r) = [stage |-> "held", exposures |-> e, acks |-> k + 1]
  <2> HIDE DEF e, k
  <2> QED  BY <1>1, MailRecord
<1> USE <1>1, <1>2 DEF Lifecycle!Promises, Lifecycle!MailRecords, Lifecycle!Stages
<1>3. CASE r.stage \in {"none", "trying"} /\ s = Lifecycle!Moved(r, "held")
  BY <1>3
<1>4. CASE r.stage = "held" /\ s = Lifecycle!Moved(r, "trying")
  BY <1>4
<1>5. CASE \E to \in {"doubtful", "withdrawn", "gone"} : s = Lifecycle!Moved(r, to)
  BY <1>5
<1>6. CASE r.stage = "trying" /\ \E to \in {"taken", "doubtful"} : s = Lifecycle!Exposed(r, to)
  BY <1>6
<1>7. CASE r.stage = "taken" /\ s = Lifecycle!Moved(r, "sent")
  BY <1>7
<1>8. CASE r.stage = "doubtful" /\ s = Acknowledged(r)
  BY <1>8
<1> QED
  BY <1>3, <1>4, <1>5, <1>6, <1>7, <1>8 DEF Lifecycle!Step, Acknowledged

(* The lifecycle of store.py's states keeps the promises of every mail.        *)
THEOREM MailInvariance == LifecycleSpec => []Lifecycle!MailInv
<1> DEFINE Mail == [m \in Messages |-> MailOf(m)]
<1>2. Lifecycle!MailInv <=>
        \A m \in Messages : MailOf(m) \in Lifecycle!MailRecords /\ Lifecycle!Promises(MailOf(m))
  BY DEF Lifecycle!MailInv, Lifecycle!MailTypeOK, MailOf
<1>3. Lifecycle!MailInv' <=>
        \A m \in Messages : MailOf(m)' \in Lifecycle!MailRecords /\ Lifecycle!Promises(MailOf(m)')
  BY DEF Lifecycle!MailInv, Lifecycle!MailTypeOK, MailOf, Lifecycle!Promises
<1>1. Lifecycle!MailInit => Lifecycle!MailInv
  <2> SUFFICES ASSUME Lifecycle!MailInit, NEW m \in Messages
               PROVE  MailOf(m) \in Lifecycle!MailRecords /\ Lifecycle!Promises(MailOf(m))
    BY <1>2
  <2>1. MailOf(m) = Lifecycle!NewMail
    BY DEF Lifecycle!MailInit, MailOf
  <2> QED
    BY <2>1 DEF Lifecycle!NewMail, Lifecycle!Promises, Lifecycle!MailRecords, Lifecycle!Stages
<1>4. Lifecycle!MailInv /\ [Lifecycle!MailNext]_Mail => Lifecycle!MailInv'
  <2> SUFFICES ASSUME Lifecycle!MailInv, [Lifecycle!MailNext]_Mail, NEW m \in Messages
               PROVE  MailOf(m)' \in Lifecycle!MailRecords /\ Lifecycle!Promises(MailOf(m)')
    BY <1>3
  <2>1. MailOf(m)' = MailOf(m) \/ Lifecycle!Step(MailOf(m), MailOf(m)')
    BY DEF Lifecycle!MailNext, MailOf
  <2> QED  BY <1>2, <2>1, StepKeepsPromises
<1> QED
  BY <1>1, <1>4, PTL DEF LifecycleSpec, Lifecycle!MailSpec, MailOf

(* README.md:203-216 of every mail: no copy beyond one and the acknowledged     *)
(* ones, nothing owed by a mail that waits, nothing "submitted" that was not.   *)
THEOREM LifecyclePromises ==
    LifecycleSpec => [](/\ Lifecycle!OncePerAcknowledgement
                        /\ Lifecycle!HeldIsUnexposed
                        /\ Lifecycle!SentIsExposed)
<1>1. Lifecycle!MailInv => /\ Lifecycle!OncePerAcknowledgement
                          /\ Lifecycle!HeldIsUnexposed
                          /\ Lifecycle!SentIsExposed
  BY DEF Lifecycle!MailInv, Lifecycle!Promises, Lifecycle!OncePerAcknowledgement,
         Lifecycle!HeldIsUnexposed, Lifecycle!SentIsExposed
<1> QED  BY <1>1, MailInvariance, PTL

(* What a mail was promised holds in the service, which implements MailLifecycle. *)
THEOREM PromisesKept == DeliverySpec => []Lifecycle!MailInv
  BY ImplementsLifecycle, MailInvariance, PTL

(* README.md:211-216: upstream gets a mail once, plus once for every time an   *)
(* operator accepted the risk of a duplicate.                                  *)
THEOREM NoDuplicate == DeliverySpec => []NoUnacknowledgedDuplicate
<1>1. Lifecycle!MailInv => NoUnacknowledgedDuplicate
  BY DEF Lifecycle!MailInv, Lifecycle!Promises, NoUnacknowledgedDuplicate
<1> QED
  BY <1>1, PromisesKept, PTL

(* Mail that may be sent again was refused or answered for every time so far   *)
(* (store.py:372-377).                                                         *)
THEOREM RetryIsSafe == DeliverySpec => []SafeToRetry
<1>1. Lifecycle!MailInv => SafeToRetry
  BY DEF Lifecycle!MailInv, Lifecycle!Promises, SafeToRetry, Stage
<1> QED
  BY <1>1, PromisesKept, PTL

(* A worker in an attempt owns its mail and finds it "sending".                *)
THEOREM AttemptsExclusive == DeliverySpec => []AttemptIsExclusive
<1>1. DeliveryInv => AttemptIsExclusive
  BY DEF DeliveryInv, AttemptsApart, AttemptIsExclusive, Owners, CanFinish, InFlight
<1> QED  BY <1>1, DeliveryInvariance, PTL

(* Every acceptance is in the recipient ledger within the budget's window.     *)
THEOREM LedgerIsComplete == DeliverySpec => []LedgerCovers
<1>1. DeliveryInv => LedgerCovers
  <2> SUFFICES ASSUME DeliveryInv, NEW m \in Messages, now <= Window
               PROVE  copies[m] <= Cardinality({q \in quota : q.msg = m})
    BY DEF LedgerCovers
  <2> DEFINE n == Cardinality(LedgerRows(m))
             t == IF Stage(m) = "trying" THEN 1 ELSE 0
  <2>1. copies[m] \in Nat /\ late[m] \in Nat
    BY DEF DeliveryInv, DeliveryTypeOK
  <2>2. n \in Nat
    <3>1. IsFiniteSet(LedgerRows(m))
      <4>1. LedgerRows(m) \in SUBSET quota
        BY DEF LedgerRows
      <4> QED  BY <4>1, FS_Subset DEF DeliveryInv, StoreInv, StoreTypeOK
    <3> QED  BY <3>1, FS_CardinalityType
  <2>3. copies[m] + late[m] + t <= n
    BY DEF DeliveryInv, LedgerAhead
  <2>4. t \in Nat
    OBVIOUS
  <2> HIDE DEF n, t
  <2>5. copies[m] <= n
    BY <2>1, <2>2, <2>3, <2>4
  <2> QED  BY <2>5 DEF n, LedgerRows
<1> QED  BY <1>1, DeliveryInvariance, PTL

(* A cooldown the workers obey is in the database or about to be.              *)
THEOREM CooldownReachesDisk == DeliverySpec => []CooldownPersists
<1>1. DeliveryInv => CooldownPersists
  BY Zenon DEF DeliveryInv, CooldownOnItsWay, CooldownPersists
<1> QED  BY <1>1, DeliveryInvariance, PTL

(* Once the calls for a pause have returned, memory and database agree.        *)
THEOREM PauseIsPersisted == DeliverySpec => []PauseAgrees
<1>1. DeliveryInv => PauseAgrees
  BY DEF DeliveryInv, PausesInOrder, PauseAgrees
<1> QED  BY <1>1, DeliveryInvariance, PTL

(* What StoreProofs shows of the queue holds while the dispatcher uses it: the *)
(* budget, the capacity, no lost mail, and a cooldown that is never shortened. *)
THEOREM QueueHolds == DeliverySpec => []StoreInv /\ CooldownNeverShortened
  BY UsesQueue, StoreInvariance, CooldownKept, PTL DEF QueueSpec
=============================================================================
