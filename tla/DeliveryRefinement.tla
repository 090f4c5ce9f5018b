-------------------------- MODULE DeliveryRefinement --------------------------
(* Delivery implements MailLifecycle: what workers, queue, operators, crashes *)
(* and shutdowns do together to one mail is what MailLifecycle promises.      *)
EXTENDS Delivery

(* The stage of a mail whose row is "sending", seen by the worker that has it: *)
(* a result on its way to the database already decides it.                     *)
StageAt(w) ==
    CASE pc[w] \in {"sending", "pausing"} -> "trying"
      [] pc[w] = "taken"                  -> "taken"
      [] OTHER -> IF result[w].status = "uncertain" THEN "doubtful"
                  ELSE IF result[w].status = "submitted" THEN "taken" ELSE "trying"

Stage(m) ==
    LET s == messages[m].status
    IN  CASE s = "absent"                         -> "none"
          [] s \in {"queued", "retry", "failed"}  -> "held"
          [] s = "sending"  -> IF Owners(m) = {} THEN "doubtful"
                               ELSE StageAt(CHOOSE w \in Owners(m) : TRUE)
          [] s = "uncertain"                      -> "doubtful"
          [] s = "submitted"                      -> "sent"
          [] s = "cancelled"                      -> "withdrawn"
          [] s = "purged"                         -> "gone"

Lifecycle ==
    INSTANCE MailLifecycle
        WITH Mails <- Messages,
             mail <- [m \in Messages |->
                        [stage |-> Stage(m), exposures |-> copies[m] + late[m],
                         acks |-> acks[m]]]

(* Every step of the service is a step of each mail's lifecycle, or none: the *)
(* states of README.md:203-216 move only as that table says.                  *)
LifecycleSpec == Lifecycle!MailSpec

(* The dispatcher uses the queue as Store.tla says, and nothing else: its calls *)
(* are the operations of the store with arguments the store is specified for.   *)
QueueSpec == StoreSpec

-----------------------------------------------------------------------------
(* The inductive invariant behind the properties of Delivery and these two    *)
(* refinements (DeliveryProofs.tla).                                          *)

(* The process has the file open while it runs; a task that was cancelled in  *)
(* the middle of a request has only its shielded finish left.                 *)
PhasesAgree ==
    /\ up <=> phase # "down"
    /\ \A w \in Workers :
        /\ phase = "down" => pc[w] = "off"
        /\ pc[w] = "lastfinish" => phase = "cancelling" /\ result[w] = Doubtful

(* Two workers never attempt the same mail, and the mail of an attempt stays   *)
(* "sending", counted as attempted, until the worker is done with it.          *)
AttemptsApart ==
    /\ \A w \in Workers : InFlight(w) => job[w] \in Messages /\ CanFinish(job[w])
    /\ \A v, w \in Workers : InFlight(v) /\ InFlight(w) /\ job[v] = job[w] => v = w
    /\ \A m \in Messages : CanFinish(m) => messages[m].attempts >= 1

(* What a worker is about to record is something the queue is specified for.   *)
ResultsFit ==
    \A w \in Workers : pc[w] \in {"finishing", "lastfinish"} =>
        /\ FinishArguments(result[w].status, result[w].delay, result[w].cooldown)
        /\ result[w].delay \in Delays \cup {0}

(* A worker asks for a pause only, from its attempt, and waits for the one     *)
(* answer, unless it was cancelled; answers come in the order of the commits,  *)
(* and the last commit is in force.                                            *)
PausesInOrder ==
    /\ phase = "down" => resumes = <<>>
    /\ \A w \in Workers : calls[w] # "none" => pc[w] = "pausing" /\ calls[w] = "pause"
    /\ \A i \in DOMAIN resumes :
          resumes[i].caller \in Workers =>
              /\ Scheduled => pc[resumes[i].caller] = "pausing"
              /\ pc[resumes[i].caller] = "pausing" =>
                    /\ calls[resumes[i].caller] = "none"
                    /\ \A j \in DOMAIN resumes : resumes[i].caller = resumes[j].caller => i = j
    /\ phase = "running" =>
          settings.paused = IF resumes = <<>> THEN dispatcher.paused
                            ELSE resumes[Len(resumes)].paused

(* A cooldown in memory only is the one some result is about to record.        *)
CooldownOnItsWay ==
    \/ settings.cooldown_until >= dispatcher.cooldown_until
    \/ ~healthy \/ phase = "cancelling"
    \/ \E w \in Workers : /\ pc[w] = "finishing" /\ result[w].cooldown
                          /\ now + result[w].delay >= dispatcher.cooldown_until

LedgerRows(m) == {q \in quota : q.msg = m}

(* Every acceptance that happened or may yet happen has a row of its own in    *)
(* the ledger, and so has an attempt that can still be accepted or refused.    *)
LedgerAhead ==
    \A m \in Messages : now <= Window =>
        copies[m] + late[m] + (IF Stage(m) = "trying" THEN 1 ELSE 0)
            <= Cardinality(LedgerRows(m))

DeliveryInv ==
    /\ StoreInv /\ DeliveryTypeOK
    /\ PhasesAgree /\ AttemptsApart /\ ResultsFit /\ PausesInOrder
    /\ CooldownOnItsWay /\ LedgerAhead
=============================================================================
