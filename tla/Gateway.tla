------------------------------- MODULE Gateway -------------------------------
(* The gateway as serve() puts it together (service.py:21-67): the intake and *)
(* the dispatcher on one queue.  A step is one of either alone, which leaves  *)
(* the other as it is, or one of both: a commit is new mail for the workers,  *)
(* a start, an exit and a crash are the process's.                            *)
(*                                                                            *)
(* What Intake and Delivery each assume of the other users of the queue is    *)
(* replaced here by those users.  The parts stop in their order: the listener *)
(* has no session left before the dispatcher drains, and the dispatcher has   *)
(* drained before the store is closed.                                        *)
EXTENDS DeliveryRefinement, Intake

frontVars   == <<life, accepting, pending, writerVars, client, future>>
backVars    == <<phase, workerVars, dispatcher, pauseVars, truthVars>>
gatewayVars == <<storeVars, frontVars, backVars>>

(* smtp.close() has ended its sessions: none waits for an answer. *)
ListenerClosed == \A m \in Messages : client[m] # "waiting"

(* dispatcher.close() has returned. *)
Drained == Stopping /\ \A w \in Workers : pc[w] = "done"

(* Workers, operators, housekeeping, upstream and the clock. *)
DispatcherMoves ==
    /\ \/ \E w \in Workers :
            Worker(w) \/ UpstreamAccepts(w) \/ CancelTask(w) \/ ClaimFails(w) \/ FinishFails(w)
       \/ \E m \in Messages : LateAcceptance(m)
       \/ \E c \in Workers \cup Admins : PauseCommits(c) \/ PauseFails(c)
       \/ PauseResumes \/ Operator \/ HousekeepingRuns \/ OtherTaskFails
       \/ BeginStop /\ ListenerClosed
       \/ DrainTimesOut \/ TimePasses
    /\ UNCHANGED frontVars

(* Sessions, the writer between its commits, and Store.close(). *)
IntakeMoves ==
    /\ \/ \E m \in Messages :
            \/ phase = "running" /\ (Submit(m) \/ SubmitRefused(m))
            \/ Answered(m) \/ Disconnected(m)
       \/ Gets \/ Gathers \/ CommitRefused
       \/ Drained /\ Close
       \/ PutsSentinel
    /\ UNCHANGED backVars

(* The writer's jobs: mail for the workers, or a fault that halts them. *)
WriterCommits ==
    \/ \E S \in SUBSET Messages : Commits(S) /\ NewMail(batch, S)
    \/ CommitFails /\ OtherTaskFails

ProcessStarts == \E mb \in Mailboxes : Opens(mb) /\ Start(mb)
ProcessExits  == Closed /\ Exit
ProcessDies   == Dies /\ Crash

GatewayInit == DeliveryInit /\ IntakeInit

GatewayNext ==
    \/ DispatcherMoves \/ IntakeMoves \/ WriterCommits
    \/ ProcessStarts \/ ProcessExits \/ ProcessDies

GatewaySpec == GatewayInit /\ [][GatewayNext]_gatewayVars

-----------------------------------------------------------------------------
(* Properties *)

(* What the SMTP client was told is what becomes of its mail, through commits, *)
(* attempts, shutdowns and crashes: a mail answered 451, which its client      *)
(* sends again, has not reached upstream and never will (smtp.py:256-263); one *)
(* answered 250 is in the queue or beyond; and upstream has seen no mail that   *)
(* still waits for its commit or was refused by it (store.py:150-162).         *)
AnswersHold ==
    \A m \in Messages :
        /\ client[m] \in {"idle", "deferred"} => copies[m] + late[m] = 0
        /\ future[m] \in {"pending", "refused"} => copies[m] + late[m] = 0
        /\ client[m] = "acked" => Stage(m) # "none"

(* The inductive invariant of the whole (IntakeProofs.tla).                    *)
GatewayInv == DeliveryInv /\ IntakeInv
=============================================================================
