------------------------------- MODULE Intake -------------------------------
(* From an SMTP transaction to a durable row: Store.submit, the group-commit *)
(* writer, Store.close (store.py:121-162, 334-341) and the SMTP connection   *)
(* that waits for its answer (smtp.py:256-263), on top of Store.tla.         *)
(*                                                                           *)
(* A message stands for one transaction: a client that sends a mail again is *)
(* another message, with another UUID.  close() may be called at any moment  *)
(* here, also while transactions are still submitting.                       *)
EXTENDS Store

CONSTANTS
    PendingSubmissions,   \* queue.pending_submissions, the size of the asyncio queue
    Sentinel,             \* the None that close() puts into it
    Mishaps              \* bound: the kinds of trouble this instance may meet

ASSUME IntakeAssumption ==
    /\ PendingSubmissions \in Nat \ {0} /\ BatchSize > 0
    /\ Sentinel \notin Messages
    /\ Mishaps \subseteq {"crash", "fault", "disk", "disconnect"}

VARIABLES
    life,       \* "down", "running", "closing" (close() was called)
    accepting,  \* Store.accepting
    pending,    \* Store.pending
    writer,     \* where _writer awaits: "off", "get", "gather", "commit", "ended"
    batch,      \* its batch
    stopping,   \* its local flag
    client,     \* per transaction: "idle", "waiting", "acked", "deferred", "lost"
    future      \* Submission.future: "none", "pending", "stored", "refused"

writerVars == <<writer, batch, stopping>>
intakeVars == <<storeVars, life, accepting, pending, writerVars, client, future>>

Least(a, b) == IF a < b THEN a ELSE b

-----------------------------------------------------------------------------
(* Store.submit *)

Open451 == ~accepting \/ ~healthy                       \* store.py:122
Full    == Len(pending) >= PendingSubmissions           \* QueueFull

Submit(m) ==
    /\ life # "down" /\ client[m] = "idle"
    /\ ~Open451 /\ ~Full
    /\ pending' = Append(pending, m)
    /\ client' = [client EXCEPT ![m] = "waiting"] /\ future' = [future EXCEPT ![m] = "pending"]
    /\ UNCHANGED <<storeVars, life, accepting, writerVars>>

(* QueueUnavailable at once: 451. *)
SubmitRefused(m) ==
    /\ life # "down" /\ client[m] = "idle"
    /\ Open451 \/ Full
    /\ client' = [client EXCEPT ![m] = "deferred"]
    /\ UNCHANGED <<storeVars, life, accepting, pending, writerVars, future>>

(* Mutants: every submission is acknowledged; a wait that is given up gets 451. *)
ReplyAlways(outcome) == "acked"
KnownOrPending(outcome) == outcome \in {"pending", "stored", "refused"}

Known(outcome) == outcome \in {"stored", "refused"}

(* The answer: 250 when the future has a result, 451 when it has an exception. *)
Reply(outcome) == IF outcome = "stored" THEN "acked" ELSE "deferred"

Answered(m) ==
    /\ client[m] = "waiting" /\ Known(future[m])
    /\ client' = [client EXCEPT ![m] = Reply(future[m])]
    /\ UNCHANGED <<storeVars, life, accepting, pending, writerVars, future>>

(* The session is cancelled while submit() waits (smtp.py:276-277), or its     *)
(* client is gone when the answer comes; shield() keeps the future alive.      *)
Disconnected(m) ==
    /\ "disconnect" \in Mishaps /\ client[m] = "waiting"
    /\ client' = [client EXCEPT ![m] = "lost"]
    /\ UNCHANGED <<storeVars, life, accepting, pending, writerVars, future>>

-----------------------------------------------------------------------------
(* _writer *)

Gets ==
    /\ writer = "get" /\ pending # <<>>
    /\ pending' = Tail(pending)
    /\ IF Head(pending) = Sentinel
       THEN writer' = "ended" /\ UNCHANGED batch
       ELSE writer' = "gather" /\ batch' = <<Head(pending)>>
    /\ UNCHANGED <<storeVars, life, accepting, stopping, client, future>>

(* After the pause of batch_seconds: what get_nowait still yields, up to the   *)
(* batch size, an empty queue or the sentinel, which is consumed too.          *)
Room     == Least(BatchSize - 1, Len(pending))
Gathered == CHOOSE k \in 0..Room :
                /\ \A i \in 1..k : pending[i] # Sentinel
                /\ k = Room \/ pending[k + 1] = Sentinel
SeesSentinel == Gathered < Room
(* Mutant: items are read, not taken off. *)
ConsumedNone == 0

Consumed     == IF SeesSentinel THEN Gathered + 1 ELSE Gathered

Gathers ==
    /\ writer = "gather"
    /\ batch' = batch \o SubSeq(pending, 1, Gathered)
    /\ pending' = SubSeq(pending, Consumed + 1, Len(pending))
    /\ stopping' = SeesSentinel
    /\ writer' = "commit"
    /\ UNCHANGED <<storeVars, life, accepting, client, future>>

(* Mutants: the writer stops at trouble; it forgets that it has seen the sentinel. *)
AfterBatchGivesUp == IF stopping \/ ~healthy THEN "ended" ELSE "get"
AfterBatchForgets == "get"

AfterBatch == IF stopping THEN "ended" ELSE "get"

(* Every submission of the batch learns its own result. *)
Resolve(S) ==
    /\ future' = [m \in Messages |->
                    IF m \notin {batch[i] : i \in DOMAIN batch} THEN future[m]
                    ELSE IF m \in S THEN "stored" ELSE "refused"]
    /\ writer' = AfterBatch
    /\ batch' = <<>>
    /\ UNCHANGED <<life, accepting, pending, stopping, client>>

Commits(S) == writer = "commit" /\ InsertBatch(batch, S) /\ Resolve(S)

(* _insert_batch refuses the whole batch: unhealthy when the job runs, or not  *)
(* enough free disk space (store.py:165-168).                                  *)
CommitRefused ==
    /\ writer = "commit" /\ (~healthy \/ "disk" \in Mishaps)
    /\ Resolve({}) /\ UNCHANGED storeVars

(* The transaction fails and is rolled back: the writer halts the queue and    *)
(* goes on answering (store.py:158-162).                                       *)
CommitFails ==
    /\ "fault" \in Mishaps /\ writer = "commit" /\ Fault /\ Resolve({})

-----------------------------------------------------------------------------
(* The other users of the queue, as far as they matter here: delivery frees    *)
(* capacity, and any task may find a fault.                                    *)

Delivered(m) ==
    /\ ClaimTakes(m) \/ Finish(m, "submitted", 0, FALSE)
    /\ UNCHANGED <<life, accepting, pending, writerVars, client, future>>

OtherFault ==
    /\ "fault" \in Mishaps /\ Fault
    /\ UNCHANGED <<life, accepting, pending, writerVars, client, future>>

-----------------------------------------------------------------------------
(* Store.start, Store.close, crash *)

Opens(mb) ==
    /\ life = "down" /\ Open(mb)
    /\ life' = "running" /\ accepting' = TRUE /\ writer' = "get"
    /\ UNCHANGED <<pending, batch, stopping, client, future>>

Close ==
    /\ life = "running" /\ life' = "closing" /\ accepting' = FALSE
    /\ UNCHANGED <<storeVars, pending, writerVars, client, future>>

SentinelPut == Sentinel \in {pending[i] : i \in DOMAIN pending} \/ stopping \/ writer = "ended"

(* await self.pending.put(None) waits for a free place. *)
PutsSentinel ==
    /\ life = "closing" /\ ~SentinelPut /\ ~Full
    /\ pending' = Append(pending, Sentinel)
    /\ UNCHANGED <<storeVars, life, accepting, writerVars, client, future>>

Gone ==
    /\ life' = "down" /\ accepting' = FALSE
    /\ pending' = <<>> /\ writer' = "off" /\ batch' = <<>> /\ stopping' = FALSE
    /\ future' = [m \in Messages |-> "none"]

(* await self.writer returned, the database is closed, the process ends; the   *)
(* connections were resumed with their results before the database was closed. *)
Closed ==
    /\ life = "closing" /\ writer = "ended" /\ \A m \in Messages : client[m] # "waiting"
    /\ Stop /\ Gone /\ UNCHANGED client

Dies ==
    /\ "crash" \in Mishaps /\ life # "down" /\ Stop /\ Gone
    /\ client' = [m \in Messages |-> IF client[m] = "waiting" THEN "lost" ELSE client[m]]

-----------------------------------------------------------------------------
IntakeInit ==
    /\ StoreInit
    /\ life = "down" /\ accepting = FALSE
    /\ pending = <<>> /\ writer = "off" /\ batch = <<>> /\ stopping = FALSE
    /\ client = [m \in Messages |-> "idle"] /\ future = [m \in Messages |-> "none"]

Writer ==
    \/ Gets \/ Gathers
    \/ \E S \in SUBSET Messages : Commits(S)
    \/ CommitRefused \/ CommitFails

IntakeNext ==
    \/ \E m \in Messages : Submit(m) \/ SubmitRefused(m) \/ Answered(m) \/ Disconnected(m)
    \/ Writer
    \/ \E m \in Messages : Delivered(m)
    \/ OtherFault
    \/ \E mb \in Mailboxes : Opens(mb)
    \/ Close \/ PutsSentinel \/ Closed \/ Dies

IntakeSpec == IntakeInit /\ [][IntakeNext]_intakeVars

(* The event loop runs ready tasks and the executor runs jobs; nothing makes   *)
(* clients send, delivery progress or the process stop.                        *)
FairIntakeSpec ==
    /\ IntakeSpec
    /\ WF_intakeVars(Writer) /\ WF_intakeVars(PutsSentinel) /\ WF_intakeVars(Closed)
    /\ \A m \in Messages : WF_intakeVars(Answered(m))

-----------------------------------------------------------------------------
(* Properties *)

IntakeTypeOK ==
    /\ StoreTypeOK
    /\ life \in {"down", "running", "closing"} /\ accepting \in BOOLEAN
    /\ pending \in Seq(Messages \cup {Sentinel}) /\ Len(pending) <= PendingSubmissions
    /\ writer \in {"off", "get", "gather", "commit", "ended"}
    /\ batch \in Seq(Messages) /\ Len(batch) <= BatchSize /\ stopping \in BOOLEAN
    /\ client \in [Messages -> {"idle", "waiting", "acked", "deferred", "lost"}]
    /\ future \in [Messages -> {"none", "pending", "stored", "refused"}]

(* "SMTP 250 only after commit" (store.py:35): what a client was told is       *)
(* queued is in the database, whatever crashes or faults happen afterwards.    *)
AckImpliesDurable ==
    \A m \in Messages : client[m] = "acked" => messages[m].status # "absent"

(* A client told 451 sends the mail again: it must never have been stored,     *)
(* nor be stored later.                                                        *)
DeferredIsNotStored ==
    \A m \in Messages : client[m] = "deferred" => messages[m].status = "absent"

(* The writer runs while the process does, and holds a batch between two gets. *)
LifeAgrees ==
    /\ up <=> life # "down"
    /\ writer = "off" <=> life = "down"
    /\ life = "down" => pending = <<>> /\ \A m \in Messages : client[m] # "waiting"
    /\ batch # <<>> <=> writer \in {"gather", "commit"}
    /\ writer = "gather" => Len(batch) = 1

(* An unanswered submission is in exactly one place: the queue or the batch.   *)
(* None is dropped, none is committed twice.                                   *)
PlacedOnce ==
    /\ \A i, j \in DOMAIN pending : pending[i] = pending[j] => i = j
    /\ \A i, j \in DOMAIN batch : batch[i] = batch[j] => i = j
    /\ \A i \in DOMAIN pending, j \in DOMAIN batch : pending[i] # batch[j]
    /\ \A m \in Messages :
          future[m] = "pending" <=> \/ \E i \in DOMAIN pending : pending[i] = m
                                   \/ \E i \in DOMAIN batch : batch[i] = m

(* What became of a submission, what its future says and what its client was  *)
(* told fit together.                                                          *)
FatesAgree ==
    \A m \in Messages :
        /\ client[m] = "idle" => future[m] = "none"
        /\ client[m] = "waiting" => future[m] # "none"
        /\ client[m] = "deferred" => future[m] \in {"none", "refused"}
        /\ client[m] \in {"idle", "deferred"} \/ future[m] \in {"pending", "refused"}
              => messages[m].status = "absent"
        /\ client[m] = "acked" \/ future[m] = "stored" => messages[m].status # "absent"

IntakeInv == IntakeTypeOK /\ LifeAgrees /\ PlacedOnce /\ FatesAgree

(* Every SMTP transaction gets an answer, with a failing disk, a halted queue  *)
(* or a shutdown in the middle too: in particular none stands behind the       *)
(* sentinel that ends the writer (store.py:122, 335-337).                      *)
EveryoneIsAnswered == \A m \in Messages : client[m] = "waiting" ~> client[m] # "waiting"

(* close() ends although the queue may be full when it puts the sentinel.      *)
CloseEnds == life = "closing" ~> life = "down"

(* The intake path drives the queue only as Store.tla says.                    *)
IntakeUsesQueue == StoreSpec
=============================================================================
