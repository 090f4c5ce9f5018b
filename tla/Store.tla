------------------------------- MODULE Store -------------------------------
(* The durable queue of src/noreply_gateway/store.py.                        *)
(*                                                                           *)
(* One SQLite file holds the messages, the recipient ledger ("quota"), the   *)
(* counters and the settings.  A single executor thread owns it and each     *)
(* public operation runs as one transaction in one executor job, so every    *)
(* operation below is one atomic action.  Who calls the operations, and what *)
(* the callers remember between two calls, is the subject of Delivery and    *)
(* Intake; here the calls arrive in any order that the callers can produce.  *)
EXTENDS Integers, FiniteSets, Sequences

CONSTANTS
    Messages,        \* submissions: each has its own fresh UUID (smtp.py:248)
    Size,            \* len(mime) of a message
    Recipients,      \* its recipient_count
    Mailboxes,       \* values the configuration may give account.sender
    NoSender,        \* the empty sender: a new database's, and one of Mailboxes if the
                     \* configuration may name no legacy sender (config.py:111-115)
    MaxMessages, MaxBytes,   \* queue.max_messages, queue.max_bytes
    BatchSize,       \* queue.batch_size
    RecipientLimit,  \* delivery.recipient_limit_24h, 0 for no limit
    MaxAge,          \* delivery.max_age_hours
    Window,          \* the 86400 seconds of the recipient budget
    History,         \* queue.history_days
    Delays,          \* delays a caller of finish() may ask for
    MaxAcks,         \* bound: acknowledged retries of one message
    MaxTime          \* bound: the last instant

ASSUME StoreAssumption ==
    /\ IsFiniteSet(Messages)
    /\ Size \in [Messages -> Nat \ {0}]
    /\ Recipients \in [Messages -> Nat \ {0}]
    /\ MaxMessages \in Nat /\ MaxBytes \in Nat /\ BatchSize \in Nat
    /\ RecipientLimit \in Nat
    /\ MaxAge \in Nat /\ Window \in Nat /\ History \in Nat
    /\ Delays \subseteq Nat
    /\ MaxAcks \in Nat /\ MaxTime \in Nat

VARIABLES
    messages,  \* table messages; "absent": not inserted yet, "purged": row deleted
    quota,     \* table quota
    counters,  \* table counters, the entries the queue decides by or reports
    settings,  \* table settings
    acks,      \* history: operator acknowledgements of duplicate risk, per message
    up,        \* the process runs and has opened the file
    healthy,   \* Store.healthy, in memory
    now        \* time.time()

storeVars == <<messages, quota, counters, settings, acks, up, healthy, now>>

-----------------------------------------------------------------------------
(* Rows and sums *)

Statuses == {"queued", "sending", "retry", "submitted", "failed", "uncertain",
             "cancelled"}
NoRow    == {"absent", "purged"}

(* accepted_for is history, kept with the body: the legacy sender of the service *)
(* when it took the mail.                                                        *)
Rows == [status : Statuses \cup NoRow, created : Nat, cycle_started : Nat,
         updated : Nat, next_attempt : Nat, attempts : Nat, mime : BOOLEAN,
         accepted_for : Mailboxes \cup {NoSender}]

Blank(s) == [status |-> s, created |-> 0, cycle_started |-> 0, updated |-> 0,
             next_attempt |-> 0, attempts |-> 0, mime |-> FALSE,
             accepted_for |-> NoSender]

HasRow(m)   == messages[m].status \notin NoRow
Retained    == {m \in Messages : messages[m].mime}
In(s)       == {m \in Messages : messages[m].status = s}

(* SUM(size) of a set of messages and SUM(recipients) of a set of ledger rows, *)
(* counted as octets and as recipients instead of added up.                    *)
Octets(S) == UNION {{m} \X (1..Size[m]) : m \in S}
Bytes(S)  == Cardinality(Octets(S))
Units(Q)  == UNION {{q.id} \X (1..Recipients[q.msg]) : q \in Q}
Weight(Q) == Cardinality(Units(Q))

Reserved(m) == {q \in quota : q.msg = m /\ q.state = "reserved"}

(* The rows the recipient budget of a mailbox counts at this instant. *)
InWindow(mb) == {q \in quota : q.mailbox = mb /\ q.at > now - Window}
Used(mb)     == Weight(InWindow(mb))

-----------------------------------------------------------------------------
(* _insert_batch: the group commit of the writer *)

NewRow == [status |-> "queued", created |-> now, cycle_started |-> now,
           updated |-> now, next_attempt |-> now, attempts |-> 0, mime |-> TRUE,
           accepted_for |-> settings.sender]

(* Mutant: each item of a batch is tested against the committed counters only. *)
FitsAlone(before, m) ==
    /\ counters.retained_messages < MaxMessages
    /\ counters.retained_bytes + Bytes({m}) <= MaxBytes

(* Capacity test of the loop: "before" are the batch's items accepted so far. *)
Fits(before, m) ==
    /\ counters.retained_messages + Cardinality(before) < MaxMessages
    /\ counters.retained_bytes + Bytes(before \cup {m}) <= MaxBytes

(* S is the part of the batch for which the loop answers True. *)
Admits(batch, S) ==
    \A i \in DOMAIN batch :
        batch[i] \in S <=> Fits({batch[j] : j \in 1..(i - 1)} \cap S, batch[i])

Accepted(S) ==
    [counters EXCEPT !.accepted = @ + Cardinality(S),
                     !.retained_messages = @ + Cardinality(S),
                     !.retained_bytes = @ + Bytes(S)]

Batches ==
    {b \in UNION {[1..n -> In("absent")] : n \in 1..BatchSize} :
        \A i, j \in DOMAIN b : b[i] = b[j] => i = j}

InsertBatch(batch, S) ==
    /\ up /\ healthy
    /\ S \subseteq {batch[i] : i \in DOMAIN batch}
    /\ Admits(batch, S)
    /\ messages' = [m \in Messages |-> IF m \in S THEN NewRow ELSE messages[m]]
    /\ counters' = Accepted(S)
    /\ UNCHANGED <<quota, settings, acks, up, healthy, now>>

-----------------------------------------------------------------------------
(* _claim: the next message, its reservation in the ledger *)

Halted == settings.paused \/ settings.cooldown_until > now

Ready == {m \in Messages : /\ messages[m].status \in {"queued", "retry"}
                           /\ messages[m].next_attempt <= now}

(* ORDER BY next_attempt, created; the queued row wins over an equal retry row. *)
Before(a, b) ==
    LET ra == messages[a]
        rb == messages[b]
    IN  \/ ra.next_attempt < rb.next_attempt
        \/ /\ ra.next_attempt = rb.next_attempt
           /\ \/ ra.created < rb.created
              \/ /\ ra.created = rb.created
                 /\ ra.status = "queued" /\ rb.status = "retry"

(* Equal rows are taken in the order of the index: any of them, here. *)
Heads == {m \in Ready : \A n \in Ready : ~Before(n, m)}

(* Mutant: the limit is only enforced once it has been used up. *)
OverBudgetLate(m) == RecipientLimit # 0 /\ Used(settings.sender) >= RecipientLimit

TooOld(m)     == now - messages[m].cycle_started > MaxAge
OverBudget(m) == /\ RecipientLimit # 0
                 /\ Used(settings.sender) + Recipients[m] > RecipientLimit

(* _claim returns None and changes nothing. *)
NothingToClaim ==
    \/ Halted
    \/ Heads = {}
    \/ \E m \in Heads : ~TooOld(m) /\ OverBudget(m)

ClaimExpires(m) ==
    /\ up /\ ~Halted /\ m \in Heads /\ TooOld(m)
    /\ messages' = [messages EXCEPT ![m].status = "failed", ![m].updated = now]
    /\ UNCHANGED <<quota, counters, settings, acks, up, healthy, now>>

Attempted(row) == [row EXCEPT !.status = "sending", !.attempts = @ + 1, !.updated = now]

(* INTEGER PRIMARY KEY: some id no row has. *)
FreshId == CHOOSE i \in 1..(Cardinality(quota) + 1) : \A q \in quota : q.id # i

Reservation(m) == [id |-> FreshId, msg |-> m, mailbox |-> settings.sender,
                   at |-> now, state |-> "reserved"]

Claimable(m) == ~Halted /\ m \in Heads /\ ~TooOld(m) /\ ~OverBudget(m)

ClaimTakes(m) ==
    /\ up /\ Claimable(m)
    /\ messages' = [messages EXCEPT ![m] = Attempted(@)]
    /\ quota' = quota \cup {Reservation(m)}
    /\ UNCHANGED <<counters, settings, acks, up, healthy, now>>

-----------------------------------------------------------------------------
(* _finish: the result of an attempt *)

Results == {"submitted", "retry", "failed", "uncertain"}

Finished(row, status, delay) ==
    [row EXCEPT !.status = status, !.updated = now, !.next_attempt = now + delay,
                !.mime = @ /\ status # "submitted",
                !.accepted_for = IF status = "submitted" THEN NoSender ELSE @]

(* A message leaves the queue: its body is dropped, in the counters too. *)
Releases(m, total) ==
    [counters EXCEPT ![total] = @ + 1, !.retained_messages = @ - 1,
                     !.retained_bytes = @ - Size[m]]

(* Mutant: an uncertain attempt gives its budget back. *)
CountsCertain(status) == status = "submitted"

(* A mail that was or may have been sent stays in the ledger. *)
Counts(status) == status \in {"submitted", "uncertain"}

(* Mutant: a definite rejection keeps its reservation. *)
SettledLeaky(m, status) ==
    IF Counts(status)
    THEN (quota \ Reserved(m)) \cup {[q EXCEPT !.state = "counted"] : q \in Reserved(m)}
    ELSE quota

Settled(m, status) ==
    IF Counts(status)
    THEN (quota \ Reserved(m)) \cup {[q EXCEPT !.state = "counted"] : q \in Reserved(m)}
    ELSE quota \ Reserved(m)

(* Mutants: the last answer wins; the earlier end wins. *)
LaterLast(t)    == t
LaterEarlier(t) == IF t < settings.cooldown_until THEN t ELSE settings.cooldown_until

Later(t) == IF t > settings.cooldown_until THEN t ELSE settings.cooldown_until

CanFinish(m) == messages[m].status = "sending"

Finish(m, status, delay, global_cooldown) ==
    /\ up /\ CanFinish(m)
    /\ messages' = [messages EXCEPT ![m] = Finished(@, status, delay)]
    /\ counters' = IF status = "submitted" THEN Releases(m, "submitted") ELSE counters
    /\ quota' = Settled(m, status)
    /\ settings' = IF global_cooldown
                   THEN [settings EXCEPT !.cooldown_until = Later(now + delay)]
                   ELSE settings
    /\ UNCHANGED <<acks, up, healthy, now>>

-----------------------------------------------------------------------------
(* _action: the operator's retry and cancel; set_setting; housekeeping *)

(* Mutant: a mail on the wire can be changed. *)
ChangeableOnWire(m)   == HasRow(m) /\ messages[m].status \notin {"submitted", "cancelled"}

Changeable(m) ==
    HasRow(m) /\ messages[m].status \notin {"sending", "submitted", "cancelled"}

(* Mutant: no acknowledgement is asked for. *)
NeedsNoAck(m) == FALSE

NeedsAck(m) == messages[m].status = "uncertain"

Requeued(row) == [row EXCEPT !.status = "queued", !.attempts = 0, !.cycle_started = now,
                             !.updated = now, !.next_attempt = now]

Retry(m, acknowledge_duplicate) ==
    /\ up /\ Changeable(m)
    /\ NeedsAck(m) => acknowledge_duplicate
    /\ messages' = [messages EXCEPT ![m] = Requeued(@)]
    /\ acks' = IF messages[m].status = "uncertain" /\ acknowledge_duplicate
               THEN [acks EXCEPT ![m] = @ + 1] ELSE acks
    /\ acks'[m] <= MaxAcks
    /\ UNCHANGED <<quota, counters, settings, up, healthy, now>>

Cancelled(row) == [row EXCEPT !.status = "cancelled", !.mime = FALSE, !.updated = now,
                              !.accepted_for = NoSender]

Cancel(m) ==
    /\ up /\ Changeable(m)
    /\ messages' = [messages EXCEPT ![m] = Cancelled(@)]
    /\ counters' = Releases(m, "cancelled")
    /\ UNCHANGED <<quota, settings, acks, up, healthy, now>>

SetPaused(b) ==
    /\ up
    /\ settings' = [settings EXCEPT !.paused = b]
    /\ UNCHANGED <<messages, quota, counters, acks, up, healthy, now>>

(* Mutant: history is purged by age alone. *)
PurgeableByAge(m) == HasRow(m) /\ messages[m].updated < now - History

Purgeable(m) == /\ messages[m].status \in {"submitted", "cancelled"}
                /\ messages[m].updated < now - History

Forgettable(q) == q.at < now - Window /\ q.state = "counted"

Housekeeping ==
    /\ up
    /\ messages' = [m \in Messages |-> IF Purgeable(m) THEN Blank("purged") ELSE messages[m]]
    /\ quota' = {q \in quota : ~Forgettable(q)}
    /\ UNCHANGED <<counters, settings, acks, up, healthy, now>>

-----------------------------------------------------------------------------
(* _open, the end of the process, faults and time *)

SenderAllowed(mb) == settings.sender \in {NoSender, mb} \/ Retained = {}

(* Mutant: an interrupted attempt is simply repeated after the restart. *)
RecoveredToQueue(row) ==
    IF row.status = "sending" THEN [row EXCEPT !.status = "queued", !.updated = now]
    ELSE row

Recovered(row) ==
    IF row.status = "sending" THEN [row EXCEPT !.status = "uncertain", !.updated = now]
    ELSE row

(* Start of a process whose configuration names the mailbox mb. *)
Open(mb) ==
    /\ ~up /\ SenderAllowed(mb)
    /\ messages' = [m \in Messages |-> Recovered(messages[m])]
    /\ quota' = {[q EXCEPT !.state = "counted"] : q \in quota}
    /\ counters' = [counters EXCEPT !.retained_messages = Cardinality(Retained),
                                    !.retained_bytes = Bytes(Retained)]
    /\ settings' = [settings EXCEPT !.sender = mb]
    /\ up' = TRUE /\ healthy' = TRUE
    /\ UNCHANGED <<acks, now>>

(* close() or a crash: what is not committed is gone, the file stays. *)
Stop == up /\ up' = FALSE /\ UNCHANGED <<messages, quota, counters, settings, acks, healthy, now>>

(* A database job failed and its transaction was rolled back; the caller     *)
(* (writer, worker or housekeeping task) sets healthy to False.              *)
Fault == up /\ healthy' = FALSE
            /\ UNCHANGED <<messages, quota, counters, settings, acks, up, now>>

Tick == now < MaxTime /\ now' = now + 1
            /\ UNCHANGED <<messages, quota, counters, settings, acks, up, healthy>>

-----------------------------------------------------------------------------
StoreInit ==
    /\ messages = [m \in Messages |-> Blank("absent")]
    /\ quota = {}
    /\ counters = [accepted |-> 0, submitted |-> 0, cancelled |-> 0,
                   retained_messages |-> 0, retained_bytes |-> 0]
    /\ settings = [paused |-> FALSE, cooldown_until |-> 0, sender |-> NoSender]
    /\ acks = [m \in Messages |-> 0]
    /\ up = FALSE /\ healthy = TRUE
    /\ now = 0

(* Only a provider's throttling of a retry (or of the last one) sets the      *)
(* global cooldown; a retry always carries a delay, for the configured backoff *)
(* is positive (config.py:146-148), and so does the last of them, which fails. *)
FinishArguments(status, delay, global_cooldown) ==
    \/ status \in Results \ {"retry"} /\ delay = 0 /\ ~global_cooldown
    \/ status \in {"retry", "failed"} /\ delay > 0

StoreNext ==
    \/ \E batch \in Batches : \E S \in SUBSET Messages : InsertBatch(batch, S)
    \/ \E m \in Messages : ClaimExpires(m)
    \/ \E m \in Messages : ClaimTakes(m)
    \/ \E m \in Messages, status \in Results, delay \in Delays \cup {0}, gc \in BOOLEAN :
            FinishArguments(status, delay, gc) /\ Finish(m, status, delay, gc)
    \/ \E m \in Messages, ack \in BOOLEAN : Retry(m, ack)
    \/ \E m \in Messages : Cancel(m)
    \/ \E b \in BOOLEAN : SetPaused(b)
    \/ Housekeeping
    \/ \E mb \in Mailboxes : Open(mb)
    \/ Stop
    \/ Fault
    \/ Tick

StoreSpec == StoreInit /\ [][StoreNext]_storeVars

-----------------------------------------------------------------------------
(* Properties *)

QuotaRows == [id : Nat, msg : Messages, mailbox : Mailboxes, at : Nat,
              state : {"reserved", "counted"}]

(* The types of the tables: the only plain type statement of this module. *)
StoreTypeOK ==
    /\ messages \in [Messages -> Rows]
    /\ quota \subseteq QuotaRows /\ IsFiniteSet(quota)
    /\ counters \in [accepted : Nat, submitted : Nat, cancelled : Nat,
                     retained_messages : Nat, retained_bytes : Nat]
    /\ settings \in [paused : BOOLEAN, cooldown_until : Nat,
                     sender : Mailboxes \cup {NoSender}]
    /\ acks \in [Messages -> 0..MaxAcks]
    /\ up \in BOOLEAN /\ healthy \in BOOLEAN
    /\ now \in 0..MaxTime

(* The two counters that admission reads (store.py:170) always agree with the *)
(* table, although seven different transactions adjust or recompute them.     *)
RetainedExact ==
    /\ counters.retained_messages = Cardinality(Retained)
    /\ counters.retained_bytes = Bytes(Retained)

(* No mail is lost by the queue: what was ever accepted is still held with its *)
(* body, or was submitted upstream, or was cancelled by the operator.          *)
NothingLost ==
    counters.accepted = Cardinality(Retained) + counters.submitted + counters.cancelled

(* The durable queue never grows past queue.max_messages and queue.max_bytes, *)
(* also when one batch fills it (store.py:175-182).                           *)
WithinCapacity ==
    Cardinality(Retained) <= MaxMessages /\ Bytes(Retained) <= MaxBytes

(* A message being sent holds exactly one reservation of the ledger, and a     *)
(* reservation is held by no other message: none leaks budget after a failure, *)
(* a crash or a retry, none is missing while mail is on the wire.              *)
ReservationMatches ==
    \A m \in Messages :
        Cardinality(Reserved(m)) = IF messages[m].status = "sending" THEN 1 ELSE 0

(* The recipients of every attempt that succeeded or may have succeeded in the *)
(* last 24 hours, with those being attempted, stay within the mailbox's limit  *)
(* (store.py:217-221), across restarts, purges and changes of mailbox.         *)
WithinBudget ==
    RecipientLimit # 0 => \A mb \in Mailboxes : Used(mb) <= RecipientLimit

(* The mailbox of a mail is pinned: what is still held was accepted for the     *)
(* legacy sender the service now has, or for none, attempted or not, and was    *)
(* never attempted for another, across restarts with other configurations       *)
(* (store.py:97-100).                                                           *)
OneMailboxPerMessage ==
    /\ \A m \in Retained : messages[m].accepted_for \in {NoSender, settings.sender}
    /\ \A q \in quota : messages[q.msg].mime => q.mailbox \in {NoSender, settings.sender}

(* A body is kept for as long as the mail may still have to be sent, retried  *)
(* or exported, and no longer (store.py:241-244, 281-285).                    *)
BodyKept ==
    \A m \in Messages :
        messages[m].mime <=> HasRow(m) /\ messages[m].status \notin {"submitted", "cancelled"}

(* Ledger rows have ids of their own (Weight adds up rows) and belong to mails  *)
(* that were accepted; a running service sends for a configured mailbox.       *)
LedgerWellFormed ==
    /\ \A p, q \in quota : p.id = q.id => p = q
    /\ \A q \in quota : messages[q.msg].status # "absent"
SenderKnown == up => settings.sender \in Mailboxes

(* The inductive invariant: the properties above are not inductive one by one,  *)
(* for the counters are only right when bodies are kept (BodyKept), a body is   *)
(* only where a mail was accepted, and so on.                                   *)
StoreInv ==
    /\ StoreTypeOK /\ BodyKept /\ LedgerWellFormed /\ SenderKnown
    /\ RetainedExact /\ NothingLost /\ WithinCapacity
    /\ ReservationMatches /\ WithinBudget /\ OneMailboxPerMessage

(* No step shortens a provider's cooldown: a concurrent attempt with a shorter *)
(* one, an operator or a restart included (store.py:250-252).                  *)
CooldownNeverShortened == [][settings'.cooldown_until >= settings.cooldown_until]_storeVars

=============================================================================
