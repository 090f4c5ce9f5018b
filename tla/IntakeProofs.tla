---------------------------- MODULE IntakeProofs ----------------------------
(* The group commit, for any queue length, batch size and number of           *)
(* transactions: who was told 250 has a durable mail, who was told 451 has    *)
(* none, and the writer uses the store only by its operations.                *)
EXTENDS Gateway, DeliveryProofs

Clients == {"idle", "waiting", "acked", "deferred", "lost"}
Futures == {"none", "pending", "stored", "refused"}

-----------------------------------------------------------------------------
(* The queue of submissions *)

(* What get_nowait yields: everything up to the batch size or the sentinel.    *)
LEMMA GatheredIsMail ==
    ASSUME IntakeTypeOK, PlacedOnce
    PROVE  /\ Room \in Nat /\ Room <= Len(pending) /\ Room <= BatchSize - 1
           /\ Gathered \in 0..Room
           /\ \A i \in 1..Gathered : pending[i] \in Messages
           /\ Gathered < Room => pending[Gathered + 1] = Sentinel
<1>1. /\ pending \in Seq(Messages \cup {Sentinel}) /\ Len(pending) \in Nat
      /\ BatchSize - 1 \in Nat
  BY IntakeAssumption, StoreAssumption DEF IntakeTypeOK
<1>2. Room \in Nat /\ Room <= Len(pending) /\ Room <= BatchSize - 1
  BY <1>1 DEF Room, Least
<1> HIDE DEF Room
<1>3. \A i \in 1..Room : i \in DOMAIN pending /\ pending[i] \in Messages \cup {Sentinel}
  BY <1>1, <1>2
<1>4. \E k \in 0..Room : /\ \A i \in 1..k : pending[i] # Sentinel
                         /\ k = Room \/ pending[k + 1] = Sentinel
  <2>1. CASE \E i \in 1..Room : pending[i] = Sentinel
    <3>1. PICK i \in 1..Room : pending[i] = Sentinel
      BY <2>1
    <3>2. i - 1 \in 0..Room /\ (i - 1) + 1 = i /\ \A j \in 1..(i - 1) : j \in 1..Room /\ j # i
      BY <1>2
    <3>3. \A j \in 1..(i - 1) : pending[j] # Sentinel
      BY <1>3, <3>1, <3>2 DEF PlacedOnce
    <3> QED  BY <3>1, <3>2, <3>3
  <2>2. CASE \A i \in 1..Room : pending[i] # Sentinel
    BY <1>2, <2>2
  <2> QED  BY <2>1, <2>2
<1>5. /\ Gathered \in 0..Room /\ \A i \in 1..Gathered : pending[i] # Sentinel
      /\ Gathered = Room \/ pending[Gathered + 1] = Sentinel
  BY <1>4 DEF Gathered
<1>6. \A i \in 1..Gathered : i \in 1..Room
  BY <1>2, <1>5
<1> QED  BY <1>2, <1>3, <1>5, <1>6

(* A gathered batch: the first of the queue follow the one that was waited for, *)
(* in their order, and the rest of the queue is what it was, less a sentinel.   *)
LEMMA GathersInOrder ==
    ASSUME IntakeTypeOK, PlacedOnce, Gathers, Len(batch) = 1
    PROVE  /\ batch' \in Seq(Messages) /\ Len(batch') = 1 + Gathered
           /\ batch'[1] = batch[1]
           /\ \A i \in 1..Gathered : batch'[i + 1] = pending[i]
           /\ pending' \in Seq(Messages \cup {Sentinel}) /\ Len(pending') = Len(pending) - Consumed
           /\ \A i \in 1..Len(pending') : pending'[i] = pending[i + Consumed]
           /\ Consumed \in Nat /\ Consumed <= Len(pending)
           /\ \/ Consumed = Gathered
              \/ Consumed = Gathered + 1 /\ pending[Consumed] = Sentinel
<1> DEFINE M == Messages \cup {Sentinel}
           taken == SubSeq(pending, 1, Gathered)
<1>1. /\ pending \in Seq(M) /\ Len(pending) \in Nat /\ batch \in Seq(Messages)
  BY DEF IntakeTypeOK
<1>2. /\ Room \in Nat /\ Room <= Len(pending) /\ Gathered \in 0..Room
      /\ \A i \in 1..Gathered : pending[i] \in Messages
      /\ Gathered < Room => pending[Gathered + 1] = Sentinel
  BY GatheredIsMail
<1>3. /\ Consumed \in Nat /\ Consumed <= Len(pending)
      /\ \/ Consumed = Gathered
         \/ Consumed = Gathered + 1 /\ pending[Consumed] = Sentinel
  BY <1>1, <1>2 DEF Consumed, SeesSentinel
<1> HIDE DEF Gathered, Consumed, Room
<1>4. taken \in Seq(Messages) /\ Len(taken) = Gathered /\ \A i \in 1..Gathered : taken[i] = pending[i]
  <2>1. 1 \in Int /\ Gathered \in Int /\ Gathered >= 0
    BY <1>2
  <2>2. /\ taken \in Seq(Messages) /\ Len(taken) = IF 1 <= Gathered THEN Gathered - 1 + 1 ELSE 0
        /\ \A i \in 1..(Gathered - 1 + 1) : taken[i] = pending[1 + i - 1]
    BY <1>2, <2>1, SubSeqProperties
  <2> HIDE DEF taken
  <2>3. \A i \in 1..Gathered : i \in 1..(Gathered - 1 + 1) /\ 1 + i - 1 = i
    BY <2>1
  <2> QED  BY <2>1, <2>2, <2>3
<1>5. batch' = batch \o taken
  BY DEF Gathers
<1> HIDE DEF taken
<1>6. /\ batch' \in Seq(Messages) /\ Len(batch') = 1 + Gathered
      /\ \A i \in 1..(1 + Gathered) : batch'[i] = IF i <= 1 THEN batch[i] ELSE taken[i - 1]
  <2> DEFINE both == batch \o taken
  <2>1. /\ both \in Seq(Messages) /\ Len(both) = Len(batch) + Len(taken)
        /\ \A i \in 1..(Len(batch) + Len(taken)) :
              both[i] = IF i <= Len(batch) THEN batch[i] ELSE taken[i - Len(batch)]
    BY <1>1, <1>4, ConcatProperties
  <2>2. batch' = both
    BY <1>5
  <2> HIDE DEF both
  <2> QED  BY <1>4, <2>1, <2>2
<1>7. batch'[1] = batch[1] /\ \A i \in 1..Gathered : batch'[i + 1] = pending[i]
  <2>1. 1 \in 1..(1 + Gathered)
        /\ \A i \in 1..Gathered : i + 1 \in 1..(1 + Gathered) /\ ~(i + 1 <= 1) /\ (i + 1) - 1 = i
    BY <1>2
  <2> QED  BY <1>4, <1>6, <2>1
<1>8. /\ pending' \in Seq(M) /\ Len(pending') = Len(pending) - Consumed
      /\ \A i \in 1..Len(pending') : pending'[i] = pending[i + Consumed]
  <2>1. pending' = SubSeq(pending, Consumed + 1, Len(pending))
    BY DEF Gathers
  <2>2. Consumed + 1 \in Int /\ Len(pending) \in Int
        /\ \A i \in (Consumed + 1)..Len(pending) : pending[i] \in M
    BY <1>1, <1>3
  <2>3. /\ pending' \in Seq(M)
        /\ Len(pending') = IF Consumed + 1 <= Len(pending) THEN Len(pending) - (Consumed + 1) + 1 ELSE 0
        /\ \A i \in 1..(Len(pending) - (Consumed + 1) + 1) :
              pending'[i] = pending[(Consumed + 1) + i - 1]
    BY <2>1, <2>2, SubSeqProperties
  <2>4. Len(pending') = Len(pending) - Consumed /\ Len(pending) - (Consumed + 1) + 1 = Len(pending) - Consumed
    BY <1>1, <1>3, <2>3
  <2>5. \A i \in 1..Len(pending') : (Consumed + 1) + i - 1 = i + Consumed
    BY <1>1, <1>3, <2>4
  <2> QED  BY <2>3, <2>4, <2>5
<1> QED  BY <1>3, <1>6, <1>7, <1>8

(* An item behind the last one of the queue.                                   *)
LEMMA AppendedItem ==
    ASSUME IntakeTypeOK, NEW x \in Messages \cup {Sentinel}, pending' = Append(pending, x)
    PROVE  /\ pending' \in Seq(Messages \cup {Sentinel}) /\ Len(pending') = Len(pending) + 1
           /\ DOMAIN pending' = DOMAIN pending \cup {Len(pending) + 1}
           /\ Len(pending) + 1 \notin DOMAIN pending
           /\ \A i \in DOMAIN pending : pending'[i] = pending[i]
           /\ pending'[Len(pending) + 1] = x
<1>1. pending \in Seq(Messages \cup {Sentinel})
  BY DEF IntakeTypeOK
<1> QED  BY <1>1

(* Nothing queued and nothing gathered is within every bound.                  *)
LEMMA EmptyRoom ==
    /\ <<>> \in Seq(Messages \cup {Sentinel}) /\ <<>> \in Seq(Messages)
    /\ Len(<<>>) <= PendingSubmissions /\ Len(<<>>) <= BatchSize
<1>1. PendingSubmissions \in Nat /\ BatchSize \in Nat
  BY IntakeAssumption, StoreAssumption
<1>2. <<>> \in Seq(Messages \cup {Sentinel}) /\ <<>> \in Seq(Messages) /\ Len(<<>>) = 0
  OBVIOUS
<1> QED  BY <1>1, <1>2

-----------------------------------------------------------------------------
(* Parts of the invariant that a step leaves alone *)

(* The same mails have a row, or had one.                                      *)
AbsentSame ==
    \A m \in Messages : messages'[m].status = "absent" <=> messages[m].status = "absent"

(* Only a commit creates rows, of what it accepts; nothing makes one unseen.   *)
LEMMA AbsentRows ==
    ASSUME StoreTypeOK
    PROVE  /\ \A m \in Messages : ClaimTakes(m) \/ ClaimExpires(m) \/ Cancel(m) => AbsentSame
           /\ \A m \in Messages : \A ack : Retry(m, ack) => AbsentSame
           /\ \A m \in Messages : \A status \in Results : \A delay, gc :
                Finish(m, status, delay, gc) => AbsentSame
           /\ \A b : SetPaused(b) => AbsentSame
           /\ \A mb : Open(mb) => AbsentSame
           /\ Housekeeping \/ Tick \/ Stop \/ Fault \/ UNCHANGED storeVars => AbsentSame
           /\ \A b, S : InsertBatch(b, S) =>
                \A m \in Messages : messages'[m].status = "absent"
                                    <=> messages[m].status = "absent" /\ m \notin S
<1>1. messages \in [Messages -> Rows]
  BY DEF StoreTypeOK
<1>2. ASSUME NEW m \in Messages, NEW row,
             messages' = [messages EXCEPT ![m] = row],
             messages[m].status # "absent", row.status # "absent"
      PROVE  AbsentSame
  BY <1>1, <1>2 DEF AbsentSame
<1>3. ASSUME NEW m \in Messages, ClaimTakes(m) \/ ClaimExpires(m) \/ Cancel(m)
      PROVE  AbsentSame
  <2>1. messages[m].status # "absent" /\ messages[m] \in Rows
    BY <1>1, <1>3 DEF ClaimTakes, ClaimExpires, Cancel, Claimable, Heads, Ready, Changeable,
                      HasRow, NoRow
  <2>2. CASE ClaimTakes(m)
    <3>1. messages' = [messages EXCEPT ![m] = Attempted(messages[m])]
      BY <2>2 DEF ClaimTakes
    <3>2. Attempted(messages[m]).status = "sending"
      BY <2>1 DEF Attempted, Rows
    <3> QED  BY <1>2, <2>1, <3>1, <3>2
  <2>3. CASE ClaimExpires(m)
    <3> DEFINE row == [messages[m] EXCEPT !.status = "failed", !.updated = now]
    <3>1. messages' = [messages EXCEPT ![m] = row]
      BY <2>3 DEF ClaimExpires
    <3>2. row.status = "failed"
      BY <2>1 DEF Rows
    <3> HIDE DEF row
    <3> QED  BY <1>2, <2>1, <3>1, <3>2
  <2>4. CASE Cancel(m)
    <3>1. messages' = [messages EXCEPT ![m] = Cancelled(messages[m])]
      BY <2>4 DEF Cancel
    <3>2. Cancelled(messages[m]).status = "cancelled"
      BY <2>1 DEF Cancelled, Rows
    <3> QED  BY <1>2, <2>1, <3>1, <3>2
  <2> QED  BY <1>3, <2>2, <2>3, <2>4
<1>4. ASSUME NEW m \in Messages, NEW ack, Retry(m, ack)
      PROVE  AbsentSame
  <2>1. messages[m].status # "absent" /\ messages[m] \in Rows
    BY <1>1, <1>4 DEF Retry, Changeable, HasRow, NoRow
  <2>2. messages' = [messages EXCEPT ![m] = Requeued(messages[m])]
    BY <1>4 DEF Retry
  <2>3. Requeued(messages[m]).status = "queued"
    BY <2>1 DEF Requeued, Rows
  <2> QED  BY <1>2, <2>1, <2>2, <2>3
<1>5. ASSUME NEW m \in Messages, NEW status \in Results, NEW delay, NEW gc,
             Finish(m, status, delay, gc)
      PROVE  AbsentSame
  <2>1. messages[m].status # "absent" /\ messages[m] \in Rows
    BY <1>1, <1>5 DEF Finish, CanFinish
  <2>2. messages' = [messages EXCEPT ![m] = Finished(messages[m], status, delay)]
    BY <1>5 DEF Finish
  <2>3. Finished(messages[m], status, delay).status = status /\ status # "absent"
    BY <2>1 DEF Finished, Rows, Results
  <2> QED  BY <1>2, <2>1, <2>2, <2>3
<1>6. ASSUME NEW mb, Open(mb)
      PROVE  AbsentSame
  <2> SUFFICES ASSUME NEW m \in Messages
               PROVE  messages'[m].status = "absent" <=> messages[m].status = "absent"
    BY DEF AbsentSame
  <2>1. messages'[m] = Recovered(messages[m]) /\ messages[m] \in Rows
    BY <1>1, <1>6 DEF Open
  <2> QED  BY <2>1 DEF Recovered, Rows
<1>7. ASSUME Housekeeping
      PROVE  AbsentSame
  BY <1>7 DEF Housekeeping, Purgeable, Blank, AbsentSame
<1>8. Tick \/ Stop \/ Fault \/ UNCHANGED storeVars => AbsentSame
  BY DEF Tick, Stop, Fault, storeVars, AbsentSame
<1>a. ASSUME NEW b, SetPaused(b)
      PROVE  AbsentSame
  BY <1>a DEF SetPaused, AbsentSame
<1>9. ASSUME NEW b, NEW S, InsertBatch(b, S), NEW m \in Messages
      PROVE  messages'[m].status = "absent" <=> messages[m].status = "absent" /\ m \notin S
  BY <1>9 DEF InsertBatch, NewRow
<1> QED  BY <1>3, <1>4, <1>5, <1>6, <1>7, <1>8, <1>9, <1>a

(* No submission moves.                                                        *)
LEMMA PlacedSame ==
    ASSUME PlacedOnce, pending' = pending, batch' = batch,
           \A m \in Messages : future'[m] = "pending" <=> future[m] = "pending"
    PROVE  PlacedOnce'
  BY DEF PlacedOnce

(* Nobody learns anything.                                                     *)
LEMMA FatesSame ==
    ASSUME FatesAgree, AbsentSame, client' = client, future' = future
    PROVE  FatesAgree'
  BY DEF FatesAgree, AbsentSame

-----------------------------------------------------------------------------
(* Clients *)

(* A submission is put behind the others: nobody had it before.                *)
LEMMA SubmitKeeps ==
    ASSUME StoreTypeOK', IntakeInv, NEW m \in Messages, Submit(m)
    PROVE  IntakeInv'
<1> USE DEF IntakeInv
<1>1. /\ pending' = Append(pending, m) /\ client[m] = "idle" /\ Len(pending) < PendingSubmissions
      /\ client' = [client EXCEPT ![m] = "waiting"] /\ future' = [future EXCEPT ![m] = "pending"]
      /\ UNCHANGED <<messages, up, life, accepting, writer, batch, stopping>> /\ life # "down"
  BY IntakeAssumption DEF Submit, Full, storeVars, writerVars, IntakeTypeOK
<1>2. /\ pending' \in Seq(Messages \cup {Sentinel}) /\ Len(pending') = Len(pending) + 1
      /\ DOMAIN pending' = DOMAIN pending \cup {Len(pending) + 1}
      /\ Len(pending) + 1 \notin DOMAIN pending
      /\ \A i \in DOMAIN pending : pending'[i] = pending[i]
      /\ pending'[Len(pending) + 1] = m
  BY <1>1, AppendedItem
<1>t. client \in [Messages -> Clients] /\ future \in [Messages -> Futures]
  BY DEF IntakeTypeOK, Clients, Futures
<1>3. future[m] = "none" /\ messages[m].status = "absent"
  BY <1>1 DEF FatesAgree
<1>4. /\ \A i \in DOMAIN pending : pending[i] # m
      /\ \A i \in DOMAIN batch : batch[i] # m
  BY <1>3 DEF PlacedOnce
<1>5. IntakeTypeOK'
  BY <1>1, <1>2, IntakeAssumption DEF IntakeTypeOK
<1>6. LifeAgrees'
  BY <1>1 DEF LifeAgrees
<1>7. PlacedOnce'
  <2>1. \A i, j \in DOMAIN pending' : pending'[i] = pending'[j] => i = j
    BY <1>2, <1>4 DEF PlacedOnce
  <2>2. \A i \in DOMAIN pending', j \in DOMAIN batch' : pending'[i] # batch'[j]
    BY <1>1, <1>2, <1>4 DEF PlacedOnce
  <2>3. \A n \in Messages :
          future'[n] = "pending" <=> \/ \E i \in DOMAIN pending' : pending'[i] = n
                                    \/ \E i \in DOMAIN batch' : batch'[i] = n
    BY <1>t, <1>1, <1>2 DEF PlacedOnce
  <2> QED  BY <1>1, <2>1, <2>2, <2>3 DEF PlacedOnce
<1>8. FatesAgree'
  BY <1>t, <1>1, <1>3 DEF FatesAgree
<1> QED  BY <1>5, <1>6, <1>7, <1>8

(* An answer, a refusal or a lost connection moves only the client.            *)
LEMMA ClientKeeps ==
    ASSUME StoreTypeOK', IntakeInv, NEW m \in Messages,
           SubmitRefused(m) \/ Answered(m) \/ Disconnected(m)
    PROVE  IntakeInv'
<1> USE DEF IntakeInv
<1>1. UNCHANGED <<messages, up, life, accepting, pending, writer, batch, stopping, future>>
  BY DEF SubmitRefused, Answered, Disconnected, storeVars, writerVars
<1>2. \/ client[m] = "idle" /\ client' = [client EXCEPT ![m] = "deferred"] /\ life # "down"
      \/ client[m] = "waiting" /\ future[m] = "stored" /\ client' = [client EXCEPT ![m] = "acked"]
      \/ client[m] = "waiting" /\ future[m] = "refused" /\ client' = [client EXCEPT ![m] = "deferred"]
      \/ client[m] = "waiting" /\ client' = [client EXCEPT ![m] = "lost"]
  BY DEF SubmitRefused, Answered, Known, Reply, Disconnected
<1>t. client \in [Messages -> Clients]
  BY DEF IntakeTypeOK, Clients
<1>3. client' \in [Messages -> Clients] /\ \A n \in Messages \ {m} : client'[n] = client[n]
  BY <1>t, <1>2 DEF Clients
<1>4. IntakeTypeOK'
  BY <1>1, <1>3 DEF IntakeTypeOK, Clients
<1>5. LifeAgrees'
  BY <1>t, <1>1, <1>2 DEF LifeAgrees
<1>6. PlacedOnce'
  BY <1>1, PlacedSame
<1>7. FatesAgree'
  BY <1>t, <1>1, <1>2 DEF FatesAgree
<1> QED  BY <1>4, <1>5, <1>6, <1>7

-----------------------------------------------------------------------------
(* The writer *)

(* The first of the queue becomes a batch; the sentinel ends the writer.       *)
LEMMA GetsKeeps ==
    ASSUME StoreTypeOK', IntakeInv, Gets
    PROVE  IntakeInv'
<1> USE DEF IntakeInv
<1> DEFINE M == Messages \cup {Sentinel}
<1>1. /\ writer = "get" /\ pending # <<>> /\ pending' = Tail(pending)
      /\ UNCHANGED <<messages, up, life, accepting, stopping, client, future>>
      /\ \/ Head(pending) = Sentinel /\ writer' = "ended" /\ batch' = batch
         \/ Head(pending) # Sentinel /\ writer' = "gather" /\ batch' = <<Head(pending)>>
  BY DEF Gets, storeVars
<1>2. batch = <<>> /\ life # "down"
  BY <1>1 DEF LifeAgrees
<1>3. pending \in Seq(M) /\ Len(pending) <= PendingSubmissions /\ PendingSubmissions \in Nat
      /\ BatchSize >= 1 /\ BatchSize \in Nat
  BY IntakeAssumption, StoreAssumption DEF IntakeTypeOK
<1>4. /\ pending' \in Seq(M) /\ Len(pending') = Len(pending) - 1
      /\ \A i \in 1..Len(pending') : pending'[i] = pending[i + 1]
      /\ Head(pending) \in M /\ Head(pending) = pending[1] /\ Len(pending) >= 1
  BY <1>1, <1>3, HeadTailProperties
<1>5. IntakeTypeOK'
  <2>1. batch' \in Seq(Messages) /\ Len(batch') <= BatchSize
    <3>1. ASSUME Head(pending) # Sentinel
          PROVE  <<Head(pending)>> \in Seq(Messages) /\ Len(<<Head(pending)>>) = 1
      BY <1>4, <3>1
    <3>2. CASE Head(pending) = Sentinel
      <4>1. batch' = batch
        BY <1>1, <3>2
      <4> QED  BY <4>1 DEF IntakeTypeOK
    <3>3. CASE Head(pending) # Sentinel
      <4>1. batch' = <<Head(pending)>>
        BY <1>1, <3>3
      <4>2. batch' \in Seq(Messages) /\ Len(batch') = 1
        BY <3>1, <3>3, <4>1
      <4> QED  BY <1>3, <4>2
    <3> QED  BY <3>2, <3>3
  <2>2. pending' \in Seq(M) /\ Len(pending') <= PendingSubmissions
    BY <1>3, <1>4
  <2> QED  BY <1>1, <2>1, <2>2 DEF IntakeTypeOK
<1>6. LifeAgrees'
  BY <1>1, <1>2 DEF LifeAgrees
<1>7. PlacedOnce'
  <2>1. /\ DOMAIN pending' = 1..Len(pending') /\ DOMAIN pending = 1..Len(pending)
        /\ \A i \in DOMAIN pending' : i + 1 \in DOMAIN pending /\ i + 1 # 1
        /\ \A i \in DOMAIN pending : i = 1 \/ (i - 1 \in DOMAIN pending' /\ (i - 1) + 1 = i)
        /\ 1 \in DOMAIN pending
    BY <1>3, <1>4
  <2>2. \A i, j \in DOMAIN pending' : pending'[i] = pending'[j] => i = j
    <3>1. \A i, j \in DOMAIN pending' : i + 1 = j + 1 => i = j
      BY <2>1
    <3> QED  BY <1>4, <2>1, <3>1 DEF PlacedOnce
  <2>3. \A i \in DOMAIN pending' : pending'[i] # pending[1]
    BY <1>4, <2>1 DEF PlacedOnce
  <2>4. \A n : (\E i \in DOMAIN pending : pending[i] = n)
                <=> n = pending[1] \/ \E i \in DOMAIN pending' : pending'[i] = n
    <3>1. \A i \in DOMAIN pending' : pending'[i] = pending[i + 1]
      BY <1>4, <2>1
    <3>2. \A i \in DOMAIN pending : i = 1 \/ pending'[i - 1] = pending[i]
      BY <2>1, <3>1
    <3> QED  BY <2>1, <3>1, <3>2
  <2>a. \A n \in Messages : future'[n] = "pending" <=> \E i \in DOMAIN pending : pending[i] = n
    BY <1>1, <1>2 DEF PlacedOnce
  <2>5. CASE Head(pending) = Sentinel
    <3>1. batch' = <<>> /\ pending[1] \notin Messages
      BY <1>1, <1>2, <1>4, <2>5, IntakeAssumption
    <3>2. \A n \in Messages : future'[n] = "pending" <=> \E i \in DOMAIN pending' : pending'[i] = n
      BY <2>a, <2>4, <3>1
    <3> QED  BY <2>2, <3>1, <3>2 DEF PlacedOnce
  <2>6. CASE Head(pending) # Sentinel
    <3>1. DOMAIN batch' = {1} /\ batch'[1] = pending[1]
      BY <1>1, <1>4, <2>6
    <3>2. \A n \in Messages : future'[n] = "pending" <=> \/ \E i \in DOMAIN pending' : pending'[i] = n
                                                        \/ \E i \in DOMAIN batch' : batch'[i] = n
      BY <2>a, <2>4, <3>1
    <3> QED  BY <2>2, <2>3, <3>1, <3>2 DEF PlacedOnce
  <2> QED  BY <2>5, <2>6
<1>8. FatesAgree'
  BY <1>1, FatesSame DEF AbsentSame
<1> QED  BY <1>5, <1>6, <1>7, <1>8

(* What follows the first one joins it.                                        *)
LEMMA GathersKeeps ==
    ASSUME StoreTypeOK', IntakeInv, Gathers
    PROVE  IntakeInv'
<1> USE DEF IntakeInv
<1> DEFINE M == Messages \cup {Sentinel}
<1>1. /\ writer = "gather" /\ writer' = "commit" /\ stopping' \in BOOLEAN
      /\ UNCHANGED <<messages, up, life, accepting, client, future>>
  BY DEF Gathers, SeesSentinel, storeVars
<1>2. Len(batch) = 1 /\ life # "down"
  BY <1>1 DEF LifeAgrees
<1>3. /\ batch' \in Seq(Messages) /\ Len(batch') = 1 + Gathered
      /\ batch'[1] = batch[1]
      /\ \A i \in 1..Gathered : batch'[i + 1] = pending[i]
      /\ pending' \in Seq(M) /\ Len(pending') = Len(pending) - Consumed
      /\ \A i \in 1..Len(pending') : pending'[i] = pending[i + Consumed]
      /\ Consumed \in Nat /\ Consumed <= Len(pending)
      /\ \/ Consumed = Gathered
         \/ Consumed = Gathered + 1 /\ pending[Consumed] = Sentinel
  BY <1>2, GathersInOrder
<1>4. /\ Gathered \in Nat /\ 1 + Gathered <= BatchSize
      /\ pending \in Seq(M) /\ Len(pending) \in Nat /\ batch \in Seq(Messages)
      /\ Len(pending) <= PendingSubmissions /\ PendingSubmissions \in Nat
  BY GatheredIsMail, StoreAssumption, IntakeAssumption DEF IntakeTypeOK
<1> HIDE DEF Gathered, Consumed
<1>5. IntakeTypeOK'
  <2>1. Len(pending') <= PendingSubmissions /\ Len(batch') <= BatchSize
    BY <1>3, <1>4
  <2> QED  BY <1>1, <1>3, <2>1 DEF IntakeTypeOK
<1>6. LifeAgrees'
  <2>1. batch' # <<>>
    BY <1>3, <1>4
  <2> QED  BY <1>1, <1>2, <2>1 DEF LifeAgrees
<1>7. PlacedOnce'
  <2>1. /\ DOMAIN pending = 1..Len(pending) /\ DOMAIN pending' = 1..Len(pending')
        /\ DOMAIN batch = {1} /\ DOMAIN batch' = 1..(1 + Gathered)
    BY <1>2, <1>3, <1>4
  <2>2. /\ \A i \in DOMAIN pending' : i + Consumed \in DOMAIN pending
        /\ \A i, j \in DOMAIN pending' : i + Consumed = j + Consumed => i = j
        /\ \A i \in DOMAIN pending : \/ i \in 1..Gathered
                                     \/ i = Consumed /\ pending[i] = Sentinel
                                     \/ i - Consumed \in DOMAIN pending' /\ (i - Consumed) + Consumed = i
        /\ \A i \in 1..Gathered : i \in DOMAIN pending /\ \A j \in DOMAIN pending' : j + Consumed # i
        /\ \A i \in DOMAIN batch' : i = 1 \/ (i - 1 \in 1..Gathered /\ (i - 1) + 1 = i)
        /\ \A i \in 1..Gathered : i + 1 \in DOMAIN batch'
        /\ 1 \in DOMAIN batch'
    <3>1. \A i \in DOMAIN pending' : i + Consumed \in DOMAIN pending
      BY <1>3, <1>4, <2>1
    <3>2. \A i, j \in DOMAIN pending' : i + Consumed = j + Consumed => i = j
      BY <1>3, <2>1
    <3>3. ASSUME NEW i \in DOMAIN pending, ~(i \in 1..Gathered)
          PROVE  \/ i = Consumed /\ pending[i] = Sentinel
                 \/ i - Consumed \in DOMAIN pending' /\ (i - Consumed) + Consumed = i
      <4>1. i \in Nat /\ i > Gathered /\ i <= Len(pending)
        BY <1>4, <2>1, <3>3
      <4>2. CASE i > Consumed
        BY <1>3, <1>4, <2>1, <4>1, <4>2
      <4>3. CASE i <= Consumed
        BY <1>3, <1>4, <4>1, <4>3
      <4> QED  BY <1>3, <4>1, <4>2, <4>3
    <3>4. \A i \in 1..Gathered : i \in DOMAIN pending /\ \A j \in DOMAIN pending' : j + Consumed # i
      BY <1>3, <1>4, <2>1
    <3>5. /\ \A i \in DOMAIN batch' : i = 1 \/ (i - 1 \in 1..Gathered /\ (i - 1) + 1 = i)
          /\ \A i \in 1..Gathered : i + 1 \in DOMAIN batch'
          /\ 1 \in DOMAIN batch'
      BY <1>4, <2>1
    <3> QED  BY <3>1, <3>2, <3>3, <3>4, <3>5
  <2>3. \A i \in DOMAIN batch' :
            \/ i = 1 /\ batch'[i] = batch[1]
            \/ i - 1 \in 1..Gathered /\ batch'[i] = pending[i - 1]
    BY <1>3, <2>2
  <2>4. \A i \in DOMAIN pending : pending[i] # batch[1]
    BY <2>1 DEF PlacedOnce
  <2>5. \A i, j \in DOMAIN pending' : pending'[i] = pending'[j] => i = j
    <3> SUFFICES ASSUME NEW i \in DOMAIN pending', NEW j \in DOMAIN pending', pending'[i] = pending'[j]
                 PROVE  i = j
      OBVIOUS
    <3>1. pending[i + Consumed] = pending[j + Consumed]
      BY <1>3, <2>1
    <3>2. i + Consumed = j + Consumed
      BY <2>2, <3>1 DEF PlacedOnce
    <3> QED  BY <2>2, <3>2
  <2>6. \A i, j \in DOMAIN batch' : batch'[i] = batch'[j] => i = j
    <3>1. \A i, j \in DOMAIN batch' : i - 1 = j - 1 => i = j
      BY <2>1
    <3> QED  BY <2>2, <2>3, <2>4, <3>1 DEF PlacedOnce
  <2>7. \A i \in DOMAIN pending', j \in DOMAIN batch' : pending'[i] # batch'[j]
    <3> SUFFICES ASSUME NEW i \in DOMAIN pending', NEW j \in DOMAIN batch'
                 PROVE  pending'[i] # batch'[j]
      OBVIOUS
    <3>1. pending'[i] = pending[i + Consumed] /\ i + Consumed \in DOMAIN pending
      BY <1>3, <2>1, <2>2
    <3>2. CASE batch'[j] = batch[1]
      BY <2>4, <3>1, <3>2
    <3>3. CASE j - 1 \in 1..Gathered /\ batch'[j] = pending[j - 1]
      BY <2>2, <3>1, <3>3 DEF PlacedOnce
    <3> QED  BY <2>3, <3>2, <3>3
  <2>8. ASSUME NEW n \in Messages
        PROVE  future'[n] = "pending" <=> \/ \E i \in DOMAIN pending' : pending'[i] = n
                                         \/ \E i \in DOMAIN batch' : batch'[i] = n
    <3>1. n # Sentinel
      BY IntakeAssumption
    <3>2. future'[n] = "pending" <=> \/ \E i \in DOMAIN pending : pending[i] = n
                                    \/ batch[1] = n
      BY <1>1, <2>1 DEF PlacedOnce
    <3>3. (\E i \in DOMAIN pending : pending[i] = n)
            <=> \/ \E i \in DOMAIN pending' : pending'[i] = n
                \/ \E i \in 1..Gathered : pending[i] = n
      <4>1. \A i \in DOMAIN pending' : pending'[i] = pending[i + Consumed]
        BY <1>3, <2>1
      <4>2. \A i \in DOMAIN pending :
               \/ i \in 1..Gathered
               \/ pending[i] # n
               \/ i - Consumed \in DOMAIN pending' /\ pending'[i - Consumed] = pending[i]
        BY <2>2, <3>1, <4>1
      <4>3. \A i \in DOMAIN pending' : i + Consumed \in DOMAIN pending
        BY <2>2
      <4>4. \A i \in 1..Gathered : i \in DOMAIN pending
        BY <2>2
      <4> QED  BY <4>1, <4>2, <4>3, <4>4
    <3>4. (\E i \in DOMAIN batch' : batch'[i] = n)
            <=> batch[1] = n \/ \E i \in 1..Gathered : pending[i] = n
      <4>1. \A i \in 1..Gathered : i + 1 \in DOMAIN batch' /\ batch'[i + 1] = pending[i]
        BY <1>3, <2>2
      <4>2. 1 \in DOMAIN batch' /\ batch'[1] = batch[1]
        BY <1>3, <2>2
      <4> QED  BY <2>3, <4>1, <4>2
    <3> QED  BY <3>2, <3>3, <3>4
  <2> QED  BY <2>5, <2>6, <2>7, <2>8 DEF PlacedOnce
<1>8. FatesAgree'
  BY <1>1, FatesSame DEF AbsentSame
<1> QED  BY <1>5, <1>6, <1>7, <1>8

(* A commit, refused, failed or done, answers for its whole batch.             *)
LEMMA ResolveKeeps ==
    ASSUME StoreTypeOK', IntakeInv, writer = "commit", NEW S, Resolve(S), up' = up,
           S \subseteq {batch[i] : i \in DOMAIN batch},
           \A m \in Messages : messages'[m].status = "absent"
                               <=> messages[m].status = "absent" /\ m \notin S
    PROVE  IntakeInv'
<1> USE DEF IntakeInv
<1>1. /\ UNCHANGED <<life, accepting, pending, stopping, client>>
      /\ writer' \in {"ended", "get"} /\ batch' = <<>>
  BY DEF Resolve, AfterBatch
<1>2. life # "down"
  BY DEF LifeAgrees
<1>3. \A m \in Messages :
        /\ (\A i \in DOMAIN batch : batch[i] # m) => future'[m] = future[m] /\ m \notin S
        /\ (\E i \in DOMAIN batch : batch[i] = m) =>
              /\ m \in S => future'[m] = "stored"
              /\ m \notin S => future'[m] = "refused"
  BY DEF Resolve
<1>4. future' \in [Messages -> Futures]
  <2>1. future \in [Messages -> Futures]
    BY DEF IntakeTypeOK, Futures
  <2> QED  BY <2>1 DEF Resolve, Futures
<1>5. IntakeTypeOK'
  BY <1>1, <1>4, StoreAssumption DEF IntakeTypeOK, Futures
<1>6. LifeAgrees'
  BY <1>1, <1>2 DEF LifeAgrees
<1>7. PlacedOnce'
  <2>1. \A m \in Messages : future'[m] = "pending"
                              <=> \E i \in DOMAIN pending : pending[i] = m
    BY <1>3 DEF PlacedOnce
  <2> QED  BY <1>1, <2>1 DEF PlacedOnce
<1>8. FatesAgree'
  <2> SUFFICES ASSUME NEW m \in Messages
               PROVE  /\ client[m] = "idle" => future'[m] = "none"
                      /\ client[m] = "waiting" => future'[m] # "none"
                      /\ client[m] = "deferred" => future'[m] \in {"none", "refused"}
                      /\ client[m] \in {"idle", "deferred"} \/ future'[m] \in {"pending", "refused"}
                            => messages'[m].status = "absent"
                      /\ client[m] = "acked" \/ future'[m] = "stored"
                            => messages'[m].status # "absent"
    BY <1>1 DEF FatesAgree
  <2>1. CASE \A i \in DOMAIN batch : batch[i] # m
    BY <1>3, <2>1 DEF FatesAgree
  <2>2. CASE \E i \in DOMAIN batch : batch[i] = m
    <3>1. future[m] = "pending" /\ messages[m].status = "absent"
          /\ client[m] \notin {"idle", "deferred", "acked"}
      BY <2>2 DEF PlacedOnce, FatesAgree
    <3> QED  BY <1>3, <2>2, <3>1
  <2> QED  BY <2>1, <2>2
<1> QED  BY <1>5, <1>6, <1>7, <1>8

(* What the writer commits is a batch the store is specified for: distinct     *)
(* mails that have no row yet.                                                 *)
LEMMA BatchIsFit ==
    ASSUME IntakeInv, writer = "commit"
    PROVE  batch \in Batches
<1> USE DEF IntakeInv
<1>1. batch \in Seq(Messages) /\ Len(batch) \in 1..BatchSize
  <2>1. batch # <<>>
    BY DEF LifeAgrees
  <2> QED  BY <2>1, StoreAssumption DEF IntakeTypeOK
<1>2. \A i \in DOMAIN batch : batch[i] \in In("absent")
  <2>1. \A i \in DOMAIN batch : batch[i] \in Messages
    BY <1>1
  <2>2. \A i \in DOMAIN batch : messages[batch[i]].status = "absent"
    BY <2>1 DEF PlacedOnce, FatesAgree
  <2> QED  BY <2>1, <2>2 DEF In
<1>3. batch \in [1..Len(batch) -> In("absent")]
  <2>1. batch \in [1..Len(batch) -> Messages]
    BY <1>1
  <2>2. DOMAIN batch = 1..Len(batch)
    BY <2>1
  <2> QED  BY <1>2, <2>1, <2>2
<1>4. \A i, j \in DOMAIN batch : batch[i] = batch[j] => i = j
  BY DEF PlacedOnce
<1> QED  BY <1>1, <1>3, <1>4 DEF Batches

(* Every step of the intake is a step of the store, or leaves it alone.        *)
LEMMA IntakeQueueStep ==
    ASSUME IntakeInv, IntakeNext
    PROVE  [StoreNext]_storeVars
<1>1. CASE \/ \E m \in Messages : Submit(m) \/ SubmitRefused(m) \/ Answered(m) \/ Disconnected(m)
           \/ Gets \/ Gathers \/ CommitRefused \/ Close \/ PutsSentinel
  BY <1>1 DEF Submit, SubmitRefused, Answered, Disconnected, Gets, Gathers, CommitRefused, Close,
              PutsSentinel
<1>2. ASSUME NEW S \in SUBSET Messages, Commits(S)
      PROVE  StoreNext
  BY <1>2, BatchIsFit DEF Commits, StoreNext
<1>3. ASSUME NEW m \in Messages, Delivered(m)
      PROVE  StoreNext
  <2>1. "submitted" \in Results /\ 0 \in Delays \cup {0} /\ FALSE \in BOOLEAN
        /\ FinishArguments("submitted", 0, FALSE)
    BY DEF Results, FinishArguments
  <2> QED  BY <1>3, <2>1 DEF Delivered, StoreNext
<1>4. CASE CommitFails \/ OtherFault
  BY <1>4 DEF CommitFails, OtherFault, StoreNext
<1>5. CASE (\E mb \in Mailboxes : Opens(mb)) \/ Closed \/ Dies
  BY <1>5 DEF Opens, Closed, Dies, StoreNext
<1> QED  BY <1>1, <1>2, <1>3, <1>4, <1>5 DEF IntakeNext, Writer

-----------------------------------------------------------------------------
(* Start and end of the process *)

(* A start finds nothing, close puts the sentinel behind what is there, and an *)
(* end leaves nothing.                                                         *)
LEMMA ProcessKeeps ==
    ASSUME StoreTypeOK, StoreTypeOK', IntakeInv,
           (\E mb \in Mailboxes : Opens(mb)) \/ Close \/ PutsSentinel \/ Closed \/ Dies
    PROVE  IntakeInv'
<1> USE DEF IntakeInv
<1>1. CASE \E mb \in Mailboxes : Opens(mb)
  <2>1. /\ life = "down" /\ life' = "running" /\ accepting' = TRUE /\ writer' = "get" /\ up' = TRUE
        /\ UNCHANGED <<pending, batch, stopping, client, future>> /\ AbsentSame
    BY <1>1, AbsentRows DEF Opens, Open
  <2>2. batch = <<>>
    BY <2>1 DEF LifeAgrees
  <2>3. IntakeTypeOK' /\ LifeAgrees'
    BY <2>1, <2>2 DEF IntakeTypeOK, LifeAgrees
  <2> QED  BY <2>1, <2>3, PlacedSame, FatesSame
<1>2. CASE Close
  <2>1. /\ life = "running" /\ life' = "closing" /\ accepting' = FALSE
        /\ UNCHANGED <<messages, up, pending, writer, batch, stopping, client, future>>
    BY <1>2 DEF Close, storeVars, writerVars
  <2>2. IntakeTypeOK' /\ LifeAgrees'
    BY <2>1 DEF IntakeTypeOK, LifeAgrees
  <2> QED  BY <2>1, <2>2, PlacedSame, FatesSame DEF AbsentSame
<1>3. CASE PutsSentinel
  <2>1. /\ life = "closing" /\ pending' = Append(pending, Sentinel)
        /\ Len(pending) < PendingSubmissions
        /\ \A i \in DOMAIN pending : pending[i] # Sentinel
        /\ UNCHANGED <<messages, up, life, accepting, writer, batch, stopping, client, future>>
    BY <1>3, IntakeAssumption DEF PutsSentinel, SentinelPut, Full, storeVars, writerVars, IntakeTypeOK
  <2>2. /\ pending' \in Seq(Messages \cup {Sentinel}) /\ Len(pending') = Len(pending) + 1
        /\ DOMAIN pending' = DOMAIN pending \cup {Len(pending) + 1}
        /\ Len(pending) + 1 \notin DOMAIN pending
        /\ \A i \in DOMAIN pending : pending'[i] = pending[i]
        /\ pending'[Len(pending) + 1] = Sentinel
    BY <2>1, AppendedItem
  <2>3. \A i \in DOMAIN batch : batch[i] # Sentinel
    BY IntakeAssumption DEF IntakeTypeOK
  <2>4. IntakeTypeOK'
    BY <2>1, <2>2, IntakeAssumption DEF IntakeTypeOK
  <2>5. LifeAgrees'
    BY <2>1 DEF LifeAgrees
  <2>6. PlacedOnce'
    <3>1. \A i, j \in DOMAIN pending' : pending'[i] = pending'[j] => i = j
      BY <2>1, <2>2 DEF PlacedOnce
    <3>2. \A i \in DOMAIN pending', j \in DOMAIN batch' : pending'[i] # batch'[j]
      BY <2>1, <2>2, <2>3 DEF PlacedOnce
    <3>3. \A n \in Messages :
            (\E i \in DOMAIN pending' : pending'[i] = n) <=> \E i \in DOMAIN pending : pending[i] = n
      BY <2>2, IntakeAssumption
    <3> QED  BY <2>1, <3>1, <3>2, <3>3 DEF PlacedOnce
  <2> QED  BY <2>1, <2>4, <2>5, <2>6, FatesSame DEF AbsentSame
<1>4. CASE Closed \/ Dies
  <2>1. /\ AbsentSame /\ up' = FALSE
        /\ life' = "down" /\ accepting' = FALSE
        /\ pending' = <<>> /\ writer' = "off" /\ batch' = <<>> /\ stopping' = FALSE
        /\ future' = [m \in Messages |-> "none"]
        /\ client' = [m \in Messages |-> IF client[m] = "waiting" THEN "lost" ELSE client[m]]
    <3>1. client \in [Messages -> Clients]
      BY DEF IntakeTypeOK, Clients
    <3>2. CASE Closed
      <4>1. client = [m \in Messages |-> IF client[m] = "waiting" THEN "lost" ELSE client[m]]
        BY <3>1, <3>2 DEF Closed
      <4>2. client' = client
        BY <3>2 DEF Closed
      <4> QED  BY <3>2, <4>1, <4>2, AbsentRows DEF Closed, Stop, Gone
    <3>3. CASE Dies
      BY <3>3, AbsentRows DEF Dies, Stop, Gone
    <3> QED  BY <1>4, <3>2, <3>3
  <2>2. IntakeTypeOK'
    <3>1. client' \in [Messages -> Clients] /\ future' \in [Messages -> Futures]
      BY <2>1 DEF IntakeTypeOK, Clients, Futures
    <3>2. /\ pending' \in Seq(Messages \cup {Sentinel}) /\ Len(pending') <= PendingSubmissions
          /\ batch' \in Seq(Messages) /\ Len(batch') <= BatchSize
      BY <2>1, EmptyRoom
    <3> QED  BY <2>1, <3>1, <3>2 DEF IntakeTypeOK, Clients, Futures
  <2>3. LifeAgrees' /\ PlacedOnce'
    BY <2>1 DEF LifeAgrees, PlacedOnce
  <2>4. FatesAgree'
    BY <2>1 DEF FatesAgree, AbsentSame
  <2> QED  BY <2>2, <2>3, <2>4
<1> QED  BY <1>1, <1>2, <1>3, <1>4

-----------------------------------------------------------------------------
(* The invariant *)

(* Before the first start there is nothing to agree about.                     *)
LEMMA IntakeStarts == IntakeInit => StoreInv /\ IntakeInv
<1> SUFFICES ASSUME IntakeInit
             PROVE  StoreInv /\ IntakeInv
  OBVIOUS
<1>1. StoreInv
  BY InitKeeps DEF IntakeInit
<1>2. IntakeTypeOK
  <2>1. client \in [Messages -> Clients] /\ future \in [Messages -> Futures]
    BY DEF IntakeInit, Clients, Futures
  <2>2. /\ pending \in Seq(Messages \cup {Sentinel}) /\ Len(pending) <= PendingSubmissions
        /\ batch \in Seq(Messages) /\ Len(batch) <= BatchSize
    BY EmptyRoom DEF IntakeInit
  <2> QED  BY <1>1, <2>1, <2>2 DEF IntakeInit, IntakeTypeOK, StoreInv, Clients, Futures
<1>3. LifeAgrees /\ PlacedOnce
  BY DEF IntakeInit, StoreInit, LifeAgrees, PlacedOnce
<1>4. FatesAgree
  BY DEF IntakeInit, StoreInit, FatesAgree, Blank
<1> QED  BY <1>1, <1>2, <1>3, <1>4 DEF IntakeInv

(* Every step keeps it.                                                        *)
LEMMA IntakeKept == StoreInv /\ IntakeInv /\ [IntakeNext]_intakeVars => StoreInv' /\ IntakeInv'
<1>1. ASSUME StoreInv, IntakeInv, IntakeNext
      PROVE  StoreInv' /\ IntakeInv'
  <2>1. StoreInv'
    BY <1>1, IntakeQueueStep, StepKeeps
  <2>2. StoreTypeOK /\ StoreTypeOK'
    BY <1>1, <2>1 DEF StoreInv
  <2>3. CASE \E m \in Messages : Submit(m)
    BY <1>1, <2>1, <2>2, <2>3, SubmitKeeps
  <2>4. CASE \E m \in Messages : SubmitRefused(m) \/ Answered(m) \/ Disconnected(m)
    BY <1>1, <2>1, <2>2, <2>4, ClientKeeps
  <2>5. CASE Gets
    BY <1>1, <2>1, <2>2, <2>5, GetsKeeps
  <2>6. CASE Gathers
    BY <1>1, <2>1, <2>2, <2>6, GathersKeeps
  <2>7. CASE \E S \in SUBSET Messages : Commits(S)
    <3>1. PICK S \in SUBSET Messages : Commits(S)
      BY <2>7
    <3>2. /\ writer = "commit" /\ Resolve(S) /\ InsertBatch(batch, S)
          /\ S \subseteq {batch[i] : i \in DOMAIN batch} /\ up' = up
      BY <3>1 DEF Commits, InsertBatch
    <3> QED  BY <1>1, <2>1, <2>2, <3>2, AbsentRows, ResolveKeeps
  <2>8. CASE CommitRefused \/ CommitFails
    <3>1. writer = "commit" /\ Resolve({}) /\ up' = up /\ AbsentSame
      BY <2>2, <2>8, AbsentRows DEF CommitRefused, CommitFails, Fault, storeVars
    <3>2. \A m \in Messages : messages'[m].status = "absent"
                               <=> messages[m].status = "absent" /\ m \notin {}
      BY <3>1 DEF AbsentSame
    <3> QED  BY <1>1, <2>1, <2>2, <3>1, <3>2, ResolveKeeps
  <2>9. CASE (\E m \in Messages : Delivered(m)) \/ OtherFault
    <3>0. "submitted" \in Results
      BY DEF Results
    <3>1. /\ UNCHANGED <<life, accepting, pending, writer, batch, stopping, client, future>>
          /\ up' = up /\ AbsentSame
      BY <2>2, <2>9, <3>0, AbsentRows, UpChanges DEF Delivered, OtherFault, writerVars
    <3>2. IntakeTypeOK' /\ LifeAgrees'
      BY <1>1, <2>1, <2>2, <3>1 DEF IntakeInv, IntakeTypeOK, LifeAgrees
    <3> QED  BY <1>1, <2>1, <3>1, <3>2, PlacedSame, FatesSame DEF IntakeInv
  <2>10. CASE (\E mb \in Mailboxes : Opens(mb)) \/ Close \/ PutsSentinel \/ Closed \/ Dies
    BY <1>1, <2>1, <2>2, <2>10, ProcessKeeps
  <2> QED
    BY <1>1, <2>1, <2>3, <2>4, <2>5, <2>6, <2>7, <2>8, <2>9, <2>10 DEF IntakeNext, Writer
<1>2. ASSUME StoreInv, IntakeInv, UNCHANGED intakeVars
      PROVE  StoreInv' /\ IntakeInv'
  <2>1. /\ UNCHANGED storeVars
        /\ UNCHANGED <<life, accepting, pending, writer, batch, stopping, client, future>>
    BY <1>2 DEF intakeVars, writerVars
  <2>2. StoreInv'
    BY <1>2, <2>1, StepKeeps
  <2>3. AbsentSame /\ up' = up
    BY <2>1 DEF AbsentSame, storeVars
  <2>4. IntakeTypeOK' /\ LifeAgrees'
    BY <1>2, <2>1, <2>2, <2>3 DEF IntakeInv, IntakeTypeOK, LifeAgrees, StoreInv
  <2> QED  BY <1>2, <2>1, <2>2, <2>3, <2>4, PlacedSame, FatesSame DEF IntakeInv
<1> QED  BY <1>1, <1>2

(* The invariant of the group commit (store.py:121-162, smtp.py:256-263).      *)
THEOREM IntakeInvariance == IntakeSpec => []IntakeInv
<1>1. IntakeSpec => [](StoreInv /\ IntakeInv)
  BY IntakeStarts, IntakeKept, PTL DEF IntakeSpec
<1> QED  BY <1>1, PTL

(* The writer hands the store nothing it is not specified for.                 *)
THEOREM WriterUsesQueue == IntakeSpec => IntakeUsesQueue
<1>1. IntakeInit => StoreInit
  BY DEF IntakeInit
<1>2. IntakeInv /\ [IntakeNext]_intakeVars => [StoreNext]_storeVars
  BY IntakeQueueStep DEF intakeVars
<1> QED
  BY <1>1, <1>2, IntakeInvariance, PTL DEF IntakeSpec, IntakeUsesQueue, StoreSpec

(* store.py:35: 250 only after the commit, and a crash does not undo it.       *)
THEOREM AckIsDurable == IntakeSpec => []AckImpliesDurable
<1>1. IntakeInv => AckImpliesDurable
  BY DEF IntakeInv, FatesAgree, AckImpliesDurable
<1> QED  BY <1>1, IntakeInvariance, PTL

(* A client told 451 may send again: its mail is not stored, nor will be.      *)
THEOREM DeferredIsAbsent == IntakeSpec => []DeferredIsNotStored
<1>1. IntakeInv => DeferredIsNotStored
  BY DEF IntakeInv, FatesAgree, DeferredIsNotStored
<1> QED  BY <1>1, IntakeInvariance, PTL

(* No batch, whatever was delivered meanwhile, overfills the store.            *)
THEOREM IntakeFits == IntakeSpec => []WithinCapacity
<1>1. StoreInv => WithinCapacity
  BY DEF StoreInv
<1> QED  BY <1>1, WriterUsesQueue, StoreInvariance, PTL DEF IntakeUsesQueue

-----------------------------------------------------------------------------
(* The gateway *)

(* Workers, operators, housekeeping and the clock neither create nor forget a  *)
(* mail, and none of them opens or closes the file: only the writer makes rows *)
(* (store.py:175-191).                                                         *)
LEMMA DispatcherKeepsRows ==
    ASSUME GatewayInv, DispatcherMoves
    PROVE  AbsentSame /\ up' = up
<1>i. StoreTypeOK /\ DeliveryTypeOK /\ PhasesAgree /\ AttemptsApart /\ ResultsFit
  BY DEF GatewayInv, DeliveryInv, StoreInv
<1>q. UNCHANGED storeVars \/ Fault => AbsentSame /\ up' = up
  BY <1>i, AbsentRows, UpChanges DEF storeVars
<1>1. ASSUME NEW w \in Workers, Worker(w) \/ UpstreamAccepts(w) \/ CancelTask(w)
      PROVE  AbsentSame /\ up' = up
  <2>f. ASSUME pc[w] \in {"finishing", "lastfinish"},
               Finish(job[w], result[w].status, result[w].delay, result[w].cooldown)
        PROVE  AbsentSame /\ up' = up
    <3>1. job[w] \in Messages
      BY <1>i, <2>f DEF AttemptsApart, InFlight
    <3>2. result[w].status \in Results
      BY <1>i DEF DeliveryTypeOK
    <3> QED  BY <1>i, <2>f, <3>1, <3>2, AbsentRows, UpChanges
  <2>1. CASE Starts(w) \/ Ends(w) \/ Permitted(w) \/ ClaimFindsNothing(w)
    BY <1>q, <2>1 DEF Starts, Ends, Permitted, ClaimFindsNothing
  <2>2. CASE \E m \in Messages : Claims(w, m) \/ ClaimFindsOld(w, m) \/ CancelAfterClaim(w, m)
    BY <1>i, <2>2, AbsentRows, UpChanges DEF Claims, ClaimFindsOld, CancelAfterClaim
  <2>3. CASE \E delay \in ProviderDelays, cooldown \in BOOLEAN : Refused(w, delay, cooldown)
    BY <1>q, <2>3 DEF Refused
  <2>4. CASE \/ Confirmed(w) \/ Rejected(w) \/ LostAnswer(w) \/ ExtraLoginNeeded(w)
             \/ LoginNeeded(w) \/ UpstreamAccepts(w) \/ CancelDropsJob(w) \/ CancelInSend(w)
    BY <1>q, <2>4 DEF Confirmed, Rejected, LostAnswer, ExtraLoginNeeded, LoginNeeded,
                      UpstreamAccepts, CancelDropsJob, CancelInSend
  <2>5. CASE Unexpected(w)
    BY <2>5 DEF Unexpected, AbsentSame
  <2>6. CASE Finishes(w) \/ CancelAfterFinish(w)
    BY <2>f, <2>6 DEF Finishes, MayFinish, CancelAfterFinish
  <2>7. CASE LastFinish(w)
    BY <1>q, <2>f, <2>7 DEF LastFinish
  <2>8. CASE CancelAfterPause(w)
    BY <1>i, <2>8, AbsentRows, UpChanges DEF CancelAfterPause
  <2> QED
    BY <1>1, <2>1, <2>2, <2>3, <2>4, <2>5, <2>6, <2>7, <2>8 DEF Worker, CancelTask
<1>2. CASE \/ \E w \in Workers : ClaimFails(w) \/ FinishFails(w)
           \/ \E c \in Workers \cup Admins : PauseFails(c)
           \/ OtherTaskFails
  BY <1>q, <1>2 DEF ClaimFails, FinishFails, PauseFails, OtherTaskFails
<1>3. CASE \/ \E m \in Messages : LateAcceptance(m)
           \/ PauseResumes \/ BeginStop \/ DrainTimesOut
  BY <1>q, <1>3 DEF LateAcceptance, PauseResumes, BeginStop, DrainTimesOut
<1>4. CASE \E c \in Workers \cup Admins : PauseCommits(c)
  BY <1>i, <1>4, AbsentRows, UpChanges DEF PauseCommits
<1>5. CASE Operator
  <2>1. CASE \E a \in Admins, b \in BOOLEAN : Asks(a, b)
    BY <1>q, <2>1 DEF Asks
  <2>2. CASE \E m \in Messages, ack \in BOOLEAN : OperatorRetries(m, ack)
    BY <1>i, <2>2, AbsentRows, UpChanges DEF OperatorRetries
  <2>3. CASE \E m \in Messages : OperatorCancels(m)
    BY <1>i, <2>3, AbsentRows, UpChanges DEF OperatorCancels
  <2> QED  BY <1>5, <2>1, <2>2, <2>3 DEF Operator
<1>6. CASE HousekeepingRuns \/ TimePasses
  BY <1>i, <1>6, AbsentRows, UpChanges DEF HousekeepingRuns, TimePasses
<1> QED
  BY <1>1, <1>2, <1>3, <1>4, <1>5, <1>6 DEF DispatcherMoves

(* To the dispatcher every step of the gateway is one of its own, a commit of  *)
(* new mail included, or nothing at all (service.py:35-42).                    *)
LEMMA SeenByDispatcher ==
    ASSUME GatewayInv, GatewayNext
    PROVE  [DeliveryNext]_deliveryVars
<1>1. CASE DispatcherMoves
  BY <1>1 DEF DispatcherMoves, DeliveryNext, Trouble
<1>2. CASE IntakeMoves
  <2>1. UNCHANGED storeVars
    BY <1>2 DEF IntakeMoves, Submit, SubmitRefused, Answered, Disconnected, Gets, Gathers,
                CommitRefused, Close, PutsSentinel
  <2> QED  BY <1>2, <2>1 DEF IntakeMoves, backVars, deliveryVars
<1>3. ASSUME NEW S \in SUBSET Messages, Commits(S), NewMail(batch, S)
      PROVE  DeliveryNext
  <2>1. batch \in Batches
    BY <1>3, BatchIsFit DEF Commits, GatewayInv
  <2> QED  BY <1>3, <2>1 DEF DeliveryNext
<1>4. CASE CommitFails /\ OtherTaskFails
  BY <1>4 DEF DeliveryNext, Trouble
<1>5. CASE ProcessStarts \/ ProcessExits \/ ProcessDies
  BY <1>5 DEF ProcessStarts, ProcessExits, ProcessDies, DeliveryNext, Trouble
<1> QED
  BY <1>1, <1>2, <1>3, <1>4, <1>5 DEF GatewayNext, WriterCommits

(* What the sessions and the writer know is not disturbed by the dispatcher,   *)
(* and the rest are their own steps.                                           *)
LEMMA SeenByIntake ==
    ASSUME GatewayInv, GatewayNext, StoreInv'
    PROVE  IntakeInv'
<1>i. StoreInv /\ IntakeInv
  BY DEF GatewayInv, DeliveryInv
<1>1. CASE DispatcherMoves
  <2>1. AbsentSame /\ up' = up
    BY <1>1, DispatcherKeepsRows
  <2>2. UNCHANGED <<life, accepting, pending, writer, batch, stopping, client, future>>
    BY <1>1 DEF DispatcherMoves, frontVars, writerVars
  <2>3. StoreTypeOK'
    BY DEF StoreInv
  <2>4. IntakeTypeOK' /\ LifeAgrees'
    BY <1>i, <2>1, <2>2, <2>3 DEF IntakeInv, IntakeTypeOK, LifeAgrees
  <2> QED  BY <1>i, <2>1, <2>2, <2>4, PlacedSame, FatesSame DEF IntakeInv
<1>2. CASE IntakeMoves
  BY <1>i, <1>2, IntakeKept DEF IntakeMoves, IntakeNext, Writer
<1>3. CASE WriterCommits \/ ProcessStarts \/ ProcessExits \/ ProcessDies
  BY <1>i, <1>3, IntakeKept
     DEF WriterCommits, ProcessStarts, ProcessExits, ProcessDies, IntakeNext, Writer
<1> QED  BY <1>1, <1>2, <1>3 DEF GatewayNext

(* Both halves keep their invariants on the one queue they share.              *)
LEMMA GatewayKept == GatewayInv /\ [GatewayNext]_gatewayVars => GatewayInv'
<1>1. ASSUME GatewayInv, GatewayNext
      PROVE  GatewayInv'
  <2>1. DeliveryInv'
    BY <1>1, SeenByDispatcher, DeliveryKept DEF GatewayInv
  <2>2. IntakeInv'
    BY <1>1, <2>1, SeenByIntake DEF DeliveryInv
  <2> QED  BY <2>1, <2>2 DEF GatewayInv
<1>2. ASSUME GatewayInv, UNCHANGED gatewayVars
      PROVE  GatewayInv'
  <2>1. UNCHANGED deliveryVars
    BY <1>2 DEF gatewayVars, backVars, deliveryVars
  <2>2. UNCHANGED intakeVars
    BY <1>2 DEF gatewayVars, frontVars, intakeVars
  <2>3. DeliveryInv'
    BY <1>2, <2>1, DeliveryKept DEF GatewayInv
  <2>4. IntakeInv'
    BY <1>2, <2>2, IntakeKept DEF GatewayInv, DeliveryInv
  <2> QED  BY <2>3, <2>4 DEF GatewayInv
<1> QED  BY <1>1, <1>2

(* The invariants of intake and dispatcher hold of the two together            *)
(* (service.py:35-67).                                                         *)
THEOREM GatewayInvariance == GatewaySpec => []GatewayInv
<1>1. GatewayInit => GatewayInv
  BY DeliveryStarts, IntakeStarts DEF GatewayInit, GatewayInv
<1> QED  BY <1>1, GatewayKept, PTL DEF GatewaySpec

(* The gateway is the dispatcher of Delivery.tla with the intake of Intake.tla *)
(* for its source of mail: every safety property of Delivery holds of it.      *)
THEOREM GatewayDelivers == GatewaySpec => DeliverySpec
<1>1. GatewayInit => DeliveryInit
  BY DEF GatewayInit
<1>2. GatewayInv /\ [GatewayNext]_gatewayVars => [DeliveryNext]_deliveryVars
  BY SeenByDispatcher DEF gatewayVars, backVars, deliveryVars
<1> QED  BY <1>1, <1>2, GatewayInvariance, PTL DEF GatewaySpec, DeliverySpec

(* A client told 451 sends a mail that upstream has not seen and never will;   *)
(* one told 250 has it queued, sent or withdrawn by an operator; and upstream   *)
(* has nothing that was not committed before (smtp.py:256-263, store.py:35).   *)
THEOREM AnswersAreTrue == GatewaySpec => []AnswersHold
<1>1. GatewayInv /\ Lifecycle!MailInv => AnswersHold
  <2> SUFFICES ASSUME GatewayInv, Lifecycle!MailInv, NEW m \in Messages
               PROVE  /\ client[m] \in {"idle", "deferred"} => copies[m] + late[m] = 0
                      /\ future[m] \in {"pending", "refused"} => copies[m] + late[m] = 0
                      /\ client[m] = "acked" => Stage(m) # "none"
    BY DEF AnswersHold
  <2>1. messages[m].status = "absent" => copies[m] + late[m] = 0
    BY DEF Lifecycle!MailInv, Lifecycle!Promises, Stage
  <2>2. client[m] \in {"idle", "deferred"} \/ future[m] \in {"pending", "refused"}
          => messages[m].status = "absent"
    BY DEF GatewayInv, IntakeInv, FatesAgree
  <2>3. client[m] = "acked" => messages[m].status # "absent"
    BY DEF GatewayInv, IntakeInv, FatesAgree
  <2>4. messages[m].status # "absent" => Stage(m) # "none"
    BY DEF Stage, StageAt, GatewayInv, DeliveryInv, StoreInv, StoreTypeOK, Rows, Statuses, NoRow
  <2> QED  BY <2>1, <2>2, <2>3, <2>4
<1> QED  BY <1>1, GatewayInvariance, GatewayDelivers, PromisesKept, PTL

(* From one end to the other (README.md:203-222): what was acknowledged is     *)
(* durable, no mail reaches upstream twice unless an operator accepted that,    *)
(* and the queue keeps its capacity, its budget and every mail.                *)
THEOREM GatewayKeepsItsPromises ==
    GatewaySpec => [](AckImpliesDurable /\ DeferredIsNotStored
                      /\ NoUnacknowledgedDuplicate /\ SafeToRetry /\ StoreInv)
<1>1. GatewayInv => AckImpliesDurable /\ DeferredIsNotStored
  BY DEF GatewayInv, IntakeInv, FatesAgree, AckImpliesDurable, DeferredIsNotStored
<1>2. GatewayInv => StoreInv
  BY DEF GatewayInv, DeliveryInv
<1> QED  BY <1>1, <1>2, GatewayInvariance, GatewayDelivers, NoDuplicate, RetryIsSafe, PTL
=============================================================================
