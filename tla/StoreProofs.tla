----------------------------- MODULE StoreProofs -----------------------------
(* The inductive invariant of the durable queue, for any number of mails, any *)
(* sizes, capacities, limits and times.                                       *)
EXTENDS Store, FiniteSetTheorems, WellFoundedInduction, TLAPS

-----------------------------------------------------------------------------
(* Octets and units *)

(* One strip: as many octets (or units) as the number says.                    *)
LEMMA Strip ==
    ASSUME NEW x, NEW n \in Nat
    PROVE  IsFiniteSet({x} \X (1..n)) /\ Cardinality({x} \X (1..n)) = n
<1>1. IsFiniteSet({x}) /\ Cardinality({x}) = 1
  BY FS_Singleton
<1>2. IsFiniteSet(1..n) /\ Cardinality(1..n) = IF 1 > n THEN 0 ELSE n - 1 + 1
  BY FS_Interval
<1>3. Cardinality(1..n) = n
  BY <1>2
<1>4. /\ IsFiniteSet({x} \X (1..n))
      /\ Cardinality({x} \X (1..n)) = Cardinality({x}) * Cardinality(1..n)
  BY <1>1, <1>2, FS_Product
<1> QED
  BY <1>1, <1>3, <1>4

(* Sizes and numbers of recipients are natural numbers.                        *)
LEMMA Numbers ==
    /\ \A m \in Messages : Size[m] \in Nat
    /\ \A q \in QuotaRows : Recipients[q.msg] \in Nat
  BY StoreAssumption DEF QuotaRows

(* The sets behind the sums are finite.                                        *)
LEMMA OctetsFinite ==
    ASSUME NEW S \in SUBSET Messages
    PROVE  IsFiniteSet(Octets(S))
<1> DEFINE T == {{m} \X (1..Size[m]) : m \in S}
           f == [m \in S |-> {m} \X (1..Size[m])]
<1>1. IsFiniteSet(S)
  BY FS_Subset, StoreAssumption
<1>2. f \in Surjection(S, T)
  BY DEF Surjection
<1>3. IsFiniteSet(T)
  <2> HIDE DEF T, f
  <2> QED  BY <1>1, <1>2, FS_Surjection
<1>4. \A t \in T : IsFiniteSet(t)
  <2> SUFFICES ASSUME NEW m \in S  PROVE IsFiniteSet({m} \X (1..Size[m]))
    OBVIOUS
  <2>1. Size[m] \in Nat
    BY Numbers
  <2> QED  BY <2>1, Strip
<1>5. IsFiniteSet(UNION T)
  <2> HIDE DEF T
  <2> QED  BY <1>3, <1>4, FS_UNION
<1> QED
  BY <1>5 DEF Octets

LEMMA UnitsFinite ==
    ASSUME NEW Q \in SUBSET QuotaRows, IsFiniteSet(Q)
    PROVE  IsFiniteSet(Units(Q))
<1> DEFINE T == {{q.id} \X (1..Recipients[q.msg]) : q \in Q}
           f == [q \in Q |-> {q.id} \X (1..Recipients[q.msg])]
<1>1. f \in Surjection(Q, T)
  BY DEF Surjection
<1>2. IsFiniteSet(T)
  <2> HIDE DEF T, f
  <2> QED  BY <1>1, FS_Surjection
<1>3. \A t \in T : IsFiniteSet(t)
  <2> SUFFICES ASSUME NEW q \in Q  PROVE IsFiniteSet({q.id} \X (1..Recipients[q.msg]))
    OBVIOUS
  <2>1. Recipients[q.msg] \in Nat
    BY Numbers
  <2> QED  BY <2>1, Strip
<1>4. IsFiniteSet(UNION T)
  <2> HIDE DEF T
  <2> QED  BY <1>2, <1>3, FS_UNION
<1> QED
  BY <1>4 DEF Units

(* One mail has as many octets as its size, one row as many units as it has    *)
(* recipients.                                                                 *)
LEMMA BytesOfOne ==
    ASSUME NEW m \in Messages
    PROVE  Bytes({m}) = Size[m]
<1>1. Octets({m}) = {m} \X (1..Size[m])
  BY DEF Octets
<1>2. Size[m] \in Nat
  BY Numbers
<1> QED
  BY <1>1, <1>2, Strip DEF Bytes

LEMMA UnitsOfOne ==
    ASSUME NEW q \in QuotaRows
    PROVE  Cardinality(Units({q})) = Recipients[q.msg] /\ IsFiniteSet(Units({q}))
<1>1. Units({q}) = {q.id} \X (1..Recipients[q.msg])
  BY DEF Units
<1> DEFINE n == Recipients[q.msg]
           x == q.id
<1>2. n \in Nat
  BY Numbers
<1>3. IsFiniteSet({x} \X (1..n)) /\ Cardinality({x} \X (1..n)) = n
  <2> HIDE DEF n, x
  <2> QED  BY <1>2, Strip
<1> QED
  BY <1>1, <1>3

(* The bytes of two disjoint sets of mails add up.                             *)
LEMMA BytesAdd ==
    ASSUME NEW S \in SUBSET Messages, NEW T \in SUBSET Messages, S \cap T = {}
    PROVE  /\ Bytes(S) \in Nat /\ Bytes(T) \in Nat
           /\ Bytes(S \cup T) = Bytes(S) + Bytes(T)
<1>1. IsFiniteSet(Octets(S)) /\ IsFiniteSet(Octets(T))
  BY OctetsFinite
<1>2. Octets(S \cup T) = Octets(S) \cup Octets(T)
  BY DEF Octets
<1>3. Octets(S) \cap Octets(T) = {}
  BY DEF Octets
<1>4. Cardinality(Octets(S) \cup Octets(T))
        = Cardinality(Octets(S)) + Cardinality(Octets(T)) - Cardinality({})
  BY <1>1, <1>3, FS_Union
<1>5. Cardinality(Octets(S)) \in Nat /\ Cardinality(Octets(T)) \in Nat /\ Cardinality({}) = 0
  BY <1>1, FS_CardinalityType, FS_EmptySet
<1> QED
  BY <1>2, <1>4, <1>5 DEF Bytes

(* The number of mails of two disjoint sets adds up, too.                      *)
LEMMA CountAdd ==
    ASSUME NEW S \in SUBSET Messages, NEW T \in SUBSET Messages, S \cap T = {}
    PROVE  /\ IsFiniteSet(S) /\ Cardinality(S) \in Nat /\ Cardinality(T) \in Nat
           /\ Cardinality(S \cup T) = Cardinality(S) + Cardinality(T)
<1>1. IsFiniteSet(S) /\ IsFiniteSet(T)
  BY FS_Subset, StoreAssumption
<1>2. Cardinality(S) \in Nat /\ Cardinality(T) \in Nat /\ Cardinality({}) = 0
  BY <1>1, FS_CardinalityType, FS_EmptySet
<1>3. Cardinality(S \cup T) = Cardinality(S) + Cardinality(T) - Cardinality({})
  BY <1>1, FS_Union
<1> QED
  BY <1>1, <1>2, <1>3

(* Taking one mail away subtracts one, and its size.                           *)
LEMMA TakeOneAway ==
    ASSUME NEW S \in SUBSET Messages, NEW m \in S
    PROVE  /\ Cardinality(S \ {m}) = Cardinality(S) - 1 /\ Cardinality(S \ {m}) \in Nat
           /\ Bytes(S \ {m}) = Bytes(S) - Size[m] /\ Bytes(S \ {m}) \in Nat
<1>1. S = (S \ {m}) \cup {m} /\ (S \ {m}) \cap {m} = {}
  OBVIOUS
<1>2. Cardinality({m}) = 1
  BY FS_Singleton
<1>3. /\ Cardinality(S \ {m}) \in Nat
      /\ Cardinality((S \ {m}) \cup {m}) = Cardinality(S \ {m}) + Cardinality({m})
  BY <1>1, CountAdd
<1>4. /\ Bytes(S \ {m}) \in Nat
      /\ Bytes((S \ {m}) \cup {m}) = Bytes(S \ {m}) + Bytes({m})
  BY <1>1, BytesAdd
<1>5. Bytes({m}) = Size[m] /\ Size[m] \in Nat
  BY BytesOfOne, Numbers
<1>6. Cardinality(S) = Cardinality(S \ {m}) + 1 /\ Bytes(S) = Bytes(S \ {m}) + Size[m]
  BY <1>1, <1>2, <1>3, <1>4, <1>5
<1> QED
  BY <1>3, <1>4, <1>5, <1>6

(* Fewer units weigh less; one row more adds at most its recipients.           *)
LEMMA WeightMonotone ==
    ASSUME NEW Q \in SUBSET QuotaRows, IsFiniteSet(Q), NEW P, Units(P) \subseteq Units(Q)
    PROVE  Weight(P) \in Nat /\ Weight(Q) \in Nat /\ Weight(P) <= Weight(Q)
<1>1. IsFiniteSet(Units(Q))
  BY UnitsFinite
<1>2. IsFiniteSet(Units(P)) /\ Cardinality(Units(P)) <= Cardinality(Units(Q))
  BY <1>1, FS_Subset
<1> QED
  BY <1>1, <1>2, FS_CardinalityType DEF Weight

LEMMA WeightOfOneMore ==
    ASSUME NEW Q \in SUBSET QuotaRows, IsFiniteSet(Q), NEW r \in QuotaRows
    PROVE  /\ Weight(Q \cup {r}) \in Nat /\ Weight(Q) \in Nat
           /\ Weight(Q \cup {r}) <= Weight(Q) + Recipients[r.msg]
<1>1. IsFiniteSet(Units(Q))
  BY UnitsFinite
<1>2. Cardinality(Units({r})) = Recipients[r.msg] /\ IsFiniteSet(Units({r}))
  BY UnitsOfOne
<1>3. Units(Q \cup {r}) = Units(Q) \cup Units({r})
  BY DEF Units
<1>4. /\ IsFiniteSet(Units(Q) \cup Units({r}))
      /\ Cardinality(Units(Q) \cup Units({r}))
           = Cardinality(Units(Q)) + Cardinality(Units({r})) - Cardinality(Units(Q) \cap Units({r}))
  BY <1>1, <1>2, FS_Union
<1>5. IsFiniteSet(Units(Q) \cap Units({r}))
  BY <1>1, FS_Intersection
<1>6. /\ Cardinality(Units(Q)) \in Nat /\ Cardinality(Units({r})) \in Nat
      /\ Cardinality(Units(Q) \cap Units({r})) \in Nat
      /\ Cardinality(Units(Q) \cup Units({r})) \in Nat
  BY <1>1, <1>2, <1>4, <1>5, FS_CardinalityType
<1>7. Recipients[r.msg] \in Nat
  BY Numbers
<1>8. Cardinality(Units(Q) \cup Units({r})) <= Cardinality(Units(Q)) + Recipients[r.msg]
  BY <1>2, <1>4, <1>6, <1>7
<1> QED
  BY <1>3, <1>6, <1>8 DEF Weight

-----------------------------------------------------------------------------
(* What the operators of the queue return *)

(* There is always an id that no row has: n rows cannot use up n + 1 numbers.  *)
LEMMA FreshIdIsFresh ==
    ASSUME quota \subseteq QuotaRows, IsFiniteSet(quota)
    PROVE  FreshId \in Nat /\ \A q \in quota : q.id # FreshId
<1> DEFINE n == Cardinality(quota)
           I == 1..(n + 1)
<1>1. n \in Nat
  BY FS_CardinalityType
<1>2. \E i \in I : \A q \in quota : q.id # i
  <2> SUFFICES ASSUME \A i \in I : \E q \in quota : q.id = i
               PROVE  FALSE
    OBVIOUS
  <2> DEFINE f == [i \in I |-> CHOOSE q \in quota : q.id = i]
  <2>1. f \in [I -> quota] /\ \A i \in I : f[i].id = i
    OBVIOUS
  <2>2. IsFiniteSet(I) /\ Cardinality(I) = n + 1
    BY <1>1, FS_Interval
  <2>3. Cardinality(quota) < Cardinality(I)
    BY <1>1, <2>2
  <2>4. \E x, y \in I : x # y /\ f[x] = f[y]
    <3> HIDE DEF f, I, n
    <3> QED  BY <2>1, <2>2, <2>3, FS_PigeonHole
  <2> QED
    BY <2>1, <2>4
<1>3. FreshId \in I /\ \A q \in quota : q.id # FreshId
  BY <1>2 DEF FreshId
<1> QED
  BY <1>1, <1>3

(* The accepted part of a batch fits: its last item was tested with all the    *)
(* others already counted.                                                     *)
LEMMA AdmittedFits ==
    ASSUME NEW batch \in Batches, NEW S \in SUBSET {batch[i] : i \in DOMAIN batch},
           Admits(batch, S), S # {}, counters.retained_messages \in Nat
    PROVE  /\ counters.retained_messages + Cardinality(S) <= MaxMessages
           /\ counters.retained_bytes + Bytes(S) <= MaxBytes
<1>1. PICK n \in Nat : DOMAIN batch = 1..n /\ batch \in [1..n -> Messages]
  BY StoreAssumption DEF Batches, In
<1> DEFINE T == {k \in Nat : \E i \in 1..n : batch[i] \in S /\ k = n - i}
<1>2. T \subseteq Nat /\ T # {}
  BY <1>1
<1>3. PICK k \in T : \A y \in T : <<y, k>> \notin OpToRel(<, Nat)
  <2> HIDE DEF T
  <2> QED  BY <1>2, NatLessThanWellFounded, WFMin
<1>4. PICK last \in 1..n : batch[last] \in S /\ k = n - last
  OBVIOUS
<1>5. \A j \in 1..n : batch[j] \in S => j <= last
  <2> SUFFICES ASSUME NEW j \in 1..n, batch[j] \in S, j > last
               PROVE  FALSE
    OBVIOUS
  <2>1. n - j \in T
    OBVIOUS
  <2>2. n - j < k /\ n - j \in Nat /\ k \in Nat
    BY <1>4
  <2>3. <<n - j, k>> \in OpToRel(<, Nat)
    BY <2>2 DEF OpToRel
  <2> QED
    BY <1>3, <2>1, <2>3
<1> DEFINE before == {batch[j] : j \in 1..(last - 1)} \cap S
<1>6. S = before \cup {batch[last]}
  BY <1>1, <1>4, <1>5
<1>7. Fits(before, batch[last])
  BY <1>1, <1>4 DEF Admits
<1>8. IsFiniteSet(before)
  <2>1. before \subseteq Messages
    BY <1>1
  <2> QED  BY <2>1, FS_Subset, StoreAssumption
<1>9. Cardinality(S) <= Cardinality(before) + 1 /\ Cardinality(before) \in Nat
      /\ Cardinality(S) \in Nat
  <2> DEFINE x == batch[last]
  <2>1. S = before \cup {x}
    BY <1>6
  <2> HIDE DEF before, x
  <2>2. /\ IsFiniteSet(before \cup {x})
        /\ Cardinality(before \cup {x})
             = IF x \in before THEN Cardinality(before) ELSE Cardinality(before) + 1
    BY <1>8, FS_AddElement
  <2>3. Cardinality(before) \in Nat /\ Cardinality(before \cup {x}) \in Nat
    BY <1>8, <2>2, FS_CardinalityType
  <2> QED
    BY <2>1, <2>2, <2>3
<1> QED
  <2> HIDE DEF before
  <2>1. Bytes(before \cup {batch[last]}) = Bytes(S)
    BY <1>6
  <2> QED  BY <1>7, <1>9, <2>1, StoreAssumption DEF Fits

-----------------------------------------------------------------------------
(* The operations keep the invariant, one lemma each *)

(* The budget of a mailbox when no row of its window is added.                 *)
LEMMA BudgetKept ==
    ASSUME StoreTypeOK, WithinBudget,
           \A mb \in Mailboxes : Units(InWindow(mb)') \subseteq Units(InWindow(mb))
    PROVE  WithinBudget'
<1> SUFFICES ASSUME RecipientLimit # 0, NEW mb \in Mailboxes
             PROVE  Weight(InWindow(mb)') <= RecipientLimit
  BY DEF WithinBudget, Used, Weight, Units
<1>1. InWindow(mb) \in SUBSET QuotaRows /\ IsFiniteSet(InWindow(mb))
  <2>1. InWindow(mb) \in SUBSET quota
    BY DEF InWindow
  <2> QED  BY <2>1, FS_Subset DEF StoreTypeOK
<1>2. /\ Weight(InWindow(mb)') \in Nat /\ Weight(InWindow(mb)) \in Nat
      /\ Weight(InWindow(mb)') <= Weight(InWindow(mb))
  BY <1>1, WeightMonotone
<1>3. Weight(InWindow(mb)) <= RecipientLimit
  BY DEF WithinBudget, Used
<1> QED
  BY <1>2, <1>3, StoreAssumption

(* The retained mails are counted by natural numbers.                          *)
LEMMA RetainedNumbers ==
    ASSUME StoreTypeOK
    PROVE  /\ Retained \in SUBSET Messages
           /\ Cardinality(Retained) \in Nat /\ Bytes(Retained) \in Nat
<1>1. Retained \in SUBSET Messages
  BY DEF Retained
<1>2. Retained \cap {} = {} /\ {} \in SUBSET Messages
  OBVIOUS
<1> QED
  BY <1>1, <1>2, CountAdd, BytesAdd

(* New mail: only absent messages are inserted, and they are counted.          *)
LEMMA InsertKeeps ==
    ASSUME StoreInv, NEW batch \in Batches, NEW S \in SUBSET Messages,
           InsertBatch(batch, S)
    PROVE  StoreInv'
<1> USE DEF StoreInv
<1>1. \A m \in S : messages[m].status = "absent" /\ ~messages[m].mime
  BY DEF InsertBatch, Batches, In, BodyKept, HasRow, NoRow
<1>2. \A m \in Messages : messages'[m] = IF m \in S THEN NewRow ELSE messages[m]
  BY DEF InsertBatch
<1>3. /\ NewRow \in Rows /\ NewRow.mime /\ NewRow.status = "queued"
      /\ NewRow.accepted_for = settings.sender
  BY DEF NewRow, Rows, Statuses, StoreTypeOK
<1>4. /\ Retained' = Retained \cup S /\ Retained \cap S = {}
      /\ Retained \in SUBSET Messages
  BY <1>1, <1>2, <1>3 DEF Retained
<1>5. /\ Cardinality(Retained)' = Cardinality(Retained) + Cardinality(S)
      /\ Bytes(Retained)' = Bytes(Retained) + Bytes(S)
      /\ Cardinality(Retained) \in Nat /\ Cardinality(S) \in Nat
      /\ Bytes(Retained) \in Nat /\ Bytes(S) \in Nat
  <2>1. Bytes(Retained)' = Bytes(Retained \cup S)
    BY <1>4 DEF Bytes, Octets
  <2> QED  BY <1>4, <2>1, CountAdd, BytesAdd
<1>6. /\ counters'.accepted = counters.accepted + Cardinality(S)
      /\ counters'.submitted = counters.submitted
      /\ counters'.cancelled = counters.cancelled
      /\ counters'.retained_messages = counters.retained_messages + Cardinality(S)
      /\ counters'.retained_bytes = counters.retained_bytes + Bytes(S)
      /\ counters' \in [accepted : Nat, submitted : Nat, cancelled : Nat,
                        retained_messages : Nat, retained_bytes : Nat]
  <2> DEFINE n == Cardinality(S)
             b == Bytes(S)
  <2>1. counters' = [counters EXCEPT !.accepted = counters.accepted + n,
                                     !.retained_messages = counters.retained_messages + n,
                                     !.retained_bytes = counters.retained_bytes + b]
    BY DEF InsertBatch, Accepted
  <2>2. n \in Nat /\ b \in Nat
    BY <1>5
  <2>3. counters \in [accepted : Nat, submitted : Nat, cancelled : Nat,
                      retained_messages : Nat, retained_bytes : Nat]
    BY DEF StoreTypeOK
  <2> HIDE DEF n, b
  <2>4. /\ counters'.accepted = counters.accepted + n
        /\ counters'.submitted = counters.submitted
        /\ counters'.cancelled = counters.cancelled
        /\ counters'.retained_messages = counters.retained_messages + n
        /\ counters'.retained_bytes = counters.retained_bytes + b
    BY <2>1, <2>3
  <2>5. /\ counters.accepted + n \in Nat
        /\ counters.retained_messages + n \in Nat
        /\ counters.retained_bytes + b \in Nat
    BY <2>2, <2>3
  <2>6. counters' = [accepted |-> counters.accepted + n, submitted |-> counters.submitted,
                     cancelled |-> counters.cancelled,
                     retained_messages |-> counters.retained_messages + n,
                     retained_bytes |-> counters.retained_bytes + b]
    BY <2>1, <2>3
  <2>7. counters' \in [accepted : Nat, submitted : Nat, cancelled : Nat,
                       retained_messages : Nat, retained_bytes : Nat]
    BY <2>3, <2>5, <2>6
  <2> QED
    BY <2>4, <2>7 DEF n, b
<1>7. /\ quota' = quota /\ settings' = settings /\ acks' = acks /\ up' = up
      /\ healthy' = healthy /\ now' = now /\ up
  BY DEF InsertBatch
<1>8. messages' \in [Messages -> Rows]
  BY <1>3 DEF InsertBatch, StoreTypeOK
<1>a. StoreTypeOK'
  BY <1>6, <1>7, <1>8 DEF StoreTypeOK
<1>b. BodyKept'
  BY <1>2, <1>3 DEF BodyKept, HasRow, NoRow
<1>c. LedgerWellFormed'
  BY <1>1, <1>2, <1>3, <1>7 DEF LedgerWellFormed, StoreTypeOK, QuotaRows
<1>d. SenderKnown'
  BY <1>7, StoreAssumption DEF SenderKnown
<1>e. RetainedExact'
  BY <1>5, <1>6 DEF RetainedExact
<1>f. NothingLost'
  BY <1>5, <1>6 DEF NothingLost, StoreTypeOK
<1>g. WithinCapacity'
  <2>1. CASE S = {}
    BY <1>4, <2>1 DEF WithinCapacity, Bytes, Octets
  <2>2. CASE S # {}
    <3>1. /\ counters.retained_messages + Cardinality(S) <= MaxMessages
          /\ counters.retained_bytes + Bytes(S) <= MaxBytes
      BY <2>2, AdmittedFits DEF InsertBatch, StoreTypeOK
    <3> QED  BY <1>5, <3>1 DEF RetainedExact, WithinCapacity
  <2> QED  BY <2>1, <2>2
<1>h. ReservationMatches'
  BY <1>1, <1>2, <1>3, <1>7 DEF ReservationMatches, Reserved
<1>i. WithinBudget'
  <2>1. \A mb \in Mailboxes : InWindow(mb)' = InWindow(mb)
    BY <1>7 DEF InWindow
  <2> QED  BY <2>1, BudgetKept
<1>j. OneMailboxPerMessage'
  <2>1. \A q \in quota : q.msg \in Messages /\ q.msg \notin S
    BY <1>1 DEF LedgerWellFormed, StoreTypeOK, QuotaRows
  <2>2. \A n \in Retained' : messages'[n].accepted_for \in {NoSender, settings'.sender}
    BY <1>2, <1>3, <1>4, <1>7 DEF OneMailboxPerMessage
  <2> QED  BY <1>2, <1>7, <2>1, <2>2 DEF OneMailboxPerMessage
<1> QED
  BY <1>a, <1>b, <1>c, <1>d, <1>e, <1>f, <1>g, <1>h, <1>i, <1>j

(* Parts of the invariant that a step leaves alone because it leaves the rows, *)
(* bodies or ledger alone.                                                     *)
LEMMA LedgerUntouched ==
    ASSUME StoreInv, quota' = quota, now' = now,
           \A m \in Messages : (messages'[m].status = "sending") <=> (messages[m].status = "sending")
    PROVE  ReservationMatches' /\ WithinBudget'
<1>1. ReservationMatches'
  <2>1. \A m : Reserved(m)' = Reserved(m)
    BY DEF Reserved
  <2> QED  BY <2>1 DEF StoreInv, ReservationMatches
<1>2. \A mb \in Mailboxes : InWindow(mb)' = InWindow(mb)
  BY DEF InWindow
<1> QED
  BY <1>1, <1>2, BudgetKept DEF StoreInv

LEMMA BodiesUntouched ==
    ASSUME StoreInv, counters' = counters,
           \A m \in Messages : messages'[m].mime = messages[m].mime
    PROVE  RetainedExact' /\ NothingLost' /\ WithinCapacity' /\ Retained' = Retained
<1>1. Retained' = Retained
  BY DEF Retained
<1>2. Bytes(Retained)' = Bytes(Retained)
  BY <1>1 DEF Bytes, Octets
<1> QED
  BY <1>1, <1>2 DEF StoreInv, RetainedExact, NothingLost, WithinCapacity

(* What is held after the step was held before it, and for the same sender.    *)
LEMMA AcceptedForKept ==
    ASSUME StoreInv, settings'.sender = settings.sender,
           \A n \in Messages : messages'[n].mime =>
               messages[n].mime /\ messages'[n].accepted_for = messages[n].accepted_for
    PROVE  \A n \in Retained' : messages'[n].accepted_for \in {NoSender, settings'.sender}
<1> TAKE n \in Retained'
<1>1. n \in Retained /\ messages'[n].accepted_for = messages[n].accepted_for
  BY DEF Retained
<1> QED
  BY <1>1 DEF StoreInv, OneMailboxPerMessage

(* A mail found too old when it is claimed keeps its body.                     *)
LEMMA ClaimExpiresKeeps ==
    ASSUME StoreInv, NEW m \in Messages, ClaimExpires(m)
    PROVE  StoreInv'
<1> DEFINE row == [messages[m] EXCEPT !.status = "failed", !.updated = now]
<1> USE DEF StoreInv
<1>1. /\ quota' = quota /\ counters' = counters /\ settings' = settings /\ acks' = acks
      /\ up' = up /\ healthy' = healthy /\ now' = now
      /\ messages[m].status \in {"queued", "retry"}
  BY DEF ClaimExpires, Heads, Ready
<1>2. messages[m] \in Rows /\ now \in Nat
  BY DEF StoreTypeOK
<1>3. /\ row \in Rows /\ row.status = "failed" /\ row.mime = messages[m].mime
      /\ row.accepted_for = messages[m].accepted_for
  BY <1>2 DEF Rows, Statuses
<1>4. messages' = [messages EXCEPT ![m] = row]
  BY DEF ClaimExpires
<1> HIDE DEF row
<1>5. \A n \in Messages : messages'[n] = IF n = m THEN row ELSE messages[n]
  BY <1>4 DEF StoreTypeOK
<1>6. StoreTypeOK'
  BY <1>1, <1>3, <1>4 DEF StoreTypeOK
<1>7. BodyKept' /\ LedgerWellFormed'
  BY <1>1, <1>3, <1>5 DEF BodyKept, HasRow, NoRow, LedgerWellFormed, StoreTypeOK, QuotaRows
<1>8. RetainedExact' /\ NothingLost' /\ WithinCapacity' /\ Retained' = Retained
  BY <1>1, <1>3, <1>5, BodiesUntouched
<1>9. ReservationMatches' /\ WithinBudget'
  BY <1>1, <1>3, <1>5, LedgerUntouched
<1>a. SenderKnown' /\ OneMailboxPerMessage'
  <2>1. \A n \in Retained' : messages'[n].accepted_for \in {NoSender, settings'.sender}
    BY <1>1, <1>3, <1>5, AcceptedForKept
  <2> QED
    BY <1>1, <1>3, <1>5, <1>8, <2>1
       DEF SenderKnown, OneMailboxPerMessage, StoreTypeOK, QuotaRows
<1> QED
  BY <1>6, <1>7, <1>8, <1>9, <1>a

(* A claimed mail is reserved within the budget of the mailbox in use.         *)
LEMMA ClaimTakesKeeps ==
    ASSUME StoreInv, NEW m \in Messages, ClaimTakes(m)
    PROVE  StoreInv'
<1> DEFINE row == Attempted(messages[m])
           r == Reservation(m)
<1> USE DEF StoreInv
<1>1. /\ counters' = counters /\ settings' = settings /\ acks' = acks
      /\ up' = up /\ healthy' = healthy /\ now' = now
      /\ messages[m].status \in {"queued", "retry"} /\ ~OverBudget(m) /\ up
      /\ quota' = quota \cup {r}
  BY DEF ClaimTakes, Claimable, Heads, Ready
<1>2. messages[m] \in Rows /\ now \in Nat /\ settings.sender \in Mailboxes
  BY <1>1 DEF StoreTypeOK, SenderKnown
<1>3. /\ row \in Rows /\ row.status = "sending" /\ row.mime = messages[m].mime
      /\ row.accepted_for = messages[m].accepted_for
  <2> DEFINE old == messages[m]
             k == old.attempts + 1
  <2>1. old \in Rows /\ k \in Nat
    BY <1>2 DEF Rows
  <2>2. row = [old EXCEPT !.status = "sending", !.attempts = k, !.updated = now]
    BY DEF Attempted
  <2> HIDE DEF old, k, row
  <2>3. /\ row \in Rows /\ row.status = "sending" /\ row.mime = old.mime
        /\ row.accepted_for = old.accepted_for
    BY <1>2, <2>1, <2>2 DEF Rows, Statuses
  <2> QED  BY <2>3 DEF old
<1>4. messages' = [messages EXCEPT ![m] = row]
  BY DEF ClaimTakes
<1>5. FreshId \in Nat /\ \A q \in quota : q.id # FreshId
  BY FreshIdIsFresh DEF StoreTypeOK
<1>6. /\ r \in QuotaRows /\ r.msg = m /\ r.state = "reserved" /\ r.at = now
      /\ r.mailbox = settings.sender /\ \A q \in quota : q.id # r.id
  BY <1>2, <1>5 DEF Reservation, QuotaRows
<1> HIDE DEF row, r
<1>7. \A n \in Messages : messages'[n] = IF n = m THEN row ELSE messages[n]
  BY <1>4 DEF StoreTypeOK
<1>8. StoreTypeOK'
  <2>1. IsFiniteSet(quota')
    BY <1>1, FS_AddElement DEF StoreTypeOK
  <2> QED  BY <1>1, <1>3, <1>4, <1>6, <2>1 DEF StoreTypeOK
<1>9. BodyKept' /\ LedgerWellFormed'
  <2>1. BodyKept'
    BY <1>1, <1>3, <1>7 DEF BodyKept, HasRow, NoRow
  <2>2. \A p, q \in quota' : p.id = q.id => p = q
    BY <1>1, <1>6 DEF LedgerWellFormed
  <2>3. \A q \in quota' : messages'[q.msg].status # "absent"
    BY <1>1, <1>3, <1>6, <1>7 DEF LedgerWellFormed, StoreTypeOK, QuotaRows
  <2> QED  BY <2>1, <2>2, <2>3 DEF LedgerWellFormed
<1>a. RetainedExact' /\ NothingLost' /\ WithinCapacity' /\ Retained' = Retained
  BY <1>1, <1>3, <1>7, BodiesUntouched
<1>b. ReservationMatches'
  <2> SUFFICES ASSUME NEW n \in Messages
               PROVE  Cardinality(Reserved(n)') = IF messages'[n].status = "sending" THEN 1 ELSE 0
    BY DEF ReservationMatches, Reserved
  <2>1. CASE n = m
    <3>1. Reserved(m) \in SUBSET quota /\ Cardinality(Reserved(m)) = 0
      BY <1>1 DEF ReservationMatches, Reserved
    <3>2. Reserved(m) = {}
      BY <3>1, FS_Subset, FS_EmptySet DEF StoreTypeOK
    <3>3. Reserved(m)' = {r}
      BY <1>1, <1>6, <3>2 DEF Reserved
    <3> QED  BY <1>3, <1>7, <2>1, <3>3, FS_Singleton
  <2>2. CASE n # m
    <3>1. Reserved(n)' = Reserved(n)
      BY <1>1, <1>6, <2>2 DEF Reserved
    <3> QED  BY <1>7, <2>2, <3>1 DEF ReservationMatches
  <2> QED  BY <2>1, <2>2
<1>c. WithinBudget'
  <2> SUFFICES ASSUME RecipientLimit # 0, NEW mb \in Mailboxes
               PROVE  Weight(InWindow(mb)') <= RecipientLimit
    BY DEF WithinBudget, Used, Weight, Units
  <2>1. InWindow(mb) \in SUBSET QuotaRows /\ IsFiniteSet(InWindow(mb))
    <3>1. InWindow(mb) \in SUBSET quota
      BY DEF InWindow
    <3> QED  BY <3>1, FS_Subset DEF StoreTypeOK
  <2>2. CASE mb = settings.sender
    <3>1. InWindow(mb)' = InWindow(mb) \cup {r} \/ InWindow(mb)' = InWindow(mb)
      BY <1>1, <1>6, <2>2 DEF InWindow
    <3>2. /\ Weight(InWindow(mb) \cup {r}) \in Nat /\ Weight(InWindow(mb)) \in Nat
          /\ Weight(InWindow(mb) \cup {r}) <= Weight(InWindow(mb)) + Recipients[r.msg]
      BY <1>6, <2>1, WeightOfOneMore
    <3>3. Weight(InWindow(mb)) + Recipients[m] <= RecipientLimit
      <4>1. ~(Weight(InWindow(mb)) + Recipients[m] > RecipientLimit)
        BY <1>1, <2>2 DEF OverBudget, Used
      <4>2. Recipients[m] \in Nat
        BY StoreAssumption
      <4> QED  BY <3>2, <4>1, <4>2, StoreAssumption
    <3>4. Recipients[r.msg] = Recipients[m] /\ Recipients[m] \in Nat
      BY <1>6, StoreAssumption
    <3> DEFINE w == Weight(InWindow(mb))
               w1 == Weight(InWindow(mb) \cup {r})
               k == Recipients[m]
    <3>5. w \in Nat /\ w1 \in Nat /\ k \in Nat /\ w1 <= w + k /\ w + k <= RecipientLimit
      BY <3>2, <3>3, <3>4
    <3>6. w <= RecipientLimit /\ w1 <= RecipientLimit
      <4> HIDE DEF w, w1, k
      <4> QED  BY <3>5, StoreAssumption
    <3> QED  BY <3>1, <3>6
  <2>3. CASE mb # settings.sender
    <3>1. InWindow(mb)' = InWindow(mb)
      BY <1>1, <1>6, <2>3 DEF InWindow
    <3> QED  BY <3>1 DEF WithinBudget, Used
  <2> QED  BY <2>2, <2>3
<1>d. SenderKnown' /\ OneMailboxPerMessage'
  <2>1. SenderKnown'
    BY <1>1, <1>a DEF SenderKnown
  <2>2. ASSUME NEW q \in quota', messages'[q.msg].mime  PROVE q.mailbox \in {NoSender, settings'.sender}
    <3>1. CASE q = r
      BY <1>1, <1>6, <3>1
    <3>2. CASE q \in quota
      BY <1>1, <1>3, <1>7, <2>2, <3>2 DEF OneMailboxPerMessage, StoreTypeOK, QuotaRows
    <3> QED  BY <1>1, <3>1, <3>2
  <2>3. \A n \in Retained' : messages'[n].accepted_for \in {NoSender, settings'.sender}
    BY <1>1, <1>3, <1>7, AcceptedForKept
  <2> QED  BY <2>1, <2>2, <2>3 DEF OneMailboxPerMessage
<1> QED
  BY <1>8, <1>9, <1>a, <1>b, <1>c, <1>d

(* Time passing, results and purges only take rows out of a window: every row  *)
(* of the new ledger stands for an old one that counted as much.               *)
LEMMA LedgerShrinks ==
    ASSUME StoreTypeOK, WithinBudget, now' \in Nat, now' >= now,
           \A p \in quota' : \E q \in quota :
               p.id = q.id /\ p.msg = q.msg /\ p.mailbox = q.mailbox /\ p.at = q.at
    PROVE  WithinBudget'
<1>1. ASSUME NEW mb \in Mailboxes, NEW p \in InWindow(mb)'
      PROVE  \E q \in InWindow(mb) : p.id = q.id /\ p.msg = q.msg
  <2>1. p \in quota' /\ p.mailbox = mb /\ p.at > now' - Window
    BY <1>1 DEF InWindow
  <2>2. PICK q \in quota :
          p.id = q.id /\ p.msg = q.msg /\ p.mailbox = q.mailbox /\ p.at = q.at
    BY <2>1
  <2>3. q.at \in Nat /\ now \in Nat /\ Window \in Nat
    BY StoreAssumption DEF StoreTypeOK, QuotaRows
  <2>4. q.at > now - Window
    BY <2>1, <2>2, <2>3
  <2> QED  BY <2>1, <2>2, <2>4 DEF InWindow
<1>2. \A mb \in Mailboxes : Units(InWindow(mb)') \subseteq Units(InWindow(mb))
  <2> SUFFICES ASSUME NEW mb \in Mailboxes, NEW p \in InWindow(mb)'
               PROVE  {p.id} \X (1..Recipients[p.msg]) \subseteq Units(InWindow(mb))
    BY DEF Units
  <2>1. PICK q \in InWindow(mb) : p.id = q.id /\ p.msg = q.msg
    BY <1>1
  <2> QED  BY <2>1 DEF Units
<1> QED
  BY <1>2, BudgetKept

(* Marking rows as counted leaves finitely many of them.                       *)
LEMMA MarkedFinite ==
    ASSUME NEW Q, IsFiniteSet(Q)
    PROVE  IsFiniteSet({[q EXCEPT !.state = "counted"] : q \in Q})
<1> DEFINE T == {[q EXCEPT !.state = "counted"] : q \in Q}
           f == [q \in Q |-> [q EXCEPT !.state = "counted"]]
<1>1. f \in Surjection(Q, T)
  BY DEF Surjection
<1>2. IsFiniteSet(T)
  <2> HIDE DEF T, f
  <2> QED  BY <1>1, FS_Surjection
<1> QED
  BY <1>2

LEMMA MarkedRow ==
    ASSUME NEW q \in QuotaRows
    PROVE  LET p == [q EXCEPT !.state = "counted"] IN
           /\ p \in QuotaRows /\ p.state = "counted"
           /\ p.id = q.id /\ p.msg = q.msg /\ p.mailbox = q.mailbox /\ p.at = q.at
  BY DEF QuotaRows

(* A mail leaves the queue: the counters of what is held follow.               *)
LEMMA ReleaseKeeps ==
    ASSUME StoreInv, NEW m \in Retained, NEW total \in {"submitted", "cancelled"},
           Retained' = Retained \ {m}, counters' = Releases(m, total)
    PROVE  /\ counters' \in [accepted : Nat, submitted : Nat, cancelled : Nat,
                             retained_messages : Nat, retained_bytes : Nat]
           /\ RetainedExact' /\ NothingLost' /\ WithinCapacity'
<1> DEFINE c == Cardinality(Retained)
           b == Bytes(Retained)
           c1 == Cardinality(Retained \ {m})
           b1 == Bytes(Retained \ {m})
           k == Size[m]
<1> USE DEF StoreInv
<1>1. m \in Messages /\ k \in Nat
  BY Numbers DEF Retained
<1>2. c \in Nat /\ b \in Nat /\ Retained \in SUBSET Messages
  BY RetainedNumbers
<1>3. c1 = c - 1 /\ c1 \in Nat /\ b1 = b - k /\ b1 \in Nat
  BY <1>2, TakeOneAway
<1>4. Cardinality(Retained)' = c1 /\ Bytes(Retained)' = b1
  BY DEF Bytes, Octets
<1>5. /\ counters \in [accepted : Nat, submitted : Nat, cancelled : Nat,
                       retained_messages : Nat, retained_bytes : Nat]
      /\ counters.retained_messages = c /\ counters.retained_bytes = b
      /\ counters.accepted = c + counters.submitted + counters.cancelled
      /\ c <= MaxMessages /\ b <= MaxBytes
  BY DEF StoreTypeOK, RetainedExact, NothingLost, WithinCapacity
<1>6. counters' = [counters EXCEPT ![total] = counters[total] + 1,
                                   !.retained_messages = counters.retained_messages - 1,
                                   !.retained_bytes = counters.retained_bytes - k]
  BY DEF Releases
<1> HIDE DEF c, b, c1, b1, k
<1>7. counters' = IF total = "submitted"
                  THEN [accepted |-> counters.accepted, submitted |-> counters.submitted + 1,
                        cancelled |-> counters.cancelled,
                        retained_messages |-> counters.retained_messages - 1,
                        retained_bytes |-> counters.retained_bytes - k]
                  ELSE [accepted |-> counters.accepted, submitted |-> counters.submitted,
                        cancelled |-> counters.cancelled + 1,
                        retained_messages |-> counters.retained_messages - 1,
                        retained_bytes |-> counters.retained_bytes - k]
  BY <1>5, <1>6
<1>8. /\ counters.submitted + 1 \in Nat /\ counters.cancelled + 1 \in Nat
      /\ counters.retained_messages - 1 = c1 /\ counters.retained_bytes - k = b1
  BY <1>3, <1>5
<1>9. counters' \in [accepted : Nat, submitted : Nat, cancelled : Nat,
                     retained_messages : Nat, retained_bytes : Nat]
  BY <1>3, <1>5, <1>7, <1>8
<1>10. /\ counters'.retained_messages = c1 /\ counters'.retained_bytes = b1
       /\ counters'.accepted = counters.accepted
       /\ \/ /\ counters'.submitted = counters.submitted + 1
             /\ counters'.cancelled = counters.cancelled
          \/ /\ counters'.submitted = counters.submitted
             /\ counters'.cancelled = counters.cancelled + 1
  BY <1>7, <1>8
<1>11. RetainedExact'
  BY <1>4, <1>10 DEF RetainedExact
<1>12. NothingLost'
  <2> DEFINE a == counters.accepted
             s == counters.submitted
             x == counters.cancelled
  <2>1. a \in Nat /\ s \in Nat /\ x \in Nat /\ a = c + s + x
    BY <1>5
  <2>2. /\ counters'.accepted = a
        /\ \/ counters'.submitted = s + 1 /\ counters'.cancelled = x
           \/ counters'.submitted = s /\ counters'.cancelled = x + 1
    BY <1>10
  <2> HIDE DEF a, s, x
  <2>3. counters'.accepted = c1 + counters'.submitted + counters'.cancelled
    BY <1>2, <1>3, <2>1, <2>2 DEF c
  <2> QED  BY <1>4, <2>3 DEF NothingLost
<1>13. WithinCapacity'
  <2>1. c1 <= MaxMessages /\ b1 <= MaxBytes
    BY <1>1, <1>3, <1>5, <1>2, StoreAssumption DEF c, b
  <2> QED  BY <1>4, <2>1 DEF WithinCapacity
<1> QED
  BY <1>9, <1>11, <1>12, <1>13

(* The rows a result leaves in the ledger.                                     *)
LEMMA SettledRows ==
    ASSUME StoreTypeOK, LedgerWellFormed, NEW m \in Messages, NEW status,
           NEW Q, Q = Settled(m, status)
    PROVE  /\ Q \subseteq QuotaRows /\ IsFiniteSet(Q)
           /\ \A p \in Q : \E q \in quota :
                  /\ p.id = q.id /\ p.msg = q.msg /\ p.mailbox = q.mailbox /\ p.at = q.at
                  /\ p = q \/ (p = [q EXCEPT !.state = "counted"] /\ q.msg = m)
           /\ \A p1, p2 \in Q : p1.id = p2.id => p1 = p2
           /\ \A p \in Q : p.state = "reserved" => p \in quota /\ p.msg # m
           /\ \A q \in quota : q.msg # m => q \in Q
<1> DEFINE R == Reserved(m)
           M == {[q EXCEPT !.state = "counted"] : q \in R}
<1>1. R \in SUBSET quota /\ quota \subseteq QuotaRows /\ IsFiniteSet(quota)
  BY DEF Reserved, StoreTypeOK
<1>2. IsFiniteSet(R) /\ IsFiniteSet(quota \ R)
  BY <1>1, FS_Subset
<1>3. IsFiniteSet(M)
  BY <1>2, MarkedFinite
<1>4. IsFiniteSet((quota \ R) \cup M)
  BY <1>2, <1>3, FS_Union
<1>5. \A q \in R : /\ q \in quota /\ q.msg = m
                   /\ LET p == [q EXCEPT !.state = "counted"] IN
                      /\ p \in QuotaRows /\ p.state = "counted"
                      /\ p.id = q.id /\ p.msg = q.msg /\ p.mailbox = q.mailbox /\ p.at = q.at
  BY <1>1, MarkedRow DEF Reserved
<1>6. Q = quota \ R \/ Q = (quota \ R) \cup M
  BY DEF Settled
<1>7. \A q \in quota \ R : ~(q.msg = m /\ q.state = "reserved")
  BY DEF Reserved
<1> HIDE DEF R
<1>8. Q \subseteq QuotaRows /\ IsFiniteSet(Q)
  BY <1>1, <1>2, <1>4, <1>5, <1>6
<1>9. \A p \in Q : \E q \in quota :
          /\ p.id = q.id /\ p.msg = q.msg /\ p.mailbox = q.mailbox /\ p.at = q.at
          /\ \/ p = q /\ q \notin R
             \/ p = [q EXCEPT !.state = "counted"] /\ q \in R
  <2> SUFFICES ASSUME NEW p \in Q
               PROVE  \E q \in quota :
                          /\ p.id = q.id /\ p.msg = q.msg /\ p.mailbox = q.mailbox /\ p.at = q.at
                          /\ \/ p = q /\ q \notin R
                             \/ p = [q EXCEPT !.state = "counted"] /\ q \in R
    OBVIOUS
  <2>1. CASE p \in quota \ R
    BY <2>1
  <2>2. CASE p \in M
    <3>1. PICK q \in R : p = [q EXCEPT !.state = "counted"]
      BY <2>2
    <3> QED  BY <1>5, <3>1
  <2> QED  BY <1>6, <2>1, <2>2
<1>10. \A p1, p2 \in Q : p1.id = p2.id => p1 = p2
  <2> SUFFICES ASSUME NEW p1 \in Q, NEW p2 \in Q, p1.id = p2.id
               PROVE  p1 = p2
    OBVIOUS
  <2>1. PICK q1 \in quota : /\ p1.id = q1.id
                            /\ \/ p1 = q1 /\ q1 \notin R
                               \/ p1 = [q1 EXCEPT !.state = "counted"] /\ q1 \in R
    BY <1>9
  <2>2. PICK q2 \in quota : /\ p2.id = q2.id
                            /\ \/ p2 = q2 /\ q2 \notin R
                               \/ p2 = [q2 EXCEPT !.state = "counted"] /\ q2 \in R
    BY <1>9
  <2>3. q1 = q2
    BY <2>1, <2>2 DEF LedgerWellFormed
  <2> QED  BY <2>1, <2>2, <2>3
<1>11. \A p \in Q : p.state = "reserved" => p \in quota /\ p.msg # m
  BY <1>5, <1>6, <1>7
<1>12. \A q \in quota : q.msg # m => q \in Q
  BY <1>5, <1>6
<1> QED
  BY <1>5, <1>8, <1>9, <1>10, <1>11, <1>12

(* The row a result leaves.                                                    *)
LEMMA FinishedRow ==
    ASSUME NEW row \in Rows, NEW status \in Results, NEW delay \in Nat, now \in Nat,
           row.status = "sending", row.mime
    PROVE  LET new == Finished(row, status, delay) IN
           /\ new \in Rows /\ new.status = status /\ (new.mime <=> status # "submitted")
           /\ new.mime => new.accepted_for = row.accepted_for
<1> DEFINE k == now + delay
           b == row.mime /\ status # "submitted"
           a == IF status = "submitted" THEN NoSender ELSE row.accepted_for
<1>1. k \in Nat /\ b \in BOOLEAN /\ (b <=> status # "submitted")
      /\ a \in Mailboxes \cup {NoSender} /\ (b => a = row.accepted_for)
  BY DEF Rows
<1>2. Finished(row, status, delay)
        = [row EXCEPT !.status = status, !.updated = now, !.next_attempt = k, !.mime = b,
                 !.accepted_for = a]
  BY DEF Finished
<1> HIDE DEF k, b, a
<1> QED
  BY <1>1, <1>2 DEF Rows, Statuses, Results

(* The end of an attempt gives back or settles exactly its own reservation.    *)
LEMMA FinishKeeps ==
    ASSUME StoreInv, NEW m \in Messages, NEW status \in Results, NEW delay \in Delays \cup {0},
           NEW gc \in BOOLEAN, Finish(m, status, delay, gc)
    PROVE  StoreInv'
<1> DEFINE row == Finished(messages[m], status, delay)
<1> USE DEF StoreInv
<1>1. /\ acks' = acks /\ up' = up /\ healthy' = healthy /\ now' = now
      /\ messages[m].status = "sending" /\ messages[m].mime
      /\ quota' = Settled(m, status)
  BY DEF Finish, CanFinish, BodyKept, HasRow, NoRow
<1>2. messages[m] \in Rows /\ now \in Nat /\ delay \in Nat
  BY StoreAssumption DEF StoreTypeOK
<1>3. row \in Rows /\ row.status = status /\ (row.mime <=> status # "submitted")
      /\ (row.mime => row.accepted_for = messages[m].accepted_for)
  BY <1>1, <1>2, FinishedRow
<1>4. messages' = [messages EXCEPT ![m] = row]
  BY DEF Finish
<1> HIDE DEF row
<1>5. \A n \in Messages : messages'[n] = IF n = m THEN row ELSE messages[n]
  BY <1>4 DEF StoreTypeOK
<1>6. settings' \in [paused : BOOLEAN, cooldown_until : Nat, sender : Mailboxes \cup {NoSender}]
      /\ settings'.sender = settings.sender
  <2> DEFINE t == Later(now + delay)
  <2>1. t \in Nat
    BY <1>2 DEF Later, StoreTypeOK
  <2>2. settings' = settings \/ settings' = [settings EXCEPT !.cooldown_until = t]
    BY DEF Finish
  <2> HIDE DEF t
  <2> QED  BY <2>1, <2>2 DEF StoreTypeOK
<1>7. /\ counters' \in [accepted : Nat, submitted : Nat, cancelled : Nat,
                        retained_messages : Nat, retained_bytes : Nat]
      /\ RetainedExact' /\ NothingLost' /\ WithinCapacity'
      /\ Retained' \subseteq Retained
  <2>1. CASE status = "submitted"
    <3>1. m \in Retained /\ Retained' = Retained \ {m}
      BY <1>1, <1>3, <1>5, <2>1 DEF Retained
    <3>2. counters' = Releases(m, "submitted")
      BY <2>1 DEF Finish
    <3> QED  BY <3>1, <3>2, ReleaseKeeps
  <2>2. CASE status # "submitted"
    <3>1. counters' = counters /\ \A n \in Messages : messages'[n].mime <=> messages[n].mime
      BY <1>1, <1>3, <1>5, <2>2 DEF Finish
    <3>2. Retained' = Retained
      BY <3>1 DEF Retained
    <3>3. Bytes(Retained)' = Bytes(Retained)
      BY <3>2 DEF Bytes, Octets
    <3> QED
      BY <3>1, <3>2, <3>3 DEF StoreTypeOK, RetainedExact, NothingLost, WithinCapacity
  <2> QED  BY <2>1, <2>2
<1>8. /\ quota' \subseteq QuotaRows /\ IsFiniteSet(quota')
      /\ \A p \in quota' : \E q \in quota :
             /\ p.id = q.id /\ p.msg = q.msg /\ p.mailbox = q.mailbox /\ p.at = q.at
             /\ p = q \/ (p = [q EXCEPT !.state = "counted"] /\ q.msg = m)
      /\ \A p1, p2 \in quota' : p1.id = p2.id => p1 = p2
      /\ \A p \in quota' : p.state = "reserved" => p \in quota /\ p.msg # m
      /\ \A q \in quota : q.msg # m => q \in quota'
  BY <1>1, SettledRows
<1>9. StoreTypeOK'
  BY <1>1, <1>3, <1>4, <1>6, <1>7, <1>8 DEF StoreTypeOK
<1>10. BodyKept' /\ LedgerWellFormed'
  <2>1. BodyKept'
    BY <1>1, <1>3, <1>5 DEF BodyKept, HasRow, NoRow, Results
  <2>2. \A p \in quota' : messages'[p.msg].status # "absent"
    BY <1>3, <1>5, <1>8 DEF LedgerWellFormed, StoreTypeOK, QuotaRows, Results
  <2> QED  BY <1>8, <2>1, <2>2 DEF LedgerWellFormed
<1>11. ReservationMatches'
  <2> SUFFICES ASSUME NEW n \in Messages
               PROVE  Cardinality(Reserved(n)') = IF messages'[n].status = "sending" THEN 1 ELSE 0
    BY DEF ReservationMatches, Reserved
  <2>1. CASE n = m
    <3>1. Reserved(n)' = {}
      BY <1>8, <2>1 DEF Reserved
    <3>2. messages'[n].status # "sending"
      BY <1>3, <1>5, <2>1 DEF Results
    <3> QED  BY <3>1, <3>2, FS_EmptySet
  <2>2. CASE n # m
    <3>1. Reserved(n)' = Reserved(n)
      BY <1>8, <2>2 DEF Reserved
    <3> QED  BY <1>5, <2>2, <3>1 DEF ReservationMatches
  <2> QED  BY <2>1, <2>2
<1>12. WithinBudget'
  BY <1>1, <1>2, <1>8, LedgerShrinks
<1>13. SenderKnown' /\ OneMailboxPerMessage'
  <2>1. SenderKnown'
    BY <1>1, <1>6, <1>7 DEF SenderKnown
  <2>2. ASSUME NEW p \in quota', messages'[p.msg].mime  PROVE p.mailbox \in {NoSender, settings'.sender}
    <3>1. PICK q \in quota : p.msg = q.msg /\ p.mailbox = q.mailbox
      BY <1>8
    <3>2. messages[q.msg].mime
      BY <1>1, <1>5, <2>2, <3>1 DEF StoreTypeOK, QuotaRows
    <3> QED  BY <1>6, <3>1, <3>2 DEF OneMailboxPerMessage
  <2>3. \A n \in Retained' : messages'[n].accepted_for \in {NoSender, settings'.sender}
    BY <1>1, <1>3, <1>5, <1>6, AcceptedForKept
  <2> QED  BY <2>1, <2>2, <2>3 DEF OneMailboxPerMessage
<1> QED
  BY <1>7, <1>9, <1>10, <1>11, <1>12, <1>13

(* A retried mail starts over, with the body and the ledger it has.            *)
LEMMA RetryKeeps ==
    ASSUME StoreInv, NEW m \in Messages, NEW ack \in BOOLEAN, Retry(m, ack)
    PROVE  StoreInv'
<1> DEFINE row == Requeued(messages[m])
<1> USE DEF StoreInv
<1>1. /\ quota' = quota /\ counters' = counters /\ settings' = settings
      /\ up' = up /\ healthy' = healthy /\ now' = now
      /\ messages[m].status \in {"queued", "retry", "failed", "uncertain"}
  BY DEF Retry, Changeable, HasRow, NoRow, StoreTypeOK, Rows, Statuses
<1>2. messages[m] \in Rows /\ now \in Nat
  BY DEF StoreTypeOK
<1>3. /\ row \in Rows /\ row.status = "queued" /\ row.mime = messages[m].mime
      /\ row.accepted_for = messages[m].accepted_for
  BY <1>2 DEF Requeued, Rows, Statuses
<1>4. messages' = [messages EXCEPT ![m] = row]
  BY DEF Retry
<1> HIDE DEF row
<1>5. \A n \in Messages : messages'[n] = IF n = m THEN row ELSE messages[n]
  BY <1>4 DEF StoreTypeOK
<1>6. acks' \in [Messages -> 0..MaxAcks]
  <2> DEFINE k == acks[m] + 1
  <2>1. acks \in [Messages -> 0..MaxAcks] /\ k \in Nat
    BY StoreAssumption DEF StoreTypeOK
  <2>2. acks' = acks \/ acks' = [acks EXCEPT ![m] = k]
    BY DEF Retry
  <2>3. acks'[m] <= MaxAcks
    BY DEF Retry
  <2> HIDE DEF k
  <2> QED  BY <2>1, <2>2, <2>3, StoreAssumption
<1>7. StoreTypeOK'
  BY <1>1, <1>3, <1>4, <1>6 DEF StoreTypeOK
<1>8. BodyKept' /\ LedgerWellFormed'
  BY <1>1, <1>3, <1>5 DEF BodyKept, HasRow, NoRow, LedgerWellFormed, StoreTypeOK, QuotaRows
<1>9. RetainedExact' /\ NothingLost' /\ WithinCapacity' /\ Retained' = Retained
  BY <1>1, <1>3, <1>5, BodiesUntouched
<1>10. ReservationMatches' /\ WithinBudget'
  BY <1>1, <1>3, <1>5, LedgerUntouched
<1>11. SenderKnown' /\ OneMailboxPerMessage'
  <2>1. \A n \in Retained' : messages'[n].accepted_for \in {NoSender, settings'.sender}
    BY <1>1, <1>3, <1>5, AcceptedForKept
  <2> QED
    BY <1>1, <1>3, <1>5, <1>9, <2>1
       DEF SenderKnown, OneMailboxPerMessage, StoreTypeOK, QuotaRows
<1> QED
  BY <1>7, <1>8, <1>9, <1>10, <1>11

(* A cancelled mail is given up, with its body and its place.                  *)
LEMMA CancelKeeps ==
    ASSUME StoreInv, NEW m \in Messages, Cancel(m)
    PROVE  StoreInv'
<1> DEFINE row == Cancelled(messages[m])
<1> USE DEF StoreInv
<1>1. /\ quota' = quota /\ settings' = settings /\ acks' = acks
      /\ up' = up /\ healthy' = healthy /\ now' = now
      /\ messages[m].status \in {"queued", "retry", "failed", "uncertain"}
      /\ messages[m].mime
  BY DEF Cancel, Changeable, HasRow, NoRow, StoreTypeOK, Rows, Statuses, BodyKept
<1>2. messages[m] \in Rows /\ now \in Nat
  BY DEF StoreTypeOK
<1>3. row \in Rows /\ row.status = "cancelled" /\ row.mime = FALSE
  BY <1>2 DEF Cancelled, Rows, Statuses
<1>4. messages' = [messages EXCEPT ![m] = row]
  BY DEF Cancel
<1> HIDE DEF row
<1>5. \A n \in Messages : messages'[n] = IF n = m THEN row ELSE messages[n]
  BY <1>4 DEF StoreTypeOK
<1>6. m \in Retained /\ Retained' = Retained \ {m}
  BY <1>1, <1>3, <1>5 DEF Retained
<1>7. /\ counters' \in [accepted : Nat, submitted : Nat, cancelled : Nat,
                        retained_messages : Nat, retained_bytes : Nat]
      /\ RetainedExact' /\ NothingLost' /\ WithinCapacity'
  BY <1>6, ReleaseKeeps DEF Cancel
<1>8. StoreTypeOK'
  BY <1>1, <1>3, <1>4, <1>7 DEF StoreTypeOK
<1>9. BodyKept' /\ LedgerWellFormed'
  BY <1>1, <1>3, <1>5 DEF BodyKept, HasRow, NoRow, LedgerWellFormed, StoreTypeOK, QuotaRows
<1>10. ReservationMatches' /\ WithinBudget'
  BY <1>1, <1>3, <1>5, LedgerUntouched
<1>11. SenderKnown' /\ OneMailboxPerMessage'
  <2>1. \A n \in Retained' : messages'[n].accepted_for \in {NoSender, settings'.sender}
    BY <1>1, <1>3, <1>5, AcceptedForKept
  <2> QED
    BY <1>1, <1>3, <1>5, <1>6, <2>1
       DEF SenderKnown, OneMailboxPerMessage, StoreTypeOK, QuotaRows
<1> QED
  BY <1>7, <1>8, <1>9, <1>10, <1>11

(* Purging takes rows without a body and settled rows of old windows.          *)
LEMMA HousekeepingKeeps ==
    ASSUME StoreInv, Housekeeping
    PROVE  StoreInv'
<1> USE DEF StoreInv
<1>1. /\ counters' = counters /\ settings' = settings /\ acks' = acks
      /\ up' = up /\ healthy' = healthy /\ now' = now
      /\ quota' = {q \in quota : ~Forgettable(q)}
      /\ messages' = [n \in Messages |-> IF Purgeable(n) THEN Blank("purged") ELSE messages[n]]
  BY DEF Housekeeping
<1>2. /\ Blank("purged") \in Rows /\ Blank("purged").status = "purged"
      /\ Blank("purged").mime = FALSE
  BY DEF Blank, Rows, NoRow
<1>3. \A n \in Messages : messages'[n] = IF Purgeable(n) THEN Blank("purged") ELSE messages[n]
  BY <1>1
<1>4. \A n \in Messages : Purgeable(n) => /\ messages[n].status \in {"submitted", "cancelled"}
                                          /\ ~messages[n].mime /\ messages[n].mime \in BOOLEAN
  BY DEF Purgeable, BodyKept, StoreTypeOK, Rows
<1>5. quota' \in SUBSET quota /\ IsFiniteSet(quota')
  <2>1. quota' \in SUBSET quota
    BY <1>1
  <2> QED  BY <2>1, FS_Subset DEF StoreTypeOK
<1>6. StoreTypeOK'
  BY <1>1, <1>2, <1>5 DEF StoreTypeOK
<1>7. BodyKept' /\ LedgerWellFormed'
  BY <1>2, <1>3, <1>4, <1>5
     DEF BodyKept, HasRow, NoRow, LedgerWellFormed, StoreTypeOK, QuotaRows
<1>8. RetainedExact' /\ NothingLost' /\ WithinCapacity' /\ Retained' = Retained
  BY <1>1, <1>2, <1>3, <1>4, BodiesUntouched
<1>9. ReservationMatches'
  <2> SUFFICES ASSUME NEW n \in Messages
               PROVE  Cardinality(Reserved(n)') = IF messages'[n].status = "sending" THEN 1 ELSE 0
    BY DEF ReservationMatches, Reserved
  <2>1. Reserved(n)' = Reserved(n)
    BY <1>1 DEF Reserved, Forgettable
  <2>2. messages'[n].status = "sending" <=> messages[n].status = "sending"
    BY <1>2, <1>3, <1>4
  <2> QED  BY <2>1, <2>2 DEF ReservationMatches
<1>10. WithinBudget'
  BY <1>1, <1>5, LedgerShrinks DEF StoreTypeOK
<1>11. SenderKnown' /\ OneMailboxPerMessage'
  <2>1. SenderKnown'
    BY <1>1, <1>8 DEF SenderKnown
  <2>2. \A n \in Retained' : messages'[n].accepted_for \in {NoSender, settings'.sender}
    BY <1>1, <1>2, <1>3, AcceptedForKept
  <2> QED
    BY <1>1, <1>2, <1>3, <1>5, <2>1, <2>2 DEF OneMailboxPerMessage, StoreTypeOK, QuotaRows
<1> QED
  BY <1>6, <1>7, <1>8, <1>9, <1>10, <1>11

(* A restart keeps what is held, whatever the interrupted attempts did, and    *)
(* changes the mailbox only of an empty queue.                                 *)
LEMMA OpenKeeps ==
    ASSUME StoreInv, NEW mb \in Mailboxes, Open(mb)
    PROVE  StoreInv'
<1> USE DEF StoreInv
<1>1. /\ acks' = acks /\ now' = now /\ up' = TRUE /\ healthy' = TRUE
      /\ messages' = [n \in Messages |-> Recovered(messages[n])]
      /\ quota' = {[q EXCEPT !.state = "counted"] : q \in quota}
      /\ settings' = [settings EXCEPT !.sender = mb]
      /\ SenderAllowed(mb)
  BY DEF Open
<1>2. now \in Nat
  BY StoreAssumption DEF StoreTypeOK
<1>3. ASSUME NEW n \in Messages
      PROVE  /\ messages'[n] \in Rows /\ messages'[n].mime = messages[n].mime
             /\ messages'[n].accepted_for = messages[n].accepted_for
             /\ messages'[n].status # "sending"
             /\ \/ messages'[n].status = messages[n].status
                \/ messages[n].status = "sending" /\ messages'[n].status = "uncertain"
  <2> DEFINE row == messages[n]
  <2>1. row \in Rows /\ messages'[n] = Recovered(row)
    BY <1>1 DEF StoreTypeOK
  <2> HIDE DEF row
  <2>2. /\ Recovered(row) \in Rows /\ Recovered(row).mime = row.mime
        /\ Recovered(row).accepted_for = row.accepted_for
        /\ Recovered(row).status # "sending"
        /\ \/ Recovered(row).status = row.status
           \/ row.status = "sending" /\ Recovered(row).status = "uncertain"
    BY <1>2, <2>1 DEF Recovered, Rows, Statuses
  <2> QED  BY <2>1, <2>2 DEF row
<1>4. Retained' = Retained
  BY <1>3 DEF Retained
<1>5. /\ Cardinality(Retained)' = Cardinality(Retained) /\ Bytes(Retained)' = Bytes(Retained)
      /\ Cardinality(Retained) \in Nat /\ Bytes(Retained) \in Nat
  BY <1>4, RetainedNumbers DEF Bytes, Octets
<1>6. /\ counters'.accepted = counters.accepted /\ counters'.submitted = counters.submitted
      /\ counters'.cancelled = counters.cancelled
      /\ counters'.retained_messages = Cardinality(Retained)
      /\ counters'.retained_bytes = Bytes(Retained)
      /\ counters' \in [accepted : Nat, submitted : Nat, cancelled : Nat,
                        retained_messages : Nat, retained_bytes : Nat]
  <2> DEFINE c == Cardinality(Retained)
             b == Bytes(Retained)
  <2>1. counters' = [counters EXCEPT !.retained_messages = c, !.retained_bytes = b]
    BY DEF Open
  <2>2. c \in Nat /\ b \in Nat
    BY <1>5
  <2> HIDE DEF c, b
  <2>3. /\ counters'.accepted = counters.accepted /\ counters'.submitted = counters.submitted
        /\ counters'.cancelled = counters.cancelled
        /\ counters'.retained_messages = c /\ counters'.retained_bytes = b
        /\ counters' \in [accepted : Nat, submitted : Nat, cancelled : Nat,
                          retained_messages : Nat, retained_bytes : Nat]
    BY <2>1, <2>2 DEF StoreTypeOK
  <2> QED  BY <2>3 DEF c, b
<1>7. \A p \in quota' : \E q \in quota :
          /\ p = [q EXCEPT !.state = "counted"] /\ p \in QuotaRows /\ p.state = "counted"
          /\ p.id = q.id /\ p.msg = q.msg /\ p.mailbox = q.mailbox /\ p.at = q.at
  <2> TAKE p \in quota'
  <2>1. PICK q \in quota : p = [q EXCEPT !.state = "counted"]
    BY <1>1
  <2>2. q \in QuotaRows
    BY DEF StoreTypeOK
  <2> QED  BY <2>1, <2>2, MarkedRow
<1>8. StoreTypeOK'
  <2>1. messages' \in [Messages -> Rows]
    BY <1>1, <1>3
  <2>2. quota' \subseteq QuotaRows /\ IsFiniteSet(quota')
    BY <1>1, <1>7, MarkedFinite DEF StoreTypeOK
  <2>3. settings' \in [paused : BOOLEAN, cooldown_until : Nat, sender : Mailboxes \cup {NoSender}]
    BY <1>1 DEF StoreTypeOK
  <2> QED
    BY <1>1, <1>6, <2>1, <2>2, <2>3 DEF StoreTypeOK
<1>9. BodyKept' /\ LedgerWellFormed'
  <2>1. BodyKept'
    BY <1>3 DEF BodyKept, HasRow, NoRow
  <2>2. \A p1, p2 \in quota' : p1.id = p2.id => p1 = p2
    BY <1>7 DEF LedgerWellFormed
  <2>3. \A p \in quota' : messages'[p.msg].status # "absent"
    BY <1>3, <1>7 DEF LedgerWellFormed, StoreTypeOK, QuotaRows
  <2> QED  BY <2>1, <2>2, <2>3 DEF LedgerWellFormed
<1>10. RetainedExact' /\ NothingLost' /\ WithinCapacity'
  BY <1>5, <1>6 DEF RetainedExact, NothingLost, WithinCapacity
<1>11. ReservationMatches'
  <2>1. \A n \in Messages : Reserved(n)' = {}
    BY <1>7 DEF Reserved
  <2> QED  BY <1>3, <2>1, FS_EmptySet DEF ReservationMatches
<1>12. WithinBudget'
  BY <1>1, <1>2, <1>7, LedgerShrinks
<1>13. settings'.sender = mb
  BY <1>1 DEF StoreTypeOK
<1>14. SenderKnown'
  BY <1>13 DEF SenderKnown
<1>15. OneMailboxPerMessage'
  <2>1. Retained # {} => settings.sender \in {NoSender, mb}
    BY <1>1 DEF SenderAllowed
  <2>2. ASSUME NEW n \in Retained'  PROVE messages'[n].accepted_for \in {NoSender, mb}
    <3>1. n \in Retained /\ messages'[n].accepted_for = messages[n].accepted_for
      BY <1>3, <1>4, <2>2 DEF Retained
    <3> QED  BY <2>1, <3>1 DEF OneMailboxPerMessage
  <2>3. ASSUME NEW p \in quota', messages'[p.msg].mime  PROVE p.mailbox \in {NoSender, mb}
    <3>1. PICK q \in quota : p.msg = q.msg /\ p.mailbox = q.mailbox
      BY <1>7
    <3>2. q.msg \in Messages /\ messages[q.msg].mime
      BY <1>3, <2>3, <3>1 DEF StoreTypeOK, QuotaRows
    <3>3. settings.sender \in {NoSender, mb}
      BY <2>1, <3>2 DEF Retained
    <3> QED  BY <3>1, <3>2, <3>3 DEF OneMailboxPerMessage
  <2> QED  BY <1>13, <2>2, <2>3 DEF OneMailboxPerMessage
<1> QED
  BY <1>8, <1>9, <1>10, <1>11, <1>12, <1>14, <1>15

(* Pausing, the end of the process, a fault and time leave the tables alone.   *)
LEMMA RestKeeps ==
    ASSUME StoreInv,
           \/ \E b \in BOOLEAN : SetPaused(b)
           \/ Stop
           \/ Fault
           \/ Tick
           \/ UNCHANGED storeVars
    PROVE  StoreInv'
<1> USE DEF StoreInv
<1>1. /\ messages' = messages /\ quota' = quota /\ counters' = counters /\ acks' = acks
      /\ settings' \in [paused : BOOLEAN, cooldown_until : Nat, sender : Mailboxes \cup {NoSender}]
      /\ settings'.sender = settings.sender
      /\ up' \in BOOLEAN /\ healthy' \in BOOLEAN /\ (up' => up)
  <2>1. CASE \E b \in BOOLEAN : SetPaused(b)
    <3>1. /\ messages' = messages /\ quota' = quota /\ counters' = counters /\ acks' = acks
          /\ up' = up /\ healthy' = healthy
      BY <2>1 DEF SetPaused
    <3>2. /\ settings' \in [paused : BOOLEAN, cooldown_until : Nat,
                            sender : Mailboxes \cup {NoSender}]
          /\ settings'.sender = settings.sender
      BY <2>1 DEF SetPaused, StoreTypeOK
    <3> QED  BY <3>1, <3>2 DEF StoreTypeOK
  <2>2. CASE Stop \/ Fault \/ Tick \/ UNCHANGED storeVars
    <3>1. /\ messages' = messages /\ quota' = quota /\ counters' = counters /\ acks' = acks
          /\ settings' = settings /\ (up' = up \/ up' = FALSE)
          /\ (healthy' = healthy \/ healthy' = FALSE)
      BY <2>2 DEF Stop, Fault, Tick, storeVars
    <3>2. /\ settings' \in [paused : BOOLEAN, cooldown_until : Nat,
                            sender : Mailboxes \cup {NoSender}]
          /\ settings'.sender = settings.sender
      BY <3>1 DEF StoreTypeOK
    <3>3. up \in BOOLEAN /\ healthy \in BOOLEAN
      BY DEF StoreTypeOK
    <3>4. up' \in BOOLEAN /\ (up' => up)
      <4>1. CASE up' = up
        BY <3>3, <4>1
      <4>2. CASE up' = FALSE
        BY <4>2
      <4> QED  BY <3>1, <4>1, <4>2, Zenon
    <3>5. healthy' \in BOOLEAN
      BY <3>1, <3>3, Zenon
    <3> QED  BY <3>1, <3>2, <3>4, <3>5, Zenon
  <2> QED  BY <2>1, <2>2
<1>2. now' \in 0..MaxTime /\ now' >= now /\ now \in Nat
  BY StoreAssumption DEF StoreTypeOK, SetPaused, Stop, Fault, Tick, storeVars
<1>3. StoreTypeOK'
  BY <1>1, <1>2 DEF StoreTypeOK
<1>4. BodyKept' /\ LedgerWellFormed'
  BY <1>1 DEF BodyKept, HasRow, LedgerWellFormed
<1>5. RetainedExact' /\ NothingLost' /\ WithinCapacity' /\ Retained' = Retained
  BY <1>1, BodiesUntouched
<1>6. ReservationMatches'
  BY <1>1 DEF ReservationMatches, Reserved
<1>7. WithinBudget'
  BY <1>1, <1>2, LedgerShrinks
<1>8. SenderKnown' /\ OneMailboxPerMessage'
  <2>1. \A n \in Retained' : messages'[n].accepted_for \in {NoSender, settings'.sender}
    BY <1>1, AcceptedForKept
  <2> QED  BY <1>1, <1>5, <2>1 DEF SenderKnown, OneMailboxPerMessage
<1> QED
  BY <1>3, <1>4, <1>5, <1>6, <1>7, <1>8

(* A new database.                                                             *)
LEMMA InitKeeps ==
    ASSUME StoreInit
    PROVE  StoreInv
<1>1. Retained = {} /\ \A m : Reserved(m) = {} /\ \A mb : InWindow(mb) = {}
  BY DEF StoreInit, Retained, Blank, Reserved, InWindow
<1>2. Octets({}) = {} /\ Units({}) = {} /\ Cardinality({}) = 0 /\ IsFiniteSet({})
  BY FS_EmptySet DEF Octets, Units
<1>3. StoreTypeOK
  <2>1. Blank("absent") \in Rows
    BY DEF Blank, Rows, NoRow
  <2>2. messages \in [Messages -> Rows]
    BY <2>1 DEF StoreInit
  <2>3. /\ quota \subseteq QuotaRows /\ IsFiniteSet(quota)
        /\ up \in BOOLEAN /\ healthy \in BOOLEAN
    BY <1>2 DEF StoreInit
  <2>4. /\ counters \in [accepted : Nat, submitted : Nat, cancelled : Nat,
                         retained_messages : Nat, retained_bytes : Nat]
        /\ settings \in [paused : BOOLEAN, cooldown_until : Nat,
                         sender : Mailboxes \cup {NoSender}]
    BY DEF StoreInit
  <2>5. acks \in [Messages -> 0..MaxAcks] /\ now \in 0..MaxTime
    BY StoreAssumption DEF StoreInit
  <2> QED  BY <2>2, <2>3, <2>4, <2>5 DEF StoreTypeOK
<1>4. BodyKept /\ LedgerWellFormed /\ SenderKnown /\ OneMailboxPerMessage
  BY <1>1 DEF StoreInit, BodyKept, HasRow, NoRow, Blank, LedgerWellFormed, SenderKnown,
              OneMailboxPerMessage
<1>5. RetainedExact /\ NothingLost /\ WithinCapacity
  <2>1. Cardinality(Retained) = 0 /\ Bytes(Retained) = 0
    BY <1>1, <1>2 DEF Bytes
  <2>2. /\ counters.accepted = 0 /\ counters.submitted = 0 /\ counters.cancelled = 0
        /\ counters.retained_messages = 0 /\ counters.retained_bytes = 0
    BY DEF StoreInit
  <2>3. MaxMessages >= 0 /\ MaxBytes >= 0
    BY StoreAssumption
  <2> QED
    BY <2>1, <2>2, <2>3 DEF RetainedExact, NothingLost, WithinCapacity
<1>6. ReservationMatches
  BY <1>1, <1>2 DEF StoreInit, ReservationMatches, Blank
<1>7. WithinBudget
  BY <1>1, <1>2, StoreAssumption DEF WithinBudget, Used, Weight
<1> QED
  BY <1>3, <1>4, <1>5, <1>6, <1>7 DEF StoreInv

(* Every transaction, fault, restart and tick keeps the invariant.             *)
LEMMA StepKeeps ==
    ASSUME StoreInv, [StoreNext]_storeVars
    PROVE  StoreInv'
<1>1. CASE \E batch \in Batches : \E S \in SUBSET Messages : InsertBatch(batch, S)
  BY <1>1, InsertKeeps
<1>2. CASE \E m \in Messages : ClaimExpires(m)
  BY <1>2, ClaimExpiresKeeps
<1>3. CASE \E m \in Messages : ClaimTakes(m)
  BY <1>3, ClaimTakesKeeps
<1>4. CASE \E m \in Messages, status \in Results, delay \in Delays \cup {0}, gc \in BOOLEAN :
               FinishArguments(status, delay, gc) /\ Finish(m, status, delay, gc)
  BY <1>4, FinishKeeps
<1>5. CASE \E m \in Messages, ack \in BOOLEAN : Retry(m, ack)
  BY <1>5, RetryKeeps
<1>6. CASE \E m \in Messages : Cancel(m)
  BY <1>6, CancelKeeps
<1>7. CASE Housekeeping
  BY <1>7, HousekeepingKeeps
<1>8. CASE \E mb \in Mailboxes : Open(mb)
  BY <1>8, OpenKeeps
<1>9. CASE (\E b \in BOOLEAN : SetPaused(b)) \/ Stop \/ Fault \/ Tick \/ UNCHANGED storeVars
  BY <1>9, RestKeeps
<1> QED
  BY <1>1, <1>2, <1>3, <1>4, <1>5, <1>6, <1>7, <1>8, <1>9 DEF StoreNext

-----------------------------------------------------------------------------
(* Theorems *)

(* The inductive invariant of the queue holds in every reachable state.        *)
THEOREM StoreInvariance == StoreSpec => []StoreInv
<1>1. StoreInit => StoreInv
  BY InitKeeps
<1>2. StoreInv /\ [StoreNext]_storeVars => StoreInv'
  BY StepKeeps
<1> QED
  BY <1>1, <1>2, PTL DEF StoreSpec

(* The tables keep their types: no counter, time or id ever goes negative.     *)
THEOREM TypeCorrect == StoreSpec => []StoreTypeOK
<1>1. StoreInv => StoreTypeOK
  BY DEF StoreInv
<1> QED
  BY <1>1, StoreInvariance, PTL

(* Admission reads exact counters, and no accepted mail disappears.            *)
THEOREM NoMailLost == StoreSpec => [](RetainedExact /\ NothingLost /\ BodyKept)
<1>1. StoreInv => RetainedExact /\ NothingLost /\ BodyKept
  BY DEF StoreInv
<1> QED
  BY <1>1, StoreInvariance, PTL

(* The durable queue stays within its configured capacity.                     *)
THEOREM CapacityHolds == StoreSpec => []WithinCapacity
<1>1. StoreInv => WithinCapacity
  BY DEF StoreInv
<1> QED
  BY <1>1, StoreInvariance, PTL

(* Reservations match attempts, and so the recipient budget is never exceeded. *)
THEOREM BudgetHolds == StoreSpec => [](WithinBudget /\ ReservationMatches)
<1>1. StoreInv => WithinBudget /\ ReservationMatches
  BY DEF StoreInv
<1> QED
  BY <1>1, StoreInvariance, PTL

(* Mail that is held was accepted for the legacy sender now in use or for none, *)
(* whether it was attempted or not, and never attempted for another: a restart  *)
(* with another sender is refused while mail is held (store.py:97-100).         *)
THEOREM MailboxPinned == StoreSpec => []OneMailboxPerMessage
<1>1. StoreInv => OneMailboxPerMessage
  BY DEF StoreInv
<1> QED
  BY <1>1, StoreInvariance, PTL

(* An attempt's cooldown is in force once it is recorded; no step shortens one. *)
LEMMA CooldownGrows ==
    ASSUME StoreTypeOK
    PROVE  /\ \A m \in Messages, status \in Results, delay \in Nat, gc \in BOOLEAN :
                Finish(m, status, delay, gc) =>
                    /\ settings'.cooldown_until >= settings.cooldown_until
                    /\ gc => settings'.cooldown_until >= now + delay
           /\ [StoreNext]_storeVars => settings'.cooldown_until >= settings.cooldown_until
<1>1. settings.cooldown_until \in Nat /\ now \in Nat
  BY DEF StoreTypeOK
<1>2. ASSUME NEW m \in Messages, NEW status \in Results, NEW delay \in Nat,
             NEW gc \in BOOLEAN, Finish(m, status, delay, gc)
      PROVE  /\ settings'.cooldown_until >= settings.cooldown_until
             /\ gc => settings'.cooldown_until >= now + delay
  <2> DEFINE t == now + delay
  <2>1. t \in Nat
    BY <1>1
  <2>2. Later(t) >= settings.cooldown_until /\ Later(t) >= t
    BY <1>1, <2>1 DEF Later
  <2>3. settings' = IF gc THEN [settings EXCEPT !.cooldown_until = Later(t)] ELSE settings
    BY <1>2 DEF Finish
  <2>4. settings'.cooldown_until = IF gc THEN Later(t) ELSE settings.cooldown_until
    <3> HIDE DEF t
    <3> QED  BY <2>3 DEF StoreTypeOK
  <2> QED  BY <1>1, <2>2, <2>4
<1>3. ASSUME StoreNext
      PROVE  \/ settings'.cooldown_until = settings.cooldown_until
             \/ \E m \in Messages, status \in Results, delay \in Delays \cup {0}, gc \in BOOLEAN :
                    Finish(m, status, delay, gc)
  <2>1. CASE \/ \E batch \in Batches : \E S \in SUBSET Messages : InsertBatch(batch, S)
             \/ \E m \in Messages : ClaimExpires(m) \/ ClaimTakes(m) \/ Cancel(m)
             \/ \E m \in Messages, ack \in BOOLEAN : Retry(m, ack)
             \/ Housekeeping \/ Stop \/ Fault \/ Tick
    BY <2>1 DEF InsertBatch, ClaimExpires, ClaimTakes, Retry, Cancel, Housekeeping, Stop,
                Fault, Tick
  <2>2. CASE \E b \in BOOLEAN : SetPaused(b)
    BY <2>2 DEF SetPaused, StoreTypeOK
  <2>3. CASE \E mb \in Mailboxes : Open(mb)
    <3>1. \E mb \in Mailboxes : settings' = [settings EXCEPT !.sender = mb]
      BY <2>3 DEF Open
    <3> QED  BY <3>1 DEF StoreTypeOK
  <2> QED  BY <1>3, <2>1, <2>2, <2>3 DEF StoreNext
<1>4. Delays \cup {0} \subseteq Nat
  BY StoreAssumption
<1> QED
  BY <1>1, <1>2, <1>3, <1>4 DEF storeVars

(* Whatever ends, pauses, restarts or fails, the cooldown never gets shorter.  *)
THEOREM CooldownKept == StoreSpec => CooldownNeverShortened
<1>1. StoreInv /\ [StoreNext]_storeVars
        => [settings'.cooldown_until >= settings.cooldown_until]_storeVars
  BY CooldownGrows DEF StoreInv
<1> QED
  BY <1>1, StoreInvariance, PTL DEF StoreSpec, CooldownNeverShortened
=============================================================================
