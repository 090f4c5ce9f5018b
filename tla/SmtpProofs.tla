----------------------------- MODULE SmtpProofs -----------------------------
(* The SMTP listener, for any number of clients, lines and transactions: its  *)
(* buffer is what its sessions hold, no mail is cut short, and no transaction *)
(* takes a recipient of another.                                              *)
EXTENDS SmtpSession, FiniteSetTheorems, TLAPS

Places   == Registered \cup {"away", "arriving", "leaving"}
InData   == {"reading", "submitting", "answering"}
Sessions == [greeted : BOOLEAN, sender : 0..MaxTransactions,
             recipients : SUBSET [to : Addresses, of : 1..MaxTransactions]]
Datas    == [kept : Nat, failed : BOOLEAN, received : 0..MaxInput]

-----------------------------------------------------------------------------
(* Octets *)

(* As many octets per peer as k says; Freed counts them for what data keeps.   *)
OctetsOf(k, S) == UNION {{p} \X (1..k[p]) : p \in S}
Kept == [p \in Clients |-> data[p].kept]

(* What one session holds.                                                     *)
LEMMA OctetsOfOne ==
    ASSUME NEW k \in [Clients -> Nat], NEW p \in Clients
    PROVE  IsFiniteSet({p} \X (1..k[p])) /\ Cardinality(OctetsOf(k, {p})) = k[p]
<1>1. IsFiniteSet({p}) /\ Cardinality({p}) = 1
  BY FS_Singleton
<1>2. k[p] \in Nat
  OBVIOUS
<1>3. IsFiniteSet(1..k[p]) /\ Cardinality(1..k[p]) = IF 1 > k[p] THEN 0 ELSE k[p] - 1 + 1
  BY <1>2, FS_Interval
<1>4. Cardinality(1..k[p]) = k[p]
  BY <1>2, <1>3
<1>5. /\ IsFiniteSet({p} \X (1..k[p]))
      /\ Cardinality({p} \X (1..k[p])) = Cardinality({p}) * Cardinality(1..k[p])
  BY <1>1, <1>3, FS_Product
<1>6. OctetsOf(k, {p}) = {p} \X (1..k[p])
  BY DEF OctetsOf
<1>7. Cardinality({p} \X (1..k[p])) = 1 * k[p]
  BY <1>1, <1>4, <1>5
<1>8. Cardinality({p} \X (1..k[p])) = k[p]
  BY <1>2, <1>7
<1> QED  BY <1>5, <1>6, <1>8

(* The set behind the sum is finite.                                           *)
LEMMA OctetsFinite ==
    ASSUME NEW k \in [Clients -> Nat], NEW S \in SUBSET Clients
    PROVE  IsFiniteSet(OctetsOf(k, S)) /\ Cardinality(OctetsOf(k, S)) \in Nat
<1> DEFINE T == {{p} \X (1..k[p]) : p \in S}
           f == [p \in S |-> {p} \X (1..k[p])]
<1>1. IsFiniteSet(S)
  BY FS_Subset, SmtpAssumption
<1>2. f \in Surjection(S, T)
  BY DEF Surjection
<1>3. IsFiniteSet(T)
  <2> HIDE DEF T, f
  <2> QED  BY <1>1, <1>2, FS_Surjection
<1>4. \A t \in T : IsFiniteSet(t)
  BY OctetsOfOne
<1>5. IsFiniteSet(UNION T)
  <2> HIDE DEF T
  <2> QED  BY <1>3, <1>4, FS_UNION
<1> QED  BY <1>5, FS_CardinalityType DEF OctetsOf

(* Sessions apart hold octets apart.                                           *)
LEMMA OctetsApart ==
    ASSUME NEW k \in [Clients -> Nat], NEW S \in SUBSET Clients, NEW T \in SUBSET Clients, S \cap T = {}
    PROVE  Cardinality(OctetsOf(k, S \cup T)) = Cardinality(OctetsOf(k, S)) + Cardinality(OctetsOf(k, T))
<1>1. /\ IsFiniteSet(OctetsOf(k, S)) /\ IsFiniteSet(OctetsOf(k, T))
      /\ Cardinality(OctetsOf(k, S)) \in Nat /\ Cardinality(OctetsOf(k, T)) \in Nat
  BY OctetsFinite
<1>2. OctetsOf(k, S \cup T) = OctetsOf(k, S) \cup OctetsOf(k, T)
  BY DEF OctetsOf
<1>3. OctetsOf(k, S) \cap OctetsOf(k, T) = {}
  BY DEF OctetsOf
<1>4. Cardinality(OctetsOf(k, S) \cup OctetsOf(k, T)) =
        Cardinality(OctetsOf(k, S)) + Cardinality(OctetsOf(k, T)) - Cardinality(OctetsOf(k, S) \cap OctetsOf(k, T))
  BY <1>1, FS_Union
<1>5. Cardinality(OctetsOf(k, S) \cap OctetsOf(k, T)) = 0
  BY <1>3, FS_EmptySet
<1>6. Cardinality(OctetsOf(k, S \cup T)) = Cardinality(OctetsOf(k, S) \cup OctetsOf(k, T))
  BY <1>2
<1>7. Cardinality(OctetsOf(k, S) \cup OctetsOf(k, T)) = Cardinality(OctetsOf(k, S)) + Cardinality(OctetsOf(k, T))
  BY <1>1, <1>4, <1>5
<1> QED  BY <1>6, <1>7

(* When only the sessions S change, the sum changes by what they hold.         *)
LEMMA OctetsReplaced ==
    ASSUME NEW k \in [Clients -> Nat], NEW l \in [Clients -> Nat], NEW S \in SUBSET Clients,
           \A p \in Clients \ S : l[p] = k[p]
    PROVE  /\ Cardinality(OctetsOf(l, Clients)) + Cardinality(OctetsOf(k, S))
                = Cardinality(OctetsOf(k, Clients)) + Cardinality(OctetsOf(l, S))
           /\ Cardinality(OctetsOf(k, Clients)) \in Nat /\ Cardinality(OctetsOf(l, Clients)) \in Nat
           /\ Cardinality(OctetsOf(k, S)) \in Nat /\ Cardinality(OctetsOf(l, S)) \in Nat
<1> DEFINE R == Clients \ S
<1>1. R \in SUBSET Clients /\ S \cap R = {} /\ Clients = S \cup R
  OBVIOUS
<1>2. OctetsOf(l, R) = OctetsOf(k, R)
  BY DEF OctetsOf
<1> HIDE DEF R
<1>3. /\ Cardinality(OctetsOf(k, Clients)) = Cardinality(OctetsOf(k, S)) + Cardinality(OctetsOf(k, R))
      /\ Cardinality(OctetsOf(l, Clients)) = Cardinality(OctetsOf(l, S)) + Cardinality(OctetsOf(l, R))
  BY <1>1, OctetsApart
<1>4. /\ Cardinality(OctetsOf(k, S)) \in Nat /\ Cardinality(OctetsOf(l, S)) \in Nat
      /\ Cardinality(OctetsOf(k, R)) \in Nat
  BY <1>1, OctetsFinite
<1> QED  BY <1>2, <1>3, <1>4

(* Sessions that hold nothing.                                                 *)
LEMMA NoOctets ==
    ASSUME NEW k, NEW S, \A p \in S : k[p] = 0
    PROVE  Cardinality(OctetsOf(k, S)) = 0
<1>1. OctetsOf(k, S) = {}
  BY DEF OctetsOf
<1> QED  BY <1>1, FS_EmptySet

(* Freed in these terms.                                                       *)
LEMMA FreedIsOctets ==
    ASSUME NEW S \in SUBSET Clients
    PROVE  Freed(S) = Cardinality(OctetsOf(Kept, S))
<1>1. \A p \in S : Kept[p] = data[p].kept
  BY DEF Kept
<1>2. Octets(S) = OctetsOf(Kept, S)
  BY <1>1 DEF Octets, OctetsOf
<1> QED  BY <1>2 DEF Freed

(* The same at the next step.                                                  *)
LEMMA FreedIsOctetsNext == Freed(Clients)' = Cardinality(OctetsOf(Kept', Clients))
<1>1. \A p \in Clients : Kept'[p] = data'[p].kept
  BY DEF Kept
<1>2. Octets(Clients)' = OctetsOf(Kept', Clients)
  BY <1>1 DEF Octets, OctetsOf
<1> QED  BY <1>2 DEF Freed

(* What is kept are numbers.                                                   *)
LEMMA KeptType ==
    /\ SmtpTypeOK => Kept \in [Clients -> Nat]
    /\ data' \in [Clients -> Datas] => Kept' \in [Clients -> Nat]
<1>1. SmtpTypeOK => Kept \in [Clients -> Nat]
  BY DEF SmtpTypeOK, Kept
<1>2. data' \in [Clients -> Datas] => Kept' \in [Clients -> Nat]
  BY DEF Datas, Kept
<1> QED  BY <1>1, <1>2

(* Some sessions end their DATA: the sum is less by what they held.            *)
LEMMA Released ==
    ASSUME SmtpTypeOK, NEW S \in SUBSET Clients,
           data' \in [Clients -> Datas],
           \A p \in S : data'[p].kept = 0,
           \A p \in Clients \ S : data'[p] = data[p]
    PROVE  /\ Freed(Clients)' = Freed(Clients) - Freed(S)
           /\ Freed(Clients)' \in Nat /\ Freed(Clients) \in Nat /\ Freed(Clients)' <= Freed(Clients)
<1>1. Kept \in [Clients -> Nat] /\ Kept' \in [Clients -> Nat]
  BY KeptType
<1>2. \A p \in Clients : Kept[p] = data[p].kept /\ Kept'[p] = data'[p].kept
  BY DEF Kept
<1>3. /\ Freed(Clients)' = Cardinality(OctetsOf(Kept', Clients))
      /\ Freed(Clients) = Cardinality(OctetsOf(Kept, Clients)) /\ Freed(S) = Cardinality(OctetsOf(Kept, S))
  BY FreedIsOctets, FreedIsOctetsNext
<1>4. \A p \in Clients \ S : Kept'[p] = Kept[p]
  BY <1>2
<1>5. Cardinality(OctetsOf(Kept', S)) = 0
  BY <1>2, NoOctets
<1>6. /\ Cardinality(OctetsOf(Kept', Clients)) + Cardinality(OctetsOf(Kept, S))
                = Cardinality(OctetsOf(Kept, Clients)) + Cardinality(OctetsOf(Kept', S))
      /\ Cardinality(OctetsOf(Kept, Clients)) \in Nat /\ Cardinality(OctetsOf(Kept', Clients)) \in Nat
      /\ Cardinality(OctetsOf(Kept, S)) \in Nat
  BY <1>1, <1>4, OctetsReplaced
<1> QED  BY <1>3, <1>5, <1>6

(* One session keeps n octets more.                                            *)
LEMMA KeptMore ==
    ASSUME SmtpTypeOK, NEW p \in Clients, NEW n \in Nat,
           data' \in [Clients -> Datas],
           data'[p].kept = data[p].kept + n,
           \A q \in Clients \ {p} : data'[q] = data[q]
    PROVE  Freed(Clients)' = Freed(Clients) + n
<1>1. Kept \in [Clients -> Nat] /\ Kept' \in [Clients -> Nat]
  BY KeptType
<1>2. \A q \in Clients : Kept[q] = data[q].kept /\ Kept'[q] = data'[q].kept
  BY DEF Kept
<1>3. /\ Freed(Clients)' = Cardinality(OctetsOf(Kept', Clients))
      /\ Freed(Clients) = Cardinality(OctetsOf(Kept, Clients))
  BY FreedIsOctets, FreedIsOctetsNext
<1>4. \A q \in Clients \ {p} : Kept'[q] = Kept[q]
  BY <1>2
<1>5. Cardinality(OctetsOf(Kept', {p})) = Kept[p] + n /\ Cardinality(OctetsOf(Kept, {p})) = Kept[p]
      /\ Kept[p] \in Nat
  BY <1>1, <1>2, OctetsOfOne
<1>6. /\ Cardinality(OctetsOf(Kept', Clients)) + Cardinality(OctetsOf(Kept, {p}))
                = Cardinality(OctetsOf(Kept, Clients)) + Cardinality(OctetsOf(Kept', {p}))
      /\ Cardinality(OctetsOf(Kept, Clients)) \in Nat /\ Cardinality(OctetsOf(Kept', Clients)) \in Nat
  BY <1>1, <1>4, OctetsReplaced
<1> QED  BY <1>3, <1>5, <1>6

-----------------------------------------------------------------------------
(* From one await to the next *)

(* Where the session of p is, and nobody else's.                               *)
At(p, where) == at'[p] = where /\ \A q \in Clients \ {p} : at'[q] = at[q]

(* A session that neither joins nor leaves the others, nor ends its DATA.      *)
LEMMA StaysConnected ==
    ASSUME SmtpTypeOK, BufferAgrees, ConnectionsAgree, NEW p \in Clients, NEW from, NEW where \in Places,
           Moves(p, from, where),
           from \in Registered <=> where \in Registered, from \in InData => where \in InData
    PROVE  /\ BufferAgrees' /\ ConnectionsAgree' /\ At(p, where) /\ at[p] = from
           /\ at' \in [Clients -> Places]
<1>1. /\ at[p] = from /\ at' = [at EXCEPT ![p] = where]
      /\ server' = server /\ connections' = connections /\ data' = data /\ buffered' = buffered
  BY DEF Moves, Goto
<1>2. At(p, where) /\ at' \in [Clients -> Places]
  BY <1>1 DEF SmtpTypeOK, At, Places
<1>3. Freed(Clients)' = Freed(Clients)
  BY <1>1 DEF Freed, Octets
<1>4. \A q \in Clients : at'[q] \notin InData => at[q] \notin InData
  BY <1>1, <1>2 DEF At
<1>5. BufferAgrees'
  BY <1>1, <1>3, <1>4 DEF BufferAgrees, InData
<1>6. {q \in Clients : at'[q] \in Registered} = {q \in Clients : at[q] \in Registered}
  BY <1>1, <1>2 DEF At
<1>7. ConnectionsAgree'
  BY <1>1, <1>6 DEF ConnectionsAgree
<1> QED  BY <1>1, <1>2, <1>5, <1>7

(* A session whose DATA, if any, ends, and that may leave its loop.            *)
LEMMA EndsItsData ==
    ASSUME SmtpTypeOK, BufferAgrees, ConnectionsAgree, NEW p \in Clients,
           NEW where \in (Registered \cup {"leaving"}) \ InData, at[p] \in Registered,
           Proceeds(p, where)
    PROVE  /\ BufferAgrees' /\ ConnectionsAgree' /\ At(p, where)
           /\ at' \in [Clients -> Places] /\ data' \in [Clients -> Datas] /\ buffered' \in Nat
           /\ connections' \subseteq Clients /\ server' = server
<1>1. /\ at' = [at EXCEPT ![p] = where] /\ server' = server
      /\ data' = [data EXCEPT ![p] = NoData] /\ buffered' = buffered - Freed({p})
      /\ connections' = IF where \in Registered THEN connections ELSE connections \ {p}
  BY DEF Proceeds, Goto
<1>2. At(p, where) /\ at' \in [Clients -> Places]
  BY <1>1 DEF SmtpTypeOK, At, Places
<1>3. NoData \in Datas /\ NoData.kept = 0 /\ NoData.received = 0 /\ ~NoData.failed
  BY SmtpAssumption DEF NoData, Datas
<1>4. /\ data' \in [Clients -> Datas] /\ data'[p] = NoData
      /\ \A q \in Clients \ {p} : data'[q] = data[q]
  BY <1>1, <1>3 DEF SmtpTypeOK, Datas
<1>5. /\ Freed(Clients)' = Freed(Clients) - Freed({p})
      /\ Freed(Clients)' \in Nat /\ Freed(Clients) \in Nat /\ Freed(Clients)' <= Freed(Clients)
  <2>1. \A q \in {p} : data'[q].kept = 0
    BY <1>3, <1>4
  <2> QED  BY <1>4, <2>1, Released
<1>6. /\ buffered' = Freed(Clients)' /\ buffered' <= MaxBufferBytes /\ buffered' \in Nat
  BY <1>1, <1>5, SmtpAssumption DEF BufferAgrees, SmtpTypeOK
<1>7. BufferAgrees'
  <2>1. \A q \in Clients : /\ at'[q] \notin InData => data'[q] = NoData
                           /\ ~data'[q].failed => data'[q].kept = data'[q].received
    BY <1>2, <1>3, <1>4 DEF BufferAgrees, InData, At
  <2> QED  BY <1>6, <2>1 DEF BufferAgrees, InData
<1>8. ConnectionsAgree'
  <2>1. connections = {q \in Clients : at[q] \in Registered}
    BY DEF ConnectionsAgree
  <2>2. connections' = {q \in Clients : at'[q] \in Registered}
    <3>1. CASE where \in Registered
      BY <1>1, <1>2, <2>1, <3>1 DEF At
    <3>2. CASE where \notin Registered
      BY <1>1, <1>2, <2>1, <3>2 DEF At
    <3> QED  BY <3>1, <3>2
  <2>3. connections' \subseteq connections
    BY <1>1
  <2>4. IsFiniteSet(connections)
    BY SmtpAssumption, FS_Subset DEF SmtpTypeOK
  <2>5. Cardinality(connections') <= Cardinality(connections)
        /\ Cardinality(connections') \in Nat /\ Cardinality(connections) \in Nat
    BY <2>3, <2>4, FS_Subset, FS_CardinalityType
  <2>6. Cardinality(connections') <= MaxConnections
    BY <2>5, SmtpAssumption DEF ConnectionsAgree
  <2>7. server' = "closed" => connections' = {}
    BY <1>1, <2>3 DEF ConnectionsAgree
  <2> QED  BY <2>2, <2>6, <2>7 DEF ConnectionsAgree
<1>9. connections' \subseteq Clients
  BY <1>1 DEF SmtpTypeOK
<1> QED  BY <1>1, <1>2, <1>4, <1>6, <1>7, <1>8, <1>9

(* The transaction of p stays what it is, and so do the others.                *)
LEMMA SessionsMove ==
    ASSUME SessionsAgree, SubmittedOnce, NEW p \in Clients, NEW where, At(p, where),
           UNCHANGED <<session, begun, submitted>>,
           where \in {"away", "arriving"} => session[p] = NoSession,
           where = "reading" => session[p].sender # 0 /\ session[p].recipients # {},
           \/ where \notin {"replying", "command", "reading"}
           \/ at[p] \in {"replying", "command", "reading"} \/ session[p].sender = 0
    PROVE  SessionsAgree' /\ SubmittedOnce'
<1>1. SubmittedOnce'
  BY DEF SubmittedOnce
<1>2. \A q \in Clients :
        /\ at'[q] \in {"away", "arriving"} => session[q] = NoSession
        /\ at'[q] = "reading" => session[q].sender # 0 /\ session[q].recipients # {}
        /\ session[q].sender # 0 /\ at'[q] \in {"replying", "command", "reading"}
              => submitted[session[q].sender] = <<>>
  BY DEF SessionsAgree, At
<1>3. SessionsAgree'
  BY <1>2 DEF SessionsAgree
<1> QED  BY <1>1, <1>3

-----------------------------------------------------------------------------
(* Steps of one session *)

(* Moves that leave the transaction alone.                                     *)
LEMMA QuietMoves ==
    ASSUME SmtpInv, NEW p \in Clients, NEW from, NEW where \in Places,
           Moves(p, from, where), Untouched,
           from \in Registered <=> where \in Registered, from \in InData => where \in InData,
           where \in {"away", "arriving"} => session[p] = NoSession,
           where = "reading" => session[p].sender # 0 /\ session[p].recipients # {},
           \/ where \notin {"replying", "command", "reading"}
           \/ from \in {"replying", "command", "reading"}
    PROVE  SmtpInv'
<1>1. /\ BufferAgrees' /\ ConnectionsAgree' /\ At(p, where) /\ at[p] = from
      /\ at' \in [Clients -> Places]
  BY StaysConnected DEF SmtpInv
<1>2. UNCHANGED <<session, begun, submitted>>
  BY DEF Untouched
<1>3. SessionsAgree' /\ SubmittedOnce'
  BY <1>1, <1>2, SessionsMove DEF SmtpInv
<1>4. UNCHANGED <<server, connections, data, buffered>>
  BY DEF Moves
<1>5. SmtpTypeOK'
  BY <1>1, <1>2, <1>4 DEF SmtpInv, SmtpTypeOK, Places
<1> QED  BY <1>1, <1>3, <1>5 DEF SmtpInv

(* All actions that do nothing but move.                                       *)
LEMMA MovesKeep ==
    ASSUME SmtpInv, NEW p \in Clients,
           \/ Arrives(p) \/ TurnedAway(p) \/ Declines(p) \/ Quits(p) \/ StartsData(p)
           \/ DataRejected(p) \/ SubmitReturns(p)
    PROVE  SmtpInv'
<1>1. CASE Arrives(p)
  <2>1. Moves(p, "away", "arriving") /\ Untouched
    BY <1>1 DEF Arrives
  <2>2. session[p] = NoSession
    BY <2>1 DEF Moves, SmtpInv, SessionsAgree
  <2> QED  BY <2>1, <2>2, QuietMoves DEF Registered, Places, InData
<1>2. CASE TurnedAway(p)
  BY <1>2, QuietMoves DEF TurnedAway, Registered, Places, InData
<1>3. CASE Declines(p)
  BY <1>3, QuietMoves DEF Declines, Registered, Places, InData
<1>4. CASE Quits(p)
  BY <1>4, QuietMoves DEF Quits, Registered, Places, InData
<1>5. CASE StartsData(p)
  BY <1>5, QuietMoves DEF StartsData, Registered, Places, InData
<1>6. CASE DataRejected(p)
  BY <1>6, QuietMoves DEF DataRejected, Registered, Places, InData
<1>7. CASE SubmitReturns(p)
  BY <1>7, QuietMoves DEF SubmitReturns, Registered, Places, InData
<1> QED  BY <1>1, <1>2, <1>3, <1>4, <1>5, <1>6, <1>7

(* A connection is admitted while there is room (smtp.py:73-78).               *)
LEMMA AdmittedKeeps ==
    ASSUME SmtpInv, NEW p \in Clients, Admitted(p)
    PROVE  SmtpInv'
<1>1. /\ at[p] = "arriving" /\ server = "open" /\ Cardinality(connections) < MaxConnections
      /\ at' = [at EXCEPT ![p] = "replying"] /\ connections' = connections \cup {p}
      /\ UNCHANGED <<server, data, buffered>>
      /\ UNCHANGED <<session, begun, submitted>>
  BY DEF Admitted, Room, Goto, Untouched
<1>2. At(p, "replying") /\ at' \in [Clients -> Places]
  BY <1>1 DEF SmtpInv, SmtpTypeOK, At, Places, Registered
<1>3. SmtpTypeOK'
  BY <1>1, <1>2 DEF SmtpInv, SmtpTypeOK, Places
<1>4. BufferAgrees'
  <2>1. Freed(Clients)' = Freed(Clients)
    BY <1>1 DEF Freed, Octets
  <2>2. data[p] = NoData
    BY <1>1 DEF SmtpInv, BufferAgrees
  <2> QED  BY <1>1, <1>2, <2>1, <2>2 DEF SmtpInv, BufferAgrees, At
<1>5. ConnectionsAgree'
  <2>1. connections = {q \in Clients : at[q] \in Registered} /\ p \notin connections
    BY <1>1 DEF SmtpInv, ConnectionsAgree, Registered
  <2>2. connections' = {q \in Clients : at'[q] \in Registered}
    BY <1>1, <1>2, <2>1 DEF At, Registered
  <2>3. IsFiniteSet(connections)
    BY SmtpAssumption, FS_Subset DEF SmtpInv, SmtpTypeOK
  <2>4. Cardinality(connections') = Cardinality(connections) + 1 /\ Cardinality(connections) \in Nat
    BY <1>1, <2>1, <2>3, FS_AddElement, FS_CardinalityType
  <2>5. Cardinality(connections') <= MaxConnections
    BY <1>1, <2>4, SmtpAssumption
  <2> QED  BY <1>1, <2>2, <2>5 DEF ConnectionsAgree
<1>6. SessionsAgree' /\ SubmittedOnce'
  <2>1. session[p].sender = 0
    BY <1>1 DEF SmtpInv, SessionsAgree, NoSession
  <2> QED  BY <1>1, <1>2, <2>1, SessionsMove DEF SmtpInv
<1> QED  BY <1>3, <1>4, <1>5, <1>6 DEF SmtpInv

(* Ends of a DATA and of the loop that leave the transaction as it is.         *)
LEMMA QuietProceeds ==
    ASSUME SmtpInv, NEW p \in Clients,
           NEW where \in (Registered \cup {"leaving"}) \ InData, at[p] \in Registered,
           Proceeds(p, where), Untouched,
           where \in {"replying", "command"} => at[p] \in {"replying", "command", "reading"}
    PROVE  SmtpInv'
<1>1. /\ BufferAgrees' /\ ConnectionsAgree' /\ At(p, where)
      /\ at' \in [Clients -> Places] /\ data' \in [Clients -> Datas] /\ buffered' \in Nat
      /\ connections' \subseteq Clients /\ server' = server
  BY EndsItsData DEF SmtpInv
<1>2. UNCHANGED <<session, begun, submitted>>
  BY DEF Untouched
<1>3. SessionsAgree' /\ SubmittedOnce'
  BY <1>1, <1>2, SessionsMove DEF SmtpInv, Registered, InData
<1>4. SmtpTypeOK'
  BY <1>1, <1>2 DEF SmtpInv, SmtpTypeOK, Places, Datas
<1> QED  BY <1>1, <1>3, <1>4 DEF SmtpInv

(* The actions of that form.                                                   *)
LEMMA ProceedsKeep ==
    ASSUME SmtpInv, NEW p \in Clients, Replied(p) \/ Breaks(p) \/ Expires(p) \/ Parts(p)
    PROVE  SmtpInv'
<1>1. CASE Replied(p)
  <2>1. AfterReply \in {"command", "leaving"}
    BY DEF AfterReply
  <2>2. at[p] = "replying" /\ Proceeds(p, AfterReply) /\ Untouched
    BY <1>1 DEF Replied
  <2>3. AfterReply \in (Registered \cup {"leaving"}) \ InData /\ at[p] \in Registered
    BY <2>1, <2>2 DEF Registered, InData
  <2> QED  BY <2>2, <2>3, QuietProceeds
<1>2. CASE Breaks(p)
  BY <1>2, QuietProceeds DEF Breaks, Registered, InData
<1>3. CASE Expires(p)
  BY <1>3, QuietProceeds DEF Expires, Limited, Registered, InData
<1>4. CASE Parts(p)
  BY <1>4, QuietProceeds DEF Parts, Registered, InData
<1> QED  BY <1>1, <1>2, <1>3, <1>4

(* Answers to a command, for any next transaction of the session that is       *)
(* nobody else's and of which nothing was submitted.                           *)
LEMMA AnswersKeep ==
    ASSUME SmtpInv, NEW p \in Clients, NEW s \in Sessions, Answers(p, s),
           begun' \in 0..MaxTransactions, begun' >= begun,
           s.sender <= begun',
           \A r \in s.recipients : r.of = s.sender,
           s.sender # 0 => submitted[s.sender] = <<>>,
           \A q \in Clients \ {p} : session[q].sender = s.sender => s.sender = 0
    PROVE  SmtpInv'
<1>1. /\ Moves(p, "command", "replying")
      /\ session' = [session EXCEPT ![p] = s] /\ submitted' = submitted
  BY DEF Answers
<1>2. /\ BufferAgrees' /\ ConnectionsAgree' /\ At(p, "replying") /\ at[p] = "command"
      /\ at' \in [Clients -> Places]
  BY <1>1, StaysConnected DEF SmtpInv, Registered, Places, InData
<1>3. UNCHANGED <<server, connections, data, buffered>>
  BY <1>1 DEF Moves
<1>4. /\ session' \in [Clients -> Sessions] /\ session'[p] = s
      /\ \A q \in Clients \ {p} : session'[q] = session[q]
  BY <1>1 DEF SmtpInv, SmtpTypeOK, Sessions
<1>5. SmtpTypeOK'
  BY <1>2, <1>3, <1>4 DEF SmtpInv, SmtpTypeOK, Places, Sessions
<1>6. SubmittedOnce'
  <2>1. begun \in 0..MaxTransactions /\ MaxTransactions \in Nat
    BY SmtpAssumption DEF SmtpInv, SmtpTypeOK
  <2>2. \A t \in 1..MaxTransactions : t > begun' => t > begun
    BY <2>1
  <2> QED  BY <1>1, <2>2 DEF SmtpInv, SubmittedOnce
<1>7. SessionsAgree'
  <2>1. \A q \in Clients : session'[q].sender <= begun'
    <3>1. ASSUME NEW q \in Clients \ {p}
          PROVE  session'[q].sender <= begun'
      <4>1. /\ session[q].sender \in 0..MaxTransactions /\ session[q].sender <= begun
            /\ begun \in 0..MaxTransactions /\ MaxTransactions \in Nat
        BY SmtpAssumption DEF SmtpInv, SmtpTypeOK, SessionsAgree
      <4> QED  BY <1>4, <4>1
    <3> QED  BY <1>4, <3>1
  <2>2. \A q \in Clients :
          /\ at'[q] \in {"away", "arriving"} => session'[q] = NoSession
          /\ \A r \in session'[q].recipients : r.of = session'[q].sender
          /\ at'[q] = "reading" => session'[q].sender # 0 /\ session'[q].recipients # {}
          /\ session'[q].sender # 0 /\ at'[q] \in {"replying", "command", "reading"}
                => submitted'[session'[q].sender] = <<>>
    BY <1>1, <1>2, <1>4 DEF SmtpInv, SessionsAgree, At
  <2>3. \A q, r \in Clients : session'[q].sender = session'[r].sender => q = r \/ session'[q].sender = 0
    BY <1>4 DEF SmtpInv, SessionsAgree
  <2> QED  BY <2>1, <2>2, <2>3 DEF SessionsAgree
<1> QED  BY <1>2, <1>5, <1>6, <1>7 DEF SmtpInv

(* What is left of a session when its transaction is replaced.                 *)
LEMMA BlankType ==
    ASSUME NEW s \in Sessions, NEW t \in 0..MaxTransactions
    PROVE  /\ Blank(s, t) \in Sessions
           /\ Blank(s, t).sender = t /\ Blank(s, t).recipients = {}
<1> DEFINE R == SUBSET [to : Addresses, of : 1..MaxTransactions]
           T == 0..MaxTransactions
<1>1. {} \in R
  OBVIOUS
<1> HIDE DEF R, T
<1>2. ASSUME NEW u \in [greeted : BOOLEAN, sender : T, recipients : R], NEW v \in T
      PROVE  /\ [u EXCEPT !.sender = v, !.recipients = {}] \in [greeted : BOOLEAN, sender : T, recipients : R]
             /\ [u EXCEPT !.sender = v, !.recipients = {}].sender = v
             /\ [u EXCEPT !.sender = v, !.recipients = {}].recipients = {}
  BY <1>1, <1>2
<1> QED  BY <1>2 DEF Blank, Sessions, R, T

(* EHLO, RSET, MAIL and RCPT (smtp.py:107-182).                                *)
LEMMA CommandsKeep ==
    ASSUME SmtpInv, NEW p \in Clients,
           \/ Greets(p) \/ Resets(p) \/ Mail(p)
           \/ \E a \in Addresses : Rcpt(p, a)
    PROVE  SmtpInv'
<1>1. /\ session[p] \in Sessions /\ session[p].sender \in 0..MaxTransactions
      /\ session[p].sender <= begun /\ begun \in 0..MaxTransactions /\ MaxTransactions \in Nat
  BY SmtpAssumption DEF SmtpInv, SmtpTypeOK, SessionsAgree, Sessions
<1>2. CASE Greets(p)
  <2> DEFINE s == [Blank(session[p], 0) EXCEPT !.greeted = TRUE]
  <2>1. Answers(p, s) /\ begun' = begun
    BY <1>2 DEF Greets
  <2>2. /\ Blank(session[p], 0) \in Sessions
        /\ Blank(session[p], 0).sender = 0 /\ Blank(session[p], 0).recipients = {}
    <3>1. 0 \in 0..MaxTransactions
      BY <1>1
    <3>2. session[p] \in Sessions
      BY <1>1
    <3> QED  BY <3>1, <3>2, BlankType, Zenon
  <2>4. s \in Sessions /\ s.sender = 0 /\ s.recipients = {}
    <3>1. PICK b : b = Blank(session[p], 0)
      OBVIOUS
    <3>2. b \in Sessions /\ b.sender = 0 /\ b.recipients = {} /\ s = [b EXCEPT !.greeted = TRUE]
      BY <2>2, <3>1
    <3> HIDE DEF s
    <3> QED  BY <3>2 DEF Sessions
  <2> HIDE DEF s
  <2> QED  BY <1>1, <2>1, <2>4, AnswersKeep
<1>3. CASE Resets(p)
  <2> DEFINE s == Blank(session[p], 0)
  <2>1. Answers(p, s) /\ begun' = begun
    BY <1>3 DEF Resets
  <2>2. s \in Sessions /\ s.sender = 0 /\ s.recipients = {}
    <3>1. 0 \in 0..MaxTransactions
      BY <1>1
    <3> QED  BY <1>1, <3>1, BlankType
  <2> HIDE DEF s
  <2> QED  BY <1>1, <2>1, <2>2, AnswersKeep
<1>4. CASE Mail(p)
  <2> DEFINE s == Blank(session[p], begun + 1)
  <2>1. Answers(p, s) /\ begun' = begun + 1 /\ begun < MaxTransactions
    BY <1>4 DEF Mail
  <2>2. begun + 1 \in 1..MaxTransactions
    BY <1>1, <2>1
  <2>3. s \in Sessions /\ s.sender = begun + 1 /\ s.recipients = {}
    <3>1. begun + 1 \in 0..MaxTransactions
      BY <1>1, <2>2
    <3> QED  BY <1>1, <3>1, BlankType
  <2>4. submitted[begun + 1] = <<>>
    BY <1>1, <2>2 DEF SmtpInv, SubmittedOnce
  <2>5. \A q \in Clients : session[q].sender # begun + 1
    <3>1. \A q \in Clients : session[q].sender \in 0..MaxTransactions /\ session[q].sender <= begun
      BY DEF SmtpInv, SmtpTypeOK, SessionsAgree
    <3> QED  BY <1>1, <3>1
  <2> HIDE DEF s
  <2> QED  BY <1>1, <2>1, <2>2, <2>3, <2>4, <2>5, AnswersKeep
<1>5. ASSUME NEW a \in Addresses, Rcpt(p, a)
      PROVE  SmtpInv'
  <2> DEFINE t == session[p].sender
             s == IF a \in {r.to : r \in session[p].recipients} THEN session[p]
                  ELSE [session[p] EXCEPT !.recipients = @ \cup {[to |-> a, of |-> t]}]
  <2>1. Answers(p, s) /\ begun' = begun /\ t # 0
    BY <1>5 DEF Rcpt
  <2>2. t \in 1..MaxTransactions
    BY <1>1, <2>1
  <2>3. s \in Sessions /\ s.sender = t
    BY <1>1, <2>2 DEF Sessions
  <2>4. \A r \in s.recipients : r.of = s.sender
    <3>1. \A r \in session[p].recipients : r.of = t
      BY DEF SmtpInv, SessionsAgree
    <3> QED  BY <1>1, <2>3, <3>1 DEF Sessions
  <2>5. at[p] = "command"
    BY <2>1 DEF Answers, Moves
  <2>6. submitted[t] = <<>>
    BY <2>1, <2>5 DEF SmtpInv, SessionsAgree
  <2>7. \A q \in Clients \ {p} : session[q].sender # t
    BY <2>1 DEF SmtpInv, SessionsAgree
  <2> HIDE DEF s
  <2> QED  BY <1>1, <2>1, <2>2, <2>3, <2>4, <2>6, <2>7, AnswersKeep
<1> QED  BY <1>2, <1>3, <1>4, <1>5

-----------------------------------------------------------------------------
(* Steps of a DATA *)

(* A line changes what is kept of this DATA and nothing else.                  *)
LEMMA ReadsKeep ==
    ASSUME SmtpInv, NEW p \in Clients, NEW n \in Nat, NEW d \in Datas, Reads(p, n, d),
           buffered' = Freed(Clients)', buffered' <= MaxBufferBytes, buffered' \in Nat,
           ~d.failed => d.kept = d.received
    PROVE  SmtpInv'
<1>1. /\ at[p] = "reading" /\ data' = [data EXCEPT ![p] = d]
      /\ UNCHANGED <<server, at, connections>> /\ UNCHANGED <<session, begun, submitted>>
  BY DEF Reads, Untouched
<1>2. /\ data' \in [Clients -> Datas] /\ data'[p] = d
      /\ \A q \in Clients \ {p} : data'[q] = data[q]
  BY <1>1 DEF SmtpInv, SmtpTypeOK, Datas
<1>3. SmtpTypeOK'
  BY <1>1, <1>2 DEF SmtpInv, SmtpTypeOK, Datas
<1>4. BufferAgrees'
  BY <1>1, <1>2 DEF SmtpInv, BufferAgrees
<1>5. ConnectionsAgree' /\ SessionsAgree' /\ SubmittedOnce'
  BY <1>1 DEF SmtpInv, ConnectionsAgree, SessionsAgree, SubmittedOnce
<1> QED  BY <1>3, <1>4, <1>5 DEF SmtpInv

(* A line that fits is kept and paid for from the buffer (smtp.py:235-243).    *)
LEMMA LineKeptKeeps ==
    ASSUME SmtpInv, NEW p \in Clients, NEW n \in LineSizes, LineKept(p, n)
    PROVE  SmtpInv'
<1> DEFINE d == [data[p] EXCEPT !.kept = @ + n, !.received = @ + n]
<1>1. /\ ~data[p].failed /\ buffered + n <= MaxBufferBytes
      /\ Reads(p, n, d) /\ buffered' = buffered + n
  BY DEF LineKept, Fits
<1>2. /\ n \in Nat /\ MaxInput \in Nat /\ MaxBufferBytes \in Nat
      /\ data[p] \in Datas /\ data[p].received + n <= MaxInput
      /\ data[p].kept = data[p].received /\ buffered \in Nat /\ buffered = Freed(Clients)
  BY <1>1, SmtpAssumption DEF SmtpInv, SmtpTypeOK, BufferAgrees, Reads, Datas
<1>3. /\ d \in Datas /\ d.kept = data[p].kept + n /\ d.received = data[p].received + n
  <2>1. /\ data[p].kept + n \in Nat /\ data[p].received + n \in 0..MaxInput
        /\ data[p].failed \in BOOLEAN
    BY <1>2 DEF Datas
  <2> QED  BY <1>2, <2>1 DEF Datas
<1>4. data' = [data EXCEPT ![p] = d]
  BY <1>1 DEF Reads
<1> HIDE DEF d
<1>5. /\ data' \in [Clients -> Datas] /\ data'[p].kept = data[p].kept + n
      /\ \A q \in Clients \ {p} : data'[q] = data[q]
  BY <1>3, <1>4 DEF SmtpInv, SmtpTypeOK, Datas
<1>6. Freed(Clients)' = Freed(Clients) + n
  BY <1>2, <1>5, KeptMore DEF SmtpInv
<1>7. buffered' = Freed(Clients)' /\ buffered' <= MaxBufferBytes /\ buffered' \in Nat
  BY <1>1, <1>2, <1>6
<1>8. d.kept = d.received
  BY <1>2, <1>3
<1> QED  BY <1>1, <1>2, <1>3, <1>7, <1>8, ReadsKeep

(* A line that is not kept spoils the DATA (smtp.py:227-240).                  *)
LEMMA SpoiledKeeps ==
    ASSUME SmtpInv, NEW p \in Clients, NEW n \in LineSizes, LineDropped(p, n) \/ LineMalformed(p, n)
    PROVE  SmtpInv'
<1> DEFINE d == Spoiled(data[p], n)
<1>1. Reads(p, n, d) /\ buffered' = buffered
  BY DEF LineDropped, LineMalformed
<1>2. /\ n \in Nat /\ MaxInput \in Nat /\ MaxBufferBytes \in Nat
      /\ data[p] \in Datas /\ data[p].received + n <= MaxInput
      /\ buffered \in Nat /\ buffered = Freed(Clients) /\ buffered <= MaxBufferBytes
  BY <1>1, SmtpAssumption DEF SmtpInv, SmtpTypeOK, BufferAgrees, Reads, Datas
<1>4. d \in Datas /\ d.kept = data[p].kept /\ d.failed
  <2>1. data[p].kept \in Nat /\ data[p].received + n \in 0..MaxInput
    BY <1>2 DEF Datas
  <2> QED  BY <1>2, <2>1 DEF Spoiled, Datas
<1>5. data' = [data EXCEPT ![p] = d]
  BY <1>1 DEF Reads
<1> HIDE DEF d
<1>6. \A q \in Clients : data'[q].kept = data[q].kept
  BY <1>4, <1>5 DEF SmtpInv, SmtpTypeOK
<1>7. Freed(Clients)' = Freed(Clients)
  <2>1. Octets(Clients)' = Octets(Clients)
    BY <1>6 DEF Octets
  <2> QED  BY <2>1 DEF Freed
<1> QED  BY <1>1, <1>2, <1>4, <1>7, ReadsKeep

(* A DATA is handed to the queue once, whole, and under its own transaction    *)
(* (smtp.py:183-191, 248-257).                                                 *)
LEMMA DataSubmittedKeeps ==
    ASSUME SmtpInv, NEW p \in Clients, DataSubmitted(p)
    PROVE  SmtpInv'
<1> DEFINE t == session[p].sender
           mail == [named |-> {r.of : r \in session[p].recipients},
                    complete |-> data[p].kept = data[p].received]
<1>1. /\ ~data[p].failed /\ Moves(p, "reading", "submitting")
      /\ submitted' = [submitted EXCEPT ![t] = Append(@, mail)]
      /\ session' = session /\ begun' = begun
  BY DEF DataSubmitted
<1>2. /\ BufferAgrees' /\ ConnectionsAgree' /\ At(p, "submitting") /\ at[p] = "reading"
      /\ at' \in [Clients -> Places]
  BY <1>1, StaysConnected DEF SmtpInv, Registered, Places, InData
<1>3. UNCHANGED <<server, connections, data, buffered>>
  BY <1>1 DEF Moves
<1>4. SmtpTypeOK'
  BY <1>1, <1>2, <1>3 DEF SmtpInv, SmtpTypeOK, Places
<1>5. /\ t \in 1..MaxTransactions /\ t <= begun /\ begun \in 0..MaxTransactions
      /\ submitted[t] = <<>> /\ session[p].recipients # {}
      /\ \A r \in session[p].recipients : r.of = t
  <2>1. t \in 0..MaxTransactions /\ MaxTransactions \in Nat
    BY SmtpAssumption DEF SmtpInv, SmtpTypeOK
  <2>2. /\ t # 0 /\ t <= begun /\ begun \in 0..MaxTransactions
        /\ submitted[t] = <<>> /\ session[p].recipients # {}
        /\ \A r \in session[p].recipients : r.of = t
    BY <1>2 DEF SmtpInv, SessionsAgree, SmtpTypeOK
  <2> QED  BY <2>1, <2>2
<1>6. mail = [named |-> {t}, complete |-> TRUE]
  <2>1. {r.of : r \in session[p].recipients} = {t}
    BY <1>5
  <2>2. data[p].kept = data[p].received
    BY <1>1 DEF SmtpInv, BufferAgrees
  <2> QED  BY <2>1, <2>2
<1> HIDE DEF mail
<1>7. /\ DOMAIN submitted' = 1..MaxTransactions
      /\ submitted'[t] = <<[named |-> {t}, complete |-> TRUE]>>
      /\ \A u \in 1..MaxTransactions : u # t => submitted'[u] = submitted[u]
  <2>1. Append(<<>>, mail) = <<mail>>
    OBVIOUS
  <2> QED  BY <1>1, <1>5, <1>6, <2>1 DEF SmtpInv, SubmittedOnce
<1> HIDE DEF t
<1>8. SubmittedOnce'
  <2>1. \A u \in 1..MaxTransactions :
          submitted'[u] \in {<<>>, <<[named |-> {u}, complete |-> TRUE]>>}
    BY <1>7 DEF SmtpInv, SubmittedOnce
  <2>2. ASSUME NEW u \in 1..MaxTransactions, u > begun'
        PROVE  submitted'[u] = <<>>
    <3>1. MaxTransactions \in Nat
      BY SmtpAssumption
    <3>2. u # t /\ u > begun
      BY <1>1, <1>5, <2>2, <3>1
    <3> QED  BY <1>7, <3>2 DEF SmtpInv, SubmittedOnce
  <2> QED  BY <1>7, <2>1, <2>2 DEF SubmittedOnce
<1>9. SessionsAgree'
  <2>1. \A q \in Clients : session[q].sender # 0 => session[q].sender \in 1..MaxTransactions
    <3>1. \A q \in Clients : session[q].sender \in 0..MaxTransactions
      BY DEF SmtpInv, SmtpTypeOK
    <3> QED  BY <3>1, SmtpAssumption
  <2>2. \A q \in Clients \ {p} : session[q].sender # t
    BY <1>5, SmtpAssumption DEF SmtpInv, SessionsAgree, t
  <2>3. \A q \in Clients : session[q].sender # 0 /\ at'[q] \in {"replying", "command", "reading"}
          => submitted'[session[q].sender] = <<>>
    BY <1>2, <1>7, <2>1, <2>2 DEF SmtpInv, SessionsAgree, At
  <2>4. \A q \in Clients :
          /\ at'[q] \in {"away", "arriving"} => session[q] = NoSession
          /\ session[q].sender <= begun
          /\ \A r \in session[q].recipients : r.of = session[q].sender
          /\ at'[q] = "reading" => session[q].sender # 0 /\ session[q].recipients # {}
    BY <1>2 DEF SmtpInv, SessionsAgree, At
  <2> QED  BY <1>1, <2>3, <2>4 DEF SmtpInv, SessionsAgree
<1> QED  BY <1>2, <1>4, <1>8, <1>9 DEF SmtpInv

(* A session of which the transaction is over, wherever it goes.               *)
LEMMA BlankAgrees ==
    ASSUME SmtpInv, NEW p \in Clients, NEW s \in Sessions, NEW where, At(p, where),
           session' = [session EXCEPT ![p] = s], UNCHANGED <<begun, submitted>>,
           s.sender = 0, s.recipients = {}, where # "reading",
           where \in {"away", "arriving"} => s = NoSession
    PROVE  /\ SessionsAgree' /\ SubmittedOnce'
           /\ session' \in [Clients -> Sessions]
<1>1. /\ session' \in [Clients -> Sessions] /\ session'[p] = s
      /\ \A q \in Clients \ {p} : session'[q] = session[q]
  BY DEF SmtpInv, SmtpTypeOK, Sessions
<1>2. SubmittedOnce'
  BY DEF SmtpInv, SubmittedOnce
<1>3. \A q \in Clients : session'[q].sender <= begun'
  <2>1. begun \in 0..MaxTransactions /\ MaxTransactions \in Nat
    BY SmtpAssumption DEF SmtpInv, SmtpTypeOK
  <2>2. 0 <= begun
    BY <2>1
  <2> QED  BY <1>1, <2>2 DEF SmtpInv, SessionsAgree
<1>4. \A q \in Clients :
        /\ at'[q] \in {"away", "arriving"} => session'[q] = NoSession
        /\ \A r \in session'[q].recipients : r.of = session'[q].sender
        /\ at'[q] = "reading" => session'[q].sender # 0 /\ session'[q].recipients # {}
        /\ session'[q].sender # 0 /\ at'[q] \in {"replying", "command", "reading"}
              => submitted'[session'[q].sender] = <<>>
  BY <1>1 DEF SmtpInv, SessionsAgree, At
<1>5. \A q, r \in Clients : session'[q].sender = session'[r].sender => q = r \/ session'[q].sender = 0
  BY <1>1 DEF SmtpInv, SessionsAgree
<1>6. SessionsAgree'
  BY <1>3, <1>4, <1>5 DEF SessionsAgree
<1> QED  BY <1>1, <1>2, <1>6

(* After its answer a DATA leaves no transaction (smtp.py:188-191).            *)
LEMMA DataAnsweredKeeps ==
    ASSUME SmtpInv, NEW p \in Clients, DataAnswered(p)
    PROVE  SmtpInv'
<1>1. /\ at[p] = "answering" /\ Proceeds(p, AfterReply)
      /\ session' = [session EXCEPT ![p] = Blank(session[p], 0)]
      /\ UNCHANGED <<begun, submitted>>
  BY DEF DataAnswered, AfterData
<1>2. AfterReply \in {"command", "leaving"}
  BY DEF AfterReply
<1>3. AfterReply \in (Registered \cup {"leaving"}) \ InData /\ at[p] \in Registered
  BY <1>1, <1>2 DEF Registered, InData
<1>4. /\ BufferAgrees' /\ ConnectionsAgree' /\ At(p, AfterReply)
      /\ at' \in [Clients -> Places] /\ data' \in [Clients -> Datas] /\ buffered' \in Nat
      /\ connections' \subseteq Clients /\ server' = server
  BY <1>1, <1>3, EndsItsData DEF SmtpInv
<1>5. /\ Blank(session[p], 0) \in Sessions
      /\ Blank(session[p], 0).sender = 0 /\ Blank(session[p], 0).recipients = {}
  <2>1. session[p] \in Sessions /\ 0 \in 0..MaxTransactions
    BY SmtpAssumption DEF SmtpInv, SmtpTypeOK, Sessions
  <2> QED  BY <2>1, BlankType
<1>6. SessionsAgree' /\ SubmittedOnce' /\ session' \in [Clients -> Sessions]
  BY <1>1, <1>2, <1>4, <1>5, BlankAgrees
<1>7. SmtpTypeOK'
  BY <1>1, <1>4, <1>6 DEF SmtpInv, SmtpTypeOK, Places, Sessions, Datas
<1> QED  BY <1>4, <1>6, <1>7 DEF SmtpInv

(* A task that is gone has forgotten its session (smtp.py:209-213).            *)
LEMMA GoneKeeps ==
    ASSUME SmtpInv, NEW p \in Clients, Gone(p)
    PROVE  SmtpInv'
<1>1. /\ Moves(p, "leaving", "away")
      /\ session' = [session EXCEPT ![p] = NoSession] /\ UNCHANGED <<begun, submitted>>
  BY DEF Gone
<1>2. /\ BufferAgrees' /\ ConnectionsAgree' /\ At(p, "away") /\ at' \in [Clients -> Places]
  BY <1>1, StaysConnected DEF SmtpInv, Registered, Places, InData
<1>3. NoSession \in Sessions /\ NoSession.sender = 0 /\ NoSession.recipients = {}
  <2>1. 0 \in 0..MaxTransactions
    BY SmtpAssumption
  <2> QED  BY <2>1 DEF NoSession, Sessions
<1>4. SessionsAgree' /\ SubmittedOnce' /\ session' \in [Clients -> Sessions]
  BY <1>1, <1>2, <1>3, BlankAgrees
<1>5. UNCHANGED <<server, connections, data, buffered>>
  BY <1>1 DEF Moves
<1>6. SmtpTypeOK'
  BY <1>1, <1>2, <1>4, <1>5 DEF SmtpInv, SmtpTypeOK, Places, Sessions
<1> QED  BY <1>2, <1>4, <1>6 DEF SmtpInv

-----------------------------------------------------------------------------
(* Steps of the listener *)

(* close() on its way; it returns when nobody is connected (smtp.py:267-278).  *)
LEMMA CloseKeeps ==
    ASSUME SmtpInv, Close \/ ListenerClosed \/ Closed
    PROVE  SmtpInv'
<1>1. /\ server' \in {"waiting", "cutting", "closed"}
      /\ server' = "closed" => connections = {}
      /\ UNCHANGED <<at, connections, data, buffered>> /\ UNCHANGED <<session, begun, submitted>>
  BY DEF Close, ListenerClosed, Closed, Becomes, Untouched
<1>2. SmtpTypeOK'
  BY <1>1 DEF SmtpInv, SmtpTypeOK
<1>3. Freed(Clients)' = Freed(Clients)
  BY <1>1 DEF Freed, Octets
<1>4. BufferAgrees' /\ ConnectionsAgree'
  BY <1>1, <1>3 DEF SmtpInv, BufferAgrees, ConnectionsAgree
<1>5. SessionsAgree' /\ SubmittedOnce'
  BY <1>1 DEF SmtpInv, SessionsAgree, SubmittedOnce
<1> QED  BY <1>2, <1>4, <1>5 DEF SmtpInv

(* All that is still registered is cancelled (smtp.py:274-278).                *)
LEMMA CancelsKeeps ==
    ASSUME SmtpInv, CancelsRest
    PROVE  SmtpInv'
<1>1. /\ at' = [p \in Clients |-> IF p \in connections THEN "leaving" ELSE at[p]]
      /\ data' = [p \in Clients |-> IF p \in connections THEN NoData ELSE data[p]]
      /\ buffered' = buffered - Freed(connections) /\ connections' = {} /\ server' = server
      /\ UNCHANGED <<session, begun, submitted>>
  BY DEF CancelsRest, Untouched
<1>2. connections = {p \in Clients : at[p] \in Registered} /\ connections \in SUBSET Clients
  BY DEF SmtpInv, ConnectionsAgree
<1>3. NoData \in Datas /\ NoData.kept = 0 /\ NoData.received = 0 /\ ~NoData.failed
  BY SmtpAssumption DEF NoData, Datas
<1>4. /\ at' \in [Clients -> Places] /\ data' \in [Clients -> Datas]
      /\ \A p \in connections : data'[p] = NoData /\ at'[p] = "leaving"
      /\ \A p \in Clients \ connections : data'[p] = data[p] /\ at'[p] = at[p]
  BY <1>1, <1>2, <1>3 DEF SmtpInv, SmtpTypeOK, Places, Datas
<1>5. /\ Freed(Clients)' = Freed(Clients) - Freed(connections)
      /\ Freed(Clients)' \in Nat /\ Freed(Clients) \in Nat /\ Freed(Clients)' <= Freed(Clients)
  BY <1>2, <1>3, <1>4, Released DEF SmtpInv
<1>6. buffered' = Freed(Clients)' /\ buffered' <= MaxBufferBytes /\ buffered' \in Nat
  BY <1>1, <1>5, SmtpAssumption DEF SmtpInv, BufferAgrees, SmtpTypeOK
<1>7. BufferAgrees'
  <2>1. \A p \in Clients : /\ at'[p] \notin InData => data'[p] = NoData
                           /\ ~data'[p].failed => data'[p].kept = data'[p].received
    BY <1>3, <1>4 DEF SmtpInv, BufferAgrees, InData
  <2> QED  BY <1>6, <2>1 DEF BufferAgrees, InData
<1>8. ConnectionsAgree'
  <2>1. {p \in Clients : at'[p] \in Registered} = {}
    BY <1>2, <1>4 DEF Registered
  <2>2. Cardinality({}) = 0
    BY FS_EmptySet
  <2> QED  BY <1>1, <2>1, <2>2, SmtpAssumption DEF ConnectionsAgree
<1>9. SessionsAgree' /\ SubmittedOnce'
  <2>1. \A p \in Clients : at'[p] = "leaving" \/ at'[p] = at[p]
    BY <1>4
  <2> QED  BY <1>1, <2>1 DEF SmtpInv, SessionsAgree, SubmittedOnce
<1>10. SmtpTypeOK'
  BY <1>1, <1>4, <1>6 DEF SmtpInv, SmtpTypeOK, Places, Datas
<1> QED  BY <1>7, <1>8, <1>9, <1>10 DEF SmtpInv

(* The invariant holds at the start.                                           *)
LEMMA SmtpStart == SmtpInit => SmtpInv
<1> SUFFICES ASSUME SmtpInit
             PROVE  SmtpInv
  OBVIOUS
<1>1. NoData \in Datas /\ NoData.kept = 0 /\ NoData.received = 0
  BY SmtpAssumption DEF NoData, Datas
<1>2. NoSession \in Sessions /\ NoSession.sender = 0 /\ NoSession.recipients = {}
  <2>1. 0 \in 0..MaxTransactions
    BY SmtpAssumption
  <2> QED  BY <2>1 DEF NoSession, Sessions
<1>3. SmtpTypeOK
  BY <1>1, <1>2, SmtpAssumption DEF SmtpInit, SmtpTypeOK, Sessions, Datas
<1>4. Freed(Clients) = 0
  <2>1. \A p \in Clients : Kept[p] = 0
    BY <1>1 DEF SmtpInit, Kept
  <2> QED  BY <2>1, NoOctets, FreedIsOctets
<1>5. BufferAgrees
  BY <1>1, <1>4, SmtpAssumption DEF SmtpInit, BufferAgrees
<1>6. ConnectionsAgree
  <2>1. {p \in Clients : at[p] \in Registered} = {}
    BY DEF SmtpInit, Registered
  <2> QED  BY <2>1, FS_EmptySet, SmtpAssumption DEF SmtpInit, ConnectionsAgree
<1>7. SessionsAgree
  <2>1. 0 <= begun
    BY SmtpAssumption DEF SmtpInit
  <2> QED  BY <1>2, <2>1 DEF SmtpInit, SessionsAgree
<1>8. SubmittedOnce
  BY DEF SmtpInit, SubmittedOnce
<1> QED  BY <1>3, <1>5, <1>6, <1>7, <1>8 DEF SmtpInv

(* And in the next process.                                                    *)
LEMMA RestartKeeps ==
    ASSUME SmtpInv, Restart
    PROVE  SmtpInv'
<1>1. /\ server' = "open" /\ connections' = {} /\ buffered' = 0
      /\ at' = [p \in Clients |-> "away"]
      /\ session' = [p \in Clients |-> NoSession] /\ data' = [p \in Clients |-> NoData]
      /\ UNCHANGED <<begun, submitted>>
  BY DEF Restart
<1>2. NoData \in Datas /\ NoData.kept = 0 /\ NoData.received = 0
  BY SmtpAssumption DEF NoData, Datas
<1>3. NoSession \in Sessions /\ NoSession.sender = 0 /\ NoSession.recipients = {}
  <2>1. 0 \in 0..MaxTransactions
    BY SmtpAssumption
  <2> QED  BY <2>1 DEF NoSession, Sessions
<1>4. SmtpTypeOK'
  BY <1>1, <1>2, <1>3 DEF SmtpInv, SmtpTypeOK, Sessions, Datas
<1>5. Freed(Clients)' = 0
  <2>1. \A p \in Clients : Kept'[p] = 0
    BY <1>1, <1>2 DEF Kept
  <2> QED  BY <2>1, NoOctets, FreedIsOctetsNext
<1>6. BufferAgrees'
  BY <1>1, <1>2, <1>5, SmtpAssumption DEF BufferAgrees
<1>7. ConnectionsAgree'
  <2>1. {p \in Clients : at'[p] \in Registered} = {}
    BY <1>1 DEF Registered
  <2> QED  BY <1>1, <2>1, FS_EmptySet, SmtpAssumption DEF ConnectionsAgree
<1>8. SubmittedOnce'
  BY <1>1 DEF SmtpInv, SubmittedOnce
<1>9. SessionsAgree'
  <2>1. 0 <= begun
    BY SmtpAssumption DEF SmtpInv, SmtpTypeOK
  <2> QED  BY <1>1, <1>3, <2>1 DEF SessionsAgree
<1> QED  BY <1>4, <1>6, <1>7, <1>8, <1>9 DEF SmtpInv

-----------------------------------------------------------------------------
(* Results *)

(* Every step keeps it.                                                        *)
LEMMA SmtpKept == SmtpInv /\ [SmtpNext]_vars => SmtpInv'
<1>1. ASSUME SmtpInv, NEW p \in Clients, Connecting(p)
      PROVE  SmtpInv'
  BY <1>1, MovesKeep, AdmittedKeeps, ProceedsKeep DEF Connecting
<1>2. ASSUME SmtpInv, NEW p \in Clients, Commanding(p)
      PROVE  SmtpInv'
  BY <1>2, MovesKeep, CommandsKeep DEF Commanding
<1>3. ASSUME SmtpInv, NEW p \in Clients, Sending(p)
      PROVE  SmtpInv'
  BY <1>3, MovesKeep, LineKeptKeeps, SpoiledKeeps, DataSubmittedKeeps, DataAnsweredKeeps DEF Sending
<1>4. ASSUME SmtpInv, NEW p \in Clients, Ending(p)
      PROVE  SmtpInv'
  BY <1>4, ProceedsKeep, GoneKeeps DEF Ending
<1>5. ASSUME SmtpInv, UNCHANGED vars
      PROVE  SmtpInv'
  BY <1>5 DEF vars, SmtpInv, SmtpTypeOK, BufferAgrees, Freed, Octets, ConnectionsAgree,
              SessionsAgree, SubmittedOnce
<1> QED  BY <1>1, <1>2, <1>3, <1>4, <1>5, CloseKeeps, CancelsKeeps, RestartKeeps DEF SmtpNext

(* The invariant of the listener (smtp.py:66-278): the shared buffer is what   *)
(* the sessions hold and within its limit, the connections are the sessions    *)
(* in their loop and within theirs, and a transaction is of one session.       *)
THEOREM SmtpInvariance == SmtpSpec => []SmtpInv
  BY SmtpStart, SmtpKept, PTL DEF SmtpSpec

(* A mail of which a line was dropped is never queued (smtp.py:233-247).       *)
THEOREM NothingTruncated == SmtpSpec => []NeverTruncated
<1>1. SmtpInv => NeverTruncated
  <2> SUFFICES ASSUME SmtpInv, NEW t \in DOMAIN submitted, NEW i \in DOMAIN submitted[t]
               PROVE  submitted[t][i].complete
    BY DEF NeverTruncated
  <2> DEFINE mail == [named |-> {t}, complete |-> TRUE]
  <2>1. submitted[t] = <<>> \/ submitted[t] = <<mail>>
    BY DEF SmtpInv, SubmittedOnce
  <2>2. mail.complete
    OBVIOUS
  <2> HIDE DEF mail
  <2>3. submitted[t] = <<mail>> /\ i = 1
    BY <2>1
  <2> QED  BY <2>2, <2>3
<1> QED  BY <1>1, SmtpInvariance, PTL

(* A mail goes to recipients of its own transaction, and of each transaction   *)
(* there is at most one mail (smtp.py:111, 121, 158, 188-191).                 *)
THEOREM TransactionsApart == SmtpSpec => []TransactionsSeparate
<1>1. SmtpInv => TransactionsSeparate
  <2> SUFFICES ASSUME SmtpInv, NEW t \in DOMAIN submitted
               PROVE  /\ \A i \in DOMAIN submitted[t] : submitted[t][i].named = {t}
                      /\ Len(submitted[t]) <= 1
    BY DEF TransactionsSeparate
  <2> DEFINE mail == [named |-> {t}, complete |-> TRUE]
  <2>1. submitted[t] = <<>> \/ submitted[t] = <<mail>>
    BY DEF SmtpInv, SubmittedOnce
  <2>2. mail.named = {t}
    OBVIOUS
  <2> HIDE DEF mail
  <2>3. CASE submitted[t] = <<>>
    BY <2>3
  <2>4. CASE submitted[t] = <<mail>>
    <3>1. DOMAIN submitted[t] = {1} /\ submitted[t][1] = mail /\ Len(submitted[t]) = 1
      BY <2>4
    <3> QED  BY <2>2, <3>1
  <2> QED  BY <2>1, <2>3, <2>4
<1> QED  BY <1>1, SmtpInvariance, PTL

(* No session is left in its loop when close() has returned                    *)
(* (smtp.py:267-278).                                                          *)
THEOREM QuietAfterClose == SmtpSpec => []QuietWhenClosed
<1>1. SmtpInv => QuietWhenClosed
  BY DEF SmtpInv, ConnectionsAgree, QuietWhenClosed
<1> QED  BY <1>1, SmtpInvariance, PTL
=============================================================================
