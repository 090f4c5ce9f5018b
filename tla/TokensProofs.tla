---------------------------- MODULE TokensProofs ----------------------------
(* The credentials of one account, for any number of workers, administrators  *)
(* and answers: nothing is sent with an unsaved token, the credential         *)
(* presented is a good one, refusals are counted by token, and a disconnected *)
(* account stays so.                                                          *)
EXTENDS Tokens, FiniteSetTheorems, TLAPS

Records == [refresh : Credentials, account : Accounts \cup {"none"}]
Places  == {"idle", "asking", "refreshing", "saving", "sending", "rejecting",
            "login", "exchanging", "disconnecting", "erasing"}

-----------------------------------------------------------------------------
(* What a step leaves alone *)

(* A step of caller c does not touch the others, nor their hold of the lock.   *)
StepOf(c) ==
    \A q \in Callers \ {c} :
        at'[q] = at[q] /\ token'[q] = token[q] /\ (holder = q <=> holder' = q)

(* Only who holds the lock replaces the record or ends a disconnection.        *)
LEMMA OthersAgree ==
    ASSUME NEW c \in Callers, StepOf(c), \A q \in Callers : CallerAgrees(q),
           saved \subseteq saved',
           UNCHANGED <<record, disconnected>> \/ holder = c
    PROVE  \A q \in Callers \ {c} : CallerAgrees(q)'
<1> SUFFICES ASSUME NEW q \in Callers \ {c}
             PROVE  CallerAgrees(q)'
  OBVIOUS
<1>1. /\ at'[q] = at[q] /\ token'[q] = token[q] /\ (holder = q <=> holder' = q)
      /\ CallerAgrees(q)
  BY DEF StepOf
<1>2. CASE UNCHANGED <<record, disconnected>>
  BY <1>1, <1>2 DEF CallerAgrees
<1>3. CASE holder = c
  <2>1. at[q] \notin LockedSections
    BY <1>1, <1>3 DEF CallerAgrees
  <2> QED  BY <1>1, <2>1 DEF CallerAgrees, LockedSections
<1> QED  BY <1>2, <1>3

(* A caller goes on outside of the lock.                                       *)
LEMMA Moves ==
    ASSUME TokensTypeOK, NEW c \in Callers, NEW place \in Places, NEW t \in Credentials,
           Goto(c, place, t), holder' = holder
    PROVE  /\ StepOf(c) /\ at'[c] = place /\ token'[c] = t
           /\ at' \in [Callers -> Places] /\ token' \in [Callers -> Credentials]
  BY DEF TokensTypeOK, Goto, StepOf, Places

(* A caller takes the free lock.                                               *)
LEMMA TakesLock ==
    ASSUME TokensTypeOK, NEW c \in Callers, NEW place \in Places, NEW t \in Credentials,
           Locks(c, place, t), holder = NoOne
    PROVE  /\ StepOf(c) /\ at'[c] = place /\ token'[c] = t /\ holder' = c
           /\ at' \in [Callers -> Places] /\ token' \in [Callers -> Credentials]
  BY TokensAssumption DEF TokensTypeOK, Locks, Goto, StepOf, Places

(* The caller that holds the lock leaves it.                                   *)
LEMMA LeavesLock ==
    ASSUME TokensTypeOK, NEW c \in Callers, NEW place \in Places, NEW t \in Credentials,
           Leaves(c, place, t), holder = c
    PROVE  /\ StepOf(c) /\ at'[c] = place /\ token'[c] = t /\ holder' = NoOne
           /\ at' \in [Callers -> Places] /\ token' \in [Callers -> Credentials]
  BY TokensAssumption DEF TokensTypeOK, Leaves, Released, Goto, StepOf, Places

(* The record and all that was noted is as before.                             *)
LEMMA RecordSame ==
    ASSUME RecordAgrees, UNCHANGED <<configured, disk, memory, truth, ghosts>>
    PROVE  RecordAgrees'
  BY DEF RecordAgrees, DisconnectLeavesNothing, memory, truth, ghosts

-----------------------------------------------------------------------------
(* Callers *)

(* Steps that change nothing but where the caller is.                          *)
LEMMA QuietKeeps ==
    ASSUME TokensInv, NEW c \in Callers,
           \/ Asks(c) \/ TokenDenied(c) \/ TokenReused(c) \/ SendEnds(c) \/ SendRefused(c)
           \/ RejectionOfOlder(c) \/ LoginAsked(c) \/ DisconnectAsked(c)
    PROVE  TokensInv'
<1>t. TokensTypeOK /\ RecordAgrees /\ CallerAgrees(c) /\ \A q \in Callers : CallerAgrees(q)
  BY DEF TokensInv
<1>1. UNCHANGED <<configured, disk, memory, holder, truth, ghosts>>
  BY DEF Asks, TokenDenied, TokenReused, SendEnds, SendRefused, RejectionOfOlder, LoginAsked,
         DisconnectAsked
<1>2. 0 \in Credentials /\ access.number \in Credentials /\ token[c] \in Credentials
  BY <1>t, TokensAssumption DEF TokensTypeOK, Credentials
<1>3. \E place \in {"idle", "asking", "sending", "rejecting", "login", "disconnecting"}, t \in Credentials :
        /\ Goto(c, place, t) /\ (place \in {"sending", "rejecting"} => t \in saved)
        /\ at[c] \notin LockedSections
  <2>1. CASE Asks(c)
    BY <1>2, <2>1 DEF Asks, LockedSections
  <2>2. CASE TokenDenied(c)
    BY <1>2, <2>2 DEF TokenDenied, Waits, LockedSections
  <2>3. CASE TokenReused(c)
    <3>1. access.number \in saved
      BY <1>t, <2>3 DEF TokenReused, RecordAgrees
    <3> QED  BY <1>2, <2>3, <3>1 DEF TokenReused, Waits, LockedSections
  <2>4. CASE SendEnds(c)
    BY <1>2, <2>4 DEF SendEnds, LockedSections
  <2>5. CASE SendRefused(c)
    <3>1. token[c] \in saved
      BY <1>t, <2>5 DEF SendRefused, CallerAgrees
    <3> QED  BY <1>2, <2>5, <3>1 DEF SendRefused, LockedSections
  <2>6. CASE RejectionOfOlder(c)
    BY <1>2, <2>6 DEF RejectionOfOlder, Waits, LockedSections
  <2>7. CASE LoginAsked(c)
    BY <1>2, <2>7 DEF LoginAsked, LockedSections
  <2>8. CASE DisconnectAsked(c)
    BY <1>2, <2>8 DEF DisconnectAsked, LockedSections
  <2> QED  BY <2>1, <2>2, <2>3, <2>4, <2>5, <2>6, <2>7, <2>8
<1>4. PICK place \in {"idle", "asking", "sending", "rejecting", "login", "disconnecting"}, t \in Credentials :
        /\ Goto(c, place, t) /\ (place \in {"sending", "rejecting"} => t \in saved)
        /\ at[c] \notin LockedSections
  BY <1>3
<1>5. place \in Places /\ place \notin LockedSections \cup {"refreshing", "saving"}
  BY <1>4 DEF Places, LockedSections
<1>6. /\ StepOf(c) /\ at'[c] = place /\ token'[c] = t
      /\ at' \in [Callers -> Places] /\ token' \in [Callers -> Credentials]
  BY <1>t, <1>1, <1>4, <1>5, Moves
<1>7. TokensTypeOK'
  BY <1>t, <1>1, <1>6 DEF TokensTypeOK, memory, truth, ghosts, Places
<1>8. \A q \in Callers \ {c} : CallerAgrees(q)'
  BY <1>t, <1>1, <1>6, OthersAgree DEF memory, ghosts
<1>9. CallerAgrees(c)'
  BY <1>t, <1>1, <1>4, <1>5, <1>6 DEF CallerAgrees, ghosts
<1> QED  BY <1>t, <1>1, <1>7, <1>8, <1>9, RecordSame DEF TokensInv

(* A caller whose turn it is goes into its locked section.                     *)
LEMMA TurnKeeps ==
    ASSUME TokensInv, NEW c \in Callers, RefreshStarts(c) \/ LoginStarts(c) \/ EraseStarts(c)
    PROVE  TokensInv'
<1>t. TokensTypeOK /\ RecordAgrees /\ CallerAgrees(c) /\ \A q \in Callers : CallerAgrees(q)
  BY DEF TokensInv
<1>1. UNCHANGED <<configured, disk, memory, truth, ghosts>> /\ holder = NoOne
  BY DEF RefreshStarts, LoginStarts, EraseStarts, MayErase, Waits
<1>2. 0 \in Credentials /\ record.refresh \in Credentials
  BY <1>t, TokensAssumption DEF TokensTypeOK, Credentials
<1>3. CASE RefreshStarts(c)
  <2>1. Locks(c, "refreshing", record.refresh) /\ record.refresh # 0
    BY <1>3 DEF RefreshStarts, Usable
  <2>2. /\ StepOf(c) /\ at'[c] = "refreshing" /\ token'[c] = record.refresh /\ holder' = c
        /\ at' \in [Callers -> Places] /\ token' \in [Callers -> Credentials]
    BY <1>t, <1>1, <1>2, <2>1, TakesLock DEF Places
  <2>3. ~disconnected
    BY <1>t, <2>1 DEF RecordAgrees, DisconnectLeavesNothing, NoRecord
  <2>4. TokensTypeOK'
    BY <1>t, <1>1, <2>2 DEF TokensTypeOK, memory, truth, ghosts, Places
  <2>5. \A q \in Callers \ {c} : CallerAgrees(q)'
    BY <1>t, <1>1, <2>2, OthersAgree DEF memory, ghosts
  <2>6. CallerAgrees(c)'
    BY <1>1, <2>1, <2>2, <2>3 DEF CallerAgrees, LockedSections, memory, ghosts
  <2> QED  BY <1>t, <1>1, <2>4, <2>5, <2>6, RecordSame DEF TokensInv
<1>4. CASE LoginStarts(c) \/ EraseStarts(c)
  <2>1. PICK place \in {"exchanging", "erasing"} : Locks(c, place, 0)
    BY <1>4 DEF LoginStarts, EraseStarts
  <2>2. /\ StepOf(c) /\ at'[c] = place /\ token'[c] = 0 /\ holder' = c
        /\ at' \in [Callers -> Places] /\ token' \in [Callers -> Credentials]
    BY <1>t, <1>1, <1>2, <2>1, TakesLock DEF Places
  <2>3. TokensTypeOK'
    BY <1>t, <1>1, <2>2 DEF TokensTypeOK, memory, truth, ghosts, Places
  <2>4. \A q \in Callers \ {c} : CallerAgrees(q)'
    BY <1>t, <1>1, <2>2, OthersAgree DEF memory, ghosts
  <2>5. CallerAgrees(c)'
    BY <2>1, <2>2 DEF CallerAgrees, LockedSections
  <2> QED  BY <1>t, <1>1, <2>3, <2>4, <2>5, RecordSame DEF TokensInv
<1> QED  BY <1>3, <1>4

(* An acceptance forgets the refusals before it.                               *)
LEMMA AcceptedKeeps ==
    ASSUME TokensInv, NEW c \in Callers, SendAccepted(c)
    PROVE  TokensInv'
<1>t. TokensTypeOK /\ RecordAgrees /\ CallerAgrees(c) /\ \A q \in Callers : CallerAgrees(q)
  BY DEF TokensInv
<1>1. /\ at[c] = "sending" /\ Goto(c, "idle", 0) /\ rejected' = NoRefusal /\ refused' = {}
      /\ UNCHANGED <<configured, disk, record, access, needsLogin, holder, truth, saved, excused, disconnected>>
  BY DEF SendAccepted
<1>2. /\ StepOf(c) /\ at'[c] = "idle" /\ token'[c] = 0
      /\ at' \in [Callers -> Places] /\ token' \in [Callers -> Credentials]
  BY <1>t, <1>1, Moves, TokensAssumption DEF Places, Credentials
<1>3. NoRefusal \in [count : Nat, digest : Credentials] /\ NoRefusal.count = 0
  BY TokensAssumption DEF NoRefusal, Credentials
<1>4. TokensTypeOK'
  BY <1>t, <1>1, <1>2, <1>3 DEF TokensTypeOK, truth, Places
<1>5. RecordAgrees'
  BY <1>t, <1>1, <1>3 DEF RecordAgrees, DisconnectLeavesNothing, truth
<1>6. \A q \in Callers \ {c} : CallerAgrees(q)'
  BY <1>t, <1>1, <1>2, OthersAgree
<1>7. CallerAgrees(c)'
  BY <1>t, <1>1, <1>2 DEF CallerAgrees, LockedSections
<1> QED  BY <1>4, <1>5, <1>6, <1>7 DEF TokensInv

(* Two refusals count as two only when the tokens differ.                      *)
LEMMA RejectedKeeps ==
    ASSUME TokensInv, NEW c \in Callers, TokenRejected(c)
    PROVE  TokensInv'
<1>t. TokensTypeOK /\ RecordAgrees /\ CallerAgrees(c) /\ \A q \in Callers : CallerAgrees(q)
  BY DEF TokensInv
<1>1. /\ at[c] = "rejecting" /\ Goto(c, "idle", 0) /\ rejected' = Counted(token[c])
      /\ refused' = refused \cup {token[c]} /\ access' = NoAccess
      /\ needsLogin' = (needsLogin \/ rejected'.count > 1)
      /\ UNCHANGED <<configured, disk, record, holder, truth, saved, excused, disconnected>>
  BY DEF TokenRejected, Waits
<1>2. /\ StepOf(c) /\ at'[c] = "idle" /\ token'[c] = 0
      /\ at' \in [Callers -> Places] /\ token' \in [Callers -> Credentials]
  BY <1>t, <1>1, Moves, TokensAssumption DEF Places, Credentials
<1>3. token[c] \in saved /\ token[c] \in 1..MaxIssued /\ token[c] \in Credentials
  BY <1>t, <1>1 DEF CallerAgrees, TokensTypeOK
<1>4. /\ rejected' \in [count : Nat, digest : Credentials]
      /\ \/ rejected' = rejected /\ token[c] = rejected.digest
         \/ /\ token[c] # rejected.digest /\ rejected'.digest = token[c]
            /\ rejected'.count = rejected.count + 1
      /\ rejected.count \in Nat
  BY <1>t, <1>1, <1>3 DEF Counted, TokensTypeOK
<1>5. needsLogin' \in BOOLEAN
  BY <1>t, <1>1 DEF TokensTypeOK
<1>6. NoAccess \in [number : Credentials, fresh : BOOLEAN] /\ NoAccess.number = 0 /\ ~NoAccess.fresh
  BY TokensAssumption DEF NoAccess, Credentials
<1>7. TokensTypeOK'
  BY <1>t, <1>1, <1>2, <1>3, <1>4, <1>5, <1>6 DEF TokensTypeOK, truth, Places
<1>8. RecordAgrees'
  <2>1. rejected'.count > 0 => rejected'.digest \in refused'
    BY <1>t, <1>1, <1>4 DEF RecordAgrees
  <2>2. rejected'.count > 1 => \E s, t \in refused' : s # t
    <3>1. CASE rejected' = rejected
      BY <1>t, <1>1, <3>1 DEF RecordAgrees
    <3>2. CASE token[c] # rejected.digest /\ rejected'.count = rejected.count + 1
      <4>1. rejected'.count > 1 => rejected.digest \in refused
        BY <1>t, <1>4, <3>2 DEF RecordAgrees
      <4> QED  BY <1>1, <3>2, <4>1
    <3> QED  BY <1>4, <3>1, <3>2
  <2> QED  BY <1>t, <1>1, <1>6, <2>1, <2>2 DEF RecordAgrees, DisconnectLeavesNothing, truth
<1>9. \A q \in Callers \ {c} : CallerAgrees(q)'
  BY <1>t, <1>1, <1>2, OthersAgree
<1>10. CallerAgrees(c)'
  BY <1>t, <1>1, <1>2 DEF CallerAgrees, LockedSections
<1> QED  BY <1>7, <1>8, <1>9, <1>10 DEF TokensInv

(* Time passes.                                                                *)
LEMMA ExpiresKeeps ==
    ASSUME TokensInv, Expires
    PROVE  TokensInv'
<1>1. /\ access' = [access EXCEPT !.fresh = FALSE]
      /\ UNCHANGED <<configured, disk, record, rejected, needsLogin, lock, truth, ghosts>>
  BY DEF Expires
<1>2. access'.number = access.number /\ ~access'.fresh /\ access' \in [number : Credentials, fresh : BOOLEAN]
  BY <1>1 DEF TokensInv, TokensTypeOK
<1>3. TokensTypeOK'
  BY <1>1, <1>2 DEF TokensInv, TokensTypeOK, lock, truth, ghosts
<1>4. RecordAgrees'
  BY <1>1, <1>2 DEF TokensInv, RecordAgrees, DisconnectLeavesNothing, truth, ghosts
<1>5. \A c \in Callers : CallerAgrees(c)'
  BY <1>1 DEF TokensInv, CallerAgrees, lock, ghosts
<1> QED  BY <1>3, <1>4, <1>5 DEF TokensInv

-----------------------------------------------------------------------------
(* Answers to the caller inside the lock *)

(* A new credential replaces the record before it is written.                  *)
LEMMA IssuedKeeps ==
    ASSUME TokensInv, NEW c \in Callers,
           (\E rotated \in BOOLEAN : Refreshed(c, rotated)) \/ LoginAnswered(c)
    PROVE  TokensInv'
<1>t. TokensTypeOK /\ RecordAgrees /\ CallerAgrees(c) /\ \A q \in Callers : CallerAgrees(q)
  BY DEF TokensInv
<1>1. /\ at[c] \in {"refreshing", "exchanging"} /\ issued < MaxIssued /\ issued' = issued + 1
      /\ Goto(c, "saving", issued') /\ holder' = holder
      /\ UNCHANGED <<configured, disk, access, rejected, needsLogin, saved, refused>>
  BY DEF Refreshed, LoginAnswered, Issues, ghosts
<1>2. holder = c
  BY <1>t, <1>1 DEF CallerAgrees, LockedSections
<1>3. issued' \in 1..MaxIssued /\ issued' \in Credentials
  BY <1>t, <1>1, TokensAssumption DEF TokensTypeOK, Credentials
<1>4. /\ StepOf(c) /\ at'[c] = "saving" /\ token'[c] = issued'
      /\ at' \in [Callers -> Places] /\ token' \in [Callers -> Credentials]
  BY <1>t, <1>1, <1>3, Moves DEF Places
<1>5. PICK r \in Credentials :
        /\ record' = Received(r) /\ r # 0 /\ r \in valid' /\ valid' \subseteq 1..MaxIssued
        /\ disconnected' = FALSE /\ excused' \in BOOLEAN
  <2>1. ASSUME NEW rotated \in BOOLEAN, Refreshed(c, rotated)
        PROVE  \E r \in Credentials :
                 /\ record' = Received(r) /\ r # 0 /\ r \in valid' /\ valid' \subseteq 1..MaxIssued
                 /\ disconnected' = FALSE /\ excused' \in BOOLEAN
    <3>1. /\ at[c] = "refreshing" /\ token[c] \in valid
          /\ valid' = IF rotated THEN (valid \ {token[c]}) \cup {issued'} ELSE valid
          /\ record' = Received(IF rotated THEN issued' ELSE token[c])
          /\ disconnected' = disconnected /\ excused' = excused
      BY <2>1 DEF Refreshed, ghosts
    <3>2. disconnected = FALSE /\ token[c] \in 1..MaxIssued /\ token[c] \in Credentials
      BY <1>t, <3>1 DEF CallerAgrees, TokensTypeOK
    <3>3. excused \in BOOLEAN /\ valid \subseteq 1..MaxIssued
      BY <1>t DEF TokensTypeOK
    <3>4. CASE rotated
      <4>0. valid' = (valid \ {token[c]}) \cup {issued'} /\ record' = Received(issued')
        BY <3>1, <3>4
      <4>1. record' = Received(issued') /\ issued' \in valid' /\ valid' \subseteq 1..MaxIssued /\ issued' # 0
        <5>1. issued' # 0
          BY <1>3
        <5>2. valid \subseteq 1..MaxIssued
          BY <3>3
        <5>3. valid' \subseteq 1..MaxIssued /\ issued' \in valid'
          BY <1>3, <4>0, <5>2
        <5> QED  BY <4>0, <5>1, <5>3
      <4> QED  BY <1>3, <3>1, <3>2, <3>3, <4>1
    <3>5. CASE ~rotated
      <4>1. record' = Received(token[c]) /\ token[c] \in valid' /\ valid' \subseteq 1..MaxIssued /\ token[c] # 0
        BY <3>1, <3>2, <3>3, <3>5
      <4> QED  BY <3>1, <3>2, <3>3, <4>1
    <3> QED  BY <3>4, <3>5
  <2>2. ASSUME LoginAnswered(c)
        PROVE  \E r \in Credentials :
                 /\ record' = Received(r) /\ r # 0 /\ r \in valid' /\ valid' \subseteq 1..MaxIssued
                 /\ disconnected' = FALSE /\ excused' \in BOOLEAN
    <3>1. /\ valid' = valid \cup {issued'} /\ record' = Received(issued')
          /\ disconnected' = FALSE /\ excused' = FALSE
      BY <2>2 DEF LoginAnswered
    <3>2. issued' \in valid' /\ valid' \subseteq 1..MaxIssued /\ issued' # 0
      BY <1>t, <1>3, <3>1 DEF TokensTypeOK
    <3> QED  BY <1>3, <3>1, <3>2
  <2> QED  BY <2>1, <2>2
<1>6. record' \in Records /\ record'.refresh = r /\ record'.account = configured'
  BY <1>t, <1>1, <1>5 DEF Received, Records, TokensTypeOK
<1>7. TokensTypeOK'
  <2>1. disconnected' \in BOOLEAN
    BY <1>5
  <2> QED  BY <1>t, <1>1, <1>3, <1>4, <1>5, <1>6, <2>1 DEF TokensTypeOK, Records, Places
<1>8. RecordAgrees'
  BY <1>t, <1>1, <1>5, <1>6 DEF RecordAgrees, DisconnectLeavesNothing
<1>9. \A q \in Callers \ {c} : CallerAgrees(q)'
  BY <1>t, <1>1, <1>2, <1>4, OthersAgree
<1>10. CallerAgrees(c)'
  BY <1>1, <1>2, <1>3, <1>4, <1>5, <1>6 DEF CallerAgrees, LockedSections
<1> QED  BY <1>7, <1>8, <1>9, <1>10 DEF TokensInv

(* No credential: the record stays, and may no longer be honoured.             *)
LEMMA UnansweredKeeps ==
    ASSUME TokensInv, NEW c \in Callers,
           \/ \E lost \in BOOLEAN : RefreshFails(c, lost)
           \/ RefreshDenied(c) \/ LoginFails(c)
    PROVE  TokensInv'
<1>t. TokensTypeOK /\ RecordAgrees /\ CallerAgrees(c) /\ \A q \in Callers : CallerAgrees(q)
  BY DEF TokensInv
<1>1. /\ at[c] \in {"refreshing", "exchanging"} /\ Leaves(c, "idle", 0)
      /\ UNCHANGED <<configured, disk, record, access, rejected, issued, saved, refused, disconnected>>
  BY DEF RefreshFails, RefreshDenied, LoginFails, memory, truth, ghosts
<1>2. holder = c
  BY <1>t, <1>1 DEF CallerAgrees, LockedSections
<1>3. /\ StepOf(c) /\ at'[c] = "idle" /\ token'[c] = 0 /\ holder' = NoOne
      /\ at' \in [Callers -> Places] /\ token' \in [Callers -> Credentials]
  BY <1>t, <1>1, <1>2, LeavesLock, TokensAssumption DEF Places, Credentials
<1>4. needsLogin' \in BOOLEAN
  BY <1>t DEF RefreshFails, RefreshDenied, LoginFails, memory, TokensTypeOK
<1>5. excused' \in BOOLEAN /\ valid' \subseteq valid /\ (excused' \/ (valid' = valid /\ (excused => excused')))
  BY <1>t DEF RefreshFails, RefreshDenied, LoginFails, truth, ghosts, TokensTypeOK
<1>6. TokensTypeOK'
  BY <1>t, <1>1, <1>3, <1>4, <1>5 DEF TokensTypeOK, Places
<1>7. RecordAgrees'
  <2>1. record'.refresh # 0 => record'.account = configured' /\ (record'.refresh \in valid' \/ excused')
    BY <1>t, <1>1, <1>5 DEF RecordAgrees
  <2> QED  BY <1>t, <1>1, <2>1 DEF RecordAgrees, DisconnectLeavesNothing
<1>8. \A q \in Callers \ {c} : CallerAgrees(q)'
  BY <1>t, <1>1, <1>3, OthersAgree
<1>9. CallerAgrees(c)'
  BY <1>3, TokensAssumption DEF CallerAgrees, LockedSections
<1> QED  BY <1>6, <1>7, <1>8, <1>9 DEF TokensInv

(* The vault has taken the record: its access token may be used.               *)
LEMMA SavedKeeps ==
    ASSUME TokensInv, NEW c \in Callers, Saved(c)
    PROVE  TokensInv'
<1>t. TokensTypeOK /\ RecordAgrees /\ CallerAgrees(c) /\ \A q \in Callers : CallerAgrees(q)
  BY DEF TokensInv
<1>1. /\ at[c] = "saving" /\ disk' = record /\ access' = [number |-> token[c], fresh |-> TRUE]
      /\ saved' = saved \cup {token[c], record.refresh}
      /\ UNCHANGED <<configured, record, truth, excused, disconnected>>
  BY DEF Saved
<1>2. /\ holder = c /\ token[c] # 0 /\ record.refresh # 0 /\ ~disconnected
      /\ token[c] \in Credentials /\ record.refresh \in Credentials
  BY <1>t, <1>1 DEF CallerAgrees, LockedSections, TokensTypeOK
<1>3. token[c] \in 1..MaxIssued /\ record.refresh \in 1..MaxIssued /\ 0 \in Credentials
  BY <1>2, TokensAssumption DEF Credentials
<1>4. /\ \/ needsLogin' = FALSE /\ rejected' = NoRefusal /\ refused' = {} /\ Leaves(c, "idle", 0)
         \/ UNCHANGED <<needsLogin, rejected, refused>> /\ Leaves(c, "sending", token[c])
  BY DEF Saved
<1>5. NoRefusal \in [count : Nat, digest : Credentials] /\ NoRefusal.count = 0
  BY TokensAssumption DEF NoRefusal, Credentials
<1>6. needsLogin' \in BOOLEAN
  BY <1>t, <1>4 DEF TokensTypeOK
<1>7. /\ StepOf(c) /\ holder' = NoOne
      /\ at'[c] = "idle" \/ (at'[c] = "sending" /\ token'[c] = token[c])
      /\ at' \in [Callers -> Places] /\ token' \in [Callers -> Credentials]
  <2>1. CASE Leaves(c, "idle", 0)
    BY <1>t, <1>2, <1>3, <2>1, LeavesLock DEF Places
  <2>2. CASE Leaves(c, "sending", token[c])
    BY <1>t, <1>2, <2>2, LeavesLock DEF Places
  <2> QED  BY <1>4, <2>1, <2>2
<1>8. TokensTypeOK'
  <2>1. access' \in [number : Credentials, fresh : BOOLEAN]
    BY <1>1, <1>2
  <2>2. saved' \subseteq 1..MaxIssued /\ refused' \subseteq 1..MaxIssued
        /\ rejected' \in [count : Nat, digest : Credentials]
    BY <1>t, <1>1, <1>3, <1>4, <1>5 DEF TokensTypeOK
  <2> QED  BY <1>t, <1>1, <1>6, <1>7, <2>1, <2>2 DEF TokensTypeOK, truth, Places
<1>9. RecordAgrees'
  <2>1. access'.number = token[c] /\ token[c] \in saved'
    BY <1>1
  <2>2. /\ rejected'.count > 0 => rejected'.digest \in refused'
        /\ rejected'.count > 1 => \E s, t \in refused' : s # t
    BY <1>t, <1>4, <1>5 DEF RecordAgrees
  <2> QED  BY <1>t, <1>1, <1>2, <2>1, <2>2 DEF RecordAgrees, DisconnectLeavesNothing, truth
<1>10. \A q \in Callers \ {c} : CallerAgrees(q)'
  BY <1>t, <1>1, <1>7, OthersAgree
<1>11. CallerAgrees(c)'
  BY <1>1, <1>7, TokensAssumption DEF CallerAgrees, LockedSections
<1> QED  BY <1>8, <1>9, <1>10, <1>11 DEF TokensInv

(* A write that fails leaves the new record in memory, and no token to use.    *)
LEMMA SaveFailsKeeps ==
    ASSUME TokensInv, NEW c \in Callers, NEW replaced \in BOOLEAN, SaveFails(c, replaced)
    PROVE  TokensInv'
<1>t. TokensTypeOK /\ RecordAgrees /\ CallerAgrees(c) /\ \A q \in Callers : CallerAgrees(q)
  BY DEF TokensInv
<1>1. /\ at[c] = "saving" /\ Leaves(c, "idle", 0) /\ disk' \in {record, disk}
      /\ UNCHANGED <<configured, record, access, rejected, needsLogin, truth, ghosts>>
  BY DEF SaveFails, TokenAfterFailure
<1>2. holder = c /\ ~disconnected
  BY <1>t, <1>1 DEF CallerAgrees, LockedSections
<1>3. /\ StepOf(c) /\ at'[c] = "idle" /\ token'[c] = 0 /\ holder' = NoOne
      /\ at' \in [Callers -> Places] /\ token' \in [Callers -> Credentials]
  BY <1>t, <1>1, <1>2, LeavesLock, TokensAssumption DEF Places, Credentials
<1>4. TokensTypeOK'
  BY <1>t, <1>1, <1>3 DEF TokensTypeOK, truth, ghosts, Places
<1>5. RecordAgrees'
  BY <1>t, <1>1, <1>2 DEF RecordAgrees, DisconnectLeavesNothing, truth, ghosts
<1>6. \A q \in Callers \ {c} : CallerAgrees(q)'
  BY <1>t, <1>1, <1>3, OthersAgree DEF ghosts
<1>7. CallerAgrees(c)'
  BY <1>3, TokensAssumption DEF CallerAgrees, LockedSections
<1> QED  BY <1>4, <1>5, <1>6, <1>7 DEF TokensInv

(* A disconnection that worked leaves nothing anywhere.                        *)
LEMMA ErasedKeeps ==
    ASSUME TokensInv, NEW c \in Callers, Erased(c)
    PROVE  TokensInv'
<1>t. TokensTypeOK /\ RecordAgrees /\ CallerAgrees(c) /\ \A q \in Callers : CallerAgrees(q)
  BY DEF TokensInv
<1>1. /\ at[c] = "erasing" /\ Leaves(c, "idle", 0) /\ disk' = NoRecord /\ record' = NoRecord
      /\ access' = NoAccess /\ needsLogin' = TRUE /\ disconnected' = TRUE
      /\ UNCHANGED <<configured, rejected, truth, saved, refused, excused>>
  BY DEF Erased
<1>2. holder = c
  BY <1>t, <1>1 DEF CallerAgrees, LockedSections
<1>3. /\ StepOf(c) /\ at'[c] = "idle" /\ token'[c] = 0 /\ holder' = NoOne
      /\ at' \in [Callers -> Places] /\ token' \in [Callers -> Credentials]
  BY <1>t, <1>1, <1>2, LeavesLock, TokensAssumption DEF Places, Credentials
<1>4. /\ NoRecord \in Records /\ NoRecord.refresh = 0
      /\ NoAccess \in [number : Credentials, fresh : BOOLEAN] /\ NoAccess.number = 0 /\ ~NoAccess.fresh
  BY TokensAssumption DEF NoRecord, NoAccess, Records, Credentials
<1>5. TokensTypeOK'
  BY <1>t, <1>1, <1>3, <1>4 DEF TokensTypeOK, truth, Places, Records
<1>6. RecordAgrees'
  BY <1>t, <1>1, <1>4 DEF RecordAgrees, DisconnectLeavesNothing, truth
<1>7. \A q \in Callers \ {c} : CallerAgrees(q)'
  BY <1>t, <1>1, <1>2, <1>3, OthersAgree
<1>8. CallerAgrees(c)'
  BY <1>3, TokensAssumption DEF CallerAgrees, LockedSections
<1> QED  BY <1>5, <1>6, <1>7, <1>8 DEF TokensInv

(* One that failed may have emptied the vault.                                 *)
LEMMA EraseFailsKeeps ==
    ASSUME TokensInv, NEW c \in Callers, NEW replaced \in BOOLEAN, EraseFails(c, replaced)
    PROVE  TokensInv'
<1>t. TokensTypeOK /\ RecordAgrees /\ CallerAgrees(c) /\ \A q \in Callers : CallerAgrees(q)
  BY DEF TokensInv
<1>1. /\ at[c] = "erasing" /\ Leaves(c, "idle", 0) /\ disk' \in {NoRecord, disk}
      /\ UNCHANGED <<configured, record, access, rejected, needsLogin, truth, ghosts>>
  BY DEF EraseFails, memory
<1>2. holder = c
  BY <1>t, <1>1 DEF CallerAgrees, LockedSections
<1>3. /\ StepOf(c) /\ at'[c] = "idle" /\ token'[c] = 0 /\ holder' = NoOne
      /\ at' \in [Callers -> Places] /\ token' \in [Callers -> Credentials]
  BY <1>t, <1>1, <1>2, LeavesLock, TokensAssumption DEF Places, Credentials
<1>4. NoRecord \in Records
  BY TokensAssumption DEF NoRecord, Records, Credentials
<1>5. TokensTypeOK'
  BY <1>t, <1>1, <1>3, <1>4 DEF TokensTypeOK, truth, ghosts, Places, Records
<1>6. RecordAgrees'
  BY <1>t, <1>1 DEF RecordAgrees, DisconnectLeavesNothing, truth, ghosts
<1>7. \A q \in Callers \ {c} : CallerAgrees(q)'
  BY <1>t, <1>1, <1>3, OthersAgree DEF ghosts
<1>8. CallerAgrees(c)'
  BY <1>3, TokensAssumption DEF CallerAgrees, LockedSections
<1> QED  BY <1>5, <1>6, <1>7, <1>8 DEF TokensInv

-----------------------------------------------------------------------------
(* Process *)

(* A start reads the vault; what it finds for another account it does not use. *)
LEMMA RestartKeeps ==
    ASSUME TokensInv, NEW account \in Accounts, Restart(account)
    PROVE  TokensInv'
<1>t. TokensTypeOK /\ RecordAgrees
  BY DEF TokensInv
<1>1. /\ configured' = account /\ record' = Loaded(account)
      /\ access' = NoAccess /\ rejected' = NoRefusal /\ needsLogin' = FALSE /\ holder' = NoOne
      /\ at' = [c \in Callers |-> "idle"] /\ token' = [c \in Callers |-> 0]
      /\ refused' = {} /\ UNCHANGED <<disk, valid, issued, saved, disconnected>>
  BY DEF Restart, truth
<1>2. excused' = (record'.refresh \notin valid)
  BY DEF Restart
<1>3. /\ NoRecord \in Records /\ NoRecord.refresh = 0
      /\ NoAccess \in [number : Credentials, fresh : BOOLEAN] /\ NoAccess.number = 0 /\ ~NoAccess.fresh
      /\ NoRefusal \in [count : Nat, digest : Credentials] /\ NoRefusal.count = 0
      /\ 0 \in Credentials
  BY TokensAssumption DEF NoRecord, NoAccess, NoRefusal, Records, Credentials
<1>4. record' \in {disk, NoRecord} /\ (record' # NoRecord => record'.account = account)
  BY <1>1 DEF Loaded
<1>5. TokensTypeOK'
  <2>1. record' \in Records
    BY <1>t, <1>3, <1>4 DEF TokensTypeOK, Records
  <2>2. excused' \in BOOLEAN /\ needsLogin' \in BOOLEAN
    BY <1>1, <1>2
  <2>3. at' \in [Callers -> Places] /\ token' \in [Callers -> Credentials]
    BY <1>1, <1>3 DEF Places
  <2> QED  BY <1>t, <1>1, <1>3, <2>1, <2>2, <2>3 DEF TokensTypeOK, Records, Places
<1>6. RecordAgrees'
  <2>1. record'.refresh # 0 => record'.account = configured' /\ (record'.refresh \in valid' \/ excused')
    BY <1>1, <1>2, <1>3, <1>4
  <2>2. disconnected' => record' = NoRecord /\ disk' = NoRecord /\ access'.number = 0
    BY <1>t, <1>1, <1>3, <1>4 DEF RecordAgrees, DisconnectLeavesNothing
  <2> QED  BY <1>1, <1>3, <2>1, <2>2 DEF RecordAgrees, DisconnectLeavesNothing
<1>7. \A c \in Callers : CallerAgrees(c)'
  BY <1>1, TokensAssumption DEF CallerAgrees, LockedSections
<1> QED  BY <1>5, <1>6, <1>7 DEF TokensInv

-----------------------------------------------------------------------------
(* The invariant *)

(* A first start finds an empty vault.                                         *)
LEMMA TokensStart == TokensInit => TokensInv
<1> SUFFICES ASSUME TokensInit
             PROVE  TokensInv
  OBVIOUS
<1>1. /\ NoRecord \in Records /\ NoRecord.refresh = 0
      /\ NoAccess \in [number : Credentials, fresh : BOOLEAN] /\ NoAccess.number = 0 /\ ~NoAccess.fresh
      /\ NoRefusal \in [count : Nat, digest : Credentials] /\ NoRefusal.count = 0
      /\ 0 \in Credentials
  BY TokensAssumption DEF NoRecord, NoAccess, NoRefusal, Records, Credentials
<1>2. TokensTypeOK
  <2>1. at \in [Callers -> Places] /\ token \in [Callers -> Credentials]
    BY <1>1 DEF TokensInit, Places
  <2>2. needsLogin \in BOOLEAN /\ excused \in BOOLEAN /\ disconnected \in BOOLEAN
    BY DEF TokensInit
  <2> QED  BY <1>1, <2>1, <2>2 DEF TokensInit, TokensTypeOK, Records, Places
<1>3. RecordAgrees
  BY <1>1 DEF TokensInit, RecordAgrees, DisconnectLeavesNothing
<1>4. \A c \in Callers : CallerAgrees(c)
  BY TokensAssumption DEF TokensInit, CallerAgrees, LockedSections
<1> QED  BY <1>2, <1>3, <1>4 DEF TokensInv

(* Every step keeps it.                                                        *)
LEMMA TokensKept == TokensInv /\ [TokensNext]_vars => TokensInv'
<1>1. ASSUME TokensInv, NEW c \in Callers, TakesTurn(c)
      PROVE  TokensInv'
  BY <1>1, QuietKeeps, TurnKeeps, RejectedKeeps DEF TakesTurn
<1>2. ASSUME TokensInv, NEW c \in Callers, IsAnswered(c)
      PROVE  TokensInv'
  BY <1>2, IssuedKeeps, UnansweredKeeps, SavedKeeps, SaveFailsKeeps, ErasedKeeps, EraseFailsKeeps
     DEF IsAnswered
<1>3. ASSUME TokensInv, NEW c \in Callers, Begins(c)
      PROVE  TokensInv'
  BY <1>3, QuietKeeps, AcceptedKeeps DEF Begins
<1>4. ASSUME TokensInv, UNCHANGED vars
      PROVE  TokensInv'
  BY <1>4 DEF vars, memory, lock, truth, ghosts, TokensInv, TokensTypeOK, RecordAgrees,
              DisconnectLeavesNothing, CallerAgrees
<1> QED  BY <1>1, <1>2, <1>3, <1>4, ExpiresKeeps, RestartKeeps DEF TokensNext

(* The invariant of the token manager (oauth.py:48-66, 200-279).               *)
THEOREM TokensInvariance == TokensSpec => []TokensInv
  BY TokensStart, TokensKept, PTL DEF TokensSpec

(* Nothing is sent with a token that came with an unsaved credential           *)
(* (oauth.py:216-224).                                                         *)
THEOREM SendsWithSaved == TokensSpec => []UsedTokensAreSaved
<1>1. TokensInv => UsedTokensAreSaved
  BY DEF TokensInv, CallerAgrees, UsedTokensAreSaved, Callers
<1> QED  BY <1>1, TokensInvariance, PTL

(* The credential presented is honoured, but for an excuse, and one of the     *)
(* configured account (oauth.py:64-66, 216-218).                               *)
THEOREM PresentsGood == TokensSpec => []PresentsValid
<1>1. TokensInv => PresentsValid
  BY DEF TokensInv, RecordAgrees, CallerAgrees, PresentsValid, Callers
<1> QED  BY <1>1, TokensInvariance, PTL

(* A sign-in is asked for only when two different tokens were refused          *)
(* (oauth.py:252-265).                                                         *)
THEOREM CountsTokens == TokensSpec => []CountsGenerations
<1>1. TokensInv => CountsGenerations
  <2> SUFFICES ASSUME TokensInv, rejected.count > 1
               PROVE  Cardinality(refused) >= 2
    BY DEF CountsGenerations
  <2>1. PICK s, t \in refused : s # t
    BY DEF TokensInv, RecordAgrees
  <2>2. IsFiniteSet(refused)
    <3>1. refused \subseteq 1..MaxIssued /\ 1 \in Int /\ MaxIssued \in Int
      BY TokensAssumption DEF TokensInv, TokensTypeOK
    <3>2. IsFiniteSet(1..MaxIssued)
      BY <3>1, FS_Interval
    <3> QED  BY <3>1, <3>2, FS_Subset
  <2>3. /\ IsFiniteSet({s}) /\ Cardinality({s}) = 1
        /\ Cardinality({s} \cup {t}) = Cardinality({s}) + 1
    BY <2>1, FS_Singleton, FS_AddElement
  <2>4. {s} \cup {t} \subseteq refused
    BY <2>1
  <2>5. Cardinality({s} \cup {t}) <= Cardinality(refused)
    BY <2>2, <2>4, FS_Subset
  <2>6. Cardinality(refused) \in Nat
    BY <2>2, FS_CardinalityType
  <2> QED  BY <2>3, <2>5, <2>6
<1> QED  BY <1>1, TokensInvariance, PTL

(* After disconnect neither memory nor vault holds a credential, until         *)
(* somebody signs in (oauth.py:272-279).                                       *)
THEOREM StaysDisconnected == TokensSpec => []DisconnectLeavesNothing
<1>1. TokensInv => DisconnectLeavesNothing
  BY DEF TokensInv, RecordAgrees
<1> QED  BY <1>1, TokensInvariance, PTL
=============================================================================
