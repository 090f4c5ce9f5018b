----------------------------- MODULE AdminProofs -----------------------------
(* The limits on sign-in attempts and the single use of a Microsoft sign-in,  *)
(* for any browsers, tabs, limits and lengths of time.                        *)
EXTENDS AdminLogin, FiniteSetTheorems, TLAPS

InWindow(t) == {i \in DOMAIN tried : tried[i].at \in t..(t + Window)}
OfClient(c) == {i \in DOMAIN tried : tried[i].client = c}

(* The two halves of AttemptsAreLimited.                                       *)
WindowsHold ==
    \A t \in 0..now :
        /\ Cardinality(InWindow(t)) <= AllLimit
        /\ \A c \in Clients : Cardinality(InWindow(t) \cap OfClient(c)) <= ClientLimit

SessionsFit == Cardinality(sessions) <= SessionLimit /\ sessions \subseteq Issued

(* The parts a step keeps apart: limiter, sessions, flows.                     *)
LimiterHolds == AttemptsKept /\ WindowsHold
FlowsHold    == FlowsHeld /\ FlowsCompleteOnce

-----------------------------------------------------------------------------
(* The invariant in parts *)

(* Attempts of a client in a window are attempts in the window.                *)
LEMMA LimitsInHalves == AttemptsAreLimited <=> WindowsHold /\ SessionsFit
<1>1. \A t, c : {i \in InWindow(t) : tried[i].client = c} = InWindow(t) \cap OfClient(c)
  BY DEF InWindow, OfClient
<1>2. (\A s \in sessions : s \in Issued) <=> sessions \subseteq Issued
  OBVIOUS
<1>3. AttemptsAreLimited <=>
        /\ \A t \in 0..now :
            /\ Cardinality(InWindow(t)) <= AllLimit
            /\ \A c \in Clients :
                  Cardinality({i \in InWindow(t) : tried[i].client = c}) <= ClientLimit
        /\ Cardinality(sessions) <= SessionLimit
        /\ \A s \in sessions : s \in Issued
  BY Zenon DEF AttemptsAreLimited, InWindow
<1>4. WindowsHold <=>
        \A t \in 0..now :
            /\ Cardinality(InWindow(t)) <= AllLimit
            /\ \A c \in Clients :
                  Cardinality({i \in InWindow(t) : tried[i].client = c}) <= ClientLimit
  BY <1>1 DEF WindowsHold
<1> QED  BY <1>2, <1>3, <1>4, Zenon DEF SessionsFit

(* The invariant is that of the three parts.                                   *)
LEMMA InvInParts == AdminInv <=> AdminTypeOK /\ LimiterHolds /\ SessionsFit /\ FlowsHold
  BY LimitsInHalves DEF AdminInv, LimiterHolds, FlowsHold

(* The same of the state after a step.                                         *)
LEMMA InvInPartsNext ==
    AdminInv' <=> AdminTypeOK' /\ LimiterHolds' /\ SessionsFit' /\ FlowsHold'
  BY InvInParts, PTL

(* What is in a sequence is of its kind.                                       *)
LEMMA Elements ==
    ASSUME NEW S, NEW q \in Seq(S)
    PROVE  /\ \A i \in DOMAIN q : q[i] \in S
           /\ DOMAIN q = 1..Len(q) /\ Len(q) \in Nat
  OBVIOUS

(* A record is a tuple of its fields.                                          *)
LEMMA Fields ==
    ASSUME AdminTypeOK
    PROVE  /\ \A i \in DOMAIN tried : tried[i].client \in Clients /\ tried[i].at \in Nat
           /\ DOMAIN tried = 1..Len(tried) /\ Len(tried) \in Nat
           /\ DOMAIN completed = 1..Len(completed) /\ Len(completed) \in Nat
           /\ \A i \in DOMAIN completed :
                /\ completed[i].flow \in Flows /\ completed[i].session \in Sessions
                /\ completed[i].at \in Nat
           /\ \A s \in Sessions : /\ session[s].expires \in Nat
                                  /\ session[s].flow \in 0..MaxFlows
                                  /\ session[s].kind \in Kinds \cup {"none"}
           /\ \A f \in Flows : /\ begun[f].session \in 0..MaxSessions /\ begun[f].at \in Nat
                               /\ begun[f].kind \in Kinds \cup {"none"}
           /\ \A tab \in Tabs : /\ at[tab].session \in 0..MaxSessions
                                /\ at[tab].flow \in 0..MaxFlows /\ at[tab].since \in Nat
           /\ now \in Nat
<1>1. tried \in Seq([client : Clients, at : Nat])
  BY DEF AdminTypeOK
<1>2. completed \in Seq([flow : Flows, session : Sessions, kind : Kinds \cup {"none"}, at : Nat])
  BY DEF AdminTypeOK
<1>3. \A i \in DOMAIN tried : tried[i].client \in Clients /\ tried[i].at \in Nat
  <2>1. \A i \in DOMAIN tried : tried[i] \in [client : Clients, at : Nat]
    BY <1>1, Elements
  <2> QED  BY <2>1
<1>4. \A i \in DOMAIN completed :
        /\ completed[i].flow \in Flows /\ completed[i].session \in Sessions
        /\ completed[i].at \in Nat
  <2>1. \A i \in DOMAIN completed :
            completed[i] \in [flow : Flows, session : Sessions, kind : Kinds \cup {"none"}, at : Nat]
    BY <1>2, Elements
  <2> QED  BY <2>1
<1>5. \A tab \in Tabs : /\ at[tab].session \in 0..MaxSessions
                        /\ at[tab].flow \in 0..MaxFlows /\ at[tab].since \in Nat
  BY DEF AdminTypeOK
<1>6. \A s \in Sessions : /\ session[s].expires \in Nat /\ session[s].flow \in 0..MaxFlows
                          /\ session[s].kind \in Kinds \cup {"none"}
  BY DEF AdminTypeOK
<1>7. \A f \in Flows : /\ begun[f].session \in 0..MaxSessions /\ begun[f].at \in Nat
                       /\ begun[f].kind \in Kinds \cup {"none"}
  BY DEF AdminTypeOK
<1> QED  BY <1>1, <1>2, <1>3, <1>4, <1>5, <1>6, <1>7 DEF AdminTypeOK

(* Every set counted here is finite.                                           *)
LEMMA FiniteCounts ==
    ASSUME AdminTypeOK
    PROVE  /\ IsFiniteSet(sessions)
           /\ \A S : S \subseteq DOMAIN tried => IsFiniteSet(S)
<1>1. IsFiniteSet(Sessions)
  <2>1. MaxSessions \in Int  BY AdminAssumption
  <2> QED  BY <2>1, FS_Interval DEF Sessions
<1>2. IsFiniteSet(DOMAIN tried)
  BY Fields, FS_Interval
<1> QED  BY <1>1, <1>2, FS_Subset DEF AdminTypeOK

-----------------------------------------------------------------------------
(* What a step leaves alone *)

(* A step of a signed-in request, or a verification, does not touch the limiter. *)
LEMMA LimiterSame ==
    ASSUME LimiterHolds, UNCHANGED <<now, attempts, tried>>
    PROVE  LimiterHolds'
  BY DEF LimiterHolds, AttemptsKept, WindowsHold, InWindow, OfClient

(* Sessions that expire or are signed out of leave room.                       *)
LEMMA SessionsLess ==
    ASSUME AdminTypeOK, SessionsFit, sessions' \subseteq sessions,
           \A s \in Sessions : session'[s].expires = session[s].expires
    PROVE  SessionsFit'
<1>1. Cardinality(sessions') <= Cardinality(sessions) /\ Cardinality(sessions') \in Nat
      /\ Cardinality(sessions) \in Nat
  BY FiniteCounts, FS_Subset, FS_CardinalityType
<1>2. Cardinality(sessions') <= SessionLimit
  BY <1>1, AdminAssumption DEF SessionsFit
<1>3. sessions' \subseteq Issued'
  BY DEF SessionsFit, Issued
<1> QED  BY <1>2, <1>3 DEF SessionsFit

(* What sessions hold and what was completed stays, and nobody begins to read. *)
LEMMA FlowsSame ==
    ASSUME FlowsHold, UNCHANGED <<begun, completed>>,
           \A s \in Sessions : /\ session'[s].flow = session[s].flow
                               /\ session'[s].kind = session[s].kind,
           \A tab \in Tabs : at'[tab] = at[tab] \/ at'[tab].place # "reading"
    PROVE  FlowsHold'
<1>1. FlowsHeld'
  BY DEF FlowsHold, FlowsHeld
<1>2. FlowsCompleteOnce'
  BY DEF FlowsHold, FlowsCompleteOnce
<1> QED  BY <1>1, <1>2 DEF FlowsHold

(* The forgotten sessions are among the kept.                                  *)
LEMMA LiveIsLess == Live \subseteq sessions
  BY DEF Live

(* An idle tab is at no place where a session is needed.                       *)
LEMMA IdleIsIdle == Idle.place # "reading" /\ Idle \in [place : {"idle", "verifying", "reading"},
    session : 0..MaxSessions, flow : 0..MaxFlows, since : Nat]
  BY AdminAssumption DEF Idle, NoFlow

-----------------------------------------------------------------------------
(* The limiter *)

(* Time moves on: what is too old stays so, and a window that begins now is empty. *)
LEMMA TickKeeps ==
    ASSUME AdminInv, Tick
    PROVE  AdminInv'
<1>1. AdminTypeOK /\ LimiterHolds /\ SessionsFit /\ FlowsHold
  BY InvInParts
<1>2. now' = now + 1 /\ now \in Nat
      /\ UNCHANGED <<attempts, tried, sessions, session, cookie, at, silent, begun, completed>>
  BY <1>1 DEF Tick, limiter, flows, AdminTypeOK
<1>3. AdminTypeOK'
  BY <1>1, <1>2 DEF AdminTypeOK
<1>4. AttemptsKept'
  <2>1. \A i \in DOMAIN tried : tried[i].at \in Nat
    BY <1>1, Fields
  <2>2. \A i \in DOMAIN tried :
            tried[i].at <= now' /\ (tried[i].at + Window >= now' => tried[i].at + Window >= now)
    BY <1>1, <1>2, <2>1, AdminAssumption DEF LimiterHolds, AttemptsKept
  <2>3. AttemptsKept
    BY <1>1 DEF LimiterHolds
  <2> QED  BY <1>2, <2>2, <2>3 DEF AttemptsKept
<1>5. WindowsHold'
  <2> SUFFICES ASSUME NEW t \in 0..(now + 1)
               PROVE  /\ Cardinality(InWindow(t)) <= AllLimit
                      /\ \A c \in Clients : Cardinality(InWindow(t) \cap OfClient(c)) <= ClientLimit
    BY <1>2 DEF WindowsHold, InWindow, OfClient
  <2>1. CASE t \in 0..now
    BY <1>1, <2>1 DEF LimiterHolds, WindowsHold
  <2>2. CASE t = now + 1
    <3>1. \A i \in DOMAIN tried : tried[i].at \in Nat /\ tried[i].at <= now
      BY <1>1, Fields DEF LimiterHolds, AttemptsKept
    <3>2. InWindow(t) = {}
      BY <1>2, <2>2, <3>1, AdminAssumption DEF InWindow
    <3>3. \A c : InWindow(t) \cap OfClient(c) = {}
      BY <3>2
    <3> QED  BY <3>2, <3>3, FS_EmptySet, AdminAssumption
  <2> QED  BY <1>2, <2>1, <2>2
<1>6. SessionsFit'
  BY <1>1, <1>2, SessionsLess
<1>7. FlowsHold'
  BY <1>1, <1>2, FlowsSame
<1> QED  BY <1>1, <1>3, <1>4, <1>5, <1>6, <1>7, InvInPartsNext DEF LimiterHolds

(* The purge drops no attempt that is still in the window.                     *)
LEMMA RecentKept ==
    ASSUME AdminTypeOK, AttemptsKept
    PROVE  /\ Recent \in [Clients -> SUBSET DOMAIN tried]
           /\ \A c \in Clients : /\ Recent[c] \subseteq attempts[c]
                                 /\ Recent[c] \subseteq OfClient(c)
           /\ \A i \in DOMAIN tried :
                tried[i].at + Window >= now => i \in Recent[tried[i].client]
<1>1. \A c \in Clients : attempts[c] \subseteq OfClient(c)
  BY DEF AttemptsKept, OfClient
<1>2. \A c \in Clients : Recent[c] = {i \in attempts[c] : tried[i].at + Window >= now}
  BY DEF Recent
<1>3. \A i \in DOMAIN tried : tried[i].client \in Clients
  BY Fields
<1>4. \A i \in DOMAIN tried : tried[i].at + Window >= now => i \in Recent[tried[i].client]
  BY <1>2, <1>3 DEF AttemptsKept
<1>5. Recent \in [Clients -> SUBSET DOMAIN tried]
  BY <1>1, <1>2 DEF Recent, OfClient
<1> QED  BY <1>1, <1>2, <1>4, <1>5

(* A refused attempt purges and counts nothing.                                *)
LEMMA LoginRefusedKeeps ==
    ASSUME AdminInv, NEW tab \in Tabs, LoginRefused(tab)
    PROVE  AdminInv'
<1>1. AdminTypeOK /\ LimiterHolds /\ SessionsFit /\ FlowsHold
  BY InvInParts
<1>2. attempts' = Recent /\ sessions' = Live
      /\ UNCHANGED <<now, tried, session, cookie, at, begun, completed>>
  BY DEF LoginRefused, flows
<1>3. LimiterHolds'
  <2>1. AttemptsKept /\ WindowsHold
    BY <1>1 DEF LimiterHolds
  <2>2. AttemptsKept'
    BY <1>1, <1>2, <2>1, RecentKept DEF AttemptsKept, OfClient
  <2>3. WindowsHold'
    BY <1>2, <2>1 DEF WindowsHold, InWindow, OfClient
  <2> QED  BY <2>2, <2>3 DEF LimiterHolds
<1>4. AdminTypeOK'
  <2>1. DOMAIN tried \subseteq Nat
    BY <1>1, Fields
  <2>2. attempts' \in [Clients -> SUBSET Nat]
    BY <1>1, <1>2, <2>1, RecentKept DEF LimiterHolds
  <2> QED  BY <1>1, <1>2, <2>2, LiveIsLess DEF AdminTypeOK
<1>5. SessionsFit'
  BY <1>1, <1>2, LiveIsLess, SessionsLess
<1>6. FlowsHold'
  BY <1>1, <1>2, FlowsSame
<1> QED  BY <1>3, <1>4, <1>5, <1>6, InvInPartsNext

(* Both limits were tested against everything a window that ends now can hold. *)
LEMMA RoomInWindow ==
    ASSUME AdminTypeOK, LimiterHolds, NEW c \in Clients, ~ClientLimited(c), ~AllLimited,
           NEW t \in 0..now, now \in t..(t + Window)
    PROVE  /\ Cardinality(InWindow(t)) < AllLimit
           /\ Cardinality(InWindow(t) \cap OfClient(c)) < ClientLimit
<1> DEFINE All == UNION {Recent[d] : d \in Clients}
<1>1. \A i \in InWindow(t) : tried[i].at + Window >= now
  <2>1. now \in Nat /\ Window \in Nat /\ t \in Nat /\ now <= t + Window
    BY Fields, AdminAssumption
  <2>2. \A i \in InWindow(t) : tried[i].at \in Nat /\ t <= tried[i].at
    BY <2>1, Fields DEF InWindow
  <2> QED  BY <2>1, <2>2
<1>2. InWindow(t) \subseteq All
  BY <1>1, Fields, RecentKept DEF LimiterHolds, InWindow
<1>3. InWindow(t) \cap OfClient(c) \subseteq Recent[c]
  BY <1>1, RecentKept DEF LimiterHolds, InWindow, OfClient
<1>4. All \subseteq DOMAIN tried /\ Recent[c] \subseteq DOMAIN tried
  BY RecentKept DEF LimiterHolds
<1>5. IsFiniteSet(All) /\ IsFiniteSet(Recent[c])
  BY <1>4, FiniteCounts
<1>6. Cardinality(InWindow(t)) <= Cardinality(All) /\ Cardinality(All) \in Nat
      /\ Cardinality(InWindow(t)) \in Nat
  <2> HIDE DEF All
  <2> QED  BY <1>2, <1>5, FS_Subset, FS_CardinalityType
<1>7. Cardinality(InWindow(t) \cap OfClient(c)) <= Cardinality(Recent[c])
      /\ Cardinality(Recent[c]) \in Nat /\ Cardinality(InWindow(t) \cap OfClient(c)) \in Nat
  BY <1>3, <1>5, FS_Subset, FS_CardinalityType
<1>8. Cardinality(All) < AllLimit
  <2>1. Cardinality(All) \in Nat /\ AllLimit \in Nat
    BY <1>6, AdminAssumption
  <2>2. ~(Cardinality(All) >= AllLimit)
    BY DEF AllLimited
  <2> HIDE DEF All
  <2> QED  BY <2>1, <2>2
<1>9. Cardinality(Recent[c]) < ClientLimit
  <2>1. ~(Cardinality(Recent[c]) >= ClientLimit) /\ ClientLimit \in Nat
    BY AdminAssumption DEF ClientLimited
  <2> QED  BY <1>7, <2>1
<1>10. AllLimit \in Nat /\ ClientLimit \in Nat
  BY AdminAssumption
<1> HIDE DEF All
<1> QED  BY <1>6, <1>7, <1>8, <1>9, <1>10

(* One attempt more is counted at the time it begins.                          *)
LEMMA OneAttemptMore ==
    ASSUME AdminTypeOK, NEW c \in Clients, tried' = Append(tried, [client |-> c, at |-> now])
    PROVE  /\ tried' \in Seq([client : Clients, at : Nat])
           /\ DOMAIN tried' = DOMAIN tried \cup {Len(tried) + 1}
           /\ Len(tried) + 1 \notin DOMAIN tried
           /\ \A i \in DOMAIN tried : tried'[i] = tried[i] /\ i <= Len(tried)
           /\ tried'[Len(tried) + 1].client = c /\ tried'[Len(tried) + 1].at = now
<1> DEFINE Attempt == [client : Clients, at : Nat]
           new == [client |-> c, at |-> now]
<1>1. tried \in Seq(Attempt) /\ new \in Attempt
  BY DEF AdminTypeOK
<1>2. new.client = c /\ new.at = now
  OBVIOUS
<1>3. tried' = Append(tried, new)
  OBVIOUS
<1> HIDE DEF Attempt, new
<1>4. tried' \in Seq(Attempt) /\ Len(tried') = Len(tried) + 1 /\ DOMAIN tried' = 1..(Len(tried) + 1)
      /\ tried'[Len(tried) + 1] = new
      /\ \A i \in 1..Len(tried) : tried'[i] = tried[i]
  BY <1>1, <1>3
<1>5. DOMAIN tried = 1..Len(tried) /\ Len(tried) \in Nat
  BY Fields
<1>6. DOMAIN tried' = DOMAIN tried \cup {Len(tried) + 1}
  BY <1>4, <1>5
<1> QED  BY <1>1, <1>2, <1>4, <1>5, <1>6 DEF Attempt

(* The attempt is admitted only if every window that reaches until now has room. *)
LEMMA AttemptKeepsLimits ==
    ASSUME AdminTypeOK, LimiterHolds, NEW c \in Clients, ~ClientLimited(c), ~AllLimited,
           UNCHANGED now, tried' = Append(tried, [client |-> c, at |-> now])
    PROVE  WindowsHold'
<1> DEFINE n == Len(tried) + 1
<1>1. /\ DOMAIN tried' = DOMAIN tried \cup {n} /\ n \notin DOMAIN tried
      /\ \A i \in DOMAIN tried : tried'[i] = tried[i]
      /\ tried'[n].client = c /\ tried'[n].at = now
  BY OneAttemptMore
<1> HIDE DEF n
<1> SUFFICES ASSUME NEW t \in 0..now
             PROVE  /\ Cardinality(InWindow(t)') <= AllLimit
                    /\ \A d \in Clients :
                          Cardinality(InWindow(t)' \cap OfClient(d)') <= ClientLimit
  BY DEF WindowsHold, InWindow, OfClient
<1>2. /\ Cardinality(InWindow(t)) <= AllLimit
      /\ \A d \in Clients : Cardinality(InWindow(t) \cap OfClient(d)) <= ClientLimit
  BY DEF LimiterHolds, WindowsHold
<1>3. \A d : OfClient(d)' = IF d = c THEN OfClient(d) \cup {n} ELSE OfClient(d)
  BY <1>1 DEF OfClient
<1>4. InWindow(t)' = IF now \in t..(t + Window) THEN InWindow(t) \cup {n} ELSE InWindow(t)
  BY <1>1 DEF InWindow
<1>5. n \notin InWindow(t) /\ \A d : n \notin OfClient(d)
  BY <1>1 DEF InWindow, OfClient
<1>6. IsFiniteSet(InWindow(t)) /\ \A d : IsFiniteSet(InWindow(t) \cap OfClient(d))
  BY FiniteCounts DEF InWindow
<1>7. CASE now \in t..(t + Window)
  <2>1. /\ Cardinality(InWindow(t)) < AllLimit
        /\ Cardinality(InWindow(t) \cap OfClient(c)) < ClientLimit
    BY <1>7, RoomInWindow
  <2>2. Cardinality(InWindow(t) \cup {n}) = Cardinality(InWindow(t)) + 1
        /\ Cardinality(InWindow(t)) \in Nat
    BY <1>5, <1>6, FS_AddElement, FS_CardinalityType
  <2>3. Cardinality((InWindow(t) \cap OfClient(c)) \cup {n})
            = Cardinality(InWindow(t) \cap OfClient(c)) + 1
        /\ Cardinality(InWindow(t) \cap OfClient(c)) \in Nat
    BY <1>5, <1>6, FS_AddElement, FS_CardinalityType
  <2>4. InWindow(t)' \cap OfClient(c)' = (InWindow(t) \cap OfClient(c)) \cup {n}
    BY <1>3, <1>4, <1>7
  <2>5. \A d \in Clients : d # c => InWindow(t)' \cap OfClient(d)' = InWindow(t) \cap OfClient(d)
    BY <1>3, <1>4, <1>5, <1>7
  <2>6. Cardinality(InWindow(t)') <= AllLimit
    BY <1>4, <1>7, <2>1, <2>2, AdminAssumption
  <2>7. Cardinality(InWindow(t)' \cap OfClient(c)') <= ClientLimit
    <3>1. Cardinality(InWindow(t) \cap OfClient(c)) + 1 <= ClientLimit
      BY <2>1, <2>3, AdminAssumption
    <3> QED  BY <2>3, <2>4, <3>1
  <2> QED  BY <1>2, <2>5, <2>6, <2>7
<1>8. CASE now \notin t..(t + Window)
  <2>1. \A d \in Clients : InWindow(t)' \cap OfClient(d)' = InWindow(t) \cap OfClient(d)
    BY <1>3, <1>4, <1>5, <1>8
  <2> QED  BY <1>2, <1>4, <1>8, <2>1
<1> QED  BY <1>7, <1>8

(* The attempt is counted when it is admitted, before its password is awaited. *)
LEMMA LoginAttemptedKeeps ==
    ASSUME AdminInv, NEW tab \in Tabs, LoginAttempted(tab)
    PROVE  AdminInv'
<1> DEFINE c == ClientOf[tab]
           n == Len(tried) + 1
<1>1. AdminTypeOK /\ LimiterHolds /\ SessionsFit /\ FlowsHold /\ c \in Clients
  BY InvInParts, AdminAssumption
<1>2. /\ ~ClientLimited(c) /\ ~AllLimited
      /\ attempts' = Counted(c) /\ sessions' = Live
      /\ tried' = Append(tried, [client |-> c, at |-> now])
      /\ at' = [at EXCEPT ![tab] = [Idle EXCEPT !.place = "verifying", !.since = now]]
      /\ UNCHANGED <<now, session, cookie, begun, completed>>
  BY DEF LoginAttempted, Goes, flows
<1>3. /\ tried' \in Seq([client : Clients, at : Nat])
      /\ DOMAIN tried' = DOMAIN tried \cup {n} /\ n \notin DOMAIN tried
      /\ \A i \in DOMAIN tried : tried'[i] = tried[i] /\ i <= Len(tried)
      /\ tried'[n].client = c /\ tried'[n].at = now
  BY <1>1, <1>2, OneAttemptMore
<1>4. \A d \in Clients : attempts'[d] = IF d = c THEN Recent[d] \cup {n} ELSE Recent[d]
  BY <1>1, <1>2 DEF Counted, Recent
<1>5. n \in Nat /\ DOMAIN tried \subseteq Nat /\ now \in Nat /\ Len(tried) \in Nat
  BY <1>1, Fields
<1> HIDE DEF c, n
<1>6. AttemptsKept'
  <2>1. AttemptsKept
    BY <1>1 DEF LimiterHolds
  <2>2. \A i \in DOMAIN tried : tried[i].at <= now /\ tried[i].at \in Nat
                                /\ tried[i].client \in Clients
    BY <1>1, <2>1, Fields DEF AttemptsKept
  <2>3. \A i, j \in DOMAIN tried' : i <= j => tried'[i].at <= tried'[j].at
    <3> SUFFICES ASSUME NEW i \in DOMAIN tried', NEW j \in DOMAIN tried', i <= j
                 PROVE  tried'[i].at <= tried'[j].at
      OBVIOUS
    <3>1. i = n => j = n
      BY <1>3, <1>5 DEF n
    <3> QED  BY <1>3, <1>5, <2>1, <2>2, <3>1 DEF AttemptsKept
  <2>4. \A i \in DOMAIN tried' :
            /\ tried'[i].at <= now'
            /\ tried'[i].at + Window >= now' => i \in attempts'[tried'[i].client]
    <3> SUFFICES ASSUME NEW i \in DOMAIN tried'
                 PROVE  /\ tried'[i].at <= now
                        /\ tried'[i].at + Window >= now => i \in attempts'[tried'[i].client]
      BY <1>2
    <3>1. CASE i = n
      <4>1. n \in attempts'[c]
        BY <1>1, <1>4
      <4>2. tried'[i].client = c /\ tried'[i].at = now
        BY <1>3, <3>1
      <4> QED  BY <1>5, <3>1, <4>1, <4>2
    <3>2. CASE i \in DOMAIN tried
      <4>1. tried[i].at + Window >= now => i \in Recent[tried[i].client]
        BY <1>1, <2>1, <3>2, RecentKept
      <4> QED  BY <1>3, <1>4, <2>2, <3>2, <4>1
    <3> QED  BY <1>3, <3>1, <3>2
  <2>5. \A d \in Clients : attempts'[d] \subseteq {i \in DOMAIN tried' : tried'[i].client = d}
    <3>1. \A d \in Clients : Recent[d] \subseteq {i \in DOMAIN tried : tried[i].client = d}
      BY <1>1, <2>1, RecentKept DEF OfClient
    <3> SUFFICES ASSUME NEW d \in Clients, NEW i \in attempts'[d]
                 PROVE  i \in DOMAIN tried' /\ tried'[i].client = d
      OBVIOUS
    <3>2. CASE i \in Recent[d]
      BY <1>3, <3>1, <3>2
    <3>3. CASE i = n /\ d = c
      BY <1>3, <3>3
    <3> QED  BY <1>4, <3>2, <3>3
  <2> QED  BY <2>3, <2>4, <2>5 DEF AttemptsKept
<1>7. LimiterHolds'
  BY <1>1, <1>2, <1>6, AttemptKeepsLimits DEF LimiterHolds
<1>8. AdminTypeOK'
  <2>1. attempts' \in [Clients -> SUBSET Nat]
    BY <1>1, <1>2, <1>4, <1>5, RecentKept DEF LimiterHolds, Counted, Recent
  <2>2. at' \in [Tabs -> [place : {"idle", "verifying", "reading"}, session : 0..MaxSessions,
                          flow : 0..MaxFlows, since : Nat]]
    BY <1>1, <1>2, IdleIsIdle DEF AdminTypeOK
  <2> QED  BY <1>1, <1>2, <1>3, <2>1, <2>2, LiveIsLess DEF AdminTypeOK
<1>9. SessionsFit'
  BY <1>1, <1>2, LiveIsLess, SessionsLess
<1>10. FlowsHold'
  <2>1. \A u \in Tabs : at'[u] = at[u] \/ at'[u].place # "reading"
    BY <1>1, <1>2 DEF AdminTypeOK, Idle
  <2> QED  BY <1>1, <1>2, <2>1, FlowsSame
<1> QED  BY <1>7, <1>8, <1>9, <1>10, InvInPartsNext

-----------------------------------------------------------------------------
(* Sessions *)

(* A request forgets expired sessions.                                         *)
LEMMA VisitKeeps ==
    ASSUME AdminInv, Visit
    PROVE  AdminInv'
<1>1. AdminTypeOK /\ LimiterHolds /\ SessionsFit /\ FlowsHold
  BY InvInParts
<1>2. sessions' = Live
      /\ UNCHANGED <<now, attempts, tried, session, cookie, at, begun, completed>>
  BY DEF Visit, limiter, flows
<1>3. AdminTypeOK'
  BY <1>1, <1>2, LiveIsLess DEF AdminTypeOK
<1>4. LimiterHolds' /\ SessionsFit' /\ FlowsHold'
  BY <1>1, <1>2, LiveIsLess, LimiterSame, SessionsLess, FlowsSame
<1> QED  BY <1>3, <1>4, InvInPartsNext

(* A wrong password ends the request.                                          *)
LEMMA LoginFailedKeeps ==
    ASSUME AdminInv, NEW tab \in Tabs, LoginFailed(tab)
    PROVE  AdminInv'
<1>1. AdminTypeOK /\ LimiterHolds /\ SessionsFit /\ FlowsHold
  BY InvInParts
<1>2. at' = [at EXCEPT ![tab] = Idle]
      /\ UNCHANGED <<now, attempts, tried, sessions, session, cookie, begun, completed>>
  BY DEF LoginFailed, Goes, limiter, flows
<1>3. AdminTypeOK'
  BY <1>1, <1>2, IdleIsIdle DEF AdminTypeOK
<1>4. \A u \in Tabs : at'[u] = at[u] \/ at'[u].place # "reading"
  BY <1>1, <1>2, IdleIsIdle DEF AdminTypeOK
<1>5. LimiterHolds' /\ SessionsFit' /\ FlowsHold'
  BY <1>1, <1>2, <1>4, LimiterSame, SessionsLess, FlowsSame
<1> QED  BY <1>3, <1>5, InvInPartsNext

(* The oldest session leaves when there is no room for one more.               *)
LEMMA RoomForOne ==
    ASSUME AdminTypeOK, SessionsFit, NEW room \in SUBSET sessions, MakeRoom(room)
    PROVE  IsFiniteSet(room) /\ Cardinality(room) \in Nat /\ Cardinality(room) + 1 <= SessionLimit
<1>1. IsFiniteSet(sessions) /\ Cardinality(sessions) \in Nat /\ SessionLimit \in Nat
  BY FiniteCounts, FS_CardinalityType, AdminAssumption
<1>2. CASE Cardinality(sessions) < SessionLimit
  BY <1>1, <1>2 DEF MakeRoom
<1>3. CASE ~(Cardinality(sessions) < SessionLimit)
  <2>1. PICK first \in sessions : room = sessions \ {first}
    BY <1>3 DEF MakeRoom
  <2>2. IsFiniteSet(room) /\ Cardinality(room) = Cardinality(sessions) - 1
    BY <1>1, <2>1, FS_RemoveElement
  <2> QED  BY <1>1, <2>2, FS_CardinalityType DEF SessionsFit
<1> QED  BY <1>2, <1>3

(* The right password adds a session in the room that was made for it.         *)
LEMMA LoginVerifiedKeeps ==
    ASSUME AdminInv, NEW tab \in Tabs, LoginVerified(tab)
    PROVE  AdminInv'
<1>1. AdminTypeOK /\ LimiterHolds /\ SessionsFit /\ FlowsHold
  BY InvInParts
<1>2. PICK new \in Sessions, room \in SUBSET sessions :
        /\ at' = [at EXCEPT ![tab] = Idle] /\ MakeRoom(room) /\ sessions' = room \cup {new}
        /\ session' = [session EXCEPT ![new].expires = at[tab].since + SessionTime]
        /\ cookie' = [cookie EXCEPT ![ClientOf[tab]] = new]
        /\ UNCHANGED <<now, attempts, tried, begun, completed>>
  BY DEF LoginVerified, Goes, limiter, flows
<1>3. at[tab].since + SessionTime \in Nat /\ at[tab].since + SessionTime # 0
  <2>1. at[tab].since \in Nat
    BY <1>1, Fields
  <2>2. SessionTime \in Nat \ {0}
    BY AdminAssumption
  <2> QED  BY <2>1, <2>2
<1>4. \A s \in Sessions : /\ session'[s].flow = session[s].flow
                          /\ session'[s].kind = session[s].kind
                          /\ s # new => session'[s] = session[s]
  BY <1>1, <1>2 DEF AdminTypeOK
<1>5. session'[new].expires # 0
  BY <1>1, <1>2, <1>3 DEF AdminTypeOK
<1>6. AdminTypeOK'
  <2>1. session' \in [Sessions -> [expires : Nat, flow : 0..MaxFlows, kind : Kinds \cup {"none"}]]
    <3> DEFINE Record == [expires : Nat, flow : 0..MaxFlows, kind : Kinds \cup {"none"}]
               later == at[tab].since + SessionTime
    <3>1. session \in [Sessions -> Record] /\ later \in Nat
      BY <1>1, <1>3 DEF AdminTypeOK
    <3>2. session' = [session EXCEPT ![new] = [session[new] EXCEPT !.expires = later]]
      BY <1>2
    <3> HIDE DEF later
    <3>3. session[new] \in Record /\ [session[new] EXCEPT !.expires = later] \in Record
      BY <3>1
    <3> HIDE DEF Record
    <3>4. session' \in [Sessions -> Record]
      BY <3>1, <3>2, <3>3
    <3> QED  BY <3>4 DEF Record
  <2>2. cookie' \in [Clients -> 0..MaxSessions]
    <3>1. new \in 0..MaxSessions
      BY AdminAssumption DEF Sessions
    <3> QED  BY <1>1, <1>2, <3>1 DEF AdminTypeOK
  <2>3. at' \in [Tabs -> [place : {"idle", "verifying", "reading"}, session : 0..MaxSessions,
                          flow : 0..MaxFlows, since : Nat]]
    BY <1>1, <1>2, IdleIsIdle DEF AdminTypeOK
  <2> QED  BY <1>1, <1>2, <2>1, <2>2, <2>3 DEF AdminTypeOK
<1>7. SessionsFit'
  <2>1. IsFiniteSet(room) /\ Cardinality(room) \in Nat /\ Cardinality(room) + 1 <= SessionLimit
    BY <1>1, <1>2, RoomForOne
  <2>2. Cardinality(room \cup {new}) <= Cardinality(room) + 1
        /\ Cardinality(room \cup {new}) \in Nat
    <3>1. IsFiniteSet(room \cup {new})
      BY <2>1, FS_AddElement
    <3>2. Cardinality(room \cup {new}) \in {Cardinality(room), Cardinality(room) + 1}
      BY <2>1, FS_AddElement
    <3> QED  BY <2>1, <3>1, <3>2
  <2>3. Cardinality(sessions') <= SessionLimit
    BY <1>2, <2>1, <2>2, AdminAssumption
  <2>4. sessions' \subseteq Issued'
    BY <1>1, <1>2, <1>4, <1>5 DEF SessionsFit, Issued
  <2> QED  BY <2>3, <2>4 DEF SessionsFit
<1>8. FlowsHold'
  <2>1. \A u \in Tabs : at'[u] = at[u] \/ at'[u].place # "reading"
    BY <1>1, <1>2, IdleIsIdle DEF AdminTypeOK
  <2> QED  BY <1>1, <1>2, <1>4, <2>1, FlowsSame
<1> QED  BY <1>1, <1>2, <1>6, <1>7, <1>8, LimiterSame, InvInPartsNext

(* Signing out forgets the session; its record keeps what a late request may find. *)
LEMMA LogoutKeeps ==
    ASSUME AdminInv, NEW tab \in Tabs, Logout(tab)
    PROVE  AdminInv'
<1>1. AdminTypeOK /\ LimiterHolds /\ SessionsFit /\ FlowsHold
  BY InvInParts
<1>2. sessions' \subseteq sessions /\ cookie' = [cookie EXCEPT ![ClientOf[tab]] = 0]
      /\ UNCHANGED <<now, attempts, tried, session, at, begun, completed>>
  BY LiveIsLess DEF Logout, limiter, flows
<1>3. AdminTypeOK'
  <2>1. 0 \in 0..MaxSessions
    BY AdminAssumption
  <2>2. cookie' \in [Clients -> 0..MaxSessions]
    BY <1>1, <1>2, <2>1 DEF AdminTypeOK
  <2> QED  BY <1>1, <1>2, <2>2 DEF AdminTypeOK
<1>4. LimiterHolds' /\ SessionsFit' /\ FlowsHold'
  BY <1>1, <1>2, LimiterSame, SessionsLess, FlowsSame
<1> QED  BY <1>3, <1>4, InvInPartsNext

-----------------------------------------------------------------------------
(* Microsoft sign-ins *)

(* A request that is admitted has a session.                                   *)
LEMMA AdmittedHasSession ==
    ASSUME AdminTypeOK, NEW tab \in Tabs, Admitted(tab)
    PROVE  Cookie(tab) \in Sessions /\ sessions' \subseteq sessions
  BY LiveIsLess DEF AdminTypeOK, Admitted

(* A flow that begins is new: no session holds it and none has completed it.    *)
LEMMA BeginKeeps ==
    ASSUME AdminInv, NEW tab \in Tabs, NEW kind \in Kinds, Begin(tab, kind)
    PROVE  AdminInv'
<1> DEFINE s == Cookie(tab)
<1>1. AdminTypeOK /\ LimiterHolds /\ SessionsFit /\ FlowsHold
  BY InvInParts
<1>2. PICK new \in Flows :
        /\ Admitted(tab) /\ begun[new].session = 0
        /\ begun' = [begun EXCEPT ![new] = [session |-> s, kind |-> kind, at |-> now]]
        /\ session' = [session EXCEPT ![s].flow = new, ![s].kind = kind]
        /\ UNCHANGED <<now, attempts, tried, cookie, at, completed>>
  BY DEF Begin, limiter
<1>3. s \in Sessions /\ sessions' \subseteq sessions
  BY <1>1, <1>2, AdmittedHasSession
<1> HIDE DEF s
<1>4. /\ session'[s].flow = new /\ session'[s].kind = kind /\ session'[s].expires = session[s].expires
      /\ \A r \in Sessions : r # s => session'[r] = session[r]
      /\ begun'[new].session = s /\ begun'[new].kind = kind /\ begun'[new].at = now
      /\ \A f \in Flows : f # new => begun'[f] = begun[f]
  BY <1>1, <1>2, <1>3 DEF AdminTypeOK
<1>5. AdminTypeOK'
  <2>1. new \in 0..MaxFlows /\ s \in 0..MaxSessions /\ now \in Nat
    BY <1>1, <1>3, AdminAssumption DEF Flows, Sessions, AdminTypeOK
  <2>2. session' \in [Sessions -> [expires : Nat, flow : 0..MaxFlows, kind : Kinds \cup {"none"}]]
    <3> DEFINE Record == [expires : Nat, flow : 0..MaxFlows, kind : Kinds \cup {"none"}]
    <3>1. session \in [Sessions -> Record]
      BY <1>1 DEF AdminTypeOK
    <3>2. [session[s] EXCEPT !.flow = new, !.kind = kind] \in Record
      BY <1>3, <2>1, <3>1
    <3>3. session' = [session EXCEPT ![s] = [session[s] EXCEPT !.flow = new, !.kind = kind]]
      BY <1>2, <1>3, <3>1
    <3> HIDE DEF Record
    <3>4. session' \in [Sessions -> Record]
      BY <1>3, <3>1, <3>2, <3>3
    <3> QED  BY <3>4 DEF Record
  <2>3. begun' \in [Flows -> [session : 0..MaxSessions, kind : Kinds \cup {"none"}, at : Nat]]
    BY <1>1, <1>2, <2>1 DEF AdminTypeOK
  <2> QED  BY <1>1, <1>2, <1>3, <2>2, <2>3 DEF AdminTypeOK
<1>6. \A i \in DOMAIN completed : completed[i].flow # new
  <2>1. \A i \in DOMAIN completed : begun[completed[i].flow].session = completed[i].session
    BY <1>1 DEF FlowsHold, FlowsCompleteOnce
  <2>2. \A i \in DOMAIN completed : completed[i].session # 0
    BY <1>1, Fields, AdminAssumption DEF Sessions
  <2> QED  BY <1>2, <2>1, <2>2
<1>7. \A r \in Sessions : session[r].flow # new
  <2>1. \A r \in Sessions : session[r].flow # NoFlow => begun[session[r].flow].session = r
    BY <1>1 DEF FlowsHold, FlowsHeld
  <2>2. new # NoFlow /\ \A r \in Sessions : r # 0
    BY AdminAssumption DEF Flows, Sessions, NoFlow
  <2> QED  BY <1>2, <2>1, <2>2
<1>8. FlowsHold'
  <2>1. FlowsCompleteOnce'
    BY <1>1, <1>2, <1>4, <1>6, Fields DEF FlowsHold, FlowsCompleteOnce
  <2>2. FlowsHeld'
    <3>1. ASSUME NEW r \in Sessions, session'[r].flow # NoFlow
          PROVE  /\ begun'[session'[r].flow].session = r
                 /\ begun'[session'[r].flow].kind = session'[r].kind
                 /\ \A i \in DOMAIN completed : completed[i].flow # session'[r].flow
      <4>1. CASE r = s
        BY <1>4, <1>6, <4>1
      <4>2. CASE r # s
        <5>1. session'[r] = session[r] /\ session[r].flow # new
          BY <1>4, <1>7, <4>2
        <5>2. session[r].flow \in 0..MaxFlows /\ session[r].flow # 0
          <6>1. session'[r].flow # 0
            BY <3>1 DEF NoFlow
          <6>2. session[r].flow \in 0..MaxFlows
            BY <1>1, Fields
          <6> QED  BY <5>1, <6>1, <6>2
        <5>3. session[r].flow \in Flows
          BY <5>2, AdminAssumption DEF Flows
        <5>4. begun'[session[r].flow] = begun[session[r].flow]
          BY <1>4, <5>1, <5>3
        <5>5. session[r].flow # NoFlow
          BY <3>1, <5>1
        <5>6. /\ begun[session[r].flow].session = r
              /\ begun[session[r].flow].kind = session[r].kind
              /\ \A i \in DOMAIN completed : completed[i].flow # session[r].flow
          BY <1>1, <5>5 DEF FlowsHold, FlowsHeld
        <5> QED  BY <5>1, <5>4, <5>6
      <4> QED  BY <4>1, <4>2
    <3>2. at' = at /\ completed' = completed
      BY <1>2
    <3>3. \A t \in Tabs : at[t].place = "reading" => at[t].session \in Sessions
      BY <1>1 DEF FlowsHold, FlowsHeld
    <3> QED  BY <3>1, <3>2, <3>3 DEF FlowsHeld
  <2> QED  BY <2>1, <2>2 DEF FlowsHold
<1>9. SessionsFit'
  BY <1>1, <1>3, <1>4, SessionsLess
<1> QED  BY <1>1, <1>2, <1>5, <1>8, <1>9, LimiterSame, InvInPartsNext

(* complete_login looks its session up before it awaits the body.               *)
LEMMA CompleteAskedKeeps ==
    ASSUME AdminInv, NEW tab \in Tabs, NEW state \in Flows, CompleteAsked(tab, state)
    PROVE  AdminInv'
<1> DEFINE request == [place |-> "reading", session |-> Cookie(tab), flow |-> state, since |-> 0]
<1>1. AdminTypeOK /\ LimiterHolds /\ SessionsFit /\ FlowsHold
  BY InvInParts
<1>2. /\ Admitted(tab) /\ at' = [at EXCEPT ![tab] = request]
      /\ UNCHANGED <<now, attempts, tried, session, cookie, begun, completed>>
  BY DEF CompleteAsked, Goes, limiter, flows
<1>3. Cookie(tab) \in Sessions /\ sessions' \subseteq sessions
  BY <1>1, <1>2, AdmittedHasSession
<1>4. request.session \in Sessions
  BY <1>3
<1>5. AdminTypeOK'
  <2>1. Cookie(tab) \in 0..MaxSessions /\ state \in 0..MaxFlows
    BY <1>3, AdminAssumption DEF Sessions, Flows
  <2>2. request \in [place : {"idle", "verifying", "reading"}, session : 0..MaxSessions,
                     flow : 0..MaxFlows, since : Nat]
    BY <2>1
  <2> HIDE DEF request
  <2>3. at' \in [Tabs -> [place : {"idle", "verifying", "reading"}, session : 0..MaxSessions,
                          flow : 0..MaxFlows, since : Nat]]
    BY <1>1, <1>2, <2>2 DEF AdminTypeOK
  <2> QED  BY <1>1, <1>2, <1>3, <2>3 DEF AdminTypeOK
<1>6. FlowsHold'
  <2>1. \A u \in Tabs : at'[u].place = "reading" => at'[u].session \in Sessions
    <3> HIDE DEF request
    <3> QED  BY <1>1, <1>2, <1>4 DEF AdminTypeOK, FlowsHold, FlowsHeld
  <2>2. FlowsHeld'
    BY <1>1, <1>2, <2>1 DEF FlowsHold, FlowsHeld
  <2>3. FlowsCompleteOnce'
    BY <1>1, <1>2 DEF FlowsHold, FlowsCompleteOnce
  <2> QED  BY <2>2, <2>3 DEF FlowsHold
<1> HIDE DEF request
<1>7. LimiterHolds' /\ SessionsFit'
  BY <1>1, <1>2, <1>3, LimiterSame, SessionsLess
<1> QED  BY <1>5, <1>6, <1>7, InvInPartsNext

(* The session gives its flow away before it is exchanged.                      *)
LEMMA FlowTaken ==
    ASSUME AdminTypeOK, NEW s \in Sessions, NEW state, Finish(s, state)
    PROVE  /\ session' \in [Sessions -> [expires : Nat, flow : 0..MaxFlows,
                                         kind : Kinds \cup {"none"}]]
           /\ session'[s].flow = NoFlow
           /\ \A r \in Sessions : /\ session'[r].expires = session[r].expires
                                  /\ session'[r].kind = session[r].kind
                                  /\ r # s => session'[r] = session[r]
<1>1. session' = [session EXCEPT ![s].flow = NoFlow]
  BY DEF Finish, Taken
<1>2. NoFlow \in 0..MaxFlows
  BY AdminAssumption DEF NoFlow
<1> DEFINE Record == [expires : Nat, flow : 0..MaxFlows, kind : Kinds \cup {"none"}]
<1>3. session \in [Sessions -> Record]
  BY DEF AdminTypeOK
<1>4. \A r \in Sessions : session'[r] = IF r = s THEN [session[s] EXCEPT !.flow = NoFlow]
                                      ELSE session[r]
  BY <1>1, <1>3
<1>5. /\ session[s] \in Record /\ session'[s] = [session[s] EXCEPT !.flow = NoFlow]
      /\ \A r \in Sessions \ {s} : session'[r] = session[r]
  BY <1>3, <1>4
<1>6. /\ session'[s] \in Record /\ session'[s].flow = NoFlow
      /\ session'[s].expires = session[s].expires /\ session'[s].kind = session[s].kind
  BY <1>2, <1>5
<1> HIDE DEF Record
<1>7. session' \in [Sessions -> Record]
  BY <1>1, <1>3, <1>5, <1>6
<1> QED  BY <1>5, <1>6, <1>7 DEF Record

(* Only the flow that was held is exchanged, for the account it was begun for,  *)
(* within its time, and no session holds it any more.                          *)
LEMMA FinishKeepsFlows ==
    ASSUME AdminTypeOK, FlowsHold, NEW s \in Sessions, NEW state, Finish(s, state), UNCHANGED now,
           \A tab \in Tabs : at'[tab] = at[tab] \/ at'[tab].place # "reading"
    PROVE  /\ FlowsHold'
           /\ completed' \in Seq([flow : Flows, session : Sessions, kind : Kinds \cup {"none"},
                                  at : Nat])
<1> DEFINE Done == [flow : Flows, session : Sessions, kind : Kinds \cup {"none"}, at : Nat]
           flow == session[s].flow
           new == [flow |-> flow, session |-> s, kind |-> session[s].kind, at |-> now]
           n == Len(completed) + 1
<1>1. UNCHANGED begun
      /\ completed' = IF flow # NoFlow /\ flow = state /\ begun[flow].at + FlowTime >= now
                      THEN Append(completed, new) ELSE completed
  BY DEF Finish
<1>2. completed \in Seq(Done) /\ DOMAIN completed = 1..Len(completed) /\ Len(completed) \in Nat
  BY Fields DEF AdminTypeOK
<1>3. \A r \in Sessions : session'[r].flow # NoFlow
        => r # s /\ session'[r] = session[r]
  BY FlowTaken
<1>4. CASE completed' = completed
  <2>1. FlowsHeld'
    BY <1>1, <1>3, <1>4 DEF FlowsHold, FlowsHeld
  <2>2. FlowsCompleteOnce'
    BY <1>1, <1>4 DEF FlowsHold, FlowsCompleteOnce
  <2> QED  BY <1>2, <1>4, <2>1, <2>2 DEF FlowsHold
<1>5. CASE flow # NoFlow /\ begun[flow].at + FlowTime >= now /\ completed' = Append(completed, new)
  <2>1. flow \in Flows
    BY <1>5, Fields, AdminAssumption DEF Flows, NoFlow
  <2>2. new \in Done
    BY <2>1, Fields
  <2>3. new.flow = flow /\ new.session = s /\ new.kind = session[s].kind /\ new.at = now
    OBVIOUS
  <2>4. begun[flow].session = s /\ begun[flow].kind = session[s].kind
        /\ \A i \in DOMAIN completed : completed[i].flow # flow
    BY <1>5 DEF FlowsHold, FlowsHeld
  <2>5. \A r \in Sessions : session'[r].flow # NoFlow => session'[r].flow # flow
    <3> SUFFICES ASSUME NEW r \in Sessions, session'[r].flow # NoFlow
                 PROVE  session'[r].flow # flow
      OBVIOUS
    <3>1. begun[session[r].flow].session = r /\ r # s /\ session'[r].flow = session[r].flow
      BY <1>3 DEF FlowsHold, FlowsHeld
    <3> QED  BY <2>4, <3>1
  <2>6. now <= begun[flow].at + FlowTime
    BY <1>5, <2>1, Fields, AdminAssumption
  <2> HIDE DEF new, Done, flow
  <2>7. /\ completed' \in Seq(Done) /\ DOMAIN completed' = DOMAIN completed \cup {n}
        /\ n \notin DOMAIN completed /\ completed'[n] = new
        /\ \A i \in DOMAIN completed : completed'[i] = completed[i]
    <3>1. completed' \in Seq(Done) /\ Len(completed') = n /\ DOMAIN completed' = 1..n
          /\ completed'[n] = new /\ \A i \in 1..Len(completed) : completed'[i] = completed[i]
      BY <1>2, <1>5, <2>2
    <3> QED  BY <1>2, <3>1
  <2> HIDE DEF n
  <2>8. FlowsCompleteOnce'
    <3>1. ASSUME NEW i \in DOMAIN completed', NEW j \in DOMAIN completed',
                 completed'[i].flow = completed'[j].flow
          PROVE  i = j
      <4>1. CASE i = n \/ j = n
        BY <2>3, <2>4, <2>7, <3>1, <4>1
      <4>2. CASE i \in DOMAIN completed /\ j \in DOMAIN completed
        BY <2>7, <3>1, <4>2 DEF FlowsHold, FlowsCompleteOnce
      <4> QED  BY <2>7, <4>1, <4>2
    <3>2. ASSUME NEW i \in DOMAIN completed'
          PROVE  /\ begun[completed'[i].flow].session = completed'[i].session
                 /\ begun[completed'[i].flow].kind = completed'[i].kind
                 /\ completed'[i].at <= begun[completed'[i].flow].at + FlowTime
      <4>1. CASE i = n
        BY <2>3, <2>4, <2>6, <2>7, <4>1
      <4>2. CASE i \in DOMAIN completed
        BY <2>7, <4>2 DEF FlowsHold, FlowsCompleteOnce
      <4> QED  BY <2>7, <4>1, <4>2
    <3> QED  BY <1>1, <3>1, <3>2 DEF FlowsCompleteOnce
  <2>9. FlowsHeld'
    <3>1. ASSUME NEW r \in Sessions, session'[r].flow # NoFlow
          PROVE  /\ begun[session'[r].flow].session = r
                 /\ begun[session'[r].flow].kind = session'[r].kind
                 /\ \A i \in DOMAIN completed' : completed'[i].flow # session'[r].flow
      <4>1. session'[r] = session[r]
        BY <1>3, <3>1
      <4>2. /\ begun[session[r].flow].session = r /\ begun[session[r].flow].kind = session[r].kind
            /\ \A i \in DOMAIN completed : completed[i].flow # session[r].flow
        BY <3>1, <4>1 DEF FlowsHold, FlowsHeld
      <4> QED  BY <2>3, <2>5, <2>7, <3>1, <4>1, <4>2
    <3> QED  BY <1>1, <3>1 DEF FlowsHold, FlowsHeld
  <2> QED  BY <2>7, <2>8, <2>9 DEF FlowsHold, Done
<1> QED  BY <1>1, <1>4, <1>5

(* The body arrives for a session that may have been signed out meanwhile.      *)
LEMMA CompleteReadKeeps ==
    ASSUME AdminInv, NEW tab \in Tabs, CompleteRead(tab)
    PROVE  AdminInv'
<1>1. AdminTypeOK /\ LimiterHolds /\ SessionsFit /\ FlowsHold
  BY InvInParts
<1>2. /\ at[tab].place = "reading" /\ at' = [at EXCEPT ![tab] = Idle]
      /\ Finish(at[tab].session, at[tab].flow)
      /\ UNCHANGED <<now, attempts, tried, sessions, cookie, begun>>
  BY DEF CompleteRead, Goes, limiter, Finish
<1>3. at[tab].session \in Sessions
  BY <1>1, <1>2 DEF FlowsHold, FlowsHeld
<1>4. \A u \in Tabs : at'[u] = at[u] \/ at'[u].place # "reading"
  BY <1>1, <1>2, IdleIsIdle DEF AdminTypeOK
<1>5. /\ FlowsHold'
      /\ completed' \in Seq([flow : Flows, session : Sessions, kind : Kinds \cup {"none"}, at : Nat])
  BY <1>1, <1>2, <1>3, <1>4, FinishKeepsFlows
<1>6. /\ session' \in [Sessions -> [expires : Nat, flow : 0..MaxFlows, kind : Kinds \cup {"none"}]]
      /\ \A r \in Sessions : session'[r].expires = session[r].expires
  BY <1>1, <1>2, <1>3, FlowTaken
<1>7. AdminTypeOK'
  BY <1>1, <1>2, <1>5, <1>6, IdleIsIdle DEF AdminTypeOK
<1>8. LimiterHolds' /\ SessionsFit'
  BY <1>1, <1>2, <1>6, LimiterSame, SessionsLess
<1> QED  BY <1>5, <1>7, <1>8, InvInPartsNext

(* The redirect finishes in one step what the page finishes in two.             *)
LEMMA CallbackKeeps ==
    ASSUME AdminInv, NEW tab \in Tabs, NEW state \in Flows, Callback(tab, state)
    PROVE  AdminInv'
<1>1. AdminTypeOK /\ LimiterHolds /\ SessionsFit /\ FlowsHold
  BY InvInParts
<1>2. /\ Admitted(tab) /\ Finish(Cookie(tab), state)
      /\ UNCHANGED <<now, attempts, tried, cookie, at, begun>>
  BY DEF Callback, limiter, Finish
<1>3. Cookie(tab) \in Sessions /\ sessions' \subseteq sessions
  BY <1>1, <1>2, AdmittedHasSession
<1>4. /\ FlowsHold'
      /\ completed' \in Seq([flow : Flows, session : Sessions, kind : Kinds \cup {"none"}, at : Nat])
  BY <1>1, <1>2, <1>3, FinishKeepsFlows
<1>5. /\ session' \in [Sessions -> [expires : Nat, flow : 0..MaxFlows, kind : Kinds \cup {"none"}]]
      /\ \A r \in Sessions : session'[r].expires = session[r].expires
  BY <1>1, <1>2, <1>3, FlowTaken
<1>6. AdminTypeOK'
  BY <1>1, <1>2, <1>3, <1>4, <1>5 DEF AdminTypeOK
<1>7. LimiterHolds' /\ SessionsFit'
  BY <1>1, <1>2, <1>3, <1>5, LimiterSame, SessionsLess
<1> QED  BY <1>4, <1>6, <1>7, InvInPartsNext

-----------------------------------------------------------------------------
(* Theorems *)

(* A service that starts has neither attempts nor sessions nor flows.          *)
LEMMA AdminStarts == AdminInit => AdminInv
<1> SUFFICES ASSUME AdminInit
             PROVE  AdminInv
  OBVIOUS
<1>1. /\ now = 0 /\ tried = <<>> /\ completed = <<>> /\ sessions = {}
      /\ attempts = [c \in Clients |-> {}] /\ at = [tab \in Tabs |-> Idle]
      /\ session = [s \in Sessions |-> [expires |-> 0, flow |-> NoFlow, kind |-> "none"]]
      /\ begun = [f \in Flows |-> [session |-> 0, kind |-> "none", at |-> 0]]
      /\ cookie = [c \in Clients |-> 0]
  BY DEF AdminInit
<1>2. 0 \in 0..MaxFlows /\ 0 \in 0..MaxSessions
  BY AdminAssumption
<1>3. AdminTypeOK
  BY <1>1, <1>2, IdleIsIdle DEF AdminTypeOK, NoFlow
<1>4. InWindow(0) = {} /\ \A t, c : InWindow(t) = {} /\ InWindow(t) \cap OfClient(c) = {}
  BY <1>1 DEF InWindow
<1>5. LimiterHolds
  <2>1. AttemptsKept
    BY <1>1 DEF AttemptsKept
  <2>2. WindowsHold
    BY <1>4, FS_EmptySet, AdminAssumption DEF WindowsHold
  <2> QED  BY <2>1, <2>2 DEF LimiterHolds
<1>6. SessionsFit
  BY <1>1, FS_EmptySet, AdminAssumption DEF SessionsFit
<1>7. FlowsHold
  BY <1>1, IdleIsIdle DEF FlowsHold, FlowsHeld, FlowsCompleteOnce
<1> QED  BY <1>3, <1>5, <1>6, <1>7, InvInParts

(* Every request, wherever it awaits, and every tick of the clock keeps it.    *)
LEMMA AdminStepKeeps ==
    ASSUME AdminInv, AdminNext
    PROVE  AdminInv'
<1>1. CASE Tick \/ Visit
  BY <1>1, TickKeeps, VisitKeeps
<1>2. ASSUME NEW tab \in Tabs,
             LoginRefused(tab) \/ LoginAttempted(tab) \/ LoginFailed(tab) \/ LoginVerified(tab)
      PROVE  AdminInv'
  BY <1>2, LoginRefusedKeeps, LoginAttemptedKeeps, LoginFailedKeeps, LoginVerifiedKeeps
<1>3. ASSUME NEW tab \in Tabs, Logout(tab) \/ CompleteRead(tab)
      PROVE  AdminInv'
  BY <1>3, LogoutKeeps, CompleteReadKeeps
<1>4. ASSUME NEW tab \in Tabs, NEW kind \in Kinds, Begin(tab, kind)
      PROVE  AdminInv'
  BY <1>4, BeginKeeps
<1>5. ASSUME NEW tab \in Tabs, NEW state \in Flows, CompleteAsked(tab, state) \/ Callback(tab, state)
      PROVE  AdminInv'
  BY <1>5, CompleteAskedKeeps, CallbackKeeps
<1> QED  BY <1>1, <1>2, <1>3, <1>4, <1>5 DEF AdminNext

(* A stutter keeps it.                                                         *)
LEMMA AdminStutters ==
    ASSUME AdminInv, UNCHANGED vars
    PROVE  AdminInv'
<1>1. AdminTypeOK /\ LimiterHolds /\ SessionsFit /\ FlowsHold
  BY InvInParts
<1>2. UNCHANGED <<now, attempts, tried, sessions, session, cookie, at, begun, completed>>
  BY DEF vars, limiter, flows
<1>3. AdminTypeOK'
  BY <1>1, <1>2 DEF AdminTypeOK
<1>4. LimiterHolds' /\ SessionsFit' /\ FlowsHold'
  BY <1>1, <1>2, LimiterSame, SessionsLess, FlowsSame
<1> QED  BY <1>3, <1>4, InvInPartsNext

(* The inductive invariant of the administration page's sign-ins.              *)
THEOREM AdminInvariance == AdminSpec => []AdminInv
<1>1. AdminInv /\ [AdminNext]_vars => AdminInv'
  BY AdminStepKeeps, AdminStutters
<1> QED  BY <1>1, AdminStarts, PTL DEF AdminSpec

(* Whatever sign-ins overlap, no window sees more attempts than the limits say, *)
(* and no more sessions are kept than there is room for (web.py:145-173).      *)
THEOREM AttemptsLimited == AdminSpec => []AttemptsAreLimited
<1>1. AdminInv => AttemptsAreLimited  BY DEF AdminInv
<1> QED  BY <1>1, AdminInvariance, PTL

(* A Microsoft sign-in is completed once at most, where and for what it was    *)
(* begun, and in time (web.py:243-269).                                        *)
THEOREM FlowsAreSingleUse == AdminSpec => []FlowsCompleteOnce
<1>1. AdminInv => FlowsCompleteOnce  BY DEF AdminInv
<1> QED  BY <1>1, AdminInvariance, PTL
=============================================================================
