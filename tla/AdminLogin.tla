----------------------------- MODULE AdminLogin -----------------------------
(* The administration page's sign-in with its two limits on attempts, its     *)
(* sessions, and the Microsoft sign-ins begun in them: AdminUI of             *)
(* src/noreply_gateway/web.py.  The tabs of a browser share its cookie; each  *)
(* has one request at a time, which awaits its body or the verification of    *)
(* the password while others run.                                             *)
(*                                                                            *)
(* Time is a number that advances; sign-in attempts, sessions and flows are   *)
(* numbered in their order.  Host, origin and CSRF checks reject a request    *)
(* without any effect and are left out.                                       *)
EXTENDS Naturals, FiniteSets, Sequences

CONSTANTS
    Clients,                 \* browsers, each with an address and a cookie
    Tabs, ClientOf,          \* tabs, and the browser of each
    Window,                  \* LOGIN_WINDOW_SECONDS
    ClientLimit, AllLimit,   \* LOGIN_PER_CLIENT_LIMIT, LOGIN_GLOBAL_LIMIT
    SessionLimit,            \* 64
    SessionTime, FlowTime,   \* session_seconds, and the ten minutes of a flow
    MaxTime, MaxSessions, MaxFlows   \* bounds

Kinds == {"original", "additional"}
Sessions == 1..MaxSessions
Flows == 1..MaxFlows

ASSUME AdminAssumption ==
    /\ IsFiniteSet(Tabs) /\ IsFiniteSet(Clients) /\ ClientOf \in [Tabs -> Clients]
    /\ {ClientLimit, AllLimit, SessionLimit, SessionTime} \subseteq Nat \ {0}
    /\ {Window, FlowTime, MaxTime, MaxSessions, MaxFlows} \subseteq Nat

VARIABLES
    now,
    attempts,     \* per client: the numbers of the attempts its deque holds
    sessions,     \* the identifiers in AdminUI.sessions
    session,      \* per identifier: AdminSession
    cookie,       \* per client: an identifier, 0 for none
    at,           \* per tab: where its request awaits, its session, the flow it presents
    begun,        \* per flow: when, for what and in which session it was begun
    tried,        \* every attempt whose password is or was verified, with its time
    completed,    \* ghost: exchanges with the identity provider
    silent    \* ghost: a refusal was answered without Retry-After

limiter == <<attempts, tried>>
flows   == <<begun, completed>>
vars    == <<now, limiter, sessions, session, cookie, at, silent, flows>>

NoFlow == 0
Idle   == [place |-> "idle", session |-> 0, flow |-> NoFlow, since |-> 0]

Goes(tab, request) == at' = [at EXCEPT ![tab] = request]

Tick ==
    /\ now < MaxTime /\ now' = now + 1
    /\ UNCHANGED <<limiter, sessions, session, cookie, at, silent, flows>>

-----------------------------------------------------------------------------
(* login *)

(* A deque is in the order of time, so what leaves it from the left is what    *)
(* has left the window.                                                        *)
Recent == [c \in Clients |-> {i \in attempts[c] : tried[i].at + Window >= now}]

ClientLimited(c) == Cardinality(Recent[c]) >= ClientLimit
AllLimited == Cardinality(UNION {Recent[c] : c \in Clients}) >= AllLimit

(* boundary: every request forgets the sessions that have expired. *)
Live == {s \in sessions : session[s].expires > now}

(* Any other request, of a page or of one who is not signed in. *)
Visit ==
    /\ Live # sessions /\ sessions' = Live
    /\ UNCHANGED <<now, limiter, session, cookie, at, silent, flows>>

(* min(attempts[0] ...) raises on the empty deque that len(attempts[key]) made. *)
LoginRefused(tab) ==
    LET c == ClientOf[tab]
    IN  /\ at[tab] = Idle /\ (ClientLimited(c) \/ AllLimited)
        /\ silent' = (silent \/ (AllLimited /\ Recent[c] = {}))
        /\ attempts' = Recent /\ sessions' = Live
        /\ UNCHANGED <<now, tried, session, cookie, at, flows>>

(* Mutant: an attempt is only counted if no other of the client is under way. *)
CountedOnce(c) ==
    IF \E tab \in Tabs : ClientOf[tab] = c /\ at[tab].place = "verifying"
    THEN Recent ELSE [Recent EXCEPT ![c] = @ \cup {Len(tried) + 1}]

(* The attempt is counted before the body is awaited. *)
Counted(c) == [Recent EXCEPT ![c] = @ \cup {Len(tried) + 1}]

LoginAttempted(tab) ==
    LET c == ClientOf[tab]
    IN  /\ at[tab] = Idle /\ ~ClientLimited(c) /\ ~AllLimited
        /\ attempts' = Counted(c) /\ sessions' = Live
        /\ tried' = Append(tried, [client |-> c, at |-> now])
        /\ Goes(tab, [Idle EXCEPT !.place = "verifying", !.since = now])
        /\ UNCHANGED <<now, session, cookie, silent, flows>>

LoginFailed(tab) ==
    /\ at[tab].place = "verifying" /\ Goes(tab, Idle)
    /\ UNCHANGED <<now, limiter, sessions, session, cookie, silent, flows>>

(* sessions.pop(next(iter(sessions))): the one that was added first. *)
MakeRoom(room) ==
    IF Cardinality(sessions) < SessionLimit THEN room = sessions
    ELSE \E first \in sessions : (\A s \in sessions : first <= s) /\ room = sessions \ {first}

Issued == {s \in Sessions : session[s].expires # 0}

(* Its lifetime counts from the request. *)
LoginVerified(tab) ==
    \E new \in Sessions, room \in SUBSET sessions :
        /\ at[tab].place = "verifying" /\ Goes(tab, Idle)
        /\ Issued = 1..(new - 1)
        /\ MakeRoom(room) /\ sessions' = room \cup {new}
        /\ session' = [session EXCEPT ![new].expires = at[tab].since + SessionTime]
        /\ cookie' = [cookie EXCEPT ![ClientOf[tab]] = new]
        /\ UNCHANGED <<now, limiter, silent, flows>>

-----------------------------------------------------------------------------
(* Requests of a session *)

Cookie(tab) == cookie[ClientOf[tab]]

Admitted(tab) == at[tab] = Idle /\ Cookie(tab) \in Live /\ sessions' = Live

Logout(tab) ==
    /\ at[tab] = Idle /\ Cookie(tab) \in Live
    /\ sessions' = Live \ {Cookie(tab)}
    /\ cookie' = [cookie EXCEPT ![ClientOf[tab]] = 0]
    /\ UNCHANGED <<now, limiter, session, at, silent, flows>>

(* begin_login, begin_additional_login: an earlier flow of the session is lost. *)
Begin(tab, kind) ==
    \E new \in Flows :
        /\ Admitted(tab)
        /\ begun[new].session = 0 /\ \A f \in 1..(new - 1) : begun[f].session # 0
        /\ begun' = [begun EXCEPT ![new] = [session |-> Cookie(tab), kind |-> kind, at |-> now]]
        /\ session' = [session EXCEPT ![Cookie(tab)].flow = new, ![Cookie(tab)].kind = kind]
        /\ UNCHANGED <<now, limiter, cookie, at, silent, completed>>

(* complete_login: the session is looked up, then the body is awaited. *)
CompleteAsked(tab, state) ==
    /\ Admitted(tab) /\ begun[state].session # 0
    /\ Goes(tab, [place |-> "reading", session |-> Cookie(tab), flow |-> state, since |-> 0])
    /\ UNCHANGED <<now, limiter, session, cookie, silent, flows>>

(* Mutant: the flow stays with the session. *)
Kept(s) == session

(* flow, session.flow = session.flow, None *)
Taken(s) == [session EXCEPT ![s].flow = NoFlow]

(* _finish: complete_login of the manager for flow_kind, with the state the    *)
(* browser brought; only an exchange has an effect beyond the session.         *)
Finish(s, state) ==
    LET flow == session[s].flow
    IN  /\ session' = Taken(s)
        /\ completed' = IF flow # NoFlow /\ flow = state /\ begun[flow].at + FlowTime >= now
                        THEN Append(completed, [flow |-> flow, session |-> s,
                                                kind |-> session[s].kind, at |-> now])
                        ELSE completed
        /\ UNCHANGED begun

CompleteRead(tab) ==
    /\ at[tab].place = "reading" /\ Goes(tab, Idle)
    /\ Finish(at[tab].session, at[tab].flow)
    /\ UNCHANGED <<now, limiter, sessions, cookie, silent>>

(* The redirect of the identity provider needs no body. *)
Callback(tab, state) ==
    /\ Admitted(tab) /\ begun[state].session # 0
    /\ Finish(Cookie(tab), state)
    /\ UNCHANGED <<now, limiter, cookie, at, silent>>

AdminInit ==
    /\ now = 0
    /\ attempts = [c \in Clients |-> {}] /\ tried = <<>>
    /\ sessions = {}
    /\ session = [s \in Sessions |-> [expires |-> 0, flow |-> NoFlow, kind |-> "none"]]
    /\ cookie = [c \in Clients |-> 0] /\ at = [tab \in Tabs |-> Idle]
    /\ begun = [f \in Flows |-> [session |-> 0, kind |-> "none", at |-> 0]]
    /\ completed = <<>> /\ silent = FALSE

AdminNext ==
    \/ Tick \/ Visit
    \/ \E tab \in Tabs :
        \/ LoginRefused(tab) \/ LoginAttempted(tab) \/ LoginFailed(tab) \/ LoginVerified(tab)
        \/ Logout(tab) \/ CompleteRead(tab)
        \/ \E kind \in Kinds : Begin(tab, kind)
        \/ \E state \in Flows : CompleteAsked(tab, state) \/ Callback(tab, state)

AdminSpec == AdminInit /\ [][AdminNext]_vars

-----------------------------------------------------------------------------
(* Properties *)

(* However many sign-ins are under way at once, no more passwords are tried in *)
(* a window of time than the limits say, from one address and from all         *)
(* (web.py:145-163); and no more sessions are kept than there is room for.     *)
AttemptsAreLimited ==
    LET In(t) == {i \in DOMAIN tried : tried[i].at \in t..(t + Window)}
    IN  /\ \A t \in 0..now :
            /\ Cardinality(In(t)) <= AllLimit
            /\ \A c \in Clients : Cardinality({i \in In(t) : tried[i].client = c}) <= ClientLimit
        /\ Cardinality(sessions) <= SessionLimit
        /\ \A s \in sessions : s \in Issued

(* A Microsoft sign-in is completed once at most, in the session that began    *)
(* it, for the account it was begun for and within its time, whatever else     *)
(* other tabs begin, complete or sign out of (web.py:243-269).    *)
FlowsCompleteOnce ==
    /\ \A i, j \in DOMAIN completed : completed[i].flow = completed[j].flow => i = j
    /\ \A i \in DOMAIN completed :
        LET c == completed[i]
        IN  /\ begun[c.flow].session = c.session /\ begun[c.flow].kind = c.kind
            /\ c.at <= begun[c.flow].at + FlowTime

(* README.md:248: attempts over the limits are answered with Retry-After.      *)
RefusalsSayWhen == ~silent

-----------------------------------------------------------------------------
(* The inductive invariant behind the first two (AdminProofs.tla).            *)

AdminTypeOK ==
    /\ now \in Nat
    /\ attempts \in [Clients -> SUBSET Nat]
    /\ tried \in Seq([client : Clients, at : Nat])
    /\ sessions \in SUBSET Sessions
    /\ session \in [Sessions -> [expires : Nat, flow : 0..MaxFlows, kind : Kinds \cup {"none"}]]
    /\ cookie \in [Clients -> 0..MaxSessions]
    /\ at \in [Tabs -> [place : {"idle", "verifying", "reading"}, session : 0..MaxSessions,
                        flow : 0..MaxFlows, since : Nat]]
    /\ begun \in [Flows -> [session : 0..MaxSessions, kind : Kinds \cup {"none"}, at : Nat]]
    /\ completed \in Seq([flow : Flows, session : Sessions, kind : Kinds \cup {"none"}, at : Nat])

(* Attempts are in the order of time; a deque holds those of its client, and   *)
(* at least those that are still in the window.                                *)
AttemptsKept ==
    /\ \A i, j \in DOMAIN tried : i <= j => tried[i].at <= tried[j].at
    /\ \A i \in DOMAIN tried :
        /\ tried[i].at <= now
        /\ tried[i].at + Window >= now => i \in attempts[tried[i].client]
    /\ \A c \in Clients : attempts[c] \subseteq {i \in DOMAIN tried : tried[i].client = c}

(* A session holds a flow that was begun in it for its present kind and has    *)
(* not been completed; what was completed had been begun.                      *)
FlowsHeld ==
    /\ \A s \in Sessions :
        LET f == session[s].flow
        IN  f # NoFlow =>
                /\ begun[f].session = s /\ begun[f].kind = session[s].kind
                /\ \A i \in DOMAIN completed : completed[i].flow # f
    /\ \A tab \in Tabs : at[tab].place = "reading" => at[tab].session \in Sessions

AdminInv == AdminTypeOK /\ AttemptsKept /\ AttemptsAreLimited /\ FlowsHeld /\ FlowsCompleteOnce
=============================================================================
