------------------------------- MODULE Tokens -------------------------------
(* The credentials of one Microsoft account, TokenManager of                  *)
(* src/noreply_gateway/oauth.py: delivery workers that need an access token   *)
(* and report what became of it, administrators who sign in and disconnect,   *)
(* the record in memory, its copy in the vault, and the identity provider     *)
(* that rotates refresh tokens as ground truth.                               *)
(*                                                                            *)
(* Credentials are numbers in the order of their issue, 0 for none; an answer *)
(* of the provider has one number for all it brings.  What makes an answer    *)
(* acceptable (status, JSON, signature, nonce, user) is its outcome here.     *)
EXTENDS Naturals, FiniteSets

CONSTANTS
    Workers, Admins,   \* tasks that use the token manager
    Accounts,          \* fingerprints the configuration may have at a start
    NoOne,             \* nobody holds the lock
    MaxIssued          \* bound: answers with new credentials

Callers == Workers \cup Admins

ASSUME TokensAssumption ==
    /\ IsFiniteSet(Callers) /\ Workers \cap Admins = {} /\ NoOne \notin Callers
    /\ Accounts # {} /\ MaxIssued \in Nat

VARIABLES
    configured,   \* account_fingerprint of the running configuration
    record, disk, \* TokenManager.record, and what the vault holds
    access,       \* access_token: its number, and whether expires is far enough
    rejected,     \* rejections, rejected_digest
    needsLogin,   \* needs_login
    holder,       \* who holds the lock
    at,           \* per caller: where it awaits
    token,        \* per caller: the credential it presents or has received
    valid,        \* ground truth: refresh tokens the provider honours
    issued,       \* ground truth: answers given
    saved,        \* ghost: credentials the vault has taken, with their access tokens
    refused,      \* ghost: access tokens refused since one was accepted
    excused,      \* ghost: a crash, a lost answer or a revocation may cost the sign-in
    disconnected  \* ghost: disconnected and not signed in since

memory == <<record, access, rejected, needsLogin>>
lock   == <<holder, at, token>>
truth  == <<valid, issued>>
ghosts == <<saved, refused, excused, disconnected>>
vars   == <<configured, disk, memory, lock, truth, ghosts>>

NoRecord  == [refresh |-> 0, account |-> "none"]
NoAccess  == [number |-> 0, fresh |-> FALSE]
NoRefusal == [count |-> 0, digest |-> 0]

-----------------------------------------------------------------------------
(* The lock *)

Waits(c, place) == at[c] = place /\ holder = NoOne

Goto(c, place, t) == at' = [at EXCEPT ![c] = place] /\ token' = [token EXCEPT ![c] = t]

(* Mutant: the lock is not released when an administrator's call ends. *)
ReleasedByWorkers(c) == IF c \in Workers THEN NoOne ELSE c

(* async with: released on every way out. *)
Released(c) == NoOne

(* From a wait for the lock into the locked section, and out of it again. *)
Locks(c, place, t)  == holder' = c /\ Goto(c, place, t)
Leaves(c, place, t) == holder' = Released(c) /\ Goto(c, place, t)

-----------------------------------------------------------------------------
(* get_token *)

Asks(w) ==
    /\ at[w] = "idle" /\ Goto(w, "asking", 0)
    /\ UNCHANGED <<configured, disk, memory, holder, truth, ghosts>>

Usable == ~needsLogin /\ record.refresh # 0

(* AuthenticationRequired without a request. *)
TokenDenied(w) ==
    /\ Waits(w, "asking") /\ ~Usable
    /\ Goto(w, "idle", 0)
    /\ UNCHANGED <<configured, disk, memory, holder, truth, ghosts>>

TokenReused(w) ==
    /\ Waits(w, "asking") /\ Usable /\ access.fresh
    /\ Goto(w, "sending", access.number)
    /\ UNCHANGED <<configured, disk, memory, holder, truth, ghosts>>

RefreshStarts(w) ==
    /\ Waits(w, "asking") /\ Usable /\ ~access.fresh
    /\ Locks(w, "refreshing", record.refresh)
    /\ UNCHANGED <<configured, disk, memory, truth, ghosts>>

(* Mutant: only a sign-in brings a refresh token, a refresh none. *)
ReceivedFirst(refresh) ==
    [refresh |-> IF record.refresh = 0 THEN refresh ELSE record.refresh, account |-> configured]

(* _save_result: kept in memory before it is written. *)
Received(refresh) == [refresh |-> refresh, account |-> configured]

Issues(c) ==
    /\ issued < MaxIssued /\ issued' = issued + 1
    /\ Goto(c, "saving", issued') /\ UNCHANGED holder

(* The provider may rotate the refresh token; the one presented is void then. *)
Refreshed(w, rotated) ==
    /\ at[w] = "refreshing" /\ token[w] \in valid
    /\ Issues(w)
    /\ valid' = IF rotated THEN (valid \ {token[w]}) \cup {issued'} ELSE valid
    /\ record' = Received(IF rotated THEN issued' ELSE token[w])
    /\ UNCHANGED <<configured, disk, access, rejected, needsLogin, ghosts>>

(* Retryable: unavailable, or an answer that is lost on its way. *)
RefreshFails(w, lost) ==
    /\ at[w] = "refreshing" /\ Leaves(w, "idle", 0)
    /\ valid' = IF lost THEN valid \ {token[w]} ELSE valid
    /\ excused' = (excused \/ lost)
    /\ UNCHANGED <<configured, disk, memory, issued, saved, refused, disconnected>>

(* AuthenticationRequired: the provider has revoked it, or it was void.        *)
RefreshDenied(w) ==
    /\ at[w] = "refreshing" /\ Leaves(w, "idle", 0)
    /\ needsLogin' = TRUE
    /\ valid' = valid \ {token[w]}
    /\ excused' = TRUE
    /\ UNCHANGED <<configured, disk, record, access, rejected, issued, saved, refused, disconnected>>

-----------------------------------------------------------------------------
(* _save_result, after the record was replaced: vault.write in a thread *)

(* A new sign-in clears what the last one left; a refresh does not. *)
Saved(c) ==
    /\ at[c] = "saving"
    /\ disk' = record
    /\ access' = [number |-> token[c], fresh |-> TRUE]
    /\ saved' = saved \cup {token[c], record.refresh}
    /\ IF c \in Admins
       THEN /\ needsLogin' = FALSE /\ rejected' = NoRefusal /\ refused' = {}
            /\ Leaves(c, "idle", 0)
       ELSE /\ UNCHANGED <<needsLogin, rejected, refused>>
            /\ Leaves(c, "sending", token[c])
    /\ UNCHANGED <<configured, record, truth, excused, disconnected>>

(* Mutant: the access token is taken although nothing was written. *)
TokenAnyway(c) == [number |-> token[c], fresh |-> TRUE]

TokenAfterFailure(c) == access

(* OSError; the file may have been replaced before the error (security.py:23-29). *)
SaveFails(c, replaced) ==
    /\ at[c] = "saving" /\ Leaves(c, "idle", 0)
    /\ disk' = IF replaced THEN record ELSE disk
    /\ access' = TokenAfterFailure(c)
    /\ UNCHANGED <<configured, record, rejected, needsLogin, truth, ghosts>>

-----------------------------------------------------------------------------
(* MicrosoftBackend.send with the token *)

(* accepted_token, which does not take the lock. *)
SendAccepted(w) ==
    /\ at[w] = "sending" /\ Goto(w, "idle", 0)
    /\ rejected' = NoRefusal /\ refused' = {}
    /\ UNCHANGED <<configured, disk, record, access, needsLogin, holder, truth, saved, excused, disconnected>>

(* Any answer but an acceptance and a 401: the token manager is not told. *)
SendEnds(w) ==
    /\ at[w] = "sending" /\ Goto(w, "idle", 0)
    /\ UNCHANGED <<configured, disk, memory, holder, truth, ghosts>>

SendRefused(w) ==
    /\ at[w] = "sending" /\ Goto(w, "rejecting", token[w])
    /\ UNCHANGED <<configured, disk, memory, holder, truth, ghosts>>

(* An older token: the one in use has not been refused. *)
Superseded(w) == access.number # 0 /\ access.number # token[w]

RejectionOfOlder(w) ==
    /\ Waits(w, "rejecting") /\ Superseded(w)
    /\ Goto(w, "idle", 0)
    /\ UNCHANGED <<configured, disk, memory, holder, truth, ghosts>>

(* Mutant: every 401 counts. *)
CountedEach(t) == [count |-> rejected.count + 1, digest |-> t]

(* A refused token counts once while it is the last one refused. *)
Counted(t) ==
    IF t = rejected.digest THEN rejected ELSE [count |-> rejected.count + 1, digest |-> t]

TokenRejected(w) ==
    /\ Waits(w, "rejecting") /\ ~Superseded(w)
    /\ rejected' = Counted(token[w])
    /\ refused' = refused \cup {token[w]}
    /\ access' = NoAccess
    /\ needsLogin' = (needsLogin \/ rejected'.count > 1)
    /\ Goto(w, "idle", 0)
    /\ UNCHANGED <<configured, disk, record, holder, truth, saved, excused, disconnected>>

(* Time passes: less than a minute is left. *)
Expires ==
    /\ access.fresh /\ access' = [access EXCEPT !.fresh = FALSE]
    /\ UNCHANGED <<configured, disk, record, rejected, needsLogin, lock, truth, ghosts>>

-----------------------------------------------------------------------------
(* Administration *)

(* A callback whose state matches a flow that has not expired. *)
LoginAsked(a) ==
    /\ at[a] = "idle" /\ Goto(a, "login", 0)
    /\ UNCHANGED <<configured, disk, memory, holder, truth, ghosts>>

LoginStarts(a) ==
    /\ Waits(a, "login") /\ Locks(a, "exchanging", 0)
    /\ UNCHANGED <<configured, disk, memory, truth, ghosts>>

(* Code exchanged, ID token verified, address read. *)
LoginAnswered(a) ==
    /\ at[a] = "exchanging" /\ Issues(a)
    /\ valid' = valid \cup {issued'}
    /\ record' = Received(issued')
    /\ excused' = FALSE /\ disconnected' = FALSE
    /\ UNCHANGED <<configured, disk, access, rejected, needsLogin, saved, refused>>

(* The provider refuses, is not available, or its answer does not verify. *)
LoginFails(a) ==
    /\ at[a] = "exchanging" /\ Leaves(a, "idle", 0)
    /\ UNCHANGED <<configured, disk, memory, truth, ghosts>>

DisconnectAsked(a) ==
    /\ at[a] = "idle" /\ Goto(a, "disconnecting", 0)
    /\ UNCHANGED <<configured, disk, memory, holder, truth, ghosts>>

(* Mutant: disconnect does not wait for the lock. *)
MayEraseAtOnce(a) == at[a] = "disconnecting"

MayErase(a) == Waits(a, "disconnecting")

EraseStarts(a) ==
    /\ MayErase(a) /\ Locks(a, "erasing", 0)
    /\ UNCHANGED <<configured, disk, memory, truth, ghosts>>

Erased(a) ==
    /\ at[a] = "erasing" /\ Leaves(a, "idle", 0)
    /\ disk' = NoRecord /\ record' = NoRecord
    /\ access' = NoAccess /\ needsLogin' = TRUE
    /\ disconnected' = TRUE
    /\ UNCHANGED <<configured, rejected, truth, saved, refused, excused>>

(* Nothing is forgotten in memory, although the file may be gone. *)
EraseFails(a, replaced) ==
    /\ at[a] = "erasing" /\ Leaves(a, "idle", 0)
    /\ disk' = IF replaced THEN NoRecord ELSE disk
    /\ UNCHANGED <<configured, memory, truth, ghosts>>

-----------------------------------------------------------------------------
(* Process *)

(* TokenManager.__init__ *)
Loaded(account) == IF disk.account = account THEN disk ELSE NoRecord

(* A crash or a stop, and a start with a configuration for some account. *)
Restart(account) ==
    /\ configured' = account
    /\ record' = Loaded(account)
    /\ access' = NoAccess /\ rejected' = NoRefusal /\ needsLogin' = FALSE
    /\ holder' = NoOne
    /\ at' = [c \in Callers |-> "idle"] /\ token' = [c \in Callers |-> 0]
    /\ refused' = {} /\ excused' = (record'.refresh \notin valid)
    /\ UNCHANGED <<disk, truth, saved, disconnected>>

TokensInit ==
    /\ configured \in Accounts
    /\ disk = NoRecord /\ record = NoRecord
    /\ access = NoAccess /\ rejected = NoRefusal /\ needsLogin = FALSE
    /\ holder = NoOne /\ at = [c \in Callers |-> "idle"] /\ token = [c \in Callers |-> 0]
    /\ valid = {} /\ issued = 0
    /\ saved = {} /\ refused = {} /\ excused = TRUE /\ disconnected = FALSE

(* What the lock's turn is needed for, what the outside answers, the rest. *)
TakesTurn(c) ==
    \/ c \in Workers /\ (TokenDenied(c) \/ TokenReused(c) \/ RefreshStarts(c))
    \/ c \in Workers /\ (RejectionOfOlder(c) \/ TokenRejected(c))
    \/ c \in Admins /\ (LoginStarts(c) \/ EraseStarts(c))

IsAnswered(c) ==
    \/ \E flag \in BOOLEAN : Refreshed(c, flag) \/ RefreshFails(c, flag)
    \/ RefreshDenied(c) \/ LoginAnswered(c) \/ LoginFails(c)
    \/ Saved(c) \/ \E flag \in BOOLEAN : SaveFails(c, flag) \/ EraseFails(c, flag)
    \/ Erased(c)

Begins(c) ==
    \/ c \in Workers /\ (Asks(c) \/ SendAccepted(c) \/ SendEnds(c) \/ SendRefused(c))
    \/ c \in Admins /\ (LoginAsked(c) \/ DisconnectAsked(c))

TokensNext ==
    \/ \E c \in Callers : TakesTurn(c) \/ IsAnswered(c) \/ Begins(c)
    \/ Expires
    \/ \E account \in Accounts : Restart(account)

TokensSpec == TokensInit /\ [][TokensNext]_vars

(* asyncio.Lock serves in order; requests have a total timeout; threads end. *)
TokensFairness == \A c \in Callers : SF_vars(TakesTurn(c)) /\ WF_vars(IsAnswered(c))

FairTokensSpec == TokensSpec /\ TokensFairness

-----------------------------------------------------------------------------
(* Properties *)

Credentials == 0..MaxIssued

LockedSections == {"refreshing", "saving", "exchanging", "erasing"}

TokensTypeOK ==
    /\ configured \in Accounts
    /\ {record, disk} \subseteq [refresh : Credentials, account : Accounts \cup {"none"}]
    /\ access \in [number : Credentials, fresh : BOOLEAN]
    /\ rejected \in [count : Nat, digest : Credentials]
    /\ needsLogin \in BOOLEAN
    /\ holder \in Callers \cup {NoOne}
    /\ at \in [Callers -> {"idle", "asking", "refreshing", "saving", "sending", "rejecting",
                          "login", "exchanging", "disconnecting", "erasing"}]
    /\ token \in [Callers -> Credentials]
    /\ valid \subseteq 1..MaxIssued /\ issued \in Credentials
    /\ saved \subseteq 1..MaxIssued /\ refused \subseteq 1..MaxIssued
    /\ excused \in BOOLEAN /\ disconnected \in BOOLEAN

(* Mail is only sent with an access token that came with a credential the      *)
(* vault has taken, also after failed writes (oauth.py:216-224).               *)
UsedTokensAreSaved == \A w \in Workers : at[w] = "sending" => token[w] \in saved

(* A vault that cannot be written does not cost the sign-in: unless the        *)
(* process was restarted, an answer was lost or the provider revoked it, the   *)
(* credential presented is one the provider honours (oauth.py:216-218), and    *)
(* always one of the configured account (oauth.py:64-66).                      *)
PresentsValid ==
    \A w \in Workers : at[w] = "refreshing" =>
        /\ token[w] \in valid \/ excused
        /\ record.account = configured

(* However many concurrent requests hear 401, a sign-in is only asked for when *)
(* two different tokens were refused since one was accepted (oauth.py:252-265).*)
CountsGenerations == rejected.count > 1 => Cardinality(refused) >= 2

(* After disconnect has returned, whatever was in flight, neither memory nor   *)
(* vault holds a credential until somebody signs in (oauth.py:272-279).        *)
DisconnectLeavesNothing ==
    disconnected => record = NoRecord /\ disk = NoRecord /\ access.number = 0

(* The inductive invariant: the lock is held by the one caller inside a locked *)
(* section, and what a caller has read of the record is still so.              *)
CallerAgrees(c) ==
    /\ holder = c <=> at[c] \in LockedSections
    /\ at[c] \in {"sending", "rejecting"} => token[c] \in saved
    /\ at[c] = "refreshing" => token[c] = record.refresh /\ record.refresh # 0
    /\ at[c] = "saving" => token[c] # 0 /\ record.refresh # 0
    /\ at[c] \in {"refreshing", "saving"} => ~disconnected

(* An access token came with a saved credential, a credential belongs to the   *)
(* account and is honoured but for an excuse, and two refusals count as two.   *)
RecordAgrees ==
    /\ access.number # 0 => access.number \in saved
    /\ access.fresh => access.number # 0
    /\ record.refresh # 0 => record.account = configured /\ (record.refresh \in valid \/ excused)
    /\ rejected.count > 0 => rejected.digest \in refused
    /\ rejected.count > 1 => \E s, t \in refused : s # t
    /\ DisconnectLeavesNothing

TokensInv == TokensTypeOK /\ RecordAgrees /\ \A c \in Callers : CallerAgrees(c)

(* Every call of the token manager ends, for better or worse. *)
CallsEnd == \A c \in Callers : at[c] \notin {"idle", "sending"} ~> at[c] \in {"idle", "sending"}
=============================================================================
