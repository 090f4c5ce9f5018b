-------------------------- MODULE AdditionalSender --------------------------
(* The Microsoft account connected in the administration page and the From    *)
(* address chosen for it, src/noreply_gateway/additional_sender.py: both are  *)
(* in memory and in the vault, in two records.  Administrators sign in,       *)
(* choose and disconnect at the same time, writes fail, the process restarts, *)
(* and clients submit mail that is prepared with the address then selected.   *)
(*                                                                            *)
(* Of the token manager (module Tokens) there is the user name of its record, *)
(* which is also the user's default address, and its lock.                    *)
EXTENDS Message

CONSTANTS
    Users,     \* Microsoft accounts, by their default address
    Customs,   \* custom addresses an administrator may enter
    Admins,    \* administrators' requests
    Raws       \* messages clients submit

(* An address is not empty; account.sender may be. *)
ASSUME SenderAssumption == Nobody \notin Users \cup Customs

VARIABLES
    record, recordDisk,   \* whose credential: TokenManager.record and its file
    needsLogin,           \* TokenManager.needs_login
    choice, choiceDisk,   \* AdditionalSender.choice and its file
    at,                   \* per administrator: the write that is awaited
    strict,               \* recipient_policy is envelope_strict
    mail,                 \* a message in the queue
    half,                 \* ghost: a sign-in was answered, not completed
    chosen                \* ghost: whom what address was ever chosen for

account == <<record, recordDisk, needsLogin>>
chosenState == <<choice, choiceDisk>>
vars == <<account, chosenState, at, strict, mail, half, chosen>>

NoChoice == [username |-> Nobody, mode |-> "none", custom |-> Nobody]
NoMail   == [message |-> [from |-> Nobody]]
Idle     == [place |-> "idle", choice |-> NoChoice]

Goto(a, place, value) == at' = [at EXCEPT ![a] = [place |-> place, choice |-> value]]

Unlocked == \A a \in Admins : at[a].place \notin {"signing", "erasing"}

Selected ==
    IF choice = NoChoice \/ needsLogin \/ record = Nobody THEN Nobody
    ELSE IF choice.mode = "default" THEN record ELSE choice.custom

-----------------------------------------------------------------------------
(* Administration *)

(* complete_login has its answer: the record is replaced, then written. *)
SignInAnswered(a, user) ==
    /\ at[a] = Idle /\ Unlocked
    /\ record' = user /\ half' = TRUE
    /\ Goto(a, "signing", NoChoice)
    /\ UNCHANGED <<recordDisk, needsLogin, chosenState, strict, mail, chosen>>

(* Written; completed_login drops the choice before anything else runs. *)
SignInSaved(a) ==
    /\ at[a].place = "signing"
    /\ recordDisk' = record /\ needsLogin' = FALSE
    /\ choice' = NoChoice /\ half' = FALSE
    /\ Goto(a, "storing", NoChoice)
    /\ UNCHANGED <<record, choiceDisk, strict, mail, chosen>>

(* OSError: completed_login is not reached. *)
SignInUnsaved(a, replaced) ==
    /\ at[a].place = "signing" /\ Goto(a, "idle", NoChoice)
    /\ recordDisk' = IF replaced THEN record ELSE recordDisk
    /\ UNCHANGED <<record, needsLogin, chosenState, strict, mail, half, chosen>>

DisconnectStarts(a) ==
    /\ at[a] = Idle /\ Unlocked
    /\ Goto(a, "erasing", NoChoice)
    /\ UNCHANGED <<account, chosenState, strict, mail, half, chosen>>

Disconnected(a) ==
    /\ at[a].place = "erasing"
    /\ record' = Nobody /\ recordDisk' = Nobody /\ needsLogin' = TRUE
    /\ choice' = NoChoice /\ half' = FALSE
    /\ Goto(a, "storing", NoChoice)
    /\ UNCHANGED <<choiceDisk, strict, mail, chosen>>

DisconnectFails(a, replaced) ==
    /\ at[a].place = "erasing" /\ Goto(a, "idle", NoChoice)
    /\ recordDisk' = IF replaced THEN Nobody ELSE recordDisk
    /\ UNCHANGED <<record, needsLogin, chosenState, strict, mail, half, chosen>>

(* choose: custom is Nobody for the default address. *)
Choose(a, custom) ==
    LET address == IF custom = Nobody THEN record ELSE custom
    IN  /\ at[a] = Idle /\ record # Nobody /\ address # Legacy
        /\ choice' = [username |-> record, custom |-> custom,
                      mode |-> IF custom = Nobody THEN "default" ELSE "custom"]
        /\ Goto(a, "storing", choice')
        /\ half' = FALSE /\ chosen' = chosen \cup {<<record, address>>}
        /\ UNCHANGED <<account, choiceDisk, strict, mail>>

(* _save_choice in a thread without a lock: in any order, or not at all. *)
ChoiceStored(a) ==
    /\ at[a].place = "storing" /\ Goto(a, "idle", NoChoice)
    /\ choiceDisk' = at[a].choice
    /\ UNCHANGED <<account, choice, strict, mail, half, chosen>>

ChoiceNotStored(a) ==
    /\ at[a].place = "storing" /\ Goto(a, "idle", NoChoice)
    /\ UNCHANGED <<account, chosenState, strict, mail, half, chosen>>

(* The provider denies a refresh, or refuses renewed tokens. *)
LoginLapses ==
    /\ record # Nobody /\ ~needsLogin /\ needsLogin' = TRUE
    /\ UNCHANGED <<record, recordDisk, chosenState, at, strict, mail, half, chosen>>

(* Mutant: the stored choice is taken whoever has signed in. *)
LoadedUnchecked(user) == choiceDisk

Loaded(user) == IF choiceDisk.username = user THEN choiceDisk ELSE NoChoice

(* same: the fingerprint of the configuration is that of the record. *)
Restart(same) ==
    /\ record' = IF same THEN recordDisk ELSE Nobody
    /\ needsLogin' = FALSE
    /\ choice' = Loaded(record')
    /\ at' = [a \in Admins |-> Idle] /\ half' = FALSE
    /\ UNCHANGED <<recordDisk, choiceDisk, strict, mail, chosen>>

-----------------------------------------------------------------------------
(* Mail *)

(* The SMTP session prepares with the address selected now. *)
Accept(raw) ==
    /\ mail = NoMail
    /\ MaySend(raw, Selected) /\ MayAddress(raw, strict)
    /\ mail' = [message |-> Prepared(raw), account |-> record, half |-> half]
    /\ UNCHANGED <<account, chosenState, at, strict, half, chosen>>

IsAdditional == mail.message.from # Legacy

(* AdditionalAuthenticationRequired leaves the mail where it is. *)
Send ==
    /\ mail # NoMail /\ (IsAdditional => record # Nobody)
    /\ mail' = NoMail
    /\ UNCHANGED <<account, chosenState, at, strict, half, chosen>>

SenderInit ==
    /\ record = Nobody /\ recordDisk = Nobody /\ needsLogin = FALSE
    /\ choice = NoChoice /\ choiceDisk = NoChoice
    /\ at = [a \in Admins |-> Idle]
    /\ strict \in BOOLEAN /\ mail = NoMail /\ half = FALSE /\ chosen = {}

SenderNext ==
    \/ \E a \in Admins :
        \/ \E user \in Users : SignInAnswered(a, user)
        \/ \E custom \in Customs \cup {Nobody} : Choose(a, custom)
        \/ \E replaced \in BOOLEAN : SignInUnsaved(a, replaced) \/ DisconnectFails(a, replaced)
        \/ SignInSaved(a) \/ DisconnectStarts(a) \/ Disconnected(a)
        \/ ChoiceStored(a) \/ ChoiceNotStored(a)
    \/ LoginLapses \/ Send
    \/ \E same \in BOOLEAN : Restart(same)
    \/ \E raw \in Raws : Accept(raw)

SenderSpec == SenderInit /\ [][SenderNext]_vars

-----------------------------------------------------------------------------
(* Properties *)

Choices ==
    [username : Users, mode : {"default"}, custom : {Nobody}]
        \cup [username : Users, mode : {"custom"}, custom : Customs] \cup {NoChoice}

SenderTypeOK ==
    /\ {record, recordDisk} \subseteq Users \cup {Nobody} /\ needsLogin \in BOOLEAN
    /\ {choice, choiceDisk} \subseteq Choices
    /\ at \in [Admins -> [place : {"idle", "signing", "erasing", "storing"}, choice : Choices]]
    /\ strict \in BOOLEAN /\ half \in BOOLEAN

(* The record is replaced by one request at a time. *)
OneChangesTheRecord ==
    \A a, b \in Admins : {at[a].place, at[b].place} \subseteq {"signing", "erasing"} => a = b

(* No choice, or one an administrator made for its account, of an address that *)
(* is not the legacy sender's, which has its own connection.                   *)
WasMade(c) ==
    LET address == IF c.mode = "default" THEN c.username ELSE c.custom
    IN  c = NoChoice \/ (address # Legacy /\ <<c.username, address>> \in chosen)

(* That holds of the choice in memory, in its file and on its way there.       *)
ChoicesWereMade ==
    WasMade(choice) /\ WasMade(choiceDisk) /\ \A a \in Admins : WasMade(at[a].choice)

(* Whatever was written late, not at all or before a crash, the choice in      *)
(* force is one for the account that is signed in and never selects the legacy *)
(* sender (additional_sender.py:45, 69, 83).  A sign-in whose record is being  *)
(* written, or could not be, leaves the choice of the account before it.       *)
ChoiceAgrees ==
    ~half => choice.username \in {Nobody, record} /\ Selected \notin {Legacy} \ {Nobody}

(* The inductive invariant of the account and its choice. *)
SenderInv == SenderTypeOK /\ OneChangesTheRecord /\ ChoicesWereMade /\ ChoiceAgrees

(* A message waits for delivery under the legacy sender, or under an address   *)
(* an administrator chose for the account then connected: not by a Resent-From *)
(* header, a marker, a second From header or a choice that outlived its        *)
(* account; and a large one only under the legacy sender (message.py:61-88).   *)
(* While the record of a sign-in is being written, and after that write failed *)
(* (half), the choice does outlive its account, for it is dropped only behind  *)
(* the write (web.py:266): then the address is the new account's own or was    *)
(* chosen for some account.                                                    *)
FromWasChosen ==
    mail # NoMail /\ mail.message.from # Legacy =>
        /\ ~mail.message.large
        /\ IF mail.half
           THEN \/ mail.message.from = mail.account
                \/ \E user \in Users : <<user, mail.message.from>> \in chosen
           ELSE <<mail.account, mail.message.from>> \in chosen

(* The recipients charged to the rolling limit are exactly those the headers   *)
(* make Microsoft deliver to; every RCPT TO is one, all are in an allowed      *)
(* domain, and a strict policy adds none (message.py:93-116).                  *)
RecipientsAreAddressed ==
    mail # NoMail =>
        LET m == mail.message
        IN  /\ m.headers = m.recipients
            /\ m.envelope \subseteq m.recipients /\ m.recipients \subseteq Allowed
            /\ strict => m.recipients \subseteq m.envelope
=============================================================================
