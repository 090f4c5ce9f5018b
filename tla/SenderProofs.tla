---------------------------- MODULE SenderProofs ----------------------------
(* The additional Microsoft account and the mail that waits for it, for any    *)
(* accounts, addresses, administrators and messages: the sender in force is    *)
(* one that was chosen for the account signed in, mail waits under such a      *)
(* sender only, and the recipients counted are those Microsoft delivers to.    *)
EXTENDS AdditionalSender, TLAPS

Places == {"idle", "signing", "erasing", "storing"}

-----------------------------------------------------------------------------
(* Messages *)

(* An accepted message that is not from the legacy sender is from the one      *)
(* selected, and not large (message.py:68-88).                                 *)
LEMMA SenderIsKnown ==
    ASSUME NEW raw, NEW extra, MaySend(raw, extra), Rewritten(raw) # Legacy
    PROVE  Rewritten(raw) = extra /\ extra # Nobody /\ ~raw.large
  BY DEF MaySend, Rewritten

(* The recipients that are counted are those of the headers that leave, all    *)
(* allowed; a strict policy adds none to the envelope (message.py:90-116).     *)
LEMMA RecipientsAreCounted ==
    ASSUME NEW raw, NEW s, MayAddress(raw, s)
    PROVE  /\ To(raw) \cup Bcc(raw) \cup Missing(raw) = Recipients(raw)
           /\ raw.envelope \subseteq Recipients(raw) /\ Recipients(raw) \subseteq Allowed
           /\ s => Recipients(raw) \subseteq raw.envelope
  BY DEF MayAddress, Recipients, Missing, Visible

-----------------------------------------------------------------------------
(* Choices *)

(* What was made stays made while choices are only added.                      *)
LEMMA MadeStays ==
    ASSUME NEW c, WasMade(c), chosen \subseteq chosen'
    PROVE  WasMade(c)'
  BY DEF WasMade

(* No choice selects nobody.                                                   *)
LEMMA NothingMade == NoChoice \in Choices /\ WasMade(NoChoice) /\ WasMade(NoChoice)'
  BY DEF WasMade, Choices

(* A choice for the account that is signed in selects an address that was      *)
(* chosen for it, and not the legacy sender's.                                 *)
LEMMA SelectsWhatWasMade ==
    ASSUME choice \in Choices, WasMade(choice), choice.username \in {Nobody, record}
    PROVE  Selected = Nobody \/ (Selected # Legacy /\ <<record, Selected>> \in chosen)
<1>1. CASE choice = NoChoice \/ needsLogin \/ record = Nobody
  BY <1>1 DEF Selected
<1>2. CASE choice # NoChoice /\ ~needsLogin /\ record # Nobody
  <2>1. choice.username = record
    BY <1>2, SenderAssumption DEF Choices
  <2>2. CASE choice.mode = "default"
    BY <1>2, <2>1, <2>2 DEF Selected, WasMade
  <2>3. CASE choice.mode # "default"
    BY <1>2, <2>1, <2>3 DEF Selected, WasMade
  <2> QED  BY <2>2, <2>3
<1> QED  BY <1>1, <1>2

(* Whatever account is signed in, a choice selects its own address or one that *)
(* was chosen for some account.                                                *)
LEMMA SelectsOwnOrChosen ==
    ASSUME choice \in Choices, WasMade(choice), Selected # Nobody
    PROVE  Selected = record \/ \E user \in Users : <<user, Selected>> \in chosen
<1>1. choice # NoChoice
  BY DEF Selected
<1>2. CASE choice.mode = "default"
  BY <1>2 DEF Selected
<1>3. CASE choice.mode # "default"
  <2>1. Selected = choice.custom /\ <<choice.username, choice.custom>> \in chosen
    BY <1>1, <1>3 DEF Selected, WasMade
  <2>2. choice.username \in Users
    BY <1>1 DEF Choices
  <2> QED  BY <2>1, <2>2
<1> QED  BY <1>2, <1>3

(* The choice in memory is for the account that is signed in.                  *)
IsForTheAccount == ~half => choice.username \in {Nobody, record}

(* So a choice that is for nobody else than the account is in order.           *)
LEMMA ChoiceFollows == SenderTypeOK /\ ChoicesWereMade /\ IsForTheAccount => ChoiceAgrees
<1> SUFFICES ASSUME SenderTypeOK, ChoicesWereMade, ~half, choice.username \in {Nobody, record}
             PROVE  Selected \notin {Legacy} \ {Nobody}
  BY DEF ChoiceAgrees, IsForTheAccount
<1>1. Selected = Nobody \/ Selected # Legacy
  BY SelectsWhatWasMade DEF SenderTypeOK, ChoicesWereMade
<1> QED  BY <1>1

(* The same at the next step.                                                  *)
LEMMA ChoiceFollowsNext == SenderTypeOK' /\ ChoicesWereMade' /\ IsForTheAccount' => ChoiceAgrees'
  BY ChoiceFollows, PTL

-----------------------------------------------------------------------------
(* Requests of administrators *)

(* One request goes on, the others stay where they are.                        *)
LEMMA OneGoes ==
    ASSUME SenderInv, NEW a \in Admins, NEW place \in Places, NEW c \in Choices, Goto(a, place, c),
           place \in {"signing", "erasing"} => Unlocked,
           WasMade(c)', chosen \subseteq chosen'
    PROVE  /\ at' \in [Admins -> [place : Places, choice : Choices]]
           /\ OneChangesTheRecord' /\ \A b \in Admins : WasMade(at[b].choice)'
<1>1. /\ at' \in [Admins -> [place : Places, choice : Choices]]
      /\ at'[a] = [place |-> place, choice |-> c]
      /\ \A b \in Admins \ {a} : at'[b] = at[b]
  BY DEF Goto, SenderInv, SenderTypeOK, Places
<1>2. at'[a].place = place /\ at'[a].choice = c
  BY <1>1
<1>3. OneChangesTheRecord'
  <2> SUFFICES ASSUME NEW b \in Admins, NEW d \in Admins,
                      {at'[b].place, at'[d].place} \subseteq {"signing", "erasing"}
               PROVE  b = d
    BY DEF OneChangesTheRecord
  <2>1. CASE b # a /\ d # a
    BY <1>1, <2>1 DEF SenderInv, OneChangesTheRecord
  <2>2. CASE b = a \/ d = a
    BY <1>1, <1>2, <2>2 DEF Unlocked
  <2> QED  BY <2>1, <2>2
<1>4. \A b \in Admins : WasMade(at[b].choice)'
  <2>1. WasMade(at[a].choice)'
    BY <1>2 DEF WasMade
  <2>2. \A b \in Admins \ {a} : WasMade(at[b].choice)'
    BY <1>1 DEF SenderInv, ChoicesWereMade, WasMade
  <2> QED  BY <2>1, <2>2
<1> QED  BY <1>1, <1>3, <1>4

(* A request that changes the record, or fails to.                             *)
LEMMA RecordKeeps ==
    ASSUME SenderInv, NEW a \in Admins,
           \/ \E user \in Users : SignInAnswered(a, user)
           \/ SignInSaved(a) \/ DisconnectStarts(a) \/ Disconnected(a)
           \/ \E replaced \in BOOLEAN : SignInUnsaved(a, replaced) \/ DisconnectFails(a, replaced)
    PROVE  SenderInv'
<1>1. PICK place \in Places : /\ Goto(a, place, NoChoice)
                              /\ place \in {"signing", "erasing"} => Unlocked
  BY DEF SignInAnswered, SignInSaved, DisconnectStarts, Disconnected, SignInUnsaved, DisconnectFails,
         Places
<1>2. /\ record' \in Users \cup {Nobody} /\ recordDisk' \in Users \cup {Nobody}
      /\ choice' \in {choice, NoChoice}
      /\ choiceDisk' = choiceDisk /\ chosen' = chosen /\ strict' = strict
      /\ half' = TRUE \/ choice' = NoChoice \/ (half' = half /\ record' = record /\ choice' = choice)
  BY DEF SignInAnswered, SignInSaved, DisconnectStarts, Disconnected, SignInUnsaved, DisconnectFails,
         SenderInv, SenderTypeOK, account, chosenState
<1>3. needsLogin' \in BOOLEAN /\ half' \in BOOLEAN
  BY DEF SignInAnswered, SignInSaved, DisconnectStarts, Disconnected, SignInUnsaved, DisconnectFails,
         SenderInv, SenderTypeOK, account
<1>4. /\ at' \in [Admins -> [place : Places, choice : Choices]]
      /\ OneChangesTheRecord' /\ \A b \in Admins : WasMade(at[b].choice)'
  BY <1>1, <1>2, NothingMade, OneGoes
<1>5. SenderTypeOK'
  BY <1>2, <1>3, <1>4, NothingMade DEF SenderInv, SenderTypeOK, Places
<1>6. ChoicesWereMade'
  BY <1>2, <1>4, NothingMade DEF SenderInv, ChoicesWereMade, WasMade
<1>7. IsForTheAccount'
  BY <1>2 DEF SenderInv, ChoiceAgrees, NoChoice, IsForTheAccount
<1> QED  BY <1>4, <1>5, <1>6, <1>7, ChoiceFollowsNext DEF SenderInv

(* A choice is made for the account signed in (additional_sender.py:77-88).    *)
LEMMA ChooseKeeps ==
    ASSUME SenderInv, NEW a \in Admins, NEW custom \in Customs \cup {Nobody}, Choose(a, custom)
    PROVE  SenderInv'
<1> PICK address : address = IF custom = Nobody THEN record ELSE custom
  OBVIOUS
<1> PICK c : c = [username |-> record, custom |-> custom,
                  mode |-> IF custom = Nobody THEN "default" ELSE "custom"]
  OBVIOUS
<1>1. /\ record # Nobody /\ address # Legacy /\ choice' = c /\ Goto(a, "storing", c)
      /\ half' = FALSE /\ chosen' = chosen \cup {<<record, address>>}
      /\ UNCHANGED <<account, choiceDisk, strict, mail>>
  BY DEF Choose
<1>2. c \in Choices
  <2>1. record \in Users
    BY <1>1 DEF SenderInv, SenderTypeOK
  <2>2. CASE custom = Nobody
    BY <2>1, <2>2 DEF Choices
  <2>3. CASE custom # Nobody
    BY <2>1, <2>3 DEF Choices
  <2> QED  BY <2>2, <2>3
<1>3. c.username = record /\ (IF c.mode = "default" THEN c.username ELSE c.custom) = address
  OBVIOUS
<1>4. WasMade(c)'
  BY <1>1, <1>3 DEF WasMade, account
<1>5. /\ at' \in [Admins -> [place : Places, choice : Choices]]
      /\ OneChangesTheRecord' /\ \A b \in Admins : WasMade(at[b].choice)'
  BY <1>1, <1>2, <1>4, OneGoes DEF Places
<1>6. SenderTypeOK'
  BY <1>1, <1>2, <1>5 DEF SenderInv, SenderTypeOK, Places, account
<1>7. ChoicesWereMade'
  <2>1. WasMade(choice)'
    BY <1>1, <1>4 DEF WasMade
  <2>2. WasMade(choiceDisk)'
    BY <1>1 DEF SenderInv, ChoicesWereMade, WasMade
  <2> QED  BY <1>5, <2>1, <2>2 DEF ChoicesWereMade
<1>8. IsForTheAccount'
  BY <1>1, <1>3 DEF account, IsForTheAccount
<1> QED  BY <1>5, <1>6, <1>7, <1>8, ChoiceFollowsNext DEF SenderInv

(* A choice reaches its file late or never (additional_sender.py:90-91).       *)
LEMMA StoringKeeps ==
    ASSUME SenderInv, NEW a \in Admins, ChoiceStored(a) \/ ChoiceNotStored(a)
    PROVE  SenderInv'
<1>1. /\ Goto(a, "idle", NoChoice) /\ choiceDisk' \in {choiceDisk, at[a].choice}
      /\ UNCHANGED <<account, choice, strict, mail, half, chosen>>
  BY DEF ChoiceStored, ChoiceNotStored, chosenState
<1>2. /\ at' \in [Admins -> [place : Places, choice : Choices]]
      /\ OneChangesTheRecord' /\ \A b \in Admins : WasMade(at[b].choice)'
  BY <1>1, NothingMade, OneGoes DEF Places
<1>3. at[a].choice \in Choices /\ WasMade(at[a].choice)
  BY DEF SenderInv, SenderTypeOK, ChoicesWereMade
<1>4. SenderTypeOK'
  BY <1>1, <1>2, <1>3 DEF SenderInv, SenderTypeOK, Places, account
<1>5. ChoicesWereMade'
  BY <1>1, <1>2, <1>3 DEF SenderInv, ChoicesWereMade, WasMade
<1>6. IsForTheAccount'
  BY <1>1 DEF SenderInv, ChoiceAgrees, account, IsForTheAccount
<1> QED  BY <1>2, <1>4, <1>5, <1>6, ChoiceFollowsNext DEF SenderInv

-----------------------------------------------------------------------------
(* The other steps *)

(* The provider wants a sign-in: nothing is selected any more.                 *)
LEMMA LapseKeeps ==
    ASSUME SenderInv, LoginLapses
    PROVE  SenderInv'
<1>1. needsLogin' = TRUE /\ UNCHANGED <<record, recordDisk, choice, choiceDisk, at, strict, half, chosen>>
  BY DEF LoginLapses, chosenState
<1>2. SenderTypeOK'
  BY <1>1 DEF SenderInv, SenderTypeOK
<1>3. OneChangesTheRecord' /\ ChoicesWereMade'
  BY <1>1 DEF SenderInv, OneChangesTheRecord, ChoicesWereMade, WasMade
<1>4. IsForTheAccount'
  BY <1>1 DEF SenderInv, ChoiceAgrees, IsForTheAccount
<1> QED  BY <1>2, <1>3, <1>4, ChoiceFollowsNext DEF SenderInv

(* A restart takes up the stored choice of the same account only               *)
(* (additional_sender.py:44-51).                                               *)
LEMMA RestartKeeps ==
    ASSUME SenderInv, NEW same \in BOOLEAN, Restart(same)
    PROVE  SenderInv'
<1>1. /\ record' = IF same THEN recordDisk ELSE Nobody
      /\ needsLogin' = FALSE /\ half' = FALSE
      /\ choice' = IF choiceDisk.username = record' THEN choiceDisk ELSE NoChoice
      /\ at' = [a \in Admins |-> Idle]
      /\ UNCHANGED <<recordDisk, choiceDisk, strict, mail, chosen>>
  BY DEF Restart, Loaded
<1>2. Idle \in [place : Places, choice : Choices] /\ Idle.place = "idle" /\ Idle.choice = NoChoice
  BY NothingMade DEF Idle, Places
<1>3. SenderTypeOK'
  BY <1>1, <1>2, NothingMade DEF SenderInv, SenderTypeOK, Places
<1>4. OneChangesTheRecord'
  BY <1>1, <1>2 DEF OneChangesTheRecord
<1>5. ChoicesWereMade'
  <2>1. WasMade(choice)' /\ WasMade(choiceDisk)'
    BY <1>1 DEF SenderInv, ChoicesWereMade, WasMade
  <2>2. \A a \in Admins : WasMade(at[a].choice)'
    BY <1>1, <1>2 DEF WasMade
  <2> QED  BY <2>1, <2>2 DEF ChoicesWereMade
<1>6. IsForTheAccount'
  BY <1>1 DEF IsForTheAccount, NoChoice
<1> QED  BY <1>3, <1>4, <1>5, <1>6, ChoiceFollowsNext DEF SenderInv

(* Mail passes by, and nothing happens.                                        *)
LEMMA MailKeeps ==
    ASSUME SenderInv, Send \/ (\E raw \in Raws : Accept(raw)) \/ UNCHANGED vars
    PROVE  SenderInv'
<1>1. UNCHANGED <<record, recordDisk, needsLogin, choice, choiceDisk, at, strict, half, chosen>>
  BY DEF Send, Accept, vars, account, chosenState
<1>2. SenderTypeOK' /\ OneChangesTheRecord' /\ ChoicesWereMade' /\ ChoiceAgrees'
  BY <1>1 DEF SenderInv, SenderTypeOK, OneChangesTheRecord, ChoicesWereMade, WasMade, ChoiceAgrees, Selected
<1> QED  BY <1>2 DEF SenderInv

(* The invariant holds at the start.                                           *)
LEMMA SenderStart == SenderInit => SenderInv
<1> SUFFICES ASSUME SenderInit
             PROVE  SenderInv
  OBVIOUS
<1>1. Idle \in [place : Places, choice : Choices] /\ Idle.place = "idle" /\ Idle.choice = NoChoice
  BY NothingMade DEF Idle, Places
<1>2. SenderTypeOK /\ OneChangesTheRecord
  BY <1>1, NothingMade DEF SenderInit, SenderTypeOK, OneChangesTheRecord, Places
<1>3. ChoicesWereMade
  BY <1>1, NothingMade DEF SenderInit, ChoicesWereMade
<1>4. IsForTheAccount
  BY DEF SenderInit, NoChoice, IsForTheAccount
<1> QED  BY <1>2, <1>3, <1>4, ChoiceFollows DEF SenderInv

-----------------------------------------------------------------------------
(* Results *)

(* Every step keeps it.                                                        *)
LEMMA SenderKept == SenderInv /\ [SenderNext]_vars => SenderInv'
  BY RecordKeeps, ChooseKeeps, StoringKeeps, LapseKeeps, RestartKeeps, MailKeeps DEF SenderNext

(* The choice in force is one for the account that is signed in, and never     *)
(* selects the legacy sender, whatever writes were late, lost or cut short     *)
(* (additional_sender.py:44-91); but for the time in which the record of a     *)
(* sign-in is being written, and after that write failed, where it is one that *)
(* was made for some account.                                                  *)
THEOREM SenderInvariance == SenderSpec => []SenderInv
  BY SenderStart, SenderKept, PTL DEF SenderSpec

(* What waits for delivery keeps its sender and account while choices are only *)
(* added; what is accepted now has the sender selected now.                    *)
LEMMA FromKept == SenderInv /\ FromWasChosen /\ [SenderNext]_vars => FromWasChosen'
<1> SUFFICES ASSUME SenderInv, FromWasChosen, [SenderNext]_vars
             PROVE  FromWasChosen'
  OBVIOUS
<1>1. CASE mail' = mail /\ chosen \subseteq chosen'
  BY <1>1 DEF FromWasChosen
<1>2. CASE Send
  BY <1>2 DEF Send, FromWasChosen
<1>3. ASSUME NEW raw \in Raws, Accept(raw)
      PROVE  FromWasChosen'
  <2>1. /\ MaySend(raw, Selected) /\ chosen' = chosen
        /\ mail' = [message |-> Prepared(raw), account |-> record, half |-> half]
    BY <1>3 DEF Accept
  <2>2. Prepared(raw).from = Rewritten(raw) /\ Prepared(raw).large = raw.large
    BY DEF Prepared
  <2>3. ASSUME Rewritten(raw) # Legacy
        PROVE  /\ ~raw.large
               /\ IF half THEN \/ Rewritten(raw) = record
                               \/ \E user \in Users : <<user, Rewritten(raw)>> \in chosen
                  ELSE <<record, Rewritten(raw)>> \in chosen
    <3>1. Rewritten(raw) = Selected /\ Selected # Nobody /\ ~raw.large
      BY <2>1, <2>3, SenderIsKnown
    <3>2. CASE ~half
      BY <3>1, <3>2, SelectsWhatWasMade DEF SenderInv, SenderTypeOK, ChoicesWereMade, ChoiceAgrees
    <3>3. CASE half
      BY <3>1, <3>3, SelectsOwnOrChosen DEF SenderInv, SenderTypeOK, ChoicesWereMade
    <3> QED  BY <3>1, <3>2, <3>3 DEF SenderInv, SenderTypeOK
  <2> QED  BY <2>1, <2>2, <2>3 DEF FromWasChosen
<1>4. (mail' = mail /\ chosen \subseteq chosen') \/ Send \/ \E raw \in Raws : Accept(raw)
  BY DEF SenderNext, SignInAnswered, Choose, SignInUnsaved, DisconnectFails, SignInSaved, DisconnectStarts,
         Disconnected, ChoiceStored, ChoiceNotStored, LoginLapses, Restart, vars
<1> QED  BY <1>1, <1>2, <1>3, <1>4

(* Mail waits under the legacy sender or one chosen for the account connected  *)
(* when it was accepted, whatever its headers say and whatever is chosen or    *)
(* disconnected afterwards (message.py:61-88, additional_sender.py:58-91).     *)
(* Mail accepted while the record of a sign-in is being written, or after that *)
(* write failed, waits under the new account's own address or one chosen for   *)
(* some account.                                                               *)
THEOREM SendersWereChosen == SenderSpec => []FromWasChosen
<1>1. SenderInit => FromWasChosen
  BY DEF SenderInit, FromWasChosen
<1> QED  BY <1>1, FromKept, SenderInvariance, PTL DEF SenderSpec

(* What is accepted is addressed to those who are counted.                     *)
LEMMA AddressedKept == RecipientsAreAddressed /\ [SenderNext]_vars => RecipientsAreAddressed'
<1> SUFFICES ASSUME RecipientsAreAddressed, [SenderNext]_vars
             PROVE  RecipientsAreAddressed'
  OBVIOUS
<1>1. CASE mail' = mail /\ strict' = strict
  BY <1>1 DEF RecipientsAreAddressed
<1>2. CASE Send
  BY <1>2 DEF Send, RecipientsAreAddressed
<1>3. ASSUME NEW raw \in Raws, Accept(raw)
      PROVE  RecipientsAreAddressed'
  <2>1. /\ MayAddress(raw, strict) /\ strict' = strict
        /\ mail' = [message |-> Prepared(raw), account |-> record, half |-> half]
    BY <1>3 DEF Accept
  <2>2. /\ Prepared(raw).recipients = Recipients(raw) /\ Prepared(raw).envelope = raw.envelope
        /\ Prepared(raw).headers = To(raw) \cup Bcc(raw) \cup Missing(raw)
    BY DEF Prepared
  <2>3. mail'.message = Prepared(raw)
    BY <2>1
  <2> QED  BY <2>1, <2>2, <2>3, RecipientsAreCounted DEF RecipientsAreAddressed
<1>4. (mail' = mail /\ strict' = strict) \/ Send \/ \E raw \in Raws : Accept(raw)
  BY DEF SenderNext, SignInAnswered, Choose, SignInUnsaved, DisconnectFails, SignInSaved, DisconnectStarts,
         Disconnected, ChoiceStored, ChoiceNotStored, LoginLapses, Restart, vars
<1> QED  BY <1>1, <1>2, <1>3, <1>4

(* The recipients charged to the rolling limit are those the headers make      *)
(* Microsoft deliver to, all of allowed domains (message.py:93-118).           *)
THEOREM RecipientsAreThoseAddressed == SenderSpec => []RecipientsAreAddressed
<1>1. SenderInit => RecipientsAreAddressed
  BY DEF SenderInit, RecipientsAreAddressed
<1> QED  BY <1>1, AddressedKept, PTL DEF SenderSpec
=============================================================================
