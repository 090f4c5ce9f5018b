---------------------------- MODULE MailLifecycle ----------------------------
(* What the gateway promises about one mail, whatever goes on inside it: the *)
(* table of states of README.md:203-216 without workers, queue or clock.     *)
(* Delivery.tla implements it (DeliveryRefinement.tla).                      *)
(*                                                                           *)
(* "exposures" counts the attempts that upstream accepted or may yet accept, *)
(* "acks" the times an operator accepted the risk of a duplicate.            *)
EXTENDS Naturals

CONSTANT Mails

VARIABLE mail

Stages == {"none", "held", "trying", "taken", "doubtful", "sent", "withdrawn", "gone"}
MailRecords == [stage : Stages, exposures : Nat, acks : Nat]

NewMail == [stage |-> "none", exposures |-> 0, acks |-> 0]

Moved(r, stage)   == [r EXCEPT !.stage = stage]
Exposed(r, stage) == [r EXCEPT !.stage = stage, !.exposures = @ + 1]

(* What may happen to a mail between two of its states. *)
Step(r, s) ==
    \/ r.stage = "none" /\ s = Moved(r, "held")                 \* accepted, durable
    \/ r.stage = "held" /\ s = Moved(r, "trying")               \* claimed
    \/ r.stage = "held" /\ s = Moved(r, "doubtful")             \* claimed for a task that is gone
    \/ r.stage \in {"held", "doubtful"} /\ s = Moved(r, "withdrawn")    \* cancelled
    \/ r.stage = "trying" /\ s = Moved(r, "held")               \* refused
    \/ r.stage = "trying" /\ s = Exposed(r, "taken")            \* accepted by upstream
    \/ r.stage = "trying" /\ s = Exposed(r, "doubtful")         \* given up on, may be accepted
    \/ r.stage \in {"trying", "taken"} /\ s = Moved(r, "doubtful")      \* interrupted
    \/ r.stage = "taken" /\ s = Moved(r, "sent")                \* confirmed
    \/ r.stage = "doubtful" /\ s = [r EXCEPT !.stage = "held", !.acks = @ + 1]
    \/ r.stage \in {"sent", "withdrawn"} /\ s = Moved(r, "gone")        \* purged

(* A crash, a group commit or a purge moves several mails at once. *)
MailNext ==
    /\ mail' = [m \in Mails |-> mail'[m]]
    /\ \A m \in Mails : mail'[m] = mail[m] \/ Step(mail[m], mail'[m])

MailInit == mail = [m \in Mails |-> NewMail]

MailSpec == MailInit /\ [][MailNext]_mail

-----------------------------------------------------------------------------
MailTypeOK == mail \in [Mails -> MailRecords]

(* Never more copies than one plus the acknowledged ones (README.md:211-216). *)
OncePerAcknowledgement == \A m \in Mails : mail[m].exposures <= 1 + mail[m].acks

(* A mail that waits or is being tried again cannot be a duplicate of an      *)
(* attempt nobody has answered for.                                           *)
HeldIsUnexposed ==
    \A m \in Mails :
        mail[m].stage \in {"none", "held", "trying"} => mail[m].exposures <= mail[m].acks

(* "submitted" means that upstream has the mail. *)
SentIsExposed == \A m \in Mails : mail[m].stage = "sent" => mail[m].exposures >= 1

-----------------------------------------------------------------------------
(* The inductive invariant behind these, one record at a time: a mail that is *)
(* unknown was never sent, one that waits owes nothing, one that was accepted *)
(* has reached upstream.                                                      *)
Promises(r) ==
    /\ r.exposures <= 1 + r.acks
    /\ r.stage \in {"none", "held", "trying"} => r.exposures <= r.acks
    /\ r.stage \in {"taken", "sent"} => r.exposures >= 1
    /\ r.stage = "none" => r.exposures = 0

MailInv == MailTypeOK /\ \A m \in Mails : Promises(mail[m])
=============================================================================
