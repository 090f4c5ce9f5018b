------------------------------ MODULE Message ------------------------------
(* prepare_message of src/noreply_gateway/message.py: whether a message is    *)
(* taken, under which From and for whom.                                      *)
(*                                                                            *)
(* A raw message is a record: from and resentFrom are sequences of mailboxes  *)
(* [address, nat], nat when the header has the marker; to, bcc, resentTo and  *)
(* resentBcc are sets of recipients (To stands for Cc as well); sender is an  *)
(* address; any of them may be Absent.  envelope is the set of RCPT TO, large *)
(* says that the result exceeds 2,500,000 bytes.  Addresses that differ in    *)
(* case only are one address.  Malformed headers are never taken.             *)
EXTENDS Naturals, FiniteSets, Sequences

CONSTANTS
    Legacy,         \* account.sender
    Nobody,         \* the empty address
    Absent,         \* a header that is not there
    Allowed,        \* recipients in allowed_recipient_domains
    MaxRecipients   \* smtp.max_recipients

Listed(header) == IF header = Absent THEN {} ELSE header

(* A Resent- header takes the place of its ordinary one. *)
Effective(resent, own) == IF resent = Absent THEN own ELSE resent

From(raw) == Effective(raw.resentFrom, raw.from)
To(raw)   == Listed(Effective(raw.resentTo, raw.to))
Bcc(raw)  == Listed(Effective(raw.resentBcc, raw.bcc))

OneMailbox(header) == header # Absent /\ Len(header) = 1

(* The From that leaves: a marked one becomes the legacy sender. *)
Rewritten(raw) == IF From(raw)[1].nat THEN Legacy ELSE From(raw)[1].address

(* Mutant: Resent-From is applied after the sender was checked. *)
MaySendAsReceived(raw, extra) ==
    /\ OneMailbox(raw.from) /\ OneMailbox(From(raw))
    /\ raw.from[1].nat \/ raw.from[1].address \in {Legacy, extra} \ {Nobody}
    /\ Legacy # Nobody \/ ~raw.from[1].nat
    /\ raw.sender \in {Absent, Rewritten(raw)}
    /\ ~(raw.large /\ Rewritten(raw) = extra)

MaySend(raw, extra) ==
    /\ OneMailbox(From(raw))
    /\ From(raw)[1].nat \/ From(raw)[1].address \in {Legacy, extra} \ {Nobody}
    /\ Legacy # Nobody \/ ~From(raw)[1].nat
    /\ raw.sender \in {Absent, Rewritten(raw)}
    /\ ~(raw.large /\ Rewritten(raw) = extra)

(* Mutant: a Bcc header is not seen. *)
VisibleTo(raw) == To(raw)

Visible(raw) == To(raw) \cup Bcc(raw)

Missing(raw) == raw.envelope \ Visible(raw)

Recipients(raw) == Visible(raw) \cup raw.envelope

MayAddress(raw, strict) ==
    /\ raw.envelope # {}
    /\ strict => Visible(raw) \subseteq raw.envelope
    /\ Cardinality(Recipients(raw)) <= MaxRecipients
    /\ Recipients(raw) \subseteq Allowed

(* What is queued; headers are all To and Bcc mailboxes of the message. *)
Prepared(raw) ==
    [from |-> Rewritten(raw), large |-> raw.large, recipients |-> Recipients(raw),
     headers |-> To(raw) \cup Bcc(raw) \cup Missing(raw), envelope |-> raw.envelope]
=============================================================================
