---------------------------- MODULE SmtpSession ----------------------------
(* The SMTP listener of src/noreply_gateway/smtp.py: its sessions, the state  *)
(* of a mail transaction in each, the buffer they share, the limit on         *)
(* connections and the close of the listener.                                 *)
(*                                                                            *)
(* A session runs alone between two awaits, so an action is what it does from *)
(* one await to the next.  A command is its effect, not its text: what only   *)
(* answers (NOOP, VRFY, a bad argument, a wrong order, a full recipient list, *)
(* a queue that is not open) is Declines.  What the queue makes of a          *)
(* submission is Intake's subject; here submit() only returns.                *)
EXTENDS Naturals, Sequences, FiniteSets

CONSTANTS
    Clients,          \* peers, one connection at a time each
    Addresses,        \* valid recipients of allowed domains
    MaxConnections, MaxRecipients, MaxMessageBytes, MaxBufferBytes,   \* config.smtp
    LineSizes,        \* sizes of a line of DATA
    MaxInput,         \* bound: octets one client sends in one DATA
    MaxTransactions   \* bound: transactions begun

ASSUME SmtpAssumption ==
    /\ IsFiniteSet(Clients)
    /\ MaxConnections \in Nat \ {0} /\ MaxRecipients \in Nat \ {0}
    /\ MaxMessageBytes \in Nat /\ MaxBufferBytes \in Nat
    /\ LineSizes \subseteq Nat \ {0}
    /\ MaxInput \in Nat /\ MaxTransactions \in Nat

VARIABLES
    server,       \* close(): "open", "waiting" (wait_closed), "cutting" (writers closed), "closed"
    at,           \* per peer: where its session awaits
    connections,  \* SMTPServer.connections, and .writers with it
    session,      \* per peer: greeted, sender, recipients of _connection
    data,         \* per peer: kept and failed of _data; ghost: octets received
    buffered,     \* SMTPServer.buffered
    begun,        \* ghost: transactions begun; each MAIL is given the next number
    submitted     \* ghost, per transaction: what was handed to the queue

vars == <<server, at, connections, session, data, buffered, begun, submitted>>

-----------------------------------------------------------------------------
(* Small operators.  A transaction is the number of its MAIL command, none is *)
(* 0; a recipient remembers the transaction that named it.                    *)
NoSession == [greeted |-> FALSE, sender |-> 0, recipients |-> {}]
NoData    == [kept |-> 0, failed |-> FALSE, received |-> 0]

Registered == {"replying", "command", "reading", "submitting", "answering", "parting"}

(* sender, recipients = ..., []: smtp.py:111, 121, 158 and 191. *)
Blank(s, sender) == [s EXCEPT !.sender = sender, !.recipients = {}]

(* What the sessions S keep of the buffer, octet by octet. *)
Octets(S) == UNION {{p} \X (1..data[p].kept) : p \in S}

(* Mutant: a failed message is not released. *)
FreedUnlessFailed(S) == Cardinality(Octets({p \in S : ~data[p].failed}))

(* The finally clause of _data, for the sessions S. *)
Freed(S) == Cardinality(Octets(S))

(* Mutant: a session does not look at closing. *)
AfterReplyAlways == "command"

(* The test of the loop, smtp.py:86. *)
AfterReply == IF server = "open" THEN "command" ELSE "leaving"

Goto(p, where) == at' = [at EXCEPT ![p] = where]
Untouched == UNCHANGED <<session, begun, submitted>>

(* From one await of the session to the next. *)
Moves(p, from, where) ==
    at[p] = from /\ Goto(p, where) /\ UNCHANGED <<server, connections, data, buffered>>

(* The same where _data, if the session is in it, ends, and with the finally   *)
(* clause of _connection where the session leaves its loop.                    *)
Proceeds(p, where) ==
    /\ Goto(p, where)
    /\ data' = [data EXCEPT ![p] = NoData]
    /\ buffered' = buffered - Freed({p})
    /\ connections' = IF where \in Registered THEN connections ELSE connections \ {p}
    /\ UNCHANGED server

-----------------------------------------------------------------------------
(* Connection *)

(* The loop accepts a connection; its task has not run yet. *)
Arrives(p) == server = "open" /\ Moves(p, "away", "arriving") /\ Untouched

(* 421 when closing or full; 554 at any time, as its address may lie outside   *)
(* the allowed networks.  Either way the connection is never registered.       *)
TurnedAway(p) == Moves(p, "arriving", "leaving") /\ Untouched

(* Mutant: a listener that is closing still admits. *)
RoomWhenClosing == Cardinality(connections) < MaxConnections

Room == server = "open" /\ Cardinality(connections) < MaxConnections

Admitted(p) ==
    /\ at[p] = "arriving" /\ Room
    /\ Goto(p, "replying")
    /\ connections' = connections \cup {p}
    /\ UNCHANGED <<server, data, buffered>> /\ Untouched

(* A reply has been drained: back to the test of the loop. *)
Replied(p) == at[p] = "replying" /\ Proceeds(p, AfterReply) /\ Untouched

-----------------------------------------------------------------------------
(* Commands *)

Declines(p) == Moves(p, "command", "replying") /\ Untouched

(* QUIT, a line that breaks the framing, one command too many. *)
Quits(p) == Moves(p, "command", "parting") /\ Untouched

Answers(p, s) ==
    /\ Moves(p, "command", "replying")
    /\ session' = [session EXCEPT ![p] = s] /\ UNCHANGED submitted

Greets(p) == Answers(p, [Blank(session[p], 0) EXCEPT !.greeted = TRUE]) /\ UNCHANGED begun

Resets(p) == Answers(p, Blank(session[p], 0)) /\ UNCHANGED begun

Mail(p) ==
    /\ session[p].greeted /\ session[p].sender = 0
    /\ begun < MaxTransactions /\ begun' = begun + 1
    /\ Answers(p, Blank(session[p], begun'))

(* A recipient that is named twice is kept once. *)
Rcpt(p, a) ==
    /\ session[p].sender # 0
    /\ Cardinality(session[p].recipients) < MaxRecipients
    /\ Answers(p, IF a \in {r.to : r \in session[p].recipients} THEN session[p]
                  ELSE [session[p] EXCEPT !.recipients = @ \cup {[to |-> a, of |-> session[p].sender]}])
    /\ UNCHANGED begun

StartsData(p) ==
    /\ session[p].sender # 0 /\ session[p].recipients # {}
    /\ Moves(p, "command", "reading") /\ Untouched

-----------------------------------------------------------------------------
(* DATA *)

Fits(p, n) ==
    /\ data[p].kept + n <= MaxMessageBytes
    /\ buffered + n <= MaxBufferBytes

(* Mutant: a line for which there is no room is dropped in silence. *)
SpoiledSilently(d, n) == [d EXCEPT !.received = @ + n]

(* A failure stays: later lines are read and not kept. *)
Spoiled(d, n) == [d EXCEPT !.received = @ + n, !.failed = TRUE]

Reads(p, n, d) ==
    /\ at[p] = "reading" /\ data[p].received + n <= MaxInput
    /\ data' = [data EXCEPT ![p] = d]
    /\ UNCHANGED <<server, at, connections>> /\ Untouched

LineKept(p, n) ==
    /\ ~data[p].failed /\ Fits(p, n)
    /\ Reads(p, n, [data[p] EXCEPT !.kept = @ + n, !.received = @ + n])
    /\ buffered' = buffered + n

(* No room, or after an earlier failure. *)
LineDropped(p, n) ==
    /\ data[p].failed \/ ~Fits(p, n)
    /\ Reads(p, n, Spoiled(data[p], n)) /\ UNCHANGED buffered

(* A bare CR or LF, or a line that is too long: smtp.py:227-232. *)
LineMalformed(p, n) == Reads(p, n, Spoiled(data[p], n)) /\ UNCHANGED buffered

(* The final dot after a failure, or prepare_message refuses the mail. *)
DataRejected(p) == Moves(p, "reading", "answering") /\ Untouched

DataSubmitted(p) ==
    /\ ~data[p].failed
    /\ Moves(p, "reading", "submitting")
    /\ submitted' = [submitted EXCEPT ![session[p].sender] = Append(@,
          [named |-> {r.of : r \in session[p].recipients}, complete |-> data[p].kept = data[p].received])]
    /\ UNCHANGED <<session, begun>>

(* submit() has stored the mail, or refuses it. *)
SubmitReturns(p) == Moves(p, "submitting", "answering") /\ Untouched

(* Mutant: the transaction survives its DATA. *)
AfterDataSame(s) == s

(* smtp.py:190-191, whatever came of the DATA. *)
AfterData(s) == Blank(s, 0)

(* 250, 451, 452, 552 or 554 has been drained: the buffer is released now. *)
DataAnswered(p) ==
    /\ at[p] = "answering" /\ Proceeds(p, AfterReply)
    /\ session' = [session EXCEPT ![p] = AfterData(@)]
    /\ UNCHANGED <<begun, submitted>>

-----------------------------------------------------------------------------
(* Ends of a session *)

(* The client is gone, or its transport was closed: _data and the loop end.    *)
(* While submit() is awaited nothing is read and nothing noticed.              *)
Breaks(p) ==
    /\ at[p] \in {"replying", "command", "reading", "answering", "parting"}
    /\ Proceeds(p, "leaving") /\ Untouched

(* Mutant: the time for DATA is not limited. *)
LimitedToCommands == {"replying", "command", "answering"}

(* command_timeout, data_timeout, the 10 s of a reply. *)
Limited == {"replying", "command", "reading", "answering"}

(* A timeout, or a line beyond the reader's limit: 421 is being written. *)
Expires(p) == at[p] \in Limited /\ Proceeds(p, "parting") /\ Untouched

(* The last reply has been drained or given up. *)
Parts(p) == at[p] = "parting" /\ Proceeds(p, "leaving") /\ Untouched

(* wait_closed, at most 3 s; the local variables are gone. *)
Gone(p) ==
    /\ Moves(p, "leaving", "away")
    /\ session' = [session EXCEPT ![p] = NoSession]
    /\ UNCHANGED <<begun, submitted>>

-----------------------------------------------------------------------------
(* SMTPServer.close *)

Becomes(from, to) ==
    /\ server = from /\ server' = to
    /\ UNCHANGED <<at, connections, data, buffered>> /\ Untouched

Close == Becomes("open", "waiting")

(* asyncio.Server.wait_closed: at once up to Python 3.11, when the last         *)
(* connection is gone since 3.12.  Then the writers of the rest are closed.     *)
ListenerClosed == Becomes("waiting", "cutting")

(* Five seconds later: what is still registered is cancelled, a wait for the   *)
(* queue included.                                                             *)
CancelsRest ==
    /\ server = "cutting" /\ connections # {}
    /\ at' = [p \in Clients |-> IF p \in connections THEN "leaving" ELSE at[p]]
    /\ data' = [p \in Clients |-> IF p \in connections THEN NoData ELSE data[p]]
    /\ buffered' = buffered - Freed(connections)
    /\ connections' = {}
    /\ UNCHANGED server /\ Untouched

Closed == connections = {} /\ Becomes("cutting", "closed")

(* The next process. *)
Restart ==
    /\ server = "closed" /\ server' = "open"
    /\ at' = [p \in Clients |-> "away"] /\ connections' = {}
    /\ session' = [p \in Clients |-> NoSession] /\ data' = [p \in Clients |-> NoData]
    /\ buffered' = 0
    /\ UNCHANGED <<begun, submitted>>

-----------------------------------------------------------------------------
SmtpInit ==
    /\ server = "open" /\ connections = {} /\ buffered = 0
    /\ at = [p \in Clients |-> "away"]
    /\ session = [p \in Clients |-> NoSession] /\ data = [p \in Clients |-> NoData]
    /\ begun = 0 /\ submitted = [t \in 1..MaxTransactions |-> <<>>]

Connecting(p) == Arrives(p) \/ TurnedAway(p) \/ Admitted(p) \/ Replied(p)

Commanding(p) ==
    \/ Declines(p) \/ Quits(p) \/ Greets(p) \/ Resets(p) \/ Mail(p)
    \/ \E a \in Addresses : Rcpt(p, a)
    \/ StartsData(p)

Sending(p) ==
    \/ \E n \in LineSizes : LineKept(p, n) \/ LineDropped(p, n) \/ LineMalformed(p, n)
    \/ DataRejected(p) \/ DataSubmitted(p) \/ SubmitReturns(p) \/ DataAnswered(p)

Ending(p) == Breaks(p) \/ Expires(p) \/ Parts(p) \/ Gone(p)

SmtpNext ==
    \/ \E p \in Clients : Connecting(p) \/ Commanding(p) \/ Sending(p) \/ Ending(p)
    \/ Close \/ ListenerClosed \/ CancelsRest \/ Closed \/ Restart

SmtpSpec == SmtpInit /\ [][SmtpNext]_vars

(* Tasks that can run do run; a whole DATA and the wait for one command are    *)
(* limited in time, a client that goes on sending commands is not; the queue   *)
(* answers every submission (Intake.EveryoneIsAnswered); wait_closed returns   *)
(* once nobody is connected.                                                   *)
SmtpFairness ==
    /\ \A p \in Clients :
        /\ WF_vars(TurnedAway(p) \/ Admitted(p)) /\ WF_vars(Replied(p))
        /\ WF_vars(at[p] = "command" /\ (Commanding(p) \/ Ending(p)))
        /\ WF_vars(at[p] = "reading" /\ Expires(p))
        /\ WF_vars(SubmitReturns(p)) /\ WF_vars(DataAnswered(p))
        /\ WF_vars(Parts(p)) /\ WF_vars(Gone(p))
    /\ WF_vars(ListenerClosed /\ \A p \in Clients : at[p] = "away")
    /\ WF_vars(CancelsRest) /\ WF_vars(Closed)

FairSmtpSpec == SmtpSpec /\ SmtpFairness

-----------------------------------------------------------------------------
(* Properties *)

SmtpTypeOK ==
    /\ server \in {"open", "waiting", "cutting", "closed"}
    /\ at \in [Clients -> Registered \cup {"away", "arriving", "leaving"}]
    /\ connections \subseteq Clients
    /\ session \in [Clients -> [greeted : BOOLEAN, sender : 0..MaxTransactions,
                             recipients : SUBSET [to : Addresses, of : 1..MaxTransactions]]]
    /\ data \in [Clients -> [kept : Nat, failed : BOOLEAN, received : 0..MaxInput]]
    /\ buffered \in Nat /\ begun \in 0..MaxTransactions

(* SMTPServer.buffered is what the sessions hold at this moment, on every way  *)
(* out of DATA (smtp.py:243 and 265), otherwise the listener would run out of  *)
(* buffer for good.                                                            *)
BufferAgrees ==
    /\ buffered = Freed(Clients) /\ buffered <= MaxBufferBytes
    /\ \A p \in Clients :
          /\ at[p] \notin {"reading", "submitting", "answering"} => data[p] = NoData
          /\ ~data[p].failed => data[p].kept = data[p].received

(* Never more than max_connections are in their loop, however they came and    *)
(* went (smtp.py:73-78, 206-208), and none when close() has returned.          *)
ConnectionsAgree ==
    /\ connections = {p \in Clients : at[p] \in Registered}
    /\ Cardinality(connections) <= MaxConnections
    /\ server = "closed" => connections = {}

(* A session that may still submit has a transaction of its own, begun with    *)
(* its MAIL and submitted nothing for it; its recipients are of it.            *)
SessionsAgree ==
    /\ \A p \in Clients :
          /\ at[p] \in {"away", "arriving"} => session[p] = NoSession
          /\ session[p].sender <= begun
          /\ \A r \in session[p].recipients : r.of = session[p].sender
          /\ at[p] = "reading" => session[p].sender # 0 /\ session[p].recipients # {}
          /\ session[p].sender # 0 /\ at[p] \in {"replying", "command", "reading"}
                => submitted[session[p].sender] = <<>>
    /\ \A p, q \in Clients : session[p].sender = session[q].sender => p = q \/ session[p].sender = 0

(* Of a transaction nothing was submitted, or one whole mail.                  *)
SubmittedOnce ==
    /\ DOMAIN submitted = 1..MaxTransactions
    /\ \A t \in 1..MaxTransactions :
          /\ submitted[t] \in {<<>>, <<[named |-> {t}, complete |-> TRUE]>>}
          /\ t > begun => submitted[t] = <<>>

(* The inductive invariant of the listener. *)
SmtpInv == SmtpTypeOK /\ BufferAgrees /\ ConnectionsAgree /\ SessionsAgree /\ SubmittedOnce

(* A mail of which a line was dropped is never queued (smtp.py:233-247).       *)
NeverTruncated ==
    \A t \in DOMAIN submitted : \A i \in DOMAIN submitted[t] : submitted[t][i].complete

(* A mail goes to recipients named in its own transaction, never to those of   *)
(* an earlier one, and a transaction ends with its DATA, whatever came of it   *)
(* (smtp.py:111, 121, 158, 188-191).                                           *)
TransactionsSeparate ==
    \A t \in DOMAIN submitted :
        /\ \A i \in DOMAIN submitted[t] : submitted[t][i].named = {t}
        /\ Len(submitted[t]) <= 1

(* When close() has returned no session is left that could submit: the store   *)
(* is closed next (service.py:55-63).                                          *)
QuietWhenClosed == server = "closed" => connections = {} /\ \A p \in Clients : at[p] \notin Registered

(* Whatever a client does with its DATA, its share of the buffer comes back.   *)
BufferComesBack == \A p \in Clients : data[p].kept > 0 ~> data[p].kept = 0

(* close() returns although clients stay connected and idle.                   *)
ListenerCloses == server = "waiting" ~> server = "closed"
=============================================================================
