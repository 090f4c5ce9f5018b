------------------------------ MODULE Service ------------------------------
(* The processes that share one state directory: serve of                     *)
(* src/noreply_gateway/service.py with its start and its stop, and the        *)
(* commands init, reset-admin and check of cli.py; the instance lock and the  *)
(* atomic files of security.py.  Any step can raise, a process can be killed, *)
(* and the machine can lose power, which undoes what was not synced.          *)
(*                                                                            *)
(* The content of a file is the number of the write it came from, 0 for a     *)
(* file that is absent or empty.                                              *)
EXTENDS Naturals, FiniteSets, Sequences

CONSTANTS
    Processes,
    Free,        \* nobody has the lock
    MaxWrites    \* bound: files written

ASSUME ServiceAssumption == IsFiniteSet(Processes) /\ Free \notin Processes /\ MaxWrites \in Nat

Files == {"key", "admin", "account", "config"}
Parts == {"session", "store", "web", "smtp", "workers"}
Commands == {"init", "serve", "reset-admin", "check"}

VARIABLES
    seen,      \* per file: its content
    left,      \* per file: the contents a loss of power may leave
    writes,    \* files written so far
    owner,     \* who holds the flock on instance.lock
    command,   \* per process: what it runs
    pc,        \* per process: where it is
    up,        \* per process: the parts that are open
    todo,      \* per process: the files it has yet to write
    raised,    \* ghost, per process: the parts whose close raised in its stop
    imports,   \* ghost: the init that began last was given a credential to import
    reported   \* ghost, per file: the last content a command said it had written

disk    == <<seen, left, writes, imports>>
process == <<command, pc, up, todo, raised>>
vars    == <<disk, owner, process, reported>>

Goto(p, place) == pc' = [pc EXCEPT ![p] = place]
Present(f) == seen[f] # 0

-----------------------------------------------------------------------------
(* The lock, held until the command's finally; another one is refused *)

Starts(p, c) ==
    /\ pc[p] = "out" /\ (c = "init" <=> ~Present("config"))
    /\ command' = [command EXCEPT ![p] = c] /\ Goto(p, "locking")
    /\ UNCHANGED <<disk, owner, up, todo, raised, reported>>

Refused(p) ==
    /\ pc[p] = "locking" /\ owner # Free /\ Goto(p, "out")
    /\ UNCHANGED <<disk, owner, command, up, todo, raised, reported>>

Locks(p) ==
    /\ pc[p] = "locking" /\ owner = Free /\ owner' = p
    /\ Goto(p, "locked")
    /\ UNCHANGED <<disk, command, up, todo, raised, reported>>

(* Where a process ends, the system closes its files. *)
Ends(p) ==
    /\ Goto(p, "out") /\ owner' = IF owner = p THEN Free ELSE owner
    /\ up' = [up EXCEPT ![p] = {}] /\ todo' = [todo EXCEPT ![p] = <<>>]
    /\ raised' = [raised EXCEPT ![p] = {}]

(* init wants no key, the others the key and the administrator's password. *)
MayGoOn(p) ==
    CASE command[p] = "init"        -> ~Present("key")
      [] command[p] = "reset-admin" -> Present("key")
      [] OTHER                      -> Present("key") /\ Present("admin")

GivesUp(p) ==
    /\ pc[p] = "locked" /\ (~MayGoOn(p) \/ command[p] = "check")
    /\ Ends(p)
    /\ UNCHANGED <<disk, command, reported>>

-----------------------------------------------------------------------------
(* init and reset-admin *)

InitFiles(imported) ==
    IF imported THEN <<"key", "admin", "account", "config">> ELSE <<"key", "admin", "config">>

BeginsWriting(p, imported) ==
    /\ pc[p] = "locked" /\ command[p] \in {"init", "reset-admin"} /\ MayGoOn(p)
    /\ todo' = [todo EXCEPT ![p] = IF command[p] = "init" THEN InitFiles(imported) ELSE <<"admin">>]
    /\ imports' = IF command[p] = "init" THEN imported ELSE imports
    /\ Goto(p, "writing")
    /\ UNCHANGED <<seen, left, writes, owner, command, up, raised, reported>>

(* Mutant: the file is not synced before the rename, and may be left empty. *)
LeftUnsynced(f, content) == left[f] \cup {content, 0}

(* The rename is lost, or is not. *)
LeftSynced(f, content) == left[f] \cup {content}

(* atomic_write: a temporary file is written and synced, then renamed. *)
Replaced(p) ==
    LET f == Head(todo[p])
    IN  /\ pc[p] = "writing" /\ todo[p] # <<>> /\ writes < MaxWrites
        /\ writes' = writes + 1
        /\ seen' = [seen EXCEPT ![f] = writes']
        /\ left' = [left EXCEPT ![f] = LeftSynced(f, writes')]
        /\ Goto(p, "renamed")
        /\ UNCHANGED <<imports, owner, command, up, todo, raised, reported>>

(* The directory is synced: the rename can no longer be lost. *)
DirectorySynced(p) ==
    LET f == Head(todo[p])
    IN  /\ pc[p] = "renamed" /\ Goto(p, "writing")
        /\ left' = [left EXCEPT ![f] = {seen[f]}]
        /\ todo' = [todo EXCEPT ![p] = Tail(@)]
        /\ UNCHANGED <<seen, writes, imports, owner, command, up, raised, reported>>

WriteFails(p) ==
    /\ pc[p] \in {"writing", "renamed"} /\ todo[p] # <<>>
    /\ Ends(p)
    /\ UNCHANGED <<disk, command, reported>>

(* All is written: the command says so. *)
Reports(p) ==
    /\ pc[p] = "writing" /\ todo[p] = <<>> /\ Ends(p)
    /\ reported' = IF command[p] = "init" THEN seen ELSE [reported EXCEPT !["admin"] = seen["admin"]]
    /\ UNCHANGED <<disk, command>>

-----------------------------------------------------------------------------
(* serve *)

UpOrder == <<"session", "store", "web", "smtp", "workers">>

(* One part after the other. *)
Opens(p, i) ==
    /\ pc[p] = "locked" /\ command[p] = "serve" /\ MayGoOn(p)
    /\ up[p] = {UpOrder[j] : j \in 1..(i - 1)}
    /\ up' = [up EXCEPT ![p] = @ \cup {UpOrder[i]}]
    /\ UNCHANGED <<disk, owner, command, pc, todo, raised, reported>>

(* Mutant: the workers are drained while mail is still admitted. *)
DrainFirst == [locked |-> "workers", workers |-> "smtp", smtp |-> "web", web |-> "store",
               store |-> "session", session |-> "lock"]

(* Mutant: the lock is released before the store is closed. *)
StoreLast == [locked |-> "smtp", smtp |-> "web", web |-> "workers", workers |-> "session",
              session |-> "lock", store |-> "end"]

(* The part that is closed first and after each, and where its finally goes on *)
(* when its close raises.                                                      *)
Then == [locked |-> "smtp", smtp |-> "web", web |-> "workers", workers |-> "store",
         store |-> "session", session |-> "lock"]
Finally == [smtp |-> "store", web |-> "store", workers |-> "store", store |-> "session", session |-> "end"]

(* The stop event, or an error of a part that opens. *)
Stops(p) ==
    /\ pc[p] = "locked" /\ command[p] = "serve" /\ MayGoOn(p)
    /\ Goto(p, Then["locked"])
    /\ UNCHANGED <<disk, owner, command, up, todo, raised, reported>>

Closed(p) ==
    /\ pc[p] \in Parts /\ Goto(p, Then[pc[p]])
    /\ up' = [up EXCEPT ![p] = @ \ {pc[p]}]
    /\ UNCHANGED <<disk, owner, command, todo, raised, reported>>

CloseRaises(p) ==
    /\ pc[p] \in Parts /\ Goto(p, Finally[pc[p]])
    /\ raised' = [raised EXCEPT ![p] = @ \cup {pc[p]}]
    /\ UNCHANGED <<disk, owner, command, up, todo, reported>>

LockClosed(p) ==
    /\ pc[p] = "lock" /\ Goto(p, "end") /\ owner' = Free
    /\ UNCHANGED <<disk, command, up, todo, raised, reported>>

(* The event loop cancels what is left, and the process exits. *)
Exits(p) ==
    /\ pc[p] = "end" /\ Ends(p)
    /\ UNCHANGED <<disk, command, reported>>

-----------------------------------------------------------------------------
(* Failures *)

(* What the files may hold after a loss of power.  The state directory itself  *)
(* is taken to survive: its own entry is never synced (security.py:36), so this *)
(* says nothing of a directory made just before.                               *)
Remains == [key : left["key"], admin : left["admin"], account : left["account"], config : left["config"]]

Killed(p) ==
    /\ pc[p] # "out" /\ Ends(p)
    /\ UNCHANGED <<disk, command, reported>>

PowerFails(content) ==
    /\ seen' = content /\ left' = [f \in Files |-> {content[f]}]
    /\ owner' = Free
    /\ pc' = [p \in Processes |-> "out"] /\ up' = [p \in Processes |-> {}]
    /\ todo' = [p \in Processes |-> <<>>] /\ raised' = [p \in Processes |-> {}]
    /\ UNCHANGED <<writes, imports, command, reported>>

ServiceInit ==
    /\ seen = [f \in Files |-> 0] /\ left = [f \in Files |-> {0}] /\ writes = 0
    /\ owner = Free
    /\ command = [p \in Processes |-> "check"] /\ pc = [p \in Processes |-> "out"]
    /\ up = [p \in Processes |-> {}] /\ todo = [p \in Processes |-> <<>>]
    /\ raised = [p \in Processes |-> {}] /\ imports = FALSE /\ reported = [f \in Files |-> 0]

ServiceNext ==
    \/ \E p \in Processes :
        \/ \E c \in Commands : Starts(p, c)
        \/ Refused(p) \/ Locks(p) \/ GivesUp(p)
        \/ \E imported \in BOOLEAN : BeginsWriting(p, imported)
        \/ Replaced(p) \/ DirectorySynced(p) \/ WriteFails(p) \/ Reports(p)
        \/ \E i \in DOMAIN UpOrder : Opens(p, i)
        \/ Stops(p) \/ Closed(p) \/ CloseRaises(p) \/ LockClosed(p) \/ Exits(p) \/ Killed(p)
    \/ \E content \in Remains : PowerFails(content)

ServiceSpec == ServiceInit /\ [][ServiceNext]_vars

-----------------------------------------------------------------------------
(* Properties *)

ServiceTypeOK ==
    /\ seen \in [Files -> 0..MaxWrites] /\ left \in [Files -> SUBSET (0..MaxWrites)]
    /\ writes \in 0..MaxWrites /\ reported \in [Files -> 0..MaxWrites]
    /\ owner \in Processes \cup {Free} /\ command \in [Processes -> Commands]
    /\ pc \in [Processes -> Parts \cup {"out", "locking", "locked", "writing", "renamed", "lock", "end"}]
    /\ up \in [Processes -> SUBSET Parts] /\ todo \in [Processes -> Seq(Files)]
    /\ raised \in [Processes -> SUBSET Parts] /\ imports \in BOOLEAN

(* One process at most has the queue open or writes the state, from the lock   *)
(* to the last close, however the process before it ended (service.py:22,      *)
(* 61-67, cli.py:63-73).  The one exception is a store whose own close raised: *)
(* it outlives the lock until its process exits.                               *)
OneOwner ==
    \A p \in Processes :
        /\ "store" \in up[p] => owner = p \/ ("store" \in raised[p] /\ pc[p] = "end")
        /\ pc[p] \in Parts \cup {"locked", "writing", "renamed"} => owner = p

(* Those who use the store, and the closes that may leave a part open: its own, *)
(* or one before it in the try block whose raise skips it (service.py:54-60).   *)
Users == {"smtp", "web", "workers"}
LeftOpenBy == [smtp |-> {"smtp"}, web |-> {"smtp", "web"}, workers |-> Users,
               store |-> {"store"}, session |-> {"session"}]

(* On every way out of serve, whatever raises, the workers are only drained    *)
(* when nothing admits mail any more (service.py:53-60).  The store is closed  *)
(* after the last of its users, unless the close of one raised: then that one  *)
(* and those behind it may be open, and no other.  And it is closed before the *)
(* lock is released, unless its own close raised (service.py:61-67).           *)
UsersCloseFirst ==
    \A p \in Processes :
        /\ pc[p] = "workers" => {"smtp", "web"} \cap up[p] = {}
        /\ pc[p] \in {"store", "session", "lock", "end"} =>
              \A part \in Users \cap up[p] : raised[p] \cap LeftOpenBy[part] # {}
        /\ pc[p] \in {"session", "lock", "end"} /\ "store" \in up[p] => "store" \in raised[p]

(* Whatever is killed and whenever power fails: a configuration that exists    *)
(* has its key, its password and the credential its init was to import, a      *)
(* password or credential has its key, and what a command said it had written  *)
(* is not undone (security.py:15-31, cli.py:63-76).                            *)
RecordsSurvive ==
    /\ Present("config") => Present("admin") /\ (imports => Present("account"))
    /\ Present("admin") \/ Present("account") => Present("key")
    /\ \A f \in Files : \A content \in left[f] : content >= reported[f]

-----------------------------------------------------------------------------
(* The inductive invariant *)

(* The lock is held until it is closed, and nothing is open before it is had.  *)
HoldsLock(p) ==
    /\ pc[p] \in Parts \cup {"locked", "writing", "renamed", "lock"} => owner = p
    /\ pc[p] \in {"out", "locking"} => up[p] = {}

(* The parts a stop has dealt with when it comes to each place.                *)
Behind == [smtp |-> {}, web |-> {"smtp"}, workers |-> {"smtp", "web"}, store |-> Users,
           session |-> Users \cup {"store"}, lock |-> Parts, end |-> Parts]

(* A stop closes the parts one after the other.  What it leaves open has a     *)
(* close that raised to account for it, and no user's close has raised before  *)
(* the stop has come to the store.                                             *)
StopsInOrder(p) ==
    /\ pc[p] \in DOMAIN Behind =>
          /\ raised[p] \subseteq Behind[pc[p]]
          /\ \A part \in Behind[pc[p]] \cap up[p] : raised[p] \cap LeftOpenBy[part] # {}
    /\ pc[p] \in {"smtp", "web", "workers"} \/ pc[p] \notin DOMAIN Behind => raised[p] = {}

(* The files init may have left to write, and those it wrote before each.      *)
InitTails(imported) ==
    {<<"config">>, <<>>} \cup
        IF imported
        THEN {<<"key", "admin", "account", "config">>, <<"admin", "account", "config">>,
              <<"account", "config">>}
        ELSE {<<"key", "admin", "config">>, <<"admin", "config">>}
Before == [key |-> {}, admin |-> {"key"}, account |-> {"key", "admin"},
           config |-> {"key", "admin"} \cup (IF imports THEN {"account"} ELSE {})]

(* init starts from nothing and has synced what it wrote before the file it is *)
(* at; reset-admin starts from a whole configuration.                          *)
WritesInOrder(p) ==
    /\ pc[p] # "out" /\ command[p] # "init" => Present("config")
    /\ pc[p] = "renamed" => todo[p] # <<>> /\ Present(Head(todo[p]))
    /\ pc[p] \in {"writing", "renamed"} =>
          IF command[p] = "init"
          THEN /\ todo[p] \in InitTails(imports)
               /\ todo[p] # <<>> => \A f \in Before[Head(todo[p])] : Present(f)
               /\ \A f \in Files : left[f] # {seen[f]} => pc[p] = "renamed" /\ f = Head(todo[p])
          ELSE /\ todo[p] \in {<<"admin">>, <<>>}
               /\ todo[p] = <<>> => left["admin"] = {seen["admin"]}

(* What a loss of power may leave is no older than what was reported, and no   *)
(* file is without those it needs.                                             *)
DiskAgrees ==
    /\ \A f \in Files :
          /\ seen[f] \in left[f] /\ (seen[f] = 0 => left[f] = {0})
          /\ \A content \in left[f] : content <= writes /\ content >= reported[f]
    /\ (\E content \in left["config"] : content # 0) =>
          0 \notin left["admin"] /\ (imports => 0 \notin left["account"])
    /\ (\E content \in left["admin"] \cup left["account"] : content # 0) => 0 \notin left["key"]

(* One process at a time owns the state, and what it leaves behind, wherever   *)
(* it or the power fails, is whole.                                            *)
ServiceInv ==
    /\ ServiceTypeOK /\ DiskAgrees
    /\ \A p \in Processes : HoldsLock(p) /\ StopsInOrder(p) /\ WritesInOrder(p)
=============================================================================
