---------------------------- MODULE ServiceProofs ----------------------------
(* One owner of the state directory, an orderly stop and files that survive,  *)
(* for any number of processes and writes.                                    *)
EXTENDS Service, TLAPS

Places == Parts \cup {"out", "locking", "locked", "writing", "renamed", "lock", "end"}

(* What a step of one process may change, but for the files.                   *)
Holds(p) == HoldsLock(p) /\ StopsInOrder(p) /\ WritesInOrder(p)

-----------------------------------------------------------------------------
(* Operators of the model *)

(* What is left to write after each file of init.                              *)
LEMMA TailsOfInit ==
    ASSUME NEW imported \in BOOLEAN, NEW s \in InitTails(imported), s # <<>>
    PROVE  /\ s \in Seq(Files) /\ Head(s) \in Files /\ Tail(s) \in InitTails(imported)
           /\ Head(s) = "key" => Tail(s) # <<>> /\ Head(Tail(s)) = "admin"
           /\ Head(s) = "admin" =>
                 /\ Tail(s) # <<>>
                 /\ Head(Tail(s)) = IF imported THEN "account" ELSE "config"
           /\ Head(s) = "account" => Tail(s) # <<>> /\ Head(Tail(s)) = "config"
           /\ Head(s) = "config" => Tail(s) = <<>>
<1>1. \A a, b, c, d \in Files : Head(<<a, b, c, d>>) = a /\ Tail(<<a, b, c, d>>) = <<b, c, d>>
  OBVIOUS
<1>2. \A a, b, c \in Files : Head(<<a, b, c>>) = a /\ Tail(<<a, b, c>>) = <<b, c>>
  OBVIOUS
<1>3. \A a, b \in Files : Head(<<a, b>>) = a /\ Tail(<<a, b>>) = <<b>>
  OBVIOUS
<1>4. \A a \in Files : Head(<<a>>) = a /\ Tail(<<a>>) = <<>>
  OBVIOUS
<1>5. s \in Seq(Files)
  <2> SUFFICES ASSUME NEW k1 \in Files, NEW k2 \in Files, NEW k3 \in Files, NEW k4 \in Files
               PROVE  /\ <<k1, k2, k3, k4>> \in Seq(Files) /\ <<k1, k2, k3>> \in Seq(Files)
                      /\ <<k1, k2>> \in Seq(Files) /\ <<k1>> \in Seq(Files) /\ <<>> \in Seq(Files)
    BY DEF InitTails, Files
  <2> QED  OBVIOUS
<1>6. CASE s = <<"key", "admin", "account", "config">>
  BY <1>1, <1>2, <1>5, <1>6 DEF InitTails, Files
<1>7. CASE s = <<"key", "admin", "config">>
  BY <1>2, <1>3, <1>5, <1>7 DEF InitTails, Files
<1>8. CASE s = <<"admin", "account", "config">>
  BY <1>2, <1>3, <1>5, <1>8 DEF InitTails, Files
<1>9. CASE s = <<"admin", "config">>
  BY <1>3, <1>4, <1>5, <1>9 DEF InitTails, Files
<1>10. CASE s = <<"account", "config">>
  BY <1>3, <1>4, <1>5, <1>10 DEF InitTails, Files
<1>11. CASE s = <<"config">>
  BY <1>4, <1>5, <1>11 DEF InitTails, Files
<1> QED  BY <1>6, <1>7, <1>8, <1>9, <1>10, <1>11 DEF InitTails

(* init writes the key first and the configuration last.                       *)
LEMMA InitFilesAreATail ==
    ASSUME NEW imported \in BOOLEAN
    PROVE  /\ InitFiles(imported) \in InitTails(imported) /\ InitFiles(imported) # <<>>
           /\ Head(InitFiles(imported)) = "key" /\ InitFiles(imported) \in Seq(Files)
<1>1. InitFiles(imported) = IF imported THEN <<"key", "admin", "account", "config">>
                                        ELSE <<"key", "admin", "config">>
  BY DEF InitFiles
<1>2. InitFiles(imported) \in InitTails(imported) /\ InitFiles(imported) # <<>>
  BY <1>1 DEF InitTails
<1>3. Head(InitFiles(imported)) = "key"
  BY <1>1
<1> QED  BY <1>2, <1>3, TailsOfInit

-----------------------------------------------------------------------------
(* What a step leaves alone *)

(* Nothing on disk changes: what a loss of power may leave is as whole as it was. *)
LEMMA DiskSame ==
    ASSUME DiskAgrees, UNCHANGED <<disk, reported>>
    PROVE  DiskAgrees'
  BY DEF DiskAgrees, disk

(* The step is that of process p: it takes nothing from another.               *)
StepOf(p) ==
    \A q \in Processes \ {p} :
        /\ pc'[q] = pc[q] /\ up'[q] = up[q] /\ todo'[q] = todo[q] /\ raised'[q] = raised[q]
        /\ command'[q] = command[q] /\ (owner = q => owner' = q)

(* Whoever holds the lock may write; the others neither write nor mind.        *)
LEMMA OthersHold ==
    ASSUME NEW p \in Processes, StepOf(p), \A q \in Processes : Holds(q),
           \/ UNCHANGED <<seen, left, imports>>
           \/ owner = p /\ (Present("config") => Present("config")')
    PROVE  \A q \in Processes \ {p} : Holds(q)'
<1> SUFFICES ASSUME NEW q \in Processes \ {p}
             PROVE  Holds(q)'
  OBVIOUS
<1>1. /\ pc'[q] = pc[q] /\ up'[q] = up[q] /\ todo'[q] = todo[q] /\ raised'[q] = raised[q]
      /\ command'[q] = command[q] /\ (owner = q => owner' = q)
      /\ HoldsLock(q) /\ StopsInOrder(q) /\ WritesInOrder(q)
  BY DEF StepOf, Holds
<1>2. HoldsLock(q)' /\ StopsInOrder(q)'
  BY <1>1 DEF HoldsLock, StopsInOrder
<1>3. CASE UNCHANGED <<seen, left, imports>>
  BY <1>1, <1>2, <1>3 DEF Holds, WritesInOrder, Present, Before
<1>4. CASE owner = p /\ (Present("config") => Present("config")')
  <2>1. pc[q] \notin {"writing", "renamed"}
    BY <1>1, <1>4 DEF HoldsLock
  <2> QED  BY <1>1, <1>2, <1>4, <2>1 DEF Holds, WritesInOrder
<1> QED  BY <1>3, <1>4

(* A step of one process that touches no file.                                 *)
LEMMA QuietStep ==
    ASSUME ServiceInv, NEW p \in Processes, StepOf(p), UNCHANGED <<disk, reported>>,
           ServiceTypeOK', Holds(p)'
    PROVE  ServiceInv'
<1>1. DiskAgrees'
  BY DiskSame DEF ServiceInv
<1>2. \A q \in Processes \ {p} : Holds(q)'
  BY OthersHold DEF ServiceInv, Holds, disk
<1> QED  BY <1>1, <1>2 DEF ServiceInv, Holds

-----------------------------------------------------------------------------
(* The lock *)

(* A command starts, is refused, or has the lock.                              *)
LEMMA EntersKeeps ==
    ASSUME ServiceInv, NEW p \in Processes,
           (\E c \in Commands : Starts(p, c)) \/ Refused(p) \/ Locks(p)
    PROVE  ServiceInv'
<1>t. ServiceTypeOK /\ Holds(p) /\ Free \notin Processes
  BY ServiceAssumption DEF ServiceInv, Holds
<1>1. CASE \E c \in Commands : Starts(p, c)
  <2>1. PICK c \in Commands : Starts(p, c)
    BY <1>1
  <2>2. /\ pc[p] = "out" /\ (c = "init" <=> ~Present("config"))
        /\ command' = [command EXCEPT ![p] = c] /\ pc' = [pc EXCEPT ![p] = "locking"]
        /\ UNCHANGED <<disk, owner, up, todo, raised, reported>>
    BY <2>1 DEF Starts, Goto
  <2>3. ServiceTypeOK' /\ pc'[p] = "locking" /\ command'[p] = c
    BY <1>t, <2>2 DEF ServiceTypeOK, disk
  <2>4. StepOf(p)
    BY <1>t, <2>2 DEF StepOf, ServiceTypeOK
  <2>5. Holds(p)'
    BY <1>t, <2>2, <2>3 DEF Holds, HoldsLock, StopsInOrder, Behind, WritesInOrder, Present, disk, Parts
  <2> QED  BY <2>2, <2>3, <2>4, <2>5, QuietStep
<1>2. CASE Refused(p)
  <2>1. /\ pc[p] = "locking" /\ pc' = [pc EXCEPT ![p] = "out"]
        /\ UNCHANGED <<disk, owner, command, up, todo, raised, reported>>
    BY <1>2 DEF Refused, Goto
  <2>2. ServiceTypeOK' /\ pc'[p] = "out"
    BY <1>t, <2>1 DEF ServiceTypeOK, disk
  <2>3. StepOf(p)
    BY <1>t, <2>1 DEF StepOf, ServiceTypeOK
  <2>4. Holds(p)'
    BY <1>t, <2>1, <2>2 DEF Holds, HoldsLock, StopsInOrder, Behind, WritesInOrder, Present, disk, Parts
  <2> QED  BY <2>1, <2>2, <2>3, <2>4, QuietStep
<1>3. CASE Locks(p)
  <2>1. /\ pc[p] = "locking" /\ owner = Free /\ owner' = p /\ pc' = [pc EXCEPT ![p] = "locked"]
        /\ UNCHANGED <<disk, command, up, todo, raised, reported>>
    BY <1>3 DEF Locks, Goto
  <2>2. ServiceTypeOK' /\ pc'[p] = "locked"
    BY <1>t, <2>1 DEF ServiceTypeOK, disk
  <2>3. StepOf(p)
    BY <1>t, <2>1 DEF StepOf, ServiceTypeOK
  <2>4. Holds(p)'
    BY <1>t, <2>1, <2>2 DEF Holds, HoldsLock, StopsInOrder, Behind, WritesInOrder, Present, disk, Parts
  <2> QED  BY <2>1, <2>2, <2>3, <2>4, QuietStep
<1> QED  BY <1>1, <1>2, <1>3

(* A process that ends loses the lock and whatever it had open.                *)
LEMMA EndOfProcess ==
    ASSUME ServiceInv, NEW p \in Processes, Ends(p), UNCHANGED <<disk, command>>,
           reported' \in [Files -> 0..MaxWrites]
    PROVE  ServiceTypeOK' /\ StepOf(p) /\ Holds(p)'
<1>t. ServiceTypeOK /\ Holds(p) /\ Free \notin Processes
  BY ServiceAssumption DEF ServiceInv, Holds
<1>1. /\ pc' = [pc EXCEPT ![p] = "out"] /\ owner' = (IF owner = p THEN Free ELSE owner)
      /\ up' = [up EXCEPT ![p] = {}] /\ todo' = [todo EXCEPT ![p] = <<>>]
      /\ raised' = [raised EXCEPT ![p] = {}]
      /\ command' = command
  BY DEF Ends, Goto
<1>2. ServiceTypeOK'
  <2>1. owner' \in Processes \cup {Free} /\ <<>> \in Seq(Files)
    BY <1>t, <1>1 DEF ServiceTypeOK
  <2>2. /\ pc' \in [Processes -> Places] /\ up' \in [Processes -> SUBSET Parts]
        /\ todo' \in [Processes -> Seq(Files)]
    BY <1>t, <1>1, <2>1 DEF ServiceTypeOK, Places
  <2>3. raised' \in [Processes -> SUBSET Parts]
    BY <1>t, <1>1 DEF ServiceTypeOK
  <2> QED  BY <1>t, <1>1, <2>1, <2>2, <2>3 DEF ServiceTypeOK, disk, Places
<1>3. StepOf(p)
  BY <1>t, <1>1 DEF StepOf, ServiceTypeOK
<1>4. pc'[p] = "out" /\ up'[p] = {} /\ raised'[p] = {}
  BY <1>t, <1>1 DEF ServiceTypeOK
<1>5. Holds(p)'
  BY <1>4 DEF Holds, HoldsLock, StopsInOrder, Behind, WritesInOrder, Parts
<1> QED  BY <1>2, <1>3, <1>5

(* A command that gives up, fails, ends or is killed.                          *)
LEMMA LeavesKeeps ==
    ASSUME ServiceInv, NEW p \in Processes, GivesUp(p) \/ WriteFails(p) \/ Exits(p) \/ Killed(p)
    PROVE  ServiceInv'
<1>1. Ends(p) /\ UNCHANGED <<disk, command, reported>>
  BY DEF GivesUp, WriteFails, Exits, Killed
<1>2. reported' \in [Files -> 0..MaxWrites]
  BY <1>1 DEF ServiceInv, ServiceTypeOK
<1> QED  BY <1>1, <1>2, EndOfProcess, QuietStep

-----------------------------------------------------------------------------
(* Start and stop *)

(* The order of the stop, part by part.                                        *)
LEMMA StopOrder ==
    /\ Then["locked"] = "smtp" /\ Then["smtp"] = "web" /\ Then["web"] = "workers" /\ Then["workers"] = "store"
    /\ Then["store"] = "session" /\ Then["session"] = "lock"
    /\ Finally["smtp"] = "store" /\ Finally["web"] = "store" /\ Finally["workers"] = "store"
    /\ Finally["store"] = "session" /\ Finally["session"] = "end"
  BY DEF Then, Finally

(* serve opens one part after the other and goes over to its stop.             *)
LEMMA ServesKeeps ==
    ASSUME ServiceInv, NEW p \in Processes, (\E i \in DOMAIN UpOrder : Opens(p, i)) \/ Stops(p)
    PROVE  ServiceInv'
<1>t. ServiceTypeOK /\ Holds(p)
  BY DEF ServiceInv, Holds
<1>1. CASE \E i \in DOMAIN UpOrder : Opens(p, i)
  <2>1. PICK i \in DOMAIN UpOrder : Opens(p, i)
    BY <1>1
  <2>2. /\ pc[p] = "locked" /\ up' = [up EXCEPT ![p] = up[p] \cup {UpOrder[i]}]
        /\ UNCHANGED <<disk, owner, command, pc, todo, raised, reported>>
    BY <2>1 DEF Opens
  <2>3. UpOrder[i] \in Parts
    BY DEF UpOrder, Parts
  <2>4. up' \in [Processes -> SUBSET Parts]
    BY <1>t, <2>2, <2>3 DEF ServiceTypeOK
  <2>5. ServiceTypeOK'
    BY <1>t, <2>2, <2>4 DEF ServiceTypeOK, disk
  <2>6. StepOf(p)
    BY <1>t, <2>2 DEF StepOf, ServiceTypeOK
  <2>7. Holds(p)'
    BY <1>t, <2>2 DEF Holds, HoldsLock, StopsInOrder, Behind, WritesInOrder, Present, disk
  <2> QED  BY <2>2, <2>5, <2>6, <2>7, QuietStep
<1>2. CASE Stops(p)
  <2>1. /\ pc[p] = "locked" /\ pc' = [pc EXCEPT ![p] = "smtp"]
        /\ UNCHANGED <<disk, owner, command, up, todo, raised, reported>>
    BY <1>2, StopOrder DEF Stops, Goto
  <2>2. ServiceTypeOK' /\ pc'[p] = "smtp"
    BY <1>t, <2>1 DEF ServiceTypeOK, disk, Parts
  <2>3. StepOf(p)
    BY <1>t, <2>1 DEF StepOf, ServiceTypeOK
  <2>4. Holds(p)'
    BY <1>t, <2>1, <2>2 DEF Holds, HoldsLock, StopsInOrder, Behind, WritesInOrder, Present, disk
  <2> QED  BY <2>1, <2>2, <2>3, <2>4, QuietStep
<1> QED  BY <1>1, <1>2

(* A part is closed, or its close raises, and the stop goes on.                *)
LEMMA StopKeeps ==
    ASSUME ServiceInv, NEW p \in Processes, Closed(p) \/ CloseRaises(p) \/ LockClosed(p)
    PROVE  ServiceInv'
<1>t. ServiceTypeOK /\ Holds(p) /\ Free \notin Processes
  BY ServiceAssumption DEF ServiceInv, Holds
<1>1. CASE Closed(p)
  <2>1. /\ pc[p] \in Parts /\ pc' = [pc EXCEPT ![p] = Then[pc[p]]]
        /\ up' = [up EXCEPT ![p] = up[p] \ {pc[p]}]
        /\ UNCHANGED <<disk, owner, command, todo, raised, reported>>
    BY <1>1 DEF Closed, Goto
  <2>2. Then[pc[p]] \in {"web", "workers", "store", "session", "lock"}
    BY <2>1, StopOrder DEF Parts
  <2>3. /\ pc' \in [Processes -> Places] /\ up' \in [Processes -> SUBSET Parts]
        /\ pc'[p] = Then[pc[p]] /\ up'[p] = up[p] \ {pc[p]}
    BY <1>t, <2>1, <2>2 DEF ServiceTypeOK, Places, Parts
  <2>4. ServiceTypeOK'
    BY <1>t, <2>1, <2>3 DEF ServiceTypeOK, disk, Places
  <2>5. StepOf(p)
    BY <1>t, <2>1 DEF StepOf, ServiceTypeOK
  <2>6. HoldsLock(p)' /\ WritesInOrder(p)'
    BY <1>t, <2>1, <2>2, <2>3 DEF Holds, HoldsLock, WritesInOrder, Present, disk, Parts
  <2>7. StopsInOrder(p)'
    <3>1. raised'[p] = raised[p] /\ StopsInOrder(p)
      BY <1>t, <2>1 DEF Holds
    <3> QED  BY <2>1, <2>3, <3>1, StopOrder DEF StopsInOrder, Behind, LeftOpenBy, Users, Parts
  <2> QED  BY <2>1, <2>4, <2>5, <2>6, <2>7, QuietStep DEF Holds
<1>2. CASE CloseRaises(p)
  <2>1. /\ pc[p] \in Parts /\ pc' = [pc EXCEPT ![p] = Finally[pc[p]]]
        /\ raised' = [raised EXCEPT ![p] = raised[p] \cup {pc[p]}]
        /\ UNCHANGED <<disk, owner, command, up, todo, reported>>
    BY <1>2 DEF CloseRaises, Goto
  <2>2. Finally[pc[p]] \in {"store", "session", "end"}
    BY <2>1, StopOrder DEF Parts
  <2>3. /\ pc' \in [Processes -> Places] /\ raised' \in [Processes -> SUBSET Parts]
        /\ pc'[p] = Finally[pc[p]] /\ raised'[p] = raised[p] \cup {pc[p]}
    BY <1>t, <2>1, <2>2 DEF ServiceTypeOK, Places, Parts
  <2>4. ServiceTypeOK'
    BY <1>t, <2>1, <2>3 DEF ServiceTypeOK, disk, Places
  <2>5. StepOf(p)
    BY <1>t, <2>1 DEF StepOf, ServiceTypeOK
  <2>6. HoldsLock(p)' /\ WritesInOrder(p)'
    BY <1>t, <2>1, <2>2, <2>3 DEF Holds, HoldsLock, WritesInOrder, Present, disk, Parts
  <2>7. StopsInOrder(p)'
    <3>1. up'[p] = up[p] /\ StopsInOrder(p)
      BY <1>t, <2>1 DEF Holds
    <3> QED  BY <2>1, <2>3, <3>1, StopOrder DEF StopsInOrder, Behind, LeftOpenBy, Users, Parts
  <2> QED  BY <2>1, <2>4, <2>5, <2>6, <2>7, QuietStep DEF Holds
<1>3. CASE LockClosed(p)
  <2>1. /\ pc[p] = "lock" /\ pc' = [pc EXCEPT ![p] = "end"] /\ owner' = Free
        /\ UNCHANGED <<disk, command, up, todo, raised, reported>>
    BY <1>3 DEF LockClosed, Goto
  <2>2. owner = p
    BY <1>t, <2>1 DEF Holds, HoldsLock
  <2>3. ServiceTypeOK' /\ pc'[p] = "end"
    BY <1>t, <2>1 DEF ServiceTypeOK, disk, Parts
  <2>4. StepOf(p)
    BY <1>t, <2>1, <2>2 DEF StepOf, ServiceTypeOK
  <2>5. HoldsLock(p)' /\ WritesInOrder(p)'
    BY <1>t, <2>1, <2>3 DEF Holds, HoldsLock, WritesInOrder, Present, disk, Parts
  <2>6. StopsInOrder(p)'
    BY <1>t, <2>1, <2>3 DEF Holds, StopsInOrder, Behind, LeftOpenBy, Users, Parts
  <2> QED  BY <2>1, <2>3, <2>4, <2>5, <2>6, QuietStep DEF Holds
<1> QED  BY <1>1, <1>2, <1>3

-----------------------------------------------------------------------------
(* The files *)

(* init begins where no file can be, reset-admin with its one file.            *)
LEMMA BeginsKeeps ==
    ASSUME ServiceInv, NEW p \in Processes, NEW imported \in BOOLEAN, BeginsWriting(p, imported)
    PROVE  ServiceInv'
<1>t. ServiceTypeOK /\ Holds(p) /\ DiskAgrees
  BY DEF ServiceInv, Holds
<1> DEFINE list == IF command[p] = "init" THEN InitFiles(imported) ELSE <<"admin">>
<1>1. /\ pc[p] = "locked" /\ command[p] \in {"init", "reset-admin"} /\ MayGoOn(p)
      /\ todo' = [todo EXCEPT ![p] = list] /\ pc' = [pc EXCEPT ![p] = "writing"]
      /\ imports' = IF command[p] = "init" THEN imported ELSE imports
      /\ UNCHANGED <<seen, left, writes, owner, command, up, raised, reported>>
  BY DEF BeginsWriting, Goto
<1>2. list \in Seq(Files)
  <2>1. <<"admin">> \in Seq(Files)
    BY DEF Files
  <2> QED  BY <2>1, InitFilesAreATail
<1>3. ServiceTypeOK' /\ pc'[p] = "writing" /\ todo'[p] = list
  <2> HIDE DEF list
  <2>1. imports' \in BOOLEAN
    BY <1>t, <1>1 DEF ServiceTypeOK
  <2> QED  BY <1>t, <1>1, <1>2, <2>1 DEF ServiceTypeOK
<1>4. StepOf(p)
  BY <1>t, <1>1 DEF StepOf, ServiceTypeOK
<1>5. HoldsLock(p)' /\ StopsInOrder(p)'
  BY <1>t, <1>1, <1>3 DEF Holds, HoldsLock, StopsInOrder, Behind, Parts
<1>o. \A q \in Processes \ {p} : Holds(q)'
  BY <1>t, <1>1, <1>4, OthersHold DEF ServiceInv, Holds, HoldsLock, Present
<1>6. CASE command[p] = "init"
  <2>1. seen["key"] = 0
    BY <1>1, <1>6 DEF MayGoOn, Present
  <2>2. left["key"] = {0}
    BY <1>t, <2>1 DEF DiskAgrees, Files
  <2>3. \A content \in left["admin"] \cup left["account"] : content = 0
    BY <1>t, <2>2 DEF DiskAgrees
  <2>4. seen["admin"] \in left["admin"] /\ seen["account"] \in left["account"] /\ seen["config"] \in left["config"]
    BY <1>t DEF DiskAgrees, Files
  <2>5. \A content \in left["config"] : content = 0
    BY <1>t, <2>3, <2>4 DEF DiskAgrees
  <2>6. \A f \in Files : left[f] = {seen[f]}
    BY <2>1, <2>2, <2>3, <2>4, <2>5 DEF Files
  <2>7. list \in InitTails(imports)' /\ Head(list) = "key" /\ Before'["key"] = {}
    BY <1>1, <1>6, InitFilesAreATail DEF Before
  <2> HIDE DEF list
  <2>8. WritesInOrder(p)'
    BY <1>1, <1>3, <1>6, <2>6, <2>7 DEF WritesInOrder
  <2>9. DiskAgrees'
    BY <1>t, <1>1, <2>3, <2>5 DEF DiskAgrees
  <2> QED  BY <1>3, <1>5, <1>o, <2>8, <2>9 DEF ServiceInv, Holds
<1>7. CASE command[p] # "init"
  <2>1. list = <<"admin">> /\ <<"admin">> # <<>>
    BY <1>7
  <2> HIDE DEF list
  <2>2. WritesInOrder(p)'
    BY <1>t, <1>1, <1>3, <1>7, <2>1 DEF Holds, WritesInOrder, Present
  <2>3. DiskAgrees'
    BY <1>t, <1>1, <1>7 DEF DiskAgrees
  <2> QED  BY <1>3, <1>5, <1>o, <2>2, <2>3 DEF ServiceInv, Holds
<1> QED  BY <1>6, <1>7

(* The file a process is at, and what it found.                                *)
LEMMA FileAtHand ==
    ASSUME ServiceInv, NEW p \in Processes, pc[p] \in {"writing", "renamed"}, todo[p] # <<>>
    PROVE  /\ Head(todo[p]) \in Files /\ owner = p
           /\ command[p] = "init" => /\ todo[p] \in InitTails(imports)
                                     /\ \A f \in Before[Head(todo[p])] : Present(f)
           /\ command[p] # "init" => /\ todo[p] = <<"admin">> /\ Head(todo[p]) = "admin"
                                     /\ Present("config")
<1>1. WritesInOrder(p) /\ HoldsLock(p)
  BY DEF ServiceInv
<1>2. owner = p
  BY <1>1 DEF HoldsLock
<1>3. CASE command[p] = "init"
  <2>1. imports \in BOOLEAN
    BY DEF ServiceInv, ServiceTypeOK
  <2> QED  BY <1>1, <1>2, <1>3, <2>1, TailsOfInit DEF WritesInOrder
<1>4. CASE command[p] # "init"
  <2>1. todo[p] = <<"admin">>
    BY <1>1, <1>4 DEF WritesInOrder
  <2> QED  BY <1>1, <1>2, <1>4, <2>1 DEF WritesInOrder, Files
<1> QED  BY <1>3, <1>4

(* The rename: the new content is there, the old one may come back.            *)
LEMMA ReplacedKeeps ==
    ASSUME ServiceInv, NEW p \in Processes, Replaced(p)
    PROVE  ServiceInv'
<1>t. ServiceTypeOK /\ Holds(p) /\ DiskAgrees /\ MaxWrites \in Nat
  BY ServiceAssumption DEF ServiceInv, Holds
<1> DEFINE f == Head(todo[p])
           new == writes + 1
<1>1. /\ pc[p] = "writing" /\ todo[p] # <<>> /\ writes < MaxWrites /\ writes' = new
      /\ seen' = [seen EXCEPT ![f] = new] /\ left' = [left EXCEPT ![f] = left[f] \cup {new}]
      /\ pc' = [pc EXCEPT ![p] = "renamed"]
      /\ UNCHANGED <<imports, owner, command, up, todo, raised, reported>>
  BY DEF Replaced, Goto, LeftSynced
<1>2. /\ f \in Files /\ owner = p
      /\ command[p] = "init" => /\ todo[p] \in InitTails(imports)
                                /\ \A g \in Before[f] : Present(g)
      /\ command[p] # "init" => f = "admin" /\ todo[p] = <<"admin">> /\ Present("config")
  BY <1>1, FileAtHand
<1>3. new \in 1..MaxWrites /\ new > writes /\ writes \in Nat
  BY <1>t, <1>1 DEF ServiceTypeOK
<1> HIDE DEF f, new
<1>4. /\ seen'[f] = new /\ left'[f] = left[f] \cup {new} /\ pc'[p] = "renamed"
      /\ \A g \in Files \ {f} : seen'[g] = seen[g] /\ left'[g] = left[g]
  BY <1>t, <1>1, <1>2 DEF ServiceTypeOK
<1>5. ServiceTypeOK'
  <2>1. /\ seen' \in [Files -> 0..MaxWrites] /\ left' \in [Files -> SUBSET (0..MaxWrites)]
        /\ writes' \in 0..MaxWrites
    BY <1>t, <1>1, <1>2, <1>3 DEF ServiceTypeOK
  <2> QED  BY <1>t, <1>1, <2>1 DEF ServiceTypeOK
<1>6. StepOf(p)
  BY <1>t, <1>1 DEF StepOf, ServiceTypeOK
<1>7. \A g \in Files : (0 \in left'[g] => 0 \in left[g]) /\ (Present(g) => Present(g)')
  BY <1>3, <1>4 DEF Present
<1>8. \A q \in Processes \ {p} : Holds(q)'
  BY <1>2, <1>6, <1>7, OthersHold DEF ServiceInv, Holds, Files
<1>9. WritesInOrder(p) /\ \A g \in Files : seen[g] \in left[g]
  BY <1>t DEF Holds, DiskAgrees
<1>10. DiskAgrees'
  <2>1. \A g \in Files : /\ seen'[g] \in left'[g] /\ (seen'[g] = 0 => left'[g] = {0})
                          /\ \A content \in left'[g] : content <= writes' /\ content >= reported'[g]
    <3> SUFFICES ASSUME NEW g \in Files
                 PROVE  /\ seen'[g] \in left'[g] /\ (seen'[g] = 0 => left'[g] = {0})
                        /\ \A content \in left'[g] : content <= writes' /\ content >= reported'[g]
      OBVIOUS
    <3>1. /\ seen[g] \in left[g] /\ (seen[g] = 0 => left[g] = {0})
          /\ \A content \in left[g] : content <= writes /\ content >= reported[g] /\ content \in Nat
          /\ seen[g] \in Nat /\ reported[g] \in Nat
      BY <1>t DEF DiskAgrees, ServiceTypeOK
    <3>2. reported[g] <= writes
      BY <1>3, <3>1
    <3> QED  BY <1>1, <1>3, <1>4, <3>1, <3>2
  <2>2. CASE command[p] = "init"
    <3>1. \A g \in Before[f] : g \in Files => 0 \notin left[g]
      BY <1>1, <1>2, <1>9, <2>2 DEF WritesInOrder, Present
    <3>2. f = "config" => 0 \notin left["admin"] /\ (imports => 0 \notin left["account"])
      BY <3>1 DEF Before, Files
    <3>3. f \in {"admin", "account"} => 0 \notin left["key"]
      BY <3>1 DEF Before, Files
    <3> QED  BY <1>t, <1>1, <1>4, <1>7, <2>1, <3>2, <3>3 DEF DiskAgrees, Files
  <2>3. CASE command[p] # "init"
    <3>1. f = "admin" /\ seen["config"] # 0
      BY <1>2, <2>3 DEF Present
    <3>2. 0 \notin left["admin"] /\ seen["admin"] # 0
      BY <1>t, <1>9, <3>1 DEF DiskAgrees, Files
    <3>3. 0 \notin left["key"]
      BY <1>t, <1>9, <3>2 DEF DiskAgrees, Files
    <3> QED  BY <1>t, <1>1, <1>4, <1>7, <2>1, <3>1, <3>2, <3>3 DEF DiskAgrees, Files
  <2> QED  BY <2>2, <2>3
<1>11. HoldsLock(p)' /\ StopsInOrder(p)'
  BY <1>t, <1>1, <1>2, <1>4 DEF Holds, HoldsLock, StopsInOrder, Behind, Parts
<1>12. WritesInOrder(p)'
  <2>1. Head(todo'[p]) = f /\ todo'[p] = todo[p] /\ command'[p] = command[p]
    BY <1>1 DEF f
  <2>b. Before' = Before /\ imports' = imports
    BY <1>1 DEF Before
  <2>2. seen'[f] # 0 /\ (Present("config") => Present("config")')
    <3>1. seen'[f] # 0
      BY <1>3, <1>4
    <3>2. "config" \in Files
      BY DEF Files
    <3> QED  BY <1>7, <3>1, <3>2
  <2>3. CASE command[p] = "init"
    <3>1. Before[f] \subseteq Files
      BY <1>2 DEF Before, Files
    <3>2. \A g \in Before[f] : Present(g)'
      BY <1>2, <1>7, <2>3, <3>1
    <3>3. \A g \in Files \ {f} : left'[g] = {seen'[g]}
      BY <1>1, <1>4, <1>9, <2>3 DEF WritesInOrder
    <3>4. command'[p] = "init" /\ todo'[p] \in InitTails(imports)' /\ todo'[p] # <<>>
      BY <1>1, <1>2, <2>1, <2>3, <2>b
    <3>5. \A g \in Before'[Head(todo'[p])] : Present(g)'
      BY <2>1, <2>b, <3>2
    <3>6. \A g \in Files : left'[g] # {seen'[g]} => pc'[p] = "renamed" /\ g = Head(todo'[p])
      BY <1>4, <2>1, <3>3
    <3>7. seen'[Head(todo'[p])] # 0
      BY <2>1, <2>2
    <3> QED  BY <3>4, <3>5, <3>6, <3>7 DEF WritesInOrder, Present
  <2>4. CASE command[p] # "init"
    <3>1. command'[p] # "init" /\ todo'[p] = <<"admin">> /\ <<"admin">> # <<>> /\ Present("config")'
      BY <1>2, <2>1, <2>2, <2>4
    <3>2. seen'[Head(todo'[p])] # 0
      BY <2>1, <2>2
    <3> QED  BY <1>4, <3>1, <3>2 DEF WritesInOrder, Present
  <2> QED  BY <2>3, <2>4
<1> QED  BY <1>5, <1>8, <1>10, <1>11, <1>12 DEF ServiceInv, Holds

(* The directory is synced: only the new content is left.                      *)
LEMMA SyncedKeeps ==
    ASSUME ServiceInv, NEW p \in Processes, DirectorySynced(p)
    PROVE  ServiceInv'
<1>t. ServiceTypeOK /\ Holds(p) /\ DiskAgrees
  BY DEF ServiceInv, Holds
<1> DEFINE f == Head(todo[p])
<1>w. pc[p] = "renamed" /\ todo[p] # <<>> /\ Present(f)
  BY <1>t DEF DirectorySynced, Holds, WritesInOrder
<1>1. /\ seen' = seen /\ writes' = writes /\ imports' = imports /\ left' = [left EXCEPT ![f] = {seen[f]}]
      /\ pc' = [pc EXCEPT ![p] = "writing"] /\ todo' = [todo EXCEPT ![p] = Tail(todo[p])]
      /\ UNCHANGED <<owner, command, up, raised, reported>>
  BY DEF DirectorySynced, Goto
<1>2. /\ f \in Files /\ owner = p
      /\ command[p] = "init" => /\ todo[p] \in InitTails(imports)
                                /\ \A g \in Before[f] : Present(g)
      /\ command[p] # "init" => f = "admin" /\ todo[p] = <<"admin">> /\ Present("config")
  BY <1>w, FileAtHand
<1>s. Tail(todo[p]) \in Seq(Files)
  BY <1>t, <1>w DEF ServiceTypeOK
<1> HIDE DEF f
<1>3. /\ seen[f] # 0 /\ left'[f] = {seen[f]} /\ pc'[p] = "writing" /\ todo'[p] = Tail(todo[p])
      /\ \A g \in Files \ {f} : left'[g] = left[g]
  BY <1>t, <1>w, <1>1, <1>2 DEF ServiceTypeOK, Present
<1>4. ServiceTypeOK'
  <2>1. {seen[f]} \in SUBSET (0..MaxWrites)
    BY <1>t, <1>2 DEF ServiceTypeOK
  <2>2. left' \in [Files -> SUBSET (0..MaxWrites)]
    BY <1>t, <1>1, <2>1 DEF ServiceTypeOK
  <2>3. todo' \in [Processes -> Seq(Files)]
    BY <1>t, <1>1, <1>s DEF ServiceTypeOK
  <2> QED  BY <1>t, <1>1, <2>2, <2>3 DEF ServiceTypeOK
<1>5. StepOf(p)
  BY <1>t, <1>1 DEF StepOf, ServiceTypeOK
<1>6. \A g : Present(g) <=> Present(g)'
  BY <1>1 DEF Present
<1>7. \A q \in Processes \ {p} : Holds(q)'
  BY <1>2, <1>5, <1>6, OthersHold DEF ServiceInv, Holds
<1>8. DiskAgrees'
  <2>1. seen[f] \in left[f]
    BY <1>t, <1>2 DEF DiskAgrees
  <2>2. \A g \in Files : left'[g] \subseteq left[g]
    BY <1>2, <1>3, <2>1
  <2>3. \A g \in Files : seen'[g] \in left'[g] /\ (seen'[g] = 0 => left'[g] = {0})
    BY <1>t, <1>1, <1>3 DEF DiskAgrees
  <2> QED  BY <1>t, <1>1, <2>2, <2>3 DEF DiskAgrees, Files
<1>9. HoldsLock(p)' /\ StopsInOrder(p)'
  <2>1. /\ pc[p] = "renamed" /\ pc'[p] = "writing" /\ owner' = owner /\ owner = p
        /\ up'[p] = up[p] /\ raised'[p] = raised[p]
    BY <1>w, <1>1, <1>2, <1>3
  <2> QED  BY <1>t, <2>1 DEF Holds, HoldsLock, StopsInOrder, Behind, Parts
<1>b. Before' = Before /\ imports \in BOOLEAN
  BY <1>t, <1>1 DEF Before, ServiceTypeOK
<1>10. WritesInOrder(p)'
  <2>1. CASE command[p] = "init"
    <3>1. \A g \in Files : left'[g] = {seen'[g]}
      BY <1>t, <1>w, <1>1, <1>3, <2>1 DEF Holds, WritesInOrder, f
    <3>2. /\ Tail(todo[p]) \in InitTails(imports)
          /\ Tail(todo[p]) # <<>> => \A g \in Before[Head(Tail(todo[p]))] : g = f \/ g \in Before[f]
      BY <1>w, <1>2, <1>b, <2>1, TailsOfInit DEF Before, Files, f
    <3>3. Tail(todo[p]) # <<>> => \A g \in Before[Head(Tail(todo[p]))] : Present(g)
      BY <1>w, <1>2, <2>1, <3>2
    <3> QED  BY <1>1, <1>3, <1>6, <1>b, <2>1, <3>1, <3>2, <3>3 DEF WritesInOrder
  <2>2. CASE command[p] # "init"
    <3>1. Tail(todo[p]) = <<>>
      <4>1. todo[p] = <<"admin">>
        BY <1>2, <2>2
      <4>2. Tail(<<"admin">>) = <<>>
        OBVIOUS
      <4> QED  BY <4>1, <4>2
    <3>2. left'["admin"] = {seen'["admin"]}
      BY <1>1, <1>2, <1>3, <2>2
    <3> QED  BY <1>1, <1>2, <1>3, <1>6, <2>2, <3>1, <3>2 DEF WritesInOrder
  <2> QED  BY <2>1, <2>2
<1> QED  BY <1>4, <1>7, <1>8, <1>9, <1>10 DEF ServiceInv, Holds

(* What a command says it has written can no longer be lost.                   *)
LEMMA ReportsKeeps ==
    ASSUME ServiceInv, NEW p \in Processes, Reports(p)
    PROVE  ServiceInv'
<1>t. ServiceTypeOK /\ Holds(p) /\ DiskAgrees
  BY DEF ServiceInv, Holds
<1>1. /\ pc[p] = "writing" /\ todo[p] = <<>> /\ Ends(p) /\ UNCHANGED <<disk, command>>
      /\ reported' = IF command[p] = "init" THEN seen ELSE [reported EXCEPT !["admin"] = seen["admin"]]
  BY DEF Reports
<1>2. reported' \in [Files -> 0..MaxWrites]
  BY <1>t, <1>1 DEF ServiceTypeOK, Files
<1>3. ServiceTypeOK' /\ StepOf(p) /\ Holds(p)'
  BY <1>1, <1>2, EndOfProcess
<1>4. \A q \in Processes \ {p} : Holds(q)'
  BY <1>1, <1>3, OthersHold DEF ServiceInv, Holds, disk
<1>5. \A f \in Files : reported'[f] = reported[f] \/ (reported'[f] = seen[f] /\ left[f] = {seen[f]})
  <2>1. CASE command[p] = "init"
    BY <1>t, <1>1, <2>1 DEF Holds, WritesInOrder
  <2>2. CASE command[p] # "init"
    BY <1>t, <1>1, <2>2 DEF Holds, WritesInOrder, ServiceTypeOK
  <2> QED  BY <2>1, <2>2
<1>6. DiskAgrees'
  <2>1. seen' = seen /\ left' = left /\ writes' = writes /\ imports' = imports
    BY <1>1 DEF disk
  <2>2. \A f \in Files : \A content \in left[f] : content >= reported'[f]
    <3> SUFFICES ASSUME NEW f \in Files, NEW content \in left[f]
                 PROVE  content >= reported'[f]
      OBVIOUS
    <3>1. CASE reported'[f] = reported[f]
      BY <1>t, <3>1 DEF DiskAgrees
    <3>2. CASE reported'[f] = seen[f] /\ left[f] = {seen[f]}
      BY <1>t, <3>2 DEF ServiceTypeOK
    <3> QED  BY <1>5, <3>1, <3>2
  <2> QED  BY <1>t, <2>1, <2>2 DEF DiskAgrees
<1> QED  BY <1>3, <1>4, <1>6 DEF ServiceInv, Holds

(* Power fails: of each file one of the contents it may have remains.          *)
LEMMA PowerKeeps ==
    ASSUME ServiceInv, NEW content \in Remains, PowerFails(content)
    PROVE  ServiceInv'
<1>t. ServiceTypeOK /\ DiskAgrees
  BY DEF ServiceInv
<1>1. /\ seen' = content /\ left' = [f \in Files |-> {content[f]}] /\ owner' = Free
      /\ pc' = [p \in Processes |-> "out"] /\ up' = [p \in Processes |-> {}]
      /\ todo' = [p \in Processes |-> <<>>] /\ raised' = [p \in Processes |-> {}]
      /\ UNCHANGED <<writes, imports, command, reported>>
  BY DEF PowerFails
<1>2. /\ content["key"] \in left["key"] /\ content["admin"] \in left["admin"]
      /\ content["account"] \in left["account"] /\ content["config"] \in left["config"]
      /\ DOMAIN content = Files /\ content = [f \in Files |-> content[f]]
  BY DEF Remains, Files
<1>3. \A f \in Files : content[f] \in left[f]
  BY <1>2 DEF Files
<1>4. ServiceTypeOK'
  <2>1. seen' \in [Files -> 0..MaxWrites]
    <3>1. \A f \in Files : content[f] \in 0..MaxWrites
      BY <1>t, <1>3 DEF ServiceTypeOK
    <3> QED  BY <1>1, <1>2, <3>1
  <2>2. left' \in [Files -> SUBSET (0..MaxWrites)]
    BY <1>1, <2>1
  <2>3. pc' \in [Processes -> Places] /\ up' \in [Processes -> SUBSET Parts] /\ todo' \in [Processes -> Seq(Files)]
    BY <1>1 DEF Places
  <2>4. raised' \in [Processes -> SUBSET Parts]
    BY <1>1
  <2> QED  BY <1>t, <1>1, <2>1, <2>2, <2>3, <2>4 DEF ServiceTypeOK, Places
<1>5. DiskAgrees'
  <2>1. \A f \in Files : seen'[f] = content[f] /\ left'[f] = {content[f]}
    BY <1>1
  <2>2. \A f \in Files : content[f] <= writes /\ content[f] >= reported[f]
    BY <1>t, <1>3 DEF DiskAgrees
  <2>3. content["config"] # 0 => content["admin"] # 0 /\ (imports => content["account"] # 0)
    BY <1>t, <1>2 DEF DiskAgrees
  <2>4. content["admin"] # 0 \/ content["account"] # 0 => content["key"] # 0
    BY <1>t, <1>2 DEF DiskAgrees
  <2> QED  BY <1>1, <2>1, <2>2, <2>3, <2>4 DEF DiskAgrees, Files
<1>6. \A p \in Processes : HoldsLock(p)' /\ StopsInOrder(p)' /\ WritesInOrder(p)'
  BY <1>1 DEF HoldsLock, StopsInOrder, Behind, WritesInOrder, Parts
<1> QED  BY <1>4, <1>5, <1>6 DEF ServiceInv

-----------------------------------------------------------------------------
(* The invariant *)

(* An empty directory and no process.                                          *)
LEMMA ServiceStarts == ServiceInit => ServiceInv
<1> SUFFICES ASSUME ServiceInit
             PROVE  ServiceInv
  OBVIOUS
<1>1. ServiceTypeOK
  <2>1. 0 \in 0..MaxWrites /\ "check" \in Commands
    BY ServiceAssumption DEF Commands
  <2>2. raised \in [Processes -> SUBSET Parts]
    BY DEF ServiceInit
  <2>3. todo \in [Processes -> Seq(Files)] /\ up \in [Processes -> SUBSET Parts]
    BY DEF ServiceInit
  <2> QED  BY <2>1, <2>2, <2>3 DEF ServiceInit, ServiceTypeOK
<1>2. DiskAgrees
  BY DEF ServiceInit, DiskAgrees, Files
<1>3. \A p \in Processes : HoldsLock(p) /\ StopsInOrder(p) /\ WritesInOrder(p)
  BY DEF ServiceInit, HoldsLock, StopsInOrder, Behind, WritesInOrder, Parts
<1> QED  BY <1>1, <1>2, <1>3 DEF ServiceInv

(* Every step keeps it.                                                        *)
LEMMA ServiceKept == ServiceInv /\ [ServiceNext]_vars => ServiceInv'
<1>1. ASSUME ServiceInv, NEW p \in Processes,
             \/ \E c \in Commands : Starts(p, c)
             \/ Refused(p) \/ Locks(p) \/ GivesUp(p)
             \/ \E imported \in BOOLEAN : BeginsWriting(p, imported)
             \/ Replaced(p) \/ DirectorySynced(p) \/ WriteFails(p) \/ Reports(p)
             \/ \E i \in DOMAIN UpOrder : Opens(p, i)
             \/ Stops(p) \/ Closed(p) \/ CloseRaises(p) \/ LockClosed(p) \/ Exits(p) \/ Killed(p)
      PROVE  ServiceInv'
  BY <1>1, EntersKeeps, LeavesKeeps, BeginsKeeps, ReplacedKeeps, SyncedKeeps, ReportsKeeps,
     ServesKeeps, StopKeeps
<1>2. ASSUME ServiceInv, NEW content \in Remains, PowerFails(content)
      PROVE  ServiceInv'
  BY <1>2, PowerKeeps
<1>3. ASSUME ServiceInv, UNCHANGED vars
      PROVE  ServiceInv'
  <2>1. ServiceTypeOK' /\ DiskAgrees'
    BY <1>3 DEF vars, disk, process, ServiceInv, ServiceTypeOK, DiskAgrees
  <2>2. ASSUME NEW p \in Processes
        PROVE  HoldsLock(p)' /\ StopsInOrder(p)' /\ WritesInOrder(p)'
    <3>1. HoldsLock(p) /\ StopsInOrder(p) /\ WritesInOrder(p)
      BY <1>3 DEF ServiceInv
    <3>2. Before' = Before
      BY <1>3 DEF vars, disk, Before
    <3> QED
      BY <1>3, <3>1, <3>2 DEF vars, disk, process, HoldsLock, StopsInOrder, WritesInOrder, Present
  <2> QED  BY <2>1, <2>2 DEF ServiceInv
<1> QED  BY <1>1, <1>2, <1>3 DEF ServiceNext

(* The invariant of the processes on one state directory (service.py:22-67,    *)
(* cli.py:63-73, security.py:15-31).                                           *)
THEOREM ServiceInvariance == ServiceSpec => []ServiceInv
  BY ServiceStarts, ServiceKept, PTL DEF ServiceSpec

(* Two processes never have the queue open or write the state at once; only a  *)
(* store whose own close raised is open without the lock, until its process    *)
(* exits (service.py:22, 61-67, cli.py:63-73).                                 *)
THEOREM OneOwnerAlways == ServiceSpec => []OneOwner
<1>1. ServiceInv => OneOwner
  <2> SUFFICES ASSUME ServiceInv, NEW p \in Processes
               PROVE  /\ "store" \in up[p] => owner = p \/ ("store" \in raised[p] /\ pc[p] = "end")
                      /\ pc[p] \in Parts \cup {"locked", "writing", "renamed"} => owner = p
    BY DEF OneOwner
  <2>1. HoldsLock(p) /\ StopsInOrder(p) /\ pc[p] \in Places
    BY DEF ServiceInv, ServiceTypeOK, Places
  <2>2. pc[p] = "end" /\ "store" \in up[p] => "store" \in raised[p]
    BY <2>1 DEF StopsInOrder, Behind, LeftOpenBy, Parts
  <2> QED  BY <2>1, <2>2 DEF HoldsLock, Places
<1> QED  BY <1>1, ServiceInvariance, PTL

(* The order of the stop, also of one in which a close raises                  *)
(* (service.py:53-67).                                                         *)
THEOREM StopIsOrderly == ServiceSpec => []UsersCloseFirst
<1>1. ServiceInv => UsersCloseFirst
  <2> SUFFICES ASSUME ServiceInv, NEW p \in Processes
               PROVE  /\ pc[p] = "workers" => {"smtp", "web"} \cap up[p] = {}
                      /\ pc[p] \in {"store", "session", "lock", "end"} =>
                            \A part \in Users \cap up[p] : raised[p] \cap LeftOpenBy[part] # {}
                      /\ pc[p] \in {"session", "lock", "end"} /\ "store" \in up[p] =>
                            "store" \in raised[p]
    BY DEF UsersCloseFirst
  <2>1. StopsInOrder(p)
    BY DEF ServiceInv
  <2>2. pc[p] = "workers" => {"smtp", "web"} \cap up[p] = {}
    BY <2>1 DEF StopsInOrder, Behind, LeftOpenBy
  <2>3. ASSUME pc[p] \in {"store", "session", "lock", "end"}, NEW part \in Users \cap up[p]
        PROVE  raised[p] \cap LeftOpenBy[part] # {}
    <3>1. pc[p] \in DOMAIN Behind /\ part \in Behind[pc[p]]
      BY <2>3 DEF Behind, Users, Parts
    <3> QED  BY <2>1, <3>1 DEF StopsInOrder
  <2>4. pc[p] \in {"session", "lock", "end"} /\ "store" \in up[p] => "store" \in raised[p]
    BY <2>1 DEF StopsInOrder, Behind, LeftOpenBy, Users, Parts
  <2> QED  BY <2>2, <2>3, <2>4
<1> QED  BY <1>1, ServiceInvariance, PTL

(* What was reported as written is never undone, and no file is left without   *)
(* those it needs, an imported credential included (security.py:15-31,         *)
(* cli.py:63-76).                                                              *)
THEOREM FilesSurvive == ServiceSpec => []RecordsSurvive
<1>1. ServiceInv => RecordsSurvive
  <2> SUFFICES ASSUME DiskAgrees
               PROVE  RecordsSurvive
    BY DEF ServiceInv
  <2>1. \A f \in Files : seen[f] \in left[f] /\ \A content \in left[f] : content >= reported[f]
    BY DEF DiskAgrees
  <2>2. Present("config") => Present("admin") /\ (imports => Present("account"))
    BY <2>1 DEF DiskAgrees, Present, Files
  <2>3. Present("admin") \/ Present("account") => Present("key")
    BY <2>1 DEF DiskAgrees, Present, Files
  <2> QED  BY <2>1, <2>2, <2>3 DEF RecordsSurvive
<1> QED  BY <1>1, ServiceInvariance, PTL
=============================================================================
