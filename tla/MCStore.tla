------------------------------ MODULE MCStore ------------------------------
(* Store.tla for TLC: two mails that differ in size and recipients. *)
EXTENDS Store, TLC

CONSTANTS m1, m2, me

OneAndTwo == (m1 :> 1 @@ m2 :> 2)

(* The columns a later operation or a property may still read: the number of   *)
(* attempts is read by the worker alone, and a mail that was submitted or       *)
(* cancelled is purged by its last update and never sorted or claimed again.    *)
(* States that differ in other columns only have the same steps and the same    *)
(* properties, so TLC explores one of them.                                     *)
ReadLater(row) ==
    IF row.status \in {"submitted", "cancelled"}
    THEN [Blank(row.status) EXCEPT !.updated = row.updated, !.mime = row.mime]
    ELSE [row EXCEPT !.attempts = 0]

ReadState == <<[m \in Messages |-> ReadLater(messages[m])], quota, counters, settings,
               acks, up, healthy, now>>
=============================================================================
