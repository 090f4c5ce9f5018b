------------------------------- MODULE Backend -------------------------------
(* MicrosoftBackend.send and _interpret_ews (backend.py:57-143): which class  *)
(* of delivery error stands for each way a request can end; and the ends the  *)
(* provider may give to a mail that it has taken and to one it has not.       *)
EXTENDS Naturals

HttpCodes == {200, 202, 302, 400, 401, 403, 429, 500}

(* What the body says: "plain" is no XML; "garbled" is XML without exactly one *)
(* item; the others are the groups of EWS response codes that the code tells   *)
(* apart, and the one Graph code.                                              *)
Bodies == {"plain", "garbled", "success", "busy", "quota", "noaccess", "vague", "invalid"}

Responses ==
    [service : {"graph"}, status : HttpCodes, body : {"plain", "senddenied"}]
        \cup {r \in [service : {"ews"}, status : HttpCodes, body : Bodies] :
                r.body = "success" => r.status = 200}

(* _interpret_ews, with the order of its tests. *)
Interpreted(r) ==
    CASE r.body = "success"             -> "submitted"
      [] r.body \in {"busy", "quota"}   -> "throttled"
      [] r.body = "noaccess"            -> "auth"
      [] r.body \in {"garbled", "vague"} -> "uncertain"
      [] OTHER                          -> "permanent"

(* The tests of send that do not look at the kind of trouble first. *)
Plain(r) ==
    IF r.service = "graph" /\ r.status = 202 THEN "submitted"
    ELSE IF r.service = "ews" /\ r.body # "plain" THEN Interpreted(r)
    ELSE IF r.status \in 300..499 THEN "permanent"
    ELSE "uncertain"

(* Mutant: an error status above 499 is taken for a rejection. *)
ClassesOfErrors(r) == {IF r.status >= 300 THEN "permanent" ELSE Plain(r)}

(* A 401 is the token manager's to judge (rejected_token). *)
Classes(r) ==
    CASE r.status = 401 -> {"throttled", "auth"}
      [] r.status = 403 -> {IF r.body = "senddenied" THEN "permanent" ELSE "auth"}
      [] r.status = 429 -> {"throttled"}
      [] OTHER          -> {Plain(r)}

(* What the provider promises: it confirms only what it has taken, and gives   *)
(* no refusal to that; an answer that says too little may follow either.       *)
Confirms(r) == r.body = "success" \/ (r.service = "graph" /\ r.status = 202)
SaysLittle(r) ==
    /\ r.status \notin {401, 403, 429}
    /\ r.body \in {"garbled", "vague"} \/ (r.body = "plain" /\ r.status \notin 300..499)
MayFollow(r, taken) == IF taken THEN Confirms(r) \/ SaysLittle(r) ELSE ~Confirms(r)

(* A request whose answer is lost, late or too long; one that was not made for *)
(* want of a token or of a connection.                                         *)
NoAnswer(taken) == IF taken THEN {"uncertain"} ELSE {"uncertain", "throttled", "auth", "unreached"}

(* The classes an attempt can end in, by whether upstream has taken the mail.  *)
Endings ==
    [taken \in BOOLEAN |->
        NoAnswer(taken) \cup UNION {Classes(r) : r \in {s \in Responses : MayFollow(s, taken)}}]
=============================================================================
