------------------------------ MODULE MCSender ------------------------------
EXTENDS AdditionalSender, TLC

CONSTANTS ann, shared, legacy, stranger, r1, r2, other

(* One account has the legacy sender as its default address. *)
MCUsers   == {ann, legacy}
MCCustoms == {shared}
MCAllowed == {r1, r2}

Plain(address) == <<[address |-> address, nat |-> FALSE]>>
Marked(address) == <<[address |-> address, nat |-> TRUE]>>

Ordinary == [from |-> Plain(legacy), resentFrom |-> Absent, sender |-> Absent,
             to |-> {r1}, resentTo |-> Absent, bcc |-> Absent, resentBcc |-> Absent,
             envelope |-> {r1}, large |-> FALSE]

(* Messages that differ in who sends them, and in whom they are for. *)
Senders ==
    {[Ordinary EXCEPT !.from = f, !.resentFrom = g, !.sender = s, !.large = l] :
        f \in {Absent, Plain(ann), Plain(shared), Plain(legacy), Plain(stranger),
               Marked(stranger), Plain(ann) \o Plain(shared)},
        g \in {Absent, Plain(shared), Plain(stranger), Marked(ann)},
        s \in {Absent, legacy}, l \in BOOLEAN}
Addressed ==
    {[Ordinary EXCEPT !.to = t, !.resentTo = u, !.bcc = b, !.resentBcc = c, !.envelope = e] :
        t \in {{r1}, {r1, other}}, u \in {Absent, {}, {r2}}, b \in {Absent, {r2}, {other}},
        c \in {Absent, {r1}}, e \in {{r1}, {r1, r2}}}

MCRaws == Senders \cup Addressed

Symmetry == Permutations(Admins)
=============================================================================
