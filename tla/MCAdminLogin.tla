---------------------------- MODULE MCAdminLogin ----------------------------
EXTENDS AdminLogin, TLC

CONSTANTS near, far, remote, tab1, tab2, tab3, tab4

(* Two tabs of one browser, and one of each other. *)
MCClientOf == tab1 :> near @@ tab2 :> near @@ tab3 :> far @@ tab4 :> remote

(* The two tabs are alike, and so are the two other browsers with theirs. *)
Swap(p, q) == p :> q @@ q :> p
Same == {<<>>, Swap(far, remote) @@ Swap(tab3, tab4)}
Symmetry == {tabs @@ others : tabs \in {<<>>, Swap(tab1, tab2)}, others \in Same}
=============================================================================
