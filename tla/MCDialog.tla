------------------------------ MODULE MCDialog ------------------------------
(* Dialog for TLC: two slots of one service, today and tomorrow; the clock *)
(* passes the start and the end of the first one.                          *)
EXTENDS Dialog, TLC

CONSTANTS c1, c2, u1, a1, svc, s1, s2

(* A group chat in which a client and an administrator press buttons.      *)
GroupChat == {<<c1, u1>>, <<c1, a1>>}

(* The private chats of a client and of an administrator.                  *)
PrivateChats == {<<c1, u1>>, <<c2, a1>>}

OneService == [s \in Slots |-> svc]
Starts == [s \in Slots |-> IF s = s1 THEN 1 ELSE 2]
Ends   == [s \in Slots |-> Starts[s] + 1]

Symmetry == Permutations(Handlers) \union Permutations(BookingIds)
=============================================================================
