------------------------------ MODULE MCScreens ------------------------------
(* Screens for TLC: five bookings of one day, two of them at the same time, *)
(* on pages of two; lines with characters of one to four bytes, one of them *)
(* longer than a message.                                                   *)
EXTENDS Screens

CONSTANTS c1, c2, u1, a1

(* A group chat of a client and an administrator, and a private chat of the *)
(* administrator.                                                          *)
GroupAndPrivate == {<<c1, u1>>, <<c1, a1>>, <<c2, a1>>}

Starts == <<0, 1, 1, 2, 3>>
Ends   == [b \in Bookings |-> Starts[b] + 1]
Owners == [b \in Bookings |-> IF b <= 3 THEN u1 ELSE a1]

ya    == <<209, 143>>
smile == <<240, 159, 152, 128>>

LineTexts == <<<<49>>, <<50>> \o ya, <<51>> \o ya \o ya,
               <<52>> \o ya \o ya \o ya \o ya, <<53>> \o smile>>

HeaderText == <<97>>
LabelText  == ya

(* Pages before the first, no number, no date, too much, another action.   *)
HandMade ==
    {<<>>, <<Sep>>, <<Word("aday")>>,
     <<Word("aday"), Sep, Date(0), Sep, Int64(-1)>>,
     <<Word("aday"), Sep, Date(0), Sep, Word("ok")>>,
     <<Word("aday"), Sep, Date(0), Int64(1), Sep, Int64(1)>>,
     <<Word("aday"), Sep, Int64(0)>>,
     <<Word("aday"), Word("aday"), Sep, Date(0)>>,
     <<Word("acxl"), Sep, Date(0), Sep, Int64(0)>>}
=============================================================================
