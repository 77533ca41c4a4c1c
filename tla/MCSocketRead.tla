---------------------------- MODULE MCSocketRead ----------------------------
(* Instances of SocketRead for TLC. *)
EXTENDS SocketRead

CONSTANTS s1, s2

\* With base 2, a body of two bytes has a length of two bytes.
MCSent ==
    (s1 :> << [header |-> 3, body |-> <<1, 2>>],
              [header |-> 2, body |-> <<>>] >>)
 @@ (s2 :> << [header |-> 1, body |-> <<0, 3>>] >>)

NoTrailing == (s1 :> <<>>) @@ (s2 :> <<>>)
\* A header, more length bytes than there may be, and one that is read when
\* the header is full.
MCTrailing == (s1 :> <<>>) @@ (s2 :> <<1, 3, 3, 3, 3, 3>>)

ASSUME MCTrailingAssumption == TrailingIsNoPacket
=============================================================================
