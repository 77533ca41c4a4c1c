--------------------------- MODULE MCSocketWrite ---------------------------
(* Instances of SocketWrite for TLC. *)
EXTENDS SocketWrite

CONSTANTS s1, s2, p1, p2, p3

\* An empty buffer between two others, one buffer of two bytes, one of one.
MCLens == (p1 :> <<1, 0, 1>>) @@ (p2 :> <<2>>) @@ (p3 :> <<1>>)

\* Descriptors 64 apart: no word is shared.
ApartWords == (s1 :> 0) @@ (s2 :> 1)
\* Descriptors below 64: one word holds both bits.
SharedWord == (s1 :> 0) @@ (s2 :> 0)
=============================================================================
