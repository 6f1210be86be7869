----------------------------- MODULE MCMatchObject -----------------------------
(***************************************************************************)
(* All patterns of a few tokens over two names, one of them the beginning  *)
(* of the other.                                                           *)
(***************************************************************************)
EXTENDS MatchObject

CONSTANT MaxTokens

x == <<97>>
xy == <<97, 98>>
MCNames == {x, xy}

Tokens == {Open(Unnamed), Open(x), Open(xy), Bar, Ref(x), Ref(xy)}

MCPatterns ==
  {[tokens |-> t, unicode |-> u, n |-> n] :
     t \in UNION {[1..k -> Tokens] : k \in 0..MaxTokens}, u \in {FALSE}, n \in {FALSE}}
  \cup {[tokens |-> t, unicode |-> u, n |-> n] :
          t \in UNION {[1..k -> Tokens] : k \in 0..2}, u \in BOOLEAN, n \in BOOLEAN}
================================================================================
