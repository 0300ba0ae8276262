----------------------------- MODULE MCAuthResult -----------------------------
(***************************************************************************)
(* Instances of AuthResult for TLC: one user with a document, one userId   *)
(* that no document has, two concurrent handlers, one editable field.      *)
(***************************************************************************)
EXTENDS AuthResult

CONSTANTS ann, eve, h1, h2, old, new

MCUser == {ann, eve}
MCStrangers == {eve}
MCProfile == {old, new}
MCHandler == {h1, h2}
MCDelivery == {1, 2}

NoCall == {}
AnyCall == {"find", "save"}
===============================================================================
