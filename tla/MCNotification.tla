---------------------------- MODULE MCNotification ----------------------------
(***************************************************************************)
(* Instances of Notification for TLC: an event that asks for a mail, one   *)
(* that does not, and two concurrent handlers.                             *)
(***************************************************************************)
EXTENDS Notification

CONSTANTS annWelcome, benReport, h1, h2

AnnAndBen == {annWelcome, benReport}
AnnOnly == {annWelcome}
MCHandler == {h1, h2}

AnyCall == {"mail", "log"}
===============================================================================
