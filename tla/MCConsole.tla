------------------------------ MODULE MCConsole ------------------------------
(***************************************************************************)
(* Every page with every kind of user, three values of a choice, two       *)
(* events; and more events on a page with little to load, where those of   *)
(* the session meet.                                                       *)
(***************************************************************************)
EXTENDS Console

PageEvents == 2
PlainPage == "client_portal"

MCNext == Next /\ (events' <= PageEvents \/ page = PlainPage)
MCSpec == Init /\ [][MCNext]_vars
===============================================================================
