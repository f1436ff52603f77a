------------------------------ MODULE MCNotary ------------------------------
(***************************************************************************)
(* Small instances of Notary: a page on one host, which its robots.txt     *)
(* disallows where that is of interest, and a login page on another.       *)
(***************************************************************************)
EXTENDS Notary, TLC

CONSTANTS h1, h2, page, login, t1, t2, t3

TwoHosts == {h1, h2}
TwoUrls == {page, login}
HostOfTwo == page :> h1 @@ login :> h2
HostOfOne == page :> h1
TwoTasks == {t1, t2}
ThreeTasks == {t1, t2, t3}
=============================================================================
