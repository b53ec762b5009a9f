------------------------------ MODULE MCAccounts ------------------------------
(* One founder and one address to invite; two requests in flight.          *)
EXTENDS Accounts, TLC

CONSTANTS r1, r2

MCRequests == {r1, r2}
MCSymmetry == Permutations(MCRequests)

MCUsers == {"ann", "bob"}
MCFounders == {"ann"}
MCRoles == {"OWNER", "BUYER"}
=============================================================================
