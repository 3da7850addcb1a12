-------------------------- MODULE MCBrowserSession --------------------------
(* Small instances of BrowserSession for TLC. *)
EXTENDS BrowserSession, TLC

CONSTANTS t1, t2, alice, bob

TabAndAccountSymmetry == Permutations(Tabs) \cup Permutations(Accounts)
=============================================================================
