----------------------------- MODULE MCStaking -----------------------------
(***************************************************************************)
(* Instances of Staking for TLC: two clients, of one account each or both  *)
(* of the first.                                                           *)
(***************************************************************************)
EXTENDS Staking

MCAccounts  == {"alice", "bob"}
MCClients   == {"c1", "c2"}
OwnAccounts == [c \in MCClients |-> IF c = "c1" THEN "alice" ELSE "bob"]
OneAccount  == [c \in MCClients |-> "alice"]
MCFunds     == [a \in MCAccounts |-> IF a = "alice" THEN 4 ELSE 2]
=============================================================================
