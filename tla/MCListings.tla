------------------------------ MODULE MCListings ------------------------------
(* Model-checking instance of Listings: NetFileEnum's two levels. *)
EXTENDS Listings

MCId == 1..4
MCLevels == <<3, 2>>

===============================================================================
