------------------------------ MODULE MCWallet ------------------------------
(* Two users who may have invited each other, and a few payments.          *)
EXTENDS Wallet, TLC

CONSTANTS a, b, d1, d2, p1, s1

MCReferrer == (a :> b) @@ (b :> a)
MCRate == (a :> 50) @@ (b :> 150)
MCPayer == (d1 :> a) @@ (d2 :> b)
MCSum == (d1 :> 20) @@ (d2 :> 41)
MCBuyer == p1 :> a
MCPrice == p1 :> 15
MCDebit == {-30}
MCOneReferrer == (a :> b) @@ (b :> Nobody)

OtherSessions == {f \in Permutations(Sessions) : f[s1] = s1}
=============================================================================
