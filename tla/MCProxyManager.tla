--------------------------- MODULE MCProxyManager ---------------------------
(* Values for the constants of ProxyManager that a .cfg cannot write.        *)
EXTENDS ProxyManager, TLC

Phantom == [name |-> "PhantomProxy", server |-> "phantom"]
Stealth == [name |-> "StealthGate", server |-> "stealth"]
Home == [name |-> "home", server |-> "home-socks"]

OnePair == <<Phantom, Stealth>>
OneProxy == <<Phantom>>
Nobody == {}
\* Two entries of the same name; TDLib refuses the first.
Typo == [name |-> "work", server |-> "bad-socks"]
Work == [name |-> "work", server |-> "work-socks"]
WorkOrTypo == {Work, Typo}
SavedHome == <<Home>>
Nothing == <<>>
WorkerSymmetry == Permutations(Workers)
=============================================================================
