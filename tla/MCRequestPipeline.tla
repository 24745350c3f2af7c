-------------------------- MODULE MCRequestPipeline --------------------------
(* Instances of RequestPipeline for TLC. *)
EXTENDS RequestPipeline, TLC

\* "captcha" and "under_attack" are left out: no definition tells them from
\* "challenge".
AllModes == {"off", "auto", "silent", "challenge", "emergency"}

(* Goroutines are alike. *)
SymGs == Permutations(Gs)
=============================================================================
