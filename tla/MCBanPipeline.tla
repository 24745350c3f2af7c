--------------------------- MODULE MCBanPipeline ---------------------------
(* Instances of BanPipeline for TLC. *)
EXTENDS BanPipeline

AllOps  == OpKinds
LazyOps == {"local", "check", "list", "cleanup"}
=============================================================================
