--------------------------- MODULE MCConfigPlugin ---------------------------
(* Module "s" inside module "m", whose parameter is private to s, to m, or public *)
EXTENDS ConfigPlugin, TLC

MCNames == {"m.s.par"}
MCOwners == {"m", "s"}
MCOuter == "m" :> "top" @@ "s" :> "m"
MCHome == "m.s.par" :> "s"
MCLocal == "m" :> MCNames @@ "s" :> {"m.s.par"}
MCRootApi == "top" :> "default" @@ "m" :> "api_m" @@ "s" :> "default"
Symmetry == Permutations(Objs)
=============================================================================
