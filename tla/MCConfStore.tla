---------------------------- MODULE MCConfStore ----------------------------
(* An instance of ConfStore: a store of each behaviour, each loaded once.  *)
EXTENDS ConfStore, TLC

CONSTANTS p1, i1, i2, i3, u1, u2, u3

StoreKind == u1 :> "json" @@ u2 :> "ini" @@ u3 :> "dict"
PrivateUrls == p1 :> (i1 :> u1 @@ i2 :> u2 @@ i3 :> u3)
=============================================================================
