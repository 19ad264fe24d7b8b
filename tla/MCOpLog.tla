------------------------------ MODULE MCOpLog ------------------------------
(* Instances of OpLog small enough for TLC. *)
EXTENDS OpLogInvariant, TLC

CONSTANTS d1, d2, tab1, tab2

\* One context per device.
OneEach == (d1 :> d1) @@ (d2 :> d2)
Single  == d1 :> d1
\* Two contexts over one IndexedDB: two tabs, or a tab and the Service Worker.
TwoTabs == (tab1 :> d1) @@ (tab2 :> d1)

Symmetric == Permutations({d1, d2})
=============================================================================
