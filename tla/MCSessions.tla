----------------------------- MODULE MCSessions -----------------------------
(***************************************************************************)
(* Sessions for TLC: three connections of TLS 1.3 and 1.2, with time for   *)
(* every timeout to pass; the server's clock is ahead by one tick.         *)
(***************************************************************************)
EXTENDS Sessions

MCKinds == {<<13, "a">>, <<12, "a">>}
MCLags == {-1}

=============================================================================
