--------------------------- MODULE MCProxyTunnels ---------------------------
(***************************************************************************)
(* ProxyTunnels on a small instance.                                       *)
(***************************************************************************)
EXTENDS ProxyTunnels

MCGoroutines == {"relay", "rtc"}
MCConnIds == {"c1"}
=============================================================================
