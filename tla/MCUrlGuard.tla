----------------------------- MODULE MCUrlGuard -----------------------------
(* UrlGuard for TLC, with every address there is. *)
EXTENDS UrlGuard

AllOctets == 0 .. 255
AllGroups == 0 .. 65535
NoNumbers == {}
=============================================================================
