----------------------------- MODULE VncLinkMC -----------------------------
(* One VNC tab: the plain profile with a password, the one that must have  *)
(* TLS, with and without a user name, and one through an SSH session.      *)
EXTENDS VncLink

Profile(t, v, u) == [tls |-> t, via |-> v, password |-> TRUE, user |-> u]
FewProfiles == {Profile(FALSE, FALSE, FALSE), Profile(TRUE, FALSE, FALSE),
                Profile(TRUE, FALSE, TRUE), Profile(FALSE, TRUE, FALSE)}
============================================================================
