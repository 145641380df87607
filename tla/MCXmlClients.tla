---------------------------- MODULE MCXmlClients ----------------------------
(***************************************************************************)
(* XmlClients with two connections: between them they make every kind of    *)
(* request, and both change the object and replace the server.              *)
(***************************************************************************)
EXTENDS XmlClients

CONSTANTS c1, c2

TwoClients == {c1, c2}

SharedKinds ==
    c1 :> {"read", "write", "register", "unregister", "execute", "restart"} @@
    c2 :> {"refused", "write", "registerall", "unregisterall", "restart"}
=============================================================================
