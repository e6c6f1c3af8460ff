---------------------------- MODULE MCClientServer ----------------------------
(* A small instance of ClientServer: two clients and one of another        *)
(* version.                                                                *)
EXTENDS ClientServer

CONSTANTS c1, c2, old

SameVersion == {c1, c2}
AnyVersion  == {c1, c2, old}
=============================================================================
