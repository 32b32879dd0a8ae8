---------------------------- MODULE MCStoreFiles ----------------------------
(* Small instances of StoreFiles for TLC. *)
EXTENDS StoreFiles

(* Two targets with files of their own, and two hosts named by domain. *)
Apart   == { <<"web">>, <<"db", "lan">> }
Domains == { <<"example", "com">>, <<"example", "org">> }
=============================================================================
