------------------------------- MODULE MCProxies --------------------------------
(* Every kind of object, and arrays of up to two items. *)
EXTENDS Proxies
================================================================================
