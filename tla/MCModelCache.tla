----------------------------- MODULE MCModelCache -----------------------------
(* Values: a server and the address before any, two files, two contents. *)
EXTENDS ModelCache
CONSTANTS home, s1, dff, engine, h1, h2
=============================================================================
