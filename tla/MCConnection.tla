---------------------------- MODULE MCConnection ----------------------------
(* TLC instance of Connection: a file with an empty line and one longer    *)
(* than the buffer, an empty file, and two that cannot be read, of which   *)
(* one is in the cache.                                                    *)
EXTENDS Connection

X == <<"x", 120>>
MCContent == <<EmptyLine \o <<X, X, X>>, <<>>, <<X>>, <<X, X>>>>
=============================================================================
