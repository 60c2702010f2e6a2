------------------------------ MODULE MCTestfs ------------------------------
(* TLC instance of Testfs: two names of different length.                  *)
EXTENDS Testfs

MCNames == {".", "..", "x", "long"}
MCNameLength == [name \in MCNames |-> CASE name = "."    -> 2
                                        [] name = ".."   -> 3
                                        [] name = "long" -> 5
                                        [] OTHER         -> 2]
=============================================================================
