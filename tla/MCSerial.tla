------------------------------ MODULE MCSerial ------------------------------
(* A small instance of Serial: four bytes, two of them newlines.           *)
EXTENDS Serial

MCBytes == {"lf", "cr", "x", "y"}
MCInput == <<"x", "lf", "y", "lf">>
=============================================================================
