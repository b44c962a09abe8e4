----------------------- MODULE MCContextCompression -----------------------
(* The small instance of ContextCompression that TLC checks.               *)
EXTENDS ContextCompression
=============================================================================
