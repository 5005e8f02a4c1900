----------------------------- MODULE MCFramework -----------------------------
(* A small instance of Framework: a fault that signal 11 ends, success, *)
(* and the return codes of a test that failed.                          *)
EXTENDS Framework

MCReturnCodes == {-11, 0, 1, 255}

=============================================================================
