---------------------------- MODULE MCAsyncScope ----------------------------
(* AsyncScope for TLC.                                                      *)
EXTENDS AsyncScope

\* One list head per thread.
LocalHead(t) == <<"local", t>>

=============================================================================
