----------------------------- MODULE MCIoContext -----------------------------
(* IoContext for TLC.                                                       *)
EXTENDS IoContext

\* All operations use one descriptor, as several accepts on one acceptor do.
OneDescriptor == [o \in Ops |-> "fd"]

=============================================================================
