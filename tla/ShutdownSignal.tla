--------------------------- MODULE ShutdownSignal ---------------------------
(***************************************************************************)
(* The watch channel through which the main task tells every other task of *)
(* the process to end: the sidecar managers, the TUN task, the accept      *)
(* loops.                                                                  *)
(***************************************************************************)
VARIABLE shutdown          \* the channel's value: FALSE until the signal is sent
=============================================================================
