----------------------------- MODULE MuxServer ------------------------------
(***************************************************************************)
(* The server's side of VLESS mux: the TCP and UDP sessions of one         *)
(* connection (Mux), and the XUDP cones that several connections hand on   *)
(* through the registry of the process (Xudp).                             *)
(*                                                                         *)
(* The frame loop of a connection serves both, but neither touches what    *)
(* the other keeps: an XUDP frame never reaches the session table, and the *)
(* registry knows nothing of sessions.  So a behaviour runs one of them.   *)
(***************************************************************************)
EXTENDS Mux, Xudp

VARIABLE side   \* "sessions" or "cones"

muxVars == <<side, vars, coneVars>>

MuxInit == side \in {"sessions", "cones"} /\ Init /\ ConeInit

SessionStep == side = "sessions" /\ Next /\ UNCHANGED <<side, coneVars>>

ConeStep == side = "cones" /\ ConeNext /\ UNCHANGED <<side, vars>>

MuxNext == SessionStep \/ ConeStep

(* Where the cones run, the sessions are all idle, and none of the actions  *)
(* that Mux takes to be fair is enabled.                                    *)
MuxFairSpec == MuxInit /\ [][MuxNext]_muxVars /\ Fairness
=============================================================================
