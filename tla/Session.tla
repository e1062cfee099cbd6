------------------------------- MODULE Session -------------------------------
(***************************************************************************)
(* The relay phase of a session (skadi-server/src/lib.rs, end of           *)
(* handle_connection).  The command of the handshake selects the loop that *)
(* serves the session for the rest of its life: the TCP relay, the relay   *)
(* of VLESS UDP frames or the SOCKS5 UDP association, all three under the  *)
(* same RelayLimits.  The mux, a loop with tasks of its own, is in Mux.    *)
(***************************************************************************)
EXTENDS Naturals, Sequences

CONSTANTS
  Limits, Idle, Lifetime,               \* RelayLimits, see Relay
  BufSize, Room, MaxBytes, MaxTime,     \* sizes and bounds of Relay
  Frames, MaxLen,                       \* bounds of UdpRelay
  Peers, MaxReplies,                    \* bounds of Socks5Udp
  MaxDatagrams                          \* bound of both datagram relays

ASSUME SessionAssumption ==
  /\ Limits \subseteq {"idle", "lifetime"} /\ Limits # {}
  /\ Idle \in Nat /\ Lifetime \in Nat
  /\ BufSize \in Nat \ {0} /\ Room \in Nat \ {0}
  /\ MaxBytes \in Nat /\ MaxTime \in Nat
  /\ Frames \in Nat /\ MaxLen \in Nat \ {0}
  /\ MaxReplies \in Nat /\ MaxDatagrams \in Nat

VARIABLES
  command,  \* what the handshake asked for
  sent, ended, got, closed, drained, taken, read_done, count, task,
  idle_deadline, now, lastByte, result,                        \* Relay
  arrived, eof, pos, reading, want, out, down, back, cut,
  udpResult,                                                   \* UdpRelay
  pc, control, inbox, from, cur, asked, replied, waiting,
  answers, dropped                                             \* Socks5Udp

Tcp == INSTANCE Relay

Udp == INSTANCE UdpRelay WITH result <- udpResult

Associate == INSTANCE Socks5Udp WITH IdleSet <- "idle" \in Limits

tcpVars == <<sent, ended, got, closed, drained, taken, read_done, count, task,
             idle_deadline, now, lastByte, result>>
udpVars == <<arrived, eof, pos, reading, want, out, down, back, cut, udpResult>>
associateVars == <<pc, control, inbox, from, cur, asked, replied, waiting, answers, dropped>>
vars == <<command, tcpVars, udpVars, associateVars>>

Init ==
  /\ command \in {"connect", "udp", "udp_associate"}
  /\ Tcp!Init /\ Udp!Init /\ Associate!Init

(* A step A of the loop that serves the session; the others do not run. *)
TcpStep(A) == command = "connect" /\ A /\ UNCHANGED <<command, udpVars, associateVars>>

UdpStep(A) == command = "udp" /\ A /\ UNCHANGED <<command, tcpVars, associateVars>>

AssociateStep(A) ==
  command = "udp_associate" /\ A /\ UNCHANGED <<command, tcpVars, udpVars>>

Next == TcpStep(Tcp!Next) \/ UdpStep(Udp!Next) \/ AssociateStep(Associate!Next)

Spec == Init /\ [][Next]_vars

(* The loops run and time passes; connects and waits for a reply are        *)
(* bounded by timeouts.  The deadlines and the end of the control           *)
(* connection are branches of a select that polls in random order, so they  *)
(* are not passed over for ever.                                            *)
Fairness ==
  /\ \A d \in Tcp!Dirs :
       /\ WF_vars(TcpStep(Tcp!Read(d))) /\ WF_vars(TcpStep(Tcp!Write(d)))
       /\ WF_vars(TcpStep(Tcp!Shutdown(d)))
  /\ WF_vars(TcpStep(Tcp!ReturnOk))
  /\ SF_vars(TcpStep(Tcp!LifetimeFires))
  /\ WF_vars(TcpStep(Tcp!Tick))
  /\ WF_vars(AssociateStep(Associate!Connect))
  /\ WF_vars(AssociateStep(Associate!Reply \/ Associate!ReplyTimeout))
  /\ SF_vars(AssociateStep(Associate!ControlEof))

(* Peers of the TCP relay that keep reading what they are sent. *)
ReadingPeers == \A d \in Tcp!Dirs : WF_vars(TcpStep(Tcp!PeerDrains(d)))

FairSpec == Spec /\ Fairness /\ ReadingPeers

-----------------------------------------------------------------------------
(* copy_bidirectional_with_limits: each direction is a pipe, whatever the   *)
(* chunks, partial writes, half-closes and deadlines.                       *)
ImplementsPipes == Tcp!ImplementsPipes

(* The idle timeout of the TCP relay ends only a session without traffic in *)
(* either direction.                                                        *)
IdleOnlyWhenIdle == Tcp!IdleOnlyWhenIdle

(* max_session_lifetime_secs ends a TCP session whose peers keep reading,   *)
(* busy, half-closed or silent (docs/CONFIGURATION.md:153).                 *)
LifetimeCloses == command = "connect" /\ now >= Lifetime ~> result # "none"

(* What a relay has handed over is what it was given.  The totals that      *)
(* finish_relay passes to the metrics are the bytes moved.  The VLESS UDP   *)
(* relay sends one datagram for each frame, in order, and has relayed every *)
(* frame that arrived completely when it ends normally, as long as no       *)
(* datagram from upstream interrupts a half-read frame.                     *)
RelayedIsExact ==
  /\ Tcp!CountsAreExact
  /\ Udp!FramesUnlessCut /\ Udp!EndIsComplete

(* handle_socks5_udp_associate: a reply goes to the peer whose datagram it  *)
(* answers, although the next datagram may be in hand by then.              *)
RepliesMatch == Associate!RepliesMatch

(* The association ends once the client closes its control connection.      *)
ControlCloseEnds == Associate!ControlCloseEnds

(* docs/CONFIGURATION.md:690: UDP ASSOCIATE works while the control         *)
(* connection is held, so no datagram and no control byte breaks its task.  *)
RelayNeverPanics == Associate!RelayNeverPanics
=============================================================================
