--------------------------- MODULE ServerContext ---------------------------
(***************************************************************************)
(* server_t, and what serverWrite and serverCheckConnection do to it.      *)
(*                                                                         *)
(* The check of the connection is called after every write, from inside    *)
(* the functions of the framing protocol and of the remote procedure calls *)
(* that write, and may reset what these are working on.  So the operators  *)
(* of this module and of Rpc are functions on the whole server_t, in the   *)
(* order of the code's calls.                                              *)
(***************************************************************************)
EXTENDS Naturals, FiniteSetsExt

CONSTANTS
    Motor,          \* the motors
    Value,          \* their values; 0 is one
    ReqId,          \* request identifiers a host uses
    Cassette,       \* the cassettes
    RPC_SUB_MAX     \* number of subscriptions

ASSUME RpcAssumption ==
    /\ 0 \in Value
    /\ "none" \notin Cassette
    /\ RPC_SUB_MAX \in Nat \ {0}

Slot == 1 .. RPC_SUB_MAX

\* What can be subscribed to; "unknown" is what cannot be published.
Topic == Motor \cup {"clock", "motors", "all", "unknown"}

\* An inactive rpcSubscription_t.
FreeSlot == [active |-> FALSE, req_id |-> "none", topic |-> "none"]

NoSubs == [i \in Slot |-> FreeSlot]

Still == [m \in Motor |-> 0]

(***************************************************************************)
(* The last six fields are not in the code: what the host was told of the  *)
(* motors on this connection, the request ids whose subscription was       *)
(* accepted on it, the files open for writing, the slots that were filled  *)
(* and the file that was opened before this connection began, and whether  *)
(* the handshake was over before the server had noticed that one had begun.*)
(***************************************************************************)
InitialServer ==
    [ state     |-> "Disconnected",
      sfp       |-> "DISCONNECTED",     \* sfp.connectState
      subs      |-> NoSubs,             \* rpc.subs
      motor     |-> Still,              \* rpc.motor
      ipv4      |-> FALSE,              \* whether rpc.ipv4 is set
      cassette  |-> "none",             \* rpc.cassette
      fp        |-> FALSE,              \* whether rpc.fp is not NULL
      expired   |-> FALSE,              \* more than 5 s since rpc.heartbeat
      told      |-> Still,
      accepted  |-> {},
      files     |-> 0,
      oldSubs   |-> {},
      oldFp     |-> FALSE,
      unseen    |-> FALSE ]

\* Faulty variant: the cache of motor values is not cleared.
ResetKeepsMotors(s) ==
    [s EXCEPT !.state = "Disconnected",
              !.ipv4 = FALSE,
              !.sfp = "DISCONNECTED",
              !.told = Still,
              !.accepted = {}]

\* serverReset, with sfpInit.
Reset(s) ==
    [s EXCEPT !.state = "Disconnected",
              !.motor = Still,
              !.ipv4 = FALSE,
              !.sfp = "DISCONNECTED",
              !.told = Still,
              !.accepted = {}]

\* Faulty variant: the file of the last connection is forgotten.
OpenedLeaks(s) ==
    [s EXCEPT !.state = "Connected",
              !.expired = FALSE,
              !.subs = NoSubs,
              !.cassette = "none",
              !.fp = FALSE]

\* Faulty variant: the subscriptions of the last connection are kept.
OpenedKeepsSubs(s) ==
    [s EXCEPT !.state = "Connected",
              !.expired = FALSE,
              !.cassette = "none",
              !.fp = FALSE,
              !.files = IF s.fp THEN @ - 1 ELSE @]

\* The server notices a connection.
Opened(s) ==
    [s EXCEPT !.state = "Connected",
              !.expired = FALSE,
              !.subs = NoSubs,
              !.cassette = "none",
              !.fp = FALSE,
              !.files = IF s.fp THEN @ - 1 ELSE @]

\* Faulty variant: the heartbeat is not looked at.
CheckedDeaf(s) ==
    CASE s.state = "Disconnected" /\ s.sfp = "CONNECTED" -> Opened(s)
      [] s.state = "Connected" /\ s.sfp # "CONNECTED" -> Reset(s)
      [] OTHER -> s

\* serverCheckConnection.
Checked(s) ==
    CASE s.state = "Disconnected" /\ s.sfp = "CONNECTED" -> Opened(s)
      [] s.state = "Connected" /\ (s.sfp # "CONNECTED" \/ s.expired) -> Reset(s)
      [] OTHER -> s

\* serverWrite: the heartbeat may expire while the octets are written.
Wrote(s, expires) == Checked([s EXCEPT !.expired = @ \/ expires])
=============================================================================
