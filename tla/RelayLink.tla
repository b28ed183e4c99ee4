------------------------------ MODULE RelayLink ------------------------------
(***************************************************************************)
(* The WebSocket between the device (src/RelayService.h over               *)
(* src/WsClient.h) and its Worker (src/relay/worker.mjs), with what may go *)
(* wrong: either end may take the connection for open after the other lost *)
(* it, and a frame written then is lost without an error. A newer          *)
(* connection replaces the older; the runtime reports the end of the old   *)
(* socket later, or never. Frames of one connection keep their order (TLS).*)
(***************************************************************************)
EXTENDS Naturals, Sequences, FiniteSets

CONSTANT MaxConns   \* bound: connections the device opens

ASSUME MaxConnsAssumption == MaxConns \in Nat

VARIABLES
  dev,     \* RelayService._open
  sock,    \* Device.socket(): getWebSockets() has the newest connection
  down,    \* frames on the way to the device, oldest first
  upq,     \* frames on the way to the Worker, oldest first
  closes,  \* replaced sockets whose close the runtime has not reported yet
  conns    \* connections opened so far (bounded by MaxConns)

linkVars == <<dev, sock, down, upq, closes, conns>>

LinkInit ==
  /\ dev = FALSE /\ sock = FALSE
  /\ down = <<>> /\ upq = <<>>
  /\ closes = 0 /\ conns = 0

\* ws.send by the Worker on its open socket: the frames go nowhere when the
\* device has already closed its end
Down(frames) == IF dev THEN down \o frames ELSE down

\* WsClient.send by the device, masked frames on its open connection: they go
\* nowhere when the Worker has already lost the socket
Up(frames) == IF sock THEN upq \o frames ELSE upq

(***************************************************************************)
(* RelayService._connect up to the 101, and Device.accept: the older       *)
(* socket is closed, and its close is reported later. With ok = FALSE the  *)
(* Worker accepts, but the device gives up waiting for the answer (_fail). *)
(* frames and news: what goes down and up at once.                         *)
(***************************************************************************)
Accept(ok, frames, news) ==
  /\ ~dev
  /\ conns < MaxConns
  /\ conns' = conns + 1
  /\ dev' = ok
  /\ sock' = TRUE
  /\ closes' = IF sock THEN closes + 1 ELSE closes
  /\ down' = IF ok THEN frames ELSE <<>>
  /\ upq' = IF ok THEN news ELSE <<>>

\* RelayService._close: for another service's turn (hold), a lost or stalled
\* connection, a close frame or a broken one (WsClient.frame). What it had
\* written may still arrive.
DeviceCloses ==
  /\ dev
  /\ dev' = FALSE
  /\ down' = <<>>
  /\ UNCHANGED <<sock, upq, closes, conns>>

\* The runtime finds the socket closed or broken (webSocketClose, webSocketError)
SocketCloses ==
  /\ sock
  /\ sock' = FALSE
  /\ upq' = <<>>
  /\ UNCHANGED <<dev, down, closes, conns>>

\* The close of a socket that was replaced is reported
LateClose ==
  /\ closes > 0
  /\ closes' = closes - 1
  /\ UNCHANGED <<dev, sock, down, upq, conns>>

\* RelayService._pump takes the oldest frame, and sends frames in answer
Pump(frames) ==
  /\ dev /\ down # <<>>
  /\ down' = Tail(down)
  /\ upq' = Up(frames)
  /\ UNCHANGED <<dev, sock, closes, conns>>

\* Device.webSocketMessage takes the oldest frame
Receive ==
  /\ sock /\ upq # <<>>
  /\ upq' = Tail(upq)
  /\ UNCHANGED <<dev, sock, down, closes, conns>>

\* The Worker sends on its socket; the device sends on its own
Send(frames) == down' = Down(frames) /\ UNCHANGED <<dev, sock, upq, closes, conns>>
Tell(frames) == upq' = Up(frames) /\ UNCHANGED <<dev, sock, down, closes, conns>>
==============================================================================
