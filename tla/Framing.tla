------------------------------- MODULE Framing --------------------------------
(***************************************************************************)
(* One end of a WebSocket and the two that read from it: the goroutine     *)
(* that handles control messages (Connection.ReadMessage) and the receive  *)
(* loop of yamux, for which WebSocketConn makes a byte stream of the       *)
(* binary messages (internal/tunnel/protocol.go).                          *)
(*                                                                         *)
(* gorilla/websocket and yamux are external: a reader of a message returns *)
(* io.EOF, and no bytes, at the end of its message or once another message *)
(* has been begun; the receive loop fills its empty buffer with one Read   *)
(* and ends the session on any error.  The two readers race inside         *)
(* gorilla/websocket; here each call of theirs is one step.                *)
(***************************************************************************)
EXTENDS Naturals, Sequences

CONSTANTS MaxSize,  \* the largest message, in pieces that one Read may return
          Window    \* bound on the messages on their way

VARIABLES
    wire,        \* the messages that the peer has written
    peerClosed,  \* whether the peer has closed the connection
    reader,      \* WebSocketConn.reader: NoReader or what is left of its message
    current,     \* whether it belongs to the message that is being read
    session,     \* the yamux session: "up", or what ended it ("eof", "error", "invalid")
    control      \* the goroutine for control messages: "reading" or "ended"

vars == <<wire, peerClosed, reader, current, session, control>>

NoReader == MaxSize + 1

Init ==
    /\ wire = <<>>
    /\ peerClosed = FALSE
    /\ reader = NoReader
    /\ current = FALSE
    /\ session = "up"
    /\ control = "reading"

-----------------------------------------------------------------------------
(* The peer.                                                               *)

Send(kind, size) ==
    /\ ~peerClosed /\ Len(wire) < Window
    /\ wire' = Append(wire, [kind |-> kind, size |-> size])
    /\ UNCHANGED <<peerClosed, reader, current, session, control>>

(* SendMessage: one text message.                                          *)
SendMessage == Send("text", 1)

(* WebSocketConn.Write: what yamux writes at once, a header or a body, is  *)
(* one binary message.                                                     *)
Write(size) == Send("binary", size)

PeerCloses ==
    /\ ~peerClosed
    /\ peerClosed' = TRUE
    /\ UNCHANGED <<wire, reader, current, session, control>>

-----------------------------------------------------------------------------
(* WebSocketConn.Read, called by the receive loop.                         *)

(* What yamux makes of an error, or of bytes that are no frame of its own. *)
(* It closes the WebSocket too (WebSocketConn.Close).                      *)
SessionEnds(cause) == session' = cause

(* Without a reader: the next message is begun, and its first pieces are   *)
(* returned.                                                               *)
ReadNextMessage(n) ==
    /\ session = "up" /\ reader = NoReader /\ wire # <<>>
    /\ n <= Head(wire).size
    /\ wire' = Tail(wire)
    /\ reader' = Head(wire).size - n
    /\ current' = TRUE
    /\ IF Head(wire).kind = "text" THEN SessionEnds("invalid") ELSE UNCHANGED session
    /\ UNCHANGED <<peerClosed, control>>

ReadMore(n) ==
    /\ session = "up" /\ reader # NoReader /\ current
    /\ n <= reader
    /\ reader' = reader - n
    /\ UNCHANGED <<wire, peerClosed, current, session, control>>

(* The reader has come to the end of its message: it is dropped, and its   *)
(* io.EOF is returned.                                                     *)
ReadEnd ==
    /\ session = "up" /\ reader # NoReader
    /\ reader = 0 \/ ~current
    /\ reader' = NoReader
    /\ SessionEnds("eof")
    /\ UNCHANGED <<wire, peerClosed, current, control>>

(* NextReader fails.                                                       *)
ReadFails ==
    /\ session = "up" /\ reader = NoReader /\ wire = <<>> /\ peerClosed
    /\ SessionEnds("error")
    /\ UNCHANGED <<wire, peerClosed, reader, current, control>>

-----------------------------------------------------------------------------
(* Connection.ReadMessage: the next message, whichever it is; the rest of  *)
(* the one being read is skipped.  A binary message is no JSON, and the    *)
(* goroutine returns.                                                      *)
ReadMessage ==
    /\ control = "reading" /\ wire # <<>>
    /\ wire' = Tail(wire)
    /\ current' = FALSE
    /\ control' = IF Head(wire).kind = "text" THEN "reading" ELSE "ended"
    /\ UNCHANGED <<peerClosed, reader, session>>

ReadMessageFails ==
    /\ control = "reading"
    /\ (wire = <<>> /\ peerClosed) \/ session # "up"
    /\ control' = "ended"
    /\ UNCHANGED <<wire, peerClosed, reader, current, session>>

-----------------------------------------------------------------------------
Next ==
    \/ SendMessage \/ PeerCloses
    \/ \E n \in 1 .. MaxSize : Write(n) \/ ReadNextMessage(n) \/ ReadMore(n)
    \/ ReadEnd \/ ReadFails
    \/ ReadMessage \/ ReadMessageFails

Spec == Init /\ [][Next]_vars

-----------------------------------------------------------------------------
(* WebSocketConn is to be a net.Conn (protocol.go:180) and its Read an     *)
(* io.Reader (:194), whose io.EOF says that no more bytes will come: the   *)
(* session sees one only after the peer has closed the connection.         *)
EofMeansClosed == session = "eof" => peerClosed
=============================================================================
