------------------------------- MODULE Streams -------------------------------
(***************************************************************************)
(* The streams of one tunnel session, from the end that opens them         *)
(* (StreamManager.OpenStream) to the local service that the client         *)
(* connects them to: handleStream and CopyBidirectional                    *)
(* (internal/tunnel/mux.go), Forwarder.HandleStream                        *)
(* (internal/client/forwarder.go).  yamux and TCP are external: each       *)
(* direction of a stream or a socket is a queue of bounded size.           *)
(*                                                                         *)
(* What the opener writes to a stream is a sequence of units: the length   *)
(* of the header, the pieces of the header, a newline, then chunks of      *)
(* data.  It is determined by the header and the number of units written,  *)
(* so only these are kept.                                                 *)
(***************************************************************************)
EXTENDS Naturals, Sequences

CONSTANTS Streams,
          Headers,     \* stream headers: a type and a target
          HeaderSize,  \* the number of pieces that a header is encoded as
          MaxHeader,   \* the largest number that the two length bytes hold
          Handled,     \* headers whose type has a registered handler
          Chunks,      \* bound on the chunks of one direction of a stream
          Window,      \* chunks that a writer can be ahead of its reader
          NoHeader

ASSUME ConstantsAssumption ==
    /\ NoHeader \notin Headers /\ Handled \subseteq Headers
    /\ MaxHeader \in Nat /\ HeaderSize \in [Headers -> Nat \ {0}]
    /\ Chunks \in Nat /\ Window \in Nat \ {0}

VARIABLES
    session,  \* whether the yamux session is "up" or "broken"
    opener,   \* the opener's end: "none", "open", "writing" (after the header), "closed"
    header,   \* the header that the opener has written
    sent,     \* number of units the opener has written
    lost,     \* how many of the last of them never arrive
    pos,      \* number of units the client has read
    closed,   \* whether the client has closed its end
    hpc,      \* the goroutine of handleStream
    need,     \* its headerLen + 1
    parsed,   \* its header
    inCopy, outCopy,  \* the copiers: stream to target, target to stream
    target,   \* targetConn: "none", "open", "closed"
    service,  \* the service's end of it: "none", "open", "ended"
    given,    \* units written to targetConn
    svcRead,  \* number of them that the service has read
    svcSent,  \* number of chunks the service has sent
    tpos,     \* number of them read from targetConn
    back,     \* chunks written to the stream
    backRead  \* number of them that the opener has read

openerVars  == <<opener, header, sent>>
handlerVars == <<hpc, need, parsed>>
serviceVars == <<service, svcRead, svcSent>>
vars == <<session, opener, header, sent, lost, pos, closed, hpc, need, parsed, inCopy,
          outCopy, target, service, given, svcRead, svcSent, tpos, back, backRead>>

Copier == {"none", "read", "write", "closeTarget", "closeStream", "done"}
Unit == [kind : {"length", "header", "newline", "data"}, n : Nat]

TypeOK ==
    /\ session \in {"up", "broken"}
    /\ opener \in [Streams -> {"none", "open", "writing", "closed"}]
    /\ header \in [Streams -> Headers \cup {NoHeader}]
    /\ sent \in [Streams -> Nat] /\ lost \in [Streams -> Nat] /\ pos \in [Streams -> Nat]
    /\ \A s \in Streams : pos[s] + lost[s] <= sent[s]
    /\ closed \in [Streams -> BOOLEAN]
    /\ hpc \in [Streams -> {"none", "length", "header", "dial", "copy", "ending", "done"}]
    /\ need \in [Streams -> 0 .. MaxHeader + 1]
    /\ parsed \in [Streams -> Headers \cup {NoHeader}]
    /\ inCopy \in [Streams -> Copier] /\ outCopy \in [Streams -> Copier]
    /\ target \in [Streams -> {"none", "open", "closed"}]
    /\ service \in [Streams -> {"none", "open", "ended"}]
    /\ given \in [Streams -> Seq(Unit)] /\ back \in [Streams -> Seq(Unit)]
    /\ svcRead \in [Streams -> Nat] /\ backRead \in [Streams -> Nat]
    /\ svcSent \in [Streams -> Nat] /\ tpos \in [Streams -> Nat]
    /\ \A s \in Streams : tpos[s] <= svcSent[s]

Init ==
    /\ session = "up"
    /\ opener = [s \in Streams |-> "none"]
    /\ header = [s \in Streams |-> NoHeader]
    /\ sent = [s \in Streams |-> 0]
    /\ lost = [s \in Streams |-> 0]
    /\ pos = [s \in Streams |-> 0]
    /\ closed = [s \in Streams |-> FALSE]
    /\ hpc = [s \in Streams |-> "none"]
    /\ need = [s \in Streams |-> 0]
    /\ parsed = [s \in Streams |-> NoHeader]
    /\ inCopy = [s \in Streams |-> "none"]
    /\ outCopy = [s \in Streams |-> "none"]
    /\ target = [s \in Streams |-> "none"]
    /\ service = [s \in Streams |-> "none"]
    /\ given = [s \in Streams |-> <<>>]
    /\ svcRead = [s \in Streams |-> 0]
    /\ svcSent = [s \in Streams |-> 0]
    /\ tpos = [s \in Streams |-> 0]
    /\ back = [s \in Streams |-> <<>>]
    /\ backRead = [s \in Streams |-> 0]

-----------------------------------------------------------------------------
(* Helpers.                                                                *)

(* The number of units before the data: length, header, newline.           *)
Prefix(h) == HeaderSize[h] + 2

Chunk(i) == [kind |-> "data", n |-> i]

(* The i-th unit of a stream that begins with header h; two bytes hold the *)
(* length modulo MaxHeader + 1.                                            *)
UnitOf(h, i) ==
    CASE i = 1           -> [kind |-> "length", n |-> HeaderSize[h] % (MaxHeader + 1)]
      [] 1 < i /\ i < Prefix(h) -> [kind |-> "header", n |-> i - 1]
      [] i = Prefix(h)   -> [kind |-> "newline", n |-> 0]
      [] OTHER           -> Chunk(i - Prefix(h))

Written(s, i) == UnitOf(header[s], i)

(* The number of chunks that the opener has sent.                          *)
Asked(s) == IF header[s] = NoHeader THEN 0 ELSE sent[s] - Prefix(header[s])

(* What the client can still read, and whether more may come.              *)
Arrived(s)  == sent[s] - lost[s]
Readable(s) == pos[s] < Arrived(s)
InputOver(s) == opener[s] = "closed" \/ session = "broken"

-----------------------------------------------------------------------------
(* The end that opens the stream.                                          *)

(* conn.Open, of OpenStream or of a proxy's handler.                       *)
Open(s) ==
    /\ opener[s] = "none" /\ session = "up"
    /\ opener' = [opener EXCEPT ![s] = "open"]
    /\ UNCHANGED <<session, header, sent, lost, pos, closed, handlerVars, inCopy, outCopy,
                   target, given, serviceVars, tpos, back, backRead>>

SendHeaderOfAnySize(s, h) ==                                      \* mutant
    /\ opener[s] = "open" /\ session = "up"
    /\ opener' = [opener EXCEPT ![s] = "writing"]
    /\ header' = [header EXCEPT ![s] = h]
    /\ sent' = [sent EXCEPT ![s] = Prefix(h)]
    /\ UNCHANGED <<session, lost, pos, closed, handlerVars, inCopy, outCopy,
                   target, given, serviceVars, tpos, back, backRead>>

(* The rest of OpenStream: one Write of the length, the header and the     *)
(* newline, unless the header is too large.                                *)
SendHeader(s, h) ==
    /\ opener[s] = "open" /\ session = "up"
    /\ IF HeaderSize[h] > MaxHeader
       THEN opener' = [opener EXCEPT ![s] = "closed"] /\ UNCHANGED <<header, sent>>
       ELSE /\ opener' = [opener EXCEPT ![s] = "writing"]
            /\ header' = [header EXCEPT ![s] = h]
            /\ sent' = [sent EXCEPT ![s] = Prefix(h)]
    /\ UNCHANGED <<session, lost, pos, closed, handlerVars, inCopy, outCopy,
                   target, given, serviceVars, tpos, back, backRead>>

(* The opener's use of its stream, until it closes it or its write of the  *)
(* header fails.                                                           *)
Send(s) ==
    /\ opener[s] = "writing" /\ session = "up"
    /\ sent[s] < Prefix(header[s]) + Chunks
    /\ sent' = [sent EXCEPT ![s] = @ + 1]
    /\ UNCHANGED <<session, opener, header, lost, pos, closed, handlerVars, inCopy, outCopy,
                   target, given, serviceVars, tpos, back, backRead>>

OpenerReads(s) ==
    /\ opener[s] \in {"open", "writing"} /\ backRead[s] < Len(back[s])
    /\ backRead' = [backRead EXCEPT ![s] = @ + 1]
    /\ UNCHANGED <<session, openerVars, lost, pos, closed, handlerVars, inCopy, outCopy,
                   target, given, serviceVars, tpos, back>>

CloseStream(s) ==
    /\ opener[s] \in {"open", "writing"}
    /\ opener' = [opener EXCEPT ![s] = "closed"]
    /\ UNCHANGED <<session, header, sent, lost, pos, closed, handlerVars, inCopy, outCopy,
                   target, given, serviceVars, tpos, back, backRead>>

(* What has not arrived when the session ends is lost.                     *)
SessionBreaks ==
    /\ session = "up" /\ session' = "broken"
    /\ lost' \in {cut \in [Streams -> 0 .. MaxHeader + 2 + Chunks] :
                    \A s \in Streams : cut[s] <= sent[s] - pos[s]}

(* handleHTTP and handleTCPConnection have opened a stream and call        *)
(* OpenStream on a Connection that has no session, which panics: the       *)
(* deferred Close closes the stream before it has a header.  net/http      *)
(* recovers the panic of handleHTTP; nothing recovers the other one, and   *)
(* the server ends with all its sessions.                                  *)
HandlerPanics(s) ==
    /\ opener[s] = "open" /\ opener' = [opener EXCEPT ![s] = "closed"]
    /\ SessionBreaks \/ UNCHANGED <<session, lost>>
    /\ UNCHANGED <<header, sent, pos, closed, handlerVars, inCopy, outCopy,
                   target, given, serviceVars, tpos, back, backRead>>

Break ==
    /\ SessionBreaks
    /\ UNCHANGED <<openerVars, pos, closed, handlerVars, inCopy, outCopy,
                   target, given, serviceVars, tpos, back, backRead>>

-----------------------------------------------------------------------------
(* handleStreams and handleStream.                                         *)

HandlerGoto(s, from, to) ==
    /\ hpc[s] = from /\ hpc' = [hpc EXCEPT ![s] = to]
    /\ UNCHANGED <<session, openerVars, lost, serviceVars, given, tpos, back, backRead>>

Accept(s) ==
    /\ opener[s] # "none" /\ session = "up"
    /\ HandlerGoto(s, "none", "length")
    /\ UNCHANGED <<pos, closed, need, parsed, inCopy, outCopy, target>>

ReadLength(s) ==
    LET headerLen == Written(s, pos[s] + 1).n IN
    /\ Readable(s)
    /\ HandlerGoto(s, "length", IF headerLen = 0 \/ headerLen > MaxHeader THEN "ending"
                                ELSE "header")
    /\ pos' = [pos EXCEPT ![s] = @ + 1]
    /\ need' = [need EXCEPT ![s] = headerLen + 1]
    /\ UNCHANGED <<closed, parsed, inCopy, outCopy, target>>

(* json.Unmarshal gives back a header only from all of its pieces.         *)
IsHeader(s, first, last) ==
    /\ last - first + 1 = HeaderSize[header[s]]
    /\ \A i \in first .. last : Written(s, i) = [kind |-> "header", n |-> i - first + 1]

ReadHeader(s) ==
    LET last == pos[s] + need[s]
        understood == /\ Written(s, last).kind = "newline"
                      /\ IsHeader(s, pos[s] + 1, last - 1)
                      /\ header[s] \in Handled
    IN
    /\ last <= Arrived(s)
    /\ HandlerGoto(s, "header", IF understood THEN "dial" ELSE "ending")
    /\ pos' = [pos EXCEPT ![s] = last]
    /\ parsed' = [parsed EXCEPT ![s] = IF understood THEN header[s] ELSE @]
    /\ UNCHANGED <<closed, need, inCopy, outCopy, target>>

(* io.ReadFull reaches the end of the stream.                              *)
HeaderCut(s) ==
    /\ InputOver(s)
    /\ \/ ~Readable(s) /\ HandlerGoto(s, "length", "ending")
       \/ pos[s] + need[s] > Arrived(s) /\ HandlerGoto(s, "header", "ending")
    /\ UNCHANGED <<pos, closed, need, parsed, inCopy, outCopy, target>>

(* HandleStream: the dial, and the start of CopyBidirectional.             *)
Dial(s) ==
    /\ hpc[s] = "dial" /\ hpc' = [hpc EXCEPT ![s] = "copy"]
    /\ target' = [target EXCEPT ![s] = "open"]
    /\ service' = [service EXCEPT ![s] = "open"]
    /\ inCopy' = [inCopy EXCEPT ![s] = "read"]
    /\ outCopy' = [outCopy EXCEPT ![s] = "read"]
    /\ UNCHANGED <<session, openerVars, lost, pos, closed, need, parsed, given,
                   svcRead, svcSent, tpos, back, backRead>>

DialFails(s) ==
    /\ HandlerGoto(s, "dial", "ending")
    /\ UNCHANGED <<pos, closed, need, parsed, inCopy, outCopy, target>>

CopyReturnsAtFirst(s) ==                                          \* mutant
    /\ "done" \in {inCopy[s], outCopy[s]}
    /\ HandlerGoto(s, "copy", "ending")
    /\ UNCHANGED <<pos, closed, need, parsed, inCopy, outCopy, target>>

(* wg.Wait of CopyBidirectional.                                           *)
CopyReturns(s) ==
    /\ inCopy[s] = "done" /\ outCopy[s] = "done"
    /\ HandlerGoto(s, "copy", "ending")
    /\ UNCHANGED <<pos, closed, need, parsed, inCopy, outCopy, target>>

(* The deferred Close calls of HandleStream and handleStreams.             *)
HandlerReturns(s) ==
    /\ HandlerGoto(s, "ending", "done")
    /\ closed' = [closed EXCEPT ![s] = TRUE]
    /\ target' = [target EXCEPT ![s] = IF @ = "open" THEN "closed" ELSE @]
    /\ UNCHANGED <<pos, need, parsed, inCopy, outCopy>>

HandlerStep(s) ==
    \/ ReadLength(s) \/ ReadHeader(s) \/ HeaderCut(s) \/ Dial(s) \/ DialFails(s)
    \/ CopyReturns(s) \/ HandlerReturns(s)

-----------------------------------------------------------------------------
(* CopyBidirectional(stream, targetConn).                                  *)

(* io.Copy(targetConn, stream).                                            *)
InGoto(s, from, to) ==
    /\ inCopy[s] = from /\ inCopy' = [inCopy EXCEPT ![s] = to]
    /\ UNCHANGED <<session, openerVars, lost, handlerVars, outCopy, serviceVars, tpos, back,
                   backRead>>

InRead(s) ==
    /\ Readable(s) /\ InGoto(s, "read", "write")
    /\ pos' = [pos EXCEPT ![s] = @ + 1]
    /\ UNCHANGED <<closed, target, given>>

InReadEndsIdle(s) ==                                              \* mutant
    /\ closed[s] \/ ~Readable(s)
    /\ InGoto(s, "read", "closeTarget")
    /\ UNCHANGED <<pos, closed, target, given>>

(* The end of the stream, or the client's own Close of it; how soon yamux  *)
(* ends a Read after that, and what it still returns, is left open.        *)
InReadEnds(s) ==
    /\ closed[s] \/ (InputOver(s) /\ ~Readable(s))
    /\ InGoto(s, "read", "closeTarget")
    /\ UNCHANGED <<pos, closed, target, given>>

InWriteRetried(s) ==                                              \* mutant
    /\ target[s] = "open" /\ Len(given[s]) - svcRead[s] < Window
    /\ \E next \in {"read", "write"} : InGoto(s, "write", next)
    /\ given' = [given EXCEPT ![s] = Append(@, Written(s, pos[s]))]
    /\ UNCHANGED <<pos, closed, target>>

InWrite(s) ==
    /\ target[s] = "open" /\ Len(given[s]) - svcRead[s] < Window
    /\ InGoto(s, "write", "read")
    /\ given' = [given EXCEPT ![s] = Append(@, Written(s, pos[s]))]
    /\ UNCHANGED <<pos, closed, target>>

InWriteFails(s) ==
    /\ target[s] = "closed" \/ service[s] = "ended"
    /\ InGoto(s, "write", "closeTarget")
    /\ UNCHANGED <<pos, closed, target, given>>

InCloseTarget(s) ==
    /\ InGoto(s, "closeTarget", "closeStream")
    /\ target' = [target EXCEPT ![s] = "closed"]
    /\ UNCHANGED <<pos, closed, given>>

InCloseStream(s) ==
    /\ InGoto(s, "closeStream", "done")
    /\ closed' = [closed EXCEPT ![s] = TRUE]
    /\ UNCHANGED <<pos, target, given>>

InStep(s) ==
    \/ InRead(s) \/ InReadEnds(s) \/ InWrite(s) \/ InWriteFails(s)
    \/ InCloseTarget(s) \/ InCloseStream(s)

(* io.Copy(stream, targetConn).                                            *)
OutGoto(s, from, to) ==
    /\ outCopy[s] = from /\ outCopy' = [outCopy EXCEPT ![s] = to]
    /\ UNCHANGED <<session, openerVars, lost, pos, handlerVars, inCopy, serviceVars, given,
                   backRead>>

OutReadPastEnd(s) ==                                              \* mutant
    /\ target[s] = "open" /\ tpos[s] <= svcSent[s]
    /\ OutGoto(s, "read", "write")
    /\ tpos' = [tpos EXCEPT ![s] = @ + 1]
    /\ UNCHANGED <<closed, target, back>>

OutRead(s) ==
    /\ target[s] = "open" /\ tpos[s] < svcSent[s]
    /\ OutGoto(s, "read", "write")
    /\ tpos' = [tpos EXCEPT ![s] = @ + 1]
    /\ UNCHANGED <<closed, target, back>>

(* The service has closed its end; if it had not read everything, its      *)
(* answer may be cut short by a reset.                                     *)
ServiceOver(s) ==
    /\ service[s] = "ended"
    /\ tpos[s] = svcSent[s] \/ svcRead[s] < Len(given[s])

OutReadEnds(s) ==
    /\ target[s] = "closed" \/ ServiceOver(s)
    /\ OutGoto(s, "read", "closeTarget")
    /\ UNCHANGED <<closed, target, tpos, back>>

OutWrite(s) ==
    /\ ~closed[s] /\ session = "up" /\ Len(back[s]) - backRead[s] < Window
    /\ OutGoto(s, "write", "read")
    /\ back' = [back EXCEPT ![s] = Append(@, Chunk(tpos[s]))]
    /\ UNCHANGED <<closed, target, tpos>>

(* yamux resets a stream that the opener has closed and does not read.     *)
OutWriteFails(s) ==
    /\ closed[s] \/ InputOver(s)
    /\ OutGoto(s, "write", "closeTarget")
    /\ UNCHANGED <<closed, target, tpos, back>>

OutCloseTarget(s) ==
    /\ OutGoto(s, "closeTarget", "closeStream")
    /\ target' = [target EXCEPT ![s] = "closed"]
    /\ UNCHANGED <<closed, tpos, back>>

OutCloseStreamForgotten(s) ==                                     \* mutant
    /\ OutGoto(s, "closeStream", "done")
    /\ UNCHANGED <<closed, target, tpos, back>>

OutCloseStream(s) ==
    /\ OutGoto(s, "closeStream", "done")
    /\ closed' = [closed EXCEPT ![s] = TRUE]
    /\ UNCHANGED <<target, tpos, back>>

OutStep(s) ==
    \/ OutRead(s) \/ OutReadEnds(s) \/ OutWrite(s) \/ OutWriteFails(s)
    \/ OutCloseTarget(s) \/ OutCloseStream(s)

-----------------------------------------------------------------------------
(* The local service.                                                      *)

ServiceReads(s) ==
    /\ service[s] = "open" /\ svcRead[s] < Len(given[s])
    /\ svcRead' = [svcRead EXCEPT ![s] = @ + 1]
    /\ UNCHANGED <<session, openerVars, lost, pos, closed, handlerVars, inCopy, outCopy,
                   target, given, service, svcSent, tpos, back, backRead>>

ServiceSends(s) ==
    /\ service[s] = "open" /\ svcSent[s] < Chunks
    /\ svcSent' = [svcSent EXCEPT ![s] = @ + 1]
    /\ UNCHANGED <<session, openerVars, lost, pos, closed, handlerVars, inCopy, outCopy,
                   target, given, service, svcRead, tpos, back, backRead>>

ServiceEnds(s) ==
    /\ service[s] = "open"
    /\ service' = [service EXCEPT ![s] = "ended"]
    /\ UNCHANGED <<session, openerVars, lost, pos, closed, handlerVars, inCopy, outCopy,
                   target, given, svcRead, svcSent, tpos, back, backRead>>

ClientStep(s) == Accept(s) \/ HandlerStep(s) \/ InStep(s) \/ OutStep(s)
ServiceStep(s) == ServiceReads(s) \/ ServiceSends(s) \/ ServiceEnds(s)
OpenerStep(s) ==
    \/ Open(s) \/ Send(s) \/ OpenerReads(s) \/ CloseStream(s) \/ HandlerPanics(s)
    \/ \E h \in Headers : SendHeader(s, h)

Next ==
    \/ \E s \in Streams : OpenerStep(s) \/ ClientStep(s) \/ ServiceStep(s)
    \/ Break

Spec == Init /\ [][Next]_vars

(* The client's goroutines run, and DialTimeout gives up after 10 seconds. *)
(* CopyBidirectional has no deadlines: the ends of an open stream owe it   *)
(* that they go on reading, but neither an answer nor an end.              *)
Fairness ==
    \A s \in Streams :
        /\ WF_vars(HandlerStep(s)) /\ WF_vars(InStep(s)) /\ WF_vars(OutStep(s))
        /\ WF_vars(ServiceReads(s)) /\ WF_vars(OpenerReads(s))

FairSpec == Spec /\ Fairness

-----------------------------------------------------------------------------
(* Properties.                                                             *)

(* A header that OpenStream has written is what handleStream dials, up to  *)
(* the largest size that two bytes can announce: as long as the session is *)
(* up, only a type without a handler makes the client drop the stream      *)
(* before its dial, and what it dials is what the header names.            *)
HeadersUnderstood ==
    \A s \in Streams :
        /\ parsed[s] \in {NoHeader, header[s]}
        /\ hpc[s] \in {"ending", "done"} /\ session = "up" /\ header[s] \in Handled
              => parsed[s] = header[s]

(* When the handler of a stream has returned, both connections are closed  *)
(* and neither copier runs: nothing of a forwarded stream is left behind,  *)
(* however its ends, the session and the service failed it.                *)
HandlerReleases ==
    \A s \in Streams : hpc[s] = "done" =>
        /\ closed[s] /\ target[s] # "open"
        /\ {inCopy[s], outCopy[s]} \subseteq {"none", "done"}

(* A service that has read the whole request before it closes its end gets *)
(* its whole answer through to an opener that keeps its end open, although *)
(* either copier closes both connections.                                  *)
AnswerComplete ==
    \A s \in Streams :
        closed[s] /\ session = "up" /\ opener[s] = "writing" /\ svcRead[s] = Asked(s)
            => Len(back[s]) = svcSent[s]

(* The client's forwarding is a Relay.                                     *)
PhaseOf(s) ==
    CASE hpc[s] = "done"                        -> "over"
      [] hpc[s] # "done" /\ target[s] = "none"  -> "new"
      [] hpc[s] # "done" /\ target[s] # "none"  -> "linked"

ForwardingRelay == INSTANCE Relay WITH
    asked    <- [s \in Streams |-> Asked(s)],
    taken    <- given,
    answered <- svcSent,
    returned <- back,
    phase    <- [s \in Streams |-> PhaseOf(s)]

ImplementsRelay == ForwardingRelay!Spec

(* Under FairSpec: once the opener, the session or the service has ended,  *)
(* the handler of the stream returns.                                      *)
EndedStreamsReleased ==
    \A s \in Streams :
        hpc[s] # "none" /\ (InputOver(s) \/ service[s] = "ended") ~> hpc[s] = "done"
=============================================================================
