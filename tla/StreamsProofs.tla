---------------------------- MODULE StreamsProofs -----------------------------
(***************************************************************************)
(* Proofs, for any number of streams, headers of any size and any number   *)
(* of chunks, that the safety invariants of Streams hold and that the      *)
(* client's forwarding is a Relay.                                         *)
(*                                                                         *)
(* The strengthening follows a stream through its life: what its header    *)
(* says of the units written (Headed), how far the goroutine of            *)
(* handleStream has come with them (Handling), how the copiers' counts     *)
(* are related (Counting), and why a copier has ended (Ending).            *)
(***************************************************************************)
EXTENDS Streams, TLAPS

Headed(s) ==
    /\ opener[s] \in {"none", "open"} => header[s] = NoHeader
    /\ opener[s] = "writing" => header[s] \in Headers
    /\ header[s] = NoHeader => sent[s] = 0 /\ parsed[s] = NoHeader
    /\ header[s] # NoHeader =>
          HeaderSize[header[s]] <= MaxHeader /\ Prefix(header[s]) <= sent[s]
    /\ session = "up" => lost[s] = 0

(* Nothing has been connected to the stream yet.                           *)
Unlinked(s) ==
    /\ inCopy[s] = "none" /\ outCopy[s] = "none" /\ service[s] = "none"
    /\ given[s] = <<>> /\ back[s] = <<>>
    /\ svcRead[s] = 0 /\ svcSent[s] = 0 /\ tpos[s] = 0

Handling(s) ==
    /\ hpc[s] \in {"none", "length"} => pos[s] = 0
    /\ hpc[s] \notin {"none", "length"} => header[s] # NoHeader \/ InputOver(s)
    /\ hpc[s] = "header" => /\ header[s] # NoHeader /\ pos[s] = 1
                            /\ need[s] = HeaderSize[header[s]] + 1
    /\ hpc[s] = "dial" => pos[s] = Prefix(header[s])
    /\ hpc[s] \in {"dial", "copy"} => header[s] # NoHeader /\ parsed[s] = header[s]
    /\ hpc[s] \in {"none", "length", "header", "dial"} => target[s] = "none" /\ ~closed[s]
    /\ hpc[s] = "copy" => target[s] # "none" /\ inCopy[s] # "none" /\ outCopy[s] # "none"
    /\ hpc[s] \in {"ending", "done"} => {inCopy[s], outCopy[s]} \subseteq {"none", "done"}
    /\ hpc[s] = "done" => closed[s] /\ target[s] # "open"
    /\ target[s] = "none" => Unlinked(s)

Counting(s) ==
    /\ inCopy[s] # "none" => header[s] # NoHeader /\ Prefix(header[s]) + Len(given[s]) <= pos[s]
    /\ inCopy[s] = "read" => pos[s] = Prefix(header[s]) + Len(given[s])
    /\ inCopy[s] = "write" => pos[s] = Prefix(header[s]) + Len(given[s]) + 1
    /\ outCopy[s] = "read" => tpos[s] = Len(back[s])
    /\ outCopy[s] = "write" => tpos[s] = Len(back[s]) + 1
    /\ svcRead[s] <= Len(given[s])
    /\ service[s] # "none" => target[s] # "none" /\ inCopy[s] # "none"

(* One of the two connections has been closed, or soon will be.            *)
Ended(s) ==
    \/ closed[s] \/ target[s] = "closed" \/ hpc[s] \in {"ending", "done"}
    \/ inCopy[s] \in {"closeTarget", "closeStream", "done"}
    \/ outCopy[s] \in {"closeTarget", "closeStream", "done"}

(* That is because of the opener, the session or the service, and a        *)
(* service that had read the request has had its answer taken.             *)
Ending(s) ==
    Ended(s) =>
        \/ InputOver(s)
        \/ /\ service[s] # "open"
           /\ svcRead[s] < Asked(s) \/ (tpos[s] = svcSent[s] /\ Len(back[s]) = svcSent[s])

Understood(s) ==
    /\ parsed[s] \in {NoHeader, header[s]}
    /\ hpc[s] \in {"ending", "done"} /\ session = "up" /\ header[s] \in Handled
          => parsed[s] = header[s]

Local(s) == Headed(s) /\ Handling(s) /\ Counting(s) /\ Ending(s) /\ Understood(s)

Inv == TypeOK /\ \A s \in Streams : Local(s)

-----------------------------------------------------------------------------
(* The steps.                                                              *)

USE DEF openerVars, handlerVars, serviceVars

(* Every step is one of these.                                             *)
LEMMA Cases ==
    ASSUME Next
    PROVE  \/ \E s \in Streams :
                \/ Open(s) \/ Send(s) \/ OpenerReads(s) \/ CloseStream(s) \/ HandlerPanics(s)
                \/ \E h \in Headers : SendHeader(s, h)
                \/ Accept(s) \/ ReadLength(s) \/ ReadHeader(s) \/ HeaderCut(s) \/ Dial(s)
                \/ DialFails(s) \/ CopyReturns(s) \/ HandlerReturns(s)
                \/ InRead(s) \/ InReadEnds(s) \/ InWrite(s) \/ InWriteFails(s)
                \/ InCloseTarget(s) \/ InCloseStream(s)
                \/ OutRead(s) \/ OutReadEnds(s) \/ OutWrite(s) \/ OutWriteFails(s)
                \/ OutCloseTarget(s) \/ OutCloseStream(s)
                \/ ServiceReads(s) \/ ServiceSends(s) \/ ServiceEnds(s)
           \/ Break
BY DEF Next, OpenerStep, ClientStep, HandlerStep, InStep, OutStep, ServiceStep

(* A length that two bytes can hold is read as it was written.             *)
LEMMA LengthKept ==
    ASSUME NEW n \in Nat, NEW m \in Nat, n <= m
    PROVE  n % (m + 1) = n
OBVIOUS

(* The units before the data, and the first chunks after them.             *)
LEMMA Units ==
    ASSUME ConstantsAssumption, NEW h \in Headers
    PROVE  /\ Prefix(h) \in Nat /\ Prefix(h) > 2
           /\ HeaderSize[h] <= MaxHeader => UnitOf(h, 1) = [kind |-> "length", n |-> HeaderSize[h]]
           /\ \A i \in 2 .. Prefix(h) - 1 : UnitOf(h, i) = [kind |-> "header", n |-> i - 1]
           /\ UnitOf(h, Prefix(h)) = [kind |-> "newline", n |-> 0]
           /\ \A i \in Nat : i > Prefix(h) => UnitOf(h, i) = Chunk(i - Prefix(h))
<1>1. HeaderSize[h] \in Nat /\ HeaderSize[h] > 0
  BY DEF ConstantsAssumption
<1>2. HeaderSize[h] <= MaxHeader => HeaderSize[h] % (MaxHeader + 1) = HeaderSize[h]
  BY <1>1, LengthKept DEF ConstantsAssumption
<1> QED
  BY <1>1, <1>2 DEF Prefix, UnitOf, Chunk

(* The types, at one stream.                                               *)
Types(s) ==
    /\ session \in {"up", "broken"}
    /\ opener[s] \in {"none", "open", "writing", "closed"}
    /\ header[s] \in Headers \cup {NoHeader} /\ parsed[s] \in Headers \cup {NoHeader}
    /\ sent[s] \in Nat /\ lost[s] \in Nat /\ pos[s] \in Nat
    /\ pos[s] + lost[s] <= sent[s]
    /\ need[s] \in Nat
    /\ hpc[s] \in {"none", "length", "header", "dial", "copy", "ending", "done"}
    /\ inCopy[s] \in Copier /\ outCopy[s] \in Copier
    /\ target[s] \in {"none", "open", "closed"}
    /\ service[s] \in {"none", "open", "ended"}
    /\ given[s] \in Seq(Unit) /\ back[s] \in Seq(Unit)
    /\ svcRead[s] \in Nat /\ svcSent[s] \in Nat /\ tpos[s] \in Nat
    /\ tpos[s] <= svcSent[s]

(* TypeOK gives them.                                                      *)
LEMMA TypesAt ==
    ASSUME TypeOK, NEW s \in Streams
    PROVE  Types(s)
BY ConstantsAssumption DEF TypeOK, Types

(* What is known of a header that has been written.                        *)
LEMMA HeaderAt ==
    ASSUME TypeOK, NEW s \in Streams, Headed(s), header[s] # NoHeader
    PROVE  /\ header[s] \in Headers /\ HeaderSize[header[s]] \in Nat
           /\ HeaderSize[header[s]] > 0 /\ HeaderSize[header[s]] <= MaxHeader
           /\ Prefix(header[s]) = HeaderSize[header[s]] + 2 /\ Prefix(header[s]) <= sent[s]
           /\ session = "up" => lost[s] = 0
           /\ sent[s] \in Nat /\ pos[s] \in Nat /\ lost[s] \in Nat /\ pos[s] + lost[s] <= sent[s]
           /\ Asked(s) = sent[s] - Prefix(header[s])
<1>1. header[s] \in Headers
  BY DEF TypeOK
<1>2. HeaderSize[header[s]] \in Nat /\ HeaderSize[header[s]] > 0
  BY <1>1, ConstantsAssumption
<1>3. HeaderSize[header[s]] <= MaxHeader /\ Prefix(header[s]) <= sent[s]
  BY DEF Headed
<1>4. session = "up" => lost[s] = 0
  BY DEF Headed
<1> QED
  BY <1>1, <1>2, <1>3, <1>4, TypesAt DEF Types, Prefix, Asked

(* A step of one stream keeps the sums of all, if it keeps its own.        *)
LEMMA SumsKept ==
    ASSUME NEW s \in Streams,
           \A q \in Streams : pos[q] + lost[q] <= sent[q],
           \A q \in Streams \ {s} :
              pos'[q] = pos[q] /\ lost'[q] = lost[q] /\ sent'[q] = sent[q],
           (pos[s] + lost[s] <= sent[s])'
    PROVE  \A q \in Streams : (pos[q] + lost[q] <= sent[q])'
OBVIOUS

-----------------------------------------------------------------------------
(* The lemmas below go through the steps group by group: they keep the     *)
(* types, and Local of the stream that steps and of all others.            *)

(* The types are kept by the opener.                                       *)
LEMMA OpenerTypes ==
    ASSUME TypeOK, NEW s \in Streams, Local(s),
           Open(s) \/ (\E h \in Headers : SendHeader(s, h)) \/ Send(s)
           \/ OpenerReads(s) \/ CloseStream(s) \/ HandlerPanics(s) \/ Break
    PROVE  TypeOK'
<1> USE ConstantsAssumption DEF TypeOK, Copier
<1>1. CASE Open(s)
  BY <1>1 DEF Open
<1>2. ASSUME NEW h \in Headers, SendHeader(s, h)  PROVE TypeOK'
  <2>1. Prefix(h) \in Nat
    BY Units
  <2>2. sent[s] = 0
    BY <1>2 DEF SendHeader, Local, Headed
  <2>3. sent' = sent \/ sent' = [sent EXCEPT ![s] = Prefix(h)]
    BY <1>2 DEF SendHeader
  <2>4. sent' \in [Streams -> Nat]
    BY <2>1, <2>3
  <2>5. pos[s] = 0 /\ lost[s] = 0
    <3>1. Types(s)
      BY TypesAt
    <3> HIDE DEF TypeOK
    <3> QED BY <2>2, <3>1 DEF Types
  <2>6. UNCHANGED <<pos, lost>>
    BY <1>2 DEF SendHeader
  <2>7. sent'[s] \in Nat
    BY <2>4
  <2>8. \A q \in Streams : (pos[q] + lost[q] <= sent[q])'
    <3>1. /\ \A q \in Streams : pos[q] + lost[q] <= sent[q]
          /\ \A q \in Streams \ {s} : sent'[q] = sent[q]
      BY <2>3
    <3> HIDE DEF TypeOK, Local
    <3>2. (pos[s] + lost[s] <= sent[s])'
      BY <2>5, <2>6, <2>7
    <3> QED BY <2>6, <3>1, <3>2, SumsKept
  <2>9. /\ opener' \in [Streams -> {"none", "open", "writing", "closed"}]
        /\ header' \in [Streams -> Headers \cup {NoHeader}]
    <3>1. CASE HeaderSize[h] > MaxHeader
      BY <1>2, <3>1 DEF SendHeader
    <3>2. CASE ~(HeaderSize[h] > MaxHeader)
      <4>1. /\ opener' = [opener EXCEPT ![s] = "writing"]
            /\ header' = [header EXCEPT ![s] = h]
        <5> HIDE DEF TypeOK
        <5> QED BY <1>2, <3>2 DEF SendHeader
      <4>2. /\ opener \in [Streams -> {"none", "open", "writing", "closed"}]
            /\ header \in [Streams -> Headers \cup {NoHeader}]
        OBVIOUS
      <4> HIDE DEF TypeOK
      <4> QED BY <4>1, <4>2
    <3> QED BY <3>1, <3>2
  <2>10. UNCHANGED <<session, lost, pos, closed, hpc, need, parsed, inCopy, outCopy, target,
                     given, service, svcRead, svcSent, tpos, back, backRead>>
    BY <1>2 DEF SendHeader
  <2> QED BY <2>4, <2>8, <2>9, <2>10
<1>3. CASE Send(s)
  <2>1. sent' \in [Streams -> Nat]
    BY <1>3 DEF Send
  <2>2. ASSUME NEW q \in Streams  PROVE (pos[q] + lost[q] <= sent[q])'
    <3>1. Types(q) /\ Types(s)
      BY TypesAt
    <3> HIDE DEF TypeOK
    <3>2. CASE q = s
      BY <1>3, <2>1, <3>1, <3>2 DEF Send, Types, TypeOK
    <3>3. CASE q # s
      BY <1>3, <3>1, <3>3 DEF Send, Types, TypeOK
    <3> QED BY <3>2, <3>3
  <2> QED BY <1>3, <2>1, <2>2 DEF Send
<1>4. CASE OpenerReads(s)
  <2>1. backRead' \in [Streams -> Nat]
    BY <1>4 DEF OpenerReads
  <2> QED BY <1>4, <2>1 DEF OpenerReads
<1>5. CASE CloseStream(s)
  BY <1>5 DEF CloseStream
<1>6. CASE HandlerPanics(s)
  <2>1. lost' \in [Streams -> Nat] /\ UNCHANGED <<sent, pos>>
    BY <1>6 DEF HandlerPanics, SessionBreaks
  <2>2. ASSUME NEW q \in Streams  PROVE (pos[q] + lost[q] <= sent[q])'
    <3>1. lost'[q] <= sent[q] - pos[q] \/ lost'[q] = lost[q]
      BY <1>6 DEF HandlerPanics, SessionBreaks
    <3> HIDE DEF TypeOK
    <3> QED BY <2>1, <3>1, TypesAt DEF Types
  <2> QED BY <1>6, <2>1, <2>2 DEF HandlerPanics, SessionBreaks
<1>7. CASE Break
  <2>1. lost' \in [Streams -> Nat] /\ UNCHANGED <<sent, pos>>
    BY <1>7 DEF Break, SessionBreaks
  <2>2. ASSUME NEW q \in Streams  PROVE (pos[q] + lost[q] <= sent[q])'
    <3>1. lost'[q] <= sent[q] - pos[q] \/ lost'[q] = lost[q]
      BY <1>7 DEF Break, SessionBreaks
    <3> HIDE DEF TypeOK
    <3> QED BY <2>1, <3>1, TypesAt DEF Types
  <2> QED BY <1>7, <2>1, <2>2 DEF Break, SessionBreaks
<1> QED BY <1>1, <1>2, <1>3, <1>4, <1>5, <1>6, <1>7

(* The types are kept by the goroutine of handleStream.                    *)
LEMMA HandlerTypes ==
    ASSUME TypeOK, NEW s \in Streams, Local(s),
           Accept(s) \/ ReadLength(s) \/ ReadHeader(s) \/ HeaderCut(s) \/ Dial(s)
           \/ DialFails(s) \/ CopyReturns(s) \/ HandlerReturns(s)
    PROVE  TypeOK'
<1> USE ConstantsAssumption DEF TypeOK, Copier
<1>1. CASE Accept(s)
  BY <1>1 DEF Accept, HandlerGoto
<1>2. CASE ReadLength(s)
  <2>1. header[s] # NoHeader /\ pos[s] = 0
    BY <1>2 DEF ReadLength, HandlerGoto, Readable, Arrived, Local, Headed, Handling
  <2>2. Written(s, pos[s] + 1).n = HeaderSize[header[s]]
    BY <2>1, Units DEF Written, Local, Headed
  <2>3. HeaderSize[header[s]] \in 0 .. MaxHeader
    BY <2>1 DEF Local, Headed, ConstantsAssumption
  <2>4. need' \in [Streams -> 0 .. MaxHeader + 1]
    <3>1. need' = [need EXCEPT ![s] = HeaderSize[header[s]] + 1]
      BY <1>2, <2>2 DEF ReadLength
    <3>2. HeaderSize[header[s]] + 1 \in 0 .. MaxHeader + 1
      BY <2>3, ConstantsAssumption
    <3>3. need \in [Streams -> 0 .. MaxHeader + 1]
      OBVIOUS
    <3> HIDE DEF TypeOK
    <3> QED BY <3>1, <3>2, <3>3
  <2>5. pos' \in [Streams -> Nat]
    BY <1>2 DEF ReadLength, HandlerGoto
  <2>6. \A q \in Streams : (pos[q] + lost[q] <= sent[q])'
    BY <1>2 DEF ReadLength, HandlerGoto, Readable, Arrived
  <2> QED BY <1>2, <2>4, <2>5, <2>6 DEF ReadLength, HandlerGoto
<1>3. CASE ReadHeader(s)
  <2>1. pos' = [pos EXCEPT ![s] = pos[s] + need[s]] /\ pos[s] + need[s] <= Arrived(s)
    BY <1>3 DEF ReadHeader
  <2>2. pos[s] + need[s] \in Nat
    OBVIOUS
  <2>3. pos' \in [Streams -> Nat]
    BY <2>1, <2>2
  <2>4. \A q \in Streams : (pos[q] + lost[q] <= sent[q])'
    BY <1>3, <2>1 DEF ReadHeader, HandlerGoto, Arrived
  <2> QED BY <1>3, <2>3, <2>4 DEF ReadHeader, HandlerGoto
<1>4. CASE HeaderCut(s)
  BY <1>4 DEF HeaderCut, HandlerGoto
<1>5. CASE Dial(s)
  BY <1>5 DEF Dial
<1>6. CASE DialFails(s)
  BY <1>6 DEF DialFails, HandlerGoto
<1>7. CASE CopyReturns(s)
  BY <1>7 DEF CopyReturns, HandlerGoto
<1>8. CASE HandlerReturns(s)
  BY <1>8 DEF HandlerReturns, HandlerGoto
<1> QED BY <1>1, <1>2, <1>3, <1>4, <1>5, <1>6, <1>7, <1>8

(* The types are kept by the copier from the stream.                       *)
LEMMA InTypes ==
    ASSUME TypeOK, NEW s \in Streams, Local(s),
           InRead(s) \/ InReadEnds(s) \/ InWrite(s) \/ InWriteFails(s)
           \/ InCloseTarget(s) \/ InCloseStream(s)
    PROVE  TypeOK'
<1> USE ConstantsAssumption DEF TypeOK, Copier
<1>1. CASE InRead(s)
  <2>1. pos' \in [Streams -> Nat]
    BY <1>1 DEF InRead, InGoto, Readable, Arrived
  <2>2. ASSUME NEW q \in Streams  PROVE (pos[q] + lost[q] <= sent[q])'
    <3>1. Types(q) /\ Types(s)
      BY TypesAt
    <3> HIDE DEF TypeOK
    <3>2. CASE q = s
      BY <1>1, <2>1, <3>1, <3>2 DEF InRead, InGoto, Readable, Arrived, Types, TypeOK
    <3>3. CASE q # s
      BY <1>1, <3>1, <3>3 DEF InRead, InGoto, Readable, Arrived, Types, TypeOK
    <3> QED BY <3>2, <3>3
  <2> QED BY <1>1, <2>1, <2>2 DEF InRead, InGoto, Readable, Arrived
<1>2. CASE InReadEnds(s)
  BY <1>2 DEF InReadEnds, InGoto
<1>3. CASE InWrite(s)
  <2>0. header[s] \in Headers /\ pos[s] = Prefix(header[s]) + Len(given[s]) + 1
    BY <1>3 DEF InWrite, InGoto, Local, Counting
  <2>1. pos[s] > Prefix(header[s]) /\ Prefix(header[s]) \in Nat
    BY <2>0, Units
  <2>2. Written(s, pos[s]) \in Unit
    <3>1. pos[s] \in Nat /\ pos[s] - Prefix(header[s]) \in Nat
      BY <2>1
    <3>2. Written(s, pos[s]) = Chunk(pos[s] - Prefix(header[s]))
      BY <2>0, <2>1, <3>1, Units DEF Written
    <3> QED BY <3>1, <3>2 DEF Chunk, Unit
  <2>3. given' \in [Streams -> Seq(Unit)]
    BY <1>3, <2>2 DEF InWrite
  <2> QED BY <1>3, <2>3 DEF InWrite, InGoto
<1>4. CASE InWriteFails(s)
  BY <1>4 DEF InWriteFails, InGoto
<1>5. CASE InCloseTarget(s)
  BY <1>5 DEF InCloseTarget, InGoto
<1>6. CASE InCloseStream(s)
  BY <1>6 DEF InCloseStream, InGoto
<1> QED BY <1>1, <1>2, <1>3, <1>4, <1>5, <1>6

(* The types are kept by the copier to the stream.                         *)
LEMMA OutTypes ==
    ASSUME TypeOK, NEW s \in Streams, Local(s),
           OutRead(s) \/ OutReadEnds(s) \/ OutWrite(s) \/ OutWriteFails(s)
           \/ OutCloseTarget(s) \/ OutCloseStream(s)
    PROVE  TypeOK'
<1> USE ConstantsAssumption DEF TypeOK, Copier
<1>1. CASE OutRead(s)
  <2>1. tpos' \in [Streams -> Nat]
    BY <1>1 DEF OutRead, OutGoto
  <2>2. ASSUME NEW q \in Streams  PROVE (tpos[q] <= svcSent[q])'
    <3>1. Types(q) /\ Types(s)
      BY TypesAt
    <3> HIDE DEF TypeOK
    <3>2. CASE q = s
      BY <1>1, <2>1, <3>1, <3>2 DEF OutRead, OutGoto, Types, TypeOK
    <3>3. CASE q # s
      BY <1>1, <3>1, <3>3 DEF OutRead, OutGoto, Types, TypeOK
    <3> QED BY <3>2, <3>3
  <2> QED BY <1>1, <2>1, <2>2 DEF OutRead, OutGoto
<1>2. CASE OutReadEnds(s)
  BY <1>2 DEF OutReadEnds, OutGoto, ServiceOver
<1>3. CASE OutWrite(s)
  <2>1. Chunk(tpos[s]) \in Unit
    BY DEF Chunk, Unit
  <2>2. back' \in [Streams -> Seq(Unit)]
    BY <1>3, <2>1 DEF OutWrite
  <2> QED BY <1>3, <2>2 DEF OutWrite, OutGoto
<1>4. CASE OutWriteFails(s)
  BY <1>4 DEF OutWriteFails, OutGoto
<1>5. CASE OutCloseTarget(s)
  BY <1>5 DEF OutCloseTarget, OutGoto
<1>6. CASE OutCloseStream(s)
  BY <1>6 DEF OutCloseStream, OutGoto
<1> QED BY <1>1, <1>2, <1>3, <1>4, <1>5, <1>6

(* The types are kept by the service.                                      *)
LEMMA ServiceTypes ==
    ASSUME TypeOK, NEW s \in Streams, Local(s),
           ServiceReads(s) \/ ServiceSends(s) \/ ServiceEnds(s)
    PROVE  TypeOK'
<1> USE ConstantsAssumption DEF TypeOK, Copier
<1>1. CASE ServiceReads(s)
  <2>1. svcRead' \in [Streams -> Nat]
    BY <1>1 DEF ServiceReads
  <2> QED BY <1>1, <2>1 DEF ServiceReads
<1>2. CASE ServiceSends(s)
  <2>1. svcSent' \in [Streams -> Nat]
    BY <1>2 DEF ServiceSends
  <2>2. ASSUME NEW q \in Streams  PROVE (tpos[q] <= svcSent[q])'
    <3>1. Types(q) /\ Types(s)
      BY TypesAt
    <3> HIDE DEF TypeOK
    <3>2. CASE q = s
      BY <1>2, <2>1, <3>1, <3>2 DEF ServiceSends, Types, TypeOK
    <3>3. CASE q # s
      BY <1>2, <3>1, <3>3 DEF ServiceSends, Types, TypeOK
    <3> QED BY <3>2, <3>3
  <2> QED BY <1>2, <2>1, <2>2 DEF ServiceSends
<1>3. CASE ServiceEnds(s)
  BY <1>3 DEF ServiceEnds
<1> QED BY <1>1, <1>2, <1>3

(* What the opener makes of its own stream.                                *)
LEMMA OpenerHere ==
    ASSUME TypeOK, TypeOK', NEW s \in Streams, Local(s),
           Open(s) \/ (\E h \in Headers : SendHeader(s, h)) \/ Send(s)
           \/ OpenerReads(s) \/ CloseStream(s) \/ HandlerPanics(s) \/ Break
    PROVE  Local(s)'
<1> USE ConstantsAssumption, TypesAt DEF TypeOK, Types, Local, Headed, Handling,
  Counting, Ending, Ended, Understood, Unlinked, Asked, InputOver
<1>1. CASE Open(s)
  BY <1>1 DEF Open
<1>2. ASSUME NEW h \in Headers, SendHeader(s, h)  PROVE Local(s)'
  <2>1. Prefix(h) \in Nat
    BY Units
  <2>2. /\ header[s] = NoHeader /\ parsed[s] = NoHeader /\ ~InputOver(s)
        /\ inCopy[s] = "none" /\ hpc[s] \in {"none", "length"}
    BY <1>2 DEF SendHeader
  <2>3. UNCHANGED <<session, lost, pos, closed, hpc, need, parsed, inCopy, outCopy, target,
                    given, service, svcRead, svcSent, tpos, back>>
    BY <1>2 DEF SendHeader
  <2>4. CASE HeaderSize[h] > MaxHeader
    <3>1. opener'[s] = "closed" /\ header' = header /\ sent' = sent
      BY <1>2, <2>4 DEF SendHeader
    <3> QED BY <2>2, <2>3, <3>1
  <2>5. CASE ~(HeaderSize[h] > MaxHeader)
    <3>0. HeaderSize[h] \in Nat /\ MaxHeader \in Nat /\ h # NoHeader
      BY ConstantsAssumption
    <3>a. /\ opener' = [opener EXCEPT ![s] = "writing"] /\ header' = [header EXCEPT ![s] = h]
          /\ sent' = [sent EXCEPT ![s] = Prefix(h)]
      BY <1>2, <2>5 DEF SendHeader
    <3>b. opener'[s] = "writing" /\ header'[s] = h /\ sent'[s] = Prefix(h)
      BY <3>a
    <3>1. /\ opener'[s] = "writing" /\ header'[s] = h /\ sent'[s] = Prefix(h) /\ h # NoHeader
          /\ HeaderSize[h] <= MaxHeader
      BY <2>5, <3>0, <3>b
    <3>2. Asked(s) = 0 /\ Asked(s)' = 0
      BY <2>1, <2>2, <3>1
    <3>3. Headed(s)'
      BY <2>1, <2>2, <2>3, <3>1
    <3>4. Handling(s)' /\ Counting(s)' /\ Understood(s)'
      BY <2>2, <2>3, <3>1
    <3>5. Ending(s)'
      <4> HIDE DEF Asked
      <4> QED BY <2>2, <2>3, <3>2
    <3> QED BY <3>3, <3>4, <3>5 DEF Local
  <2> QED BY <2>4, <2>5
<1>3. CASE Send(s)
  <2>1. header[s] \in Headers /\ Prefix(header[s]) \in Nat
    BY <1>3, Units DEF Send
  <2>2. sent'[s] = sent[s] + 1 /\ header' = header
    BY <1>3 DEF Send
  <2>3. Asked(s)' = Asked(s) + 1
    <3>1. header[s] # NoHeader /\ sent[s] \in Nat
      BY <2>1
    <3> HIDE DEF TypeOK, Types, Local
    <3> QED BY <2>1, <2>2, <3>1
  <2>4. UNCHANGED <<session, opener, lost, pos, closed, hpc, need, parsed, inCopy, outCopy,
                    target, given, service, svcRead, svcSent, tpos, back>>
    BY <1>3 DEF Send
  <2>5. Headed(s)'
    <3>1. Headed(s) /\ header[s] # NoHeader /\ sent[s] \in Nat
      BY <2>1 DEF Local
    <3> HIDE DEF TypeOK, Types, Local
    <3>2. UNCHANGED Prefix(header[s]) /\ sent[s] <= sent'[s]
      BY <2>2, <3>1 DEF Prefix
    <3>3. Prefix(header[s]) <= sent'[s]
      BY <2>1, <2>2, <3>1
    <3> QED BY <2>2, <2>4, <3>1, <3>2, <3>3
  <2>6. Handling(s)' /\ Counting(s)' /\ Understood(s)'
    <3>1. Handling(s) /\ Counting(s) /\ Understood(s)
      BY DEF Local
    <3> HIDE DEF TypeOK, Types, Local
    <3>2. UNCHANGED <<InputOver(s), Prefix(header[s])>>
      BY <2>2, <2>4 DEF Prefix
    <3>3. Handling(s)'
      BY <2>2, <2>4, <3>1, <3>2
    <3>4. Counting(s)'
      <4> HIDE DEF Handling, Headed, Understood, Ending
      <4> QED BY <2>2, <2>4, <3>1, <3>2
    <3>5. Understood(s)'
      <4> HIDE DEF Handling, Headed, Counting, Ending
      <4> QED BY <2>2, <2>4, <3>1
    <3> QED BY <3>3, <3>4, <3>5
  <2>7. Ending(s)'
    <3>1. svcRead[s] \in Nat
      OBVIOUS
    <3>2. Asked(s) \in Nat
      <4>1. /\ Asked(s) = sent[s] - Prefix(header[s]) /\ sent[s] \in Nat
            /\ Prefix(header[s]) <= sent[s]
        BY <2>1, HeaderAt
      <4> HIDE DEF Asked, TypeOK, Types, Local
      <4> QED BY <2>1, <4>1
    <3> HIDE DEF Asked, TypeOK, Types
    <3> QED BY <2>2, <2>3, <2>4, <3>1, <3>2
  <2> QED BY <2>5, <2>6, <2>7 DEF Local
<1>4. CASE OpenerReads(s)
  BY <1>4 DEF OpenerReads
<1>5. CASE CloseStream(s)
  BY <1>5 DEF CloseStream
<1>6. CASE HandlerPanics(s)
  BY <1>6 DEF HandlerPanics, SessionBreaks
<1>7. CASE Break
  BY <1>7 DEF Break, SessionBreaks
<1> QED BY <1>1, <1>2, <1>3, <1>4, <1>5, <1>6, <1>7

(* What the goroutine of handleStream makes of its own stream.             *)
LEMMA HandlerHere ==
    ASSUME TypeOK, TypeOK', NEW s \in Streams, Local(s),
           Accept(s) \/ ReadLength(s) \/ ReadHeader(s) \/ HeaderCut(s) \/ Dial(s)
           \/ DialFails(s) \/ CopyReturns(s) \/ HandlerReturns(s)
    PROVE  Local(s)'
<1> USE ConstantsAssumption, TypesAt DEF TypeOK, Types, Local, Headed, Handling,
  Counting, Ending, Ended, Understood, Unlinked, Asked, InputOver
<1>1. CASE Accept(s)
  BY <1>1 DEF Accept, HandlerGoto
<1>2. CASE ReadLength(s)
  <2>1. header[s] # NoHeader /\ pos[s] = 0
    BY <1>2 DEF ReadLength, HandlerGoto, Readable, Arrived
  <2>3. /\ header[s] \in Headers /\ HeaderSize[header[s]] \in Nat
        /\ HeaderSize[header[s]] > 0 /\ HeaderSize[header[s]] <= MaxHeader
    <3>1. header[s] \in Headers /\ HeaderSize[header[s]] <= MaxHeader
      BY <2>1
    <3>2. HeaderSize[header[s]] \in Nat \ {0}
      BY <3>1 DEF ConstantsAssumption
    <3> QED BY <3>1, <3>2
  <2>2. Written(s, pos[s] + 1).n = HeaderSize[header[s]]
    <3> HIDE DEF TypeOK, Types, Local
    <3>1. UnitOf(header[s], 1) = [kind |-> "length", n |-> HeaderSize[header[s]]]
      BY <2>3, Units
    <3> QED BY <2>1, <3>1 DEF Written
  <2>4. /\ hpc'[s] = "header" /\ pos'[s] = 1 /\ need'[s] = HeaderSize[header[s]] + 1
        /\ hpc[s] = "length"
    BY <1>2, <2>1, <2>2, <2>3 DEF ReadLength, HandlerGoto
  <2> QED BY <1>2, <2>1, <2>4 DEF ReadLength, HandlerGoto
<1>3. CASE ReadHeader(s)
  <2>1. /\ hpc[s] = "header" /\ header[s] \in Headers
        /\ pos[s] + need[s] = Prefix(header[s]) /\ pos[s] = 1
    BY <1>3 DEF ReadHeader, HandlerGoto, Prefix, ConstantsAssumption
  <2>2. Written(s, pos[s] + need[s]).kind = "newline"
    <3>1. Written(s, Prefix(header[s])) = [kind |-> "newline", n |-> 0]
      BY <2>1, Units DEF Written
    <3> QED BY <2>1, <3>1
  <2>3. IsHeader(s, pos[s] + 1, (pos[s] + need[s]) - 1)
    <3>1. HeaderSize[header[s]] \in Nat /\ Prefix(header[s]) = HeaderSize[header[s]] + 2
      BY <2>1 DEF ConstantsAssumption, Prefix
    <3>2. \A k \in 2 .. Prefix(header[s]) - 1 :
             Written(s, k) = [kind |-> "header", n |-> k - 1]
      BY <2>1, Units DEF Written
    <3> HIDE DEF TypeOK, Types, Local
    <3>3. IsHeader(s, 2, Prefix(header[s]) - 1)
      BY <3>1, <3>2 DEF IsHeader
    <3>4. pos[s] + 1 = 2
      BY <2>1
    <3>5. (pos[s] + need[s]) - 1 = Prefix(header[s]) - 1
      BY <2>1
    <3> QED BY <3>3, <3>4, <3>5
  <2>4. /\ hpc'[s] = IF header[s] \in Handled THEN "dial" ELSE "ending"
        /\ parsed'[s] = IF header[s] \in Handled THEN header[s] ELSE parsed[s]
        /\ pos'[s] = Prefix(header[s])
    <3> HIDE DEF TypeOK, Types, Local
    <3>1. /\ hpc \in [Streams -> {"none", "length", "header", "dial", "copy", "ending", "done"}]
          /\ DOMAIN parsed = Streams /\ DOMAIN pos = Streams
      BY DEF TypeOK
    <3>2. IF header[s] \in Handled
          THEN hpc'[s] = "dial" /\ parsed'[s] = header[s]
          ELSE hpc'[s] = "ending" /\ parsed'[s] = parsed[s]
      <4> HIDE DEF TypeOK, Types, Local, ConstantsAssumption
      <4> DEFINE understood == /\ Written(s, pos[s] + need[s]).kind = "newline"
                               /\ IsHeader(s, pos[s] + 1, (pos[s] + need[s]) - 1)
                               /\ header[s] \in Handled
      <4>0. hpc' = [hpc EXCEPT ![s] = IF understood THEN "dial" ELSE "ending"]
        BY <1>3 DEF ReadHeader, HandlerGoto
      <4>1. parsed' = [parsed EXCEPT ![s] = IF understood THEN header[s] ELSE @]
        BY <1>3 DEF ReadHeader
      <4>2. understood <=> header[s] \in Handled
        BY <2>2, <2>3
      <4> HIDE DEF understood
      <4> QED BY <3>1, <4>0, <4>1, <4>2
    <3>3. pos'[s] = Prefix(header[s])
      BY <1>3, <2>1, <3>1 DEF ReadHeader
    <3> QED BY <3>2, <3>3
  <2>5. UNCHANGED <<session, opener, header, sent, lost, service, svcRead, svcSent, given, tpos,
                    back, closed, inCopy, outCopy, target>>
    BY <1>3 DEF ReadHeader, HandlerGoto
  <2>6. target[s] = "none" /\ Unlinked(s) /\ parsed[s] \in {NoHeader, header[s]}
    BY <2>1
  <2>7. Headed(s)' /\ Handling(s)'
    BY <2>1, <2>4, <2>5, <2>6
  <2>8. Counting(s)' /\ Ending(s)' /\ Understood(s)'
    BY <2>1, <2>4, <2>5, <2>6
  <2> QED BY <2>7, <2>8 DEF Local
<1>4. CASE HeaderCut(s)
  <2>1. hpc'[s] = "ending" /\ hpc[s] \in {"length", "header"} /\ InputOver(s)
    BY <1>4 DEF HeaderCut, HandlerGoto
  <2>2. UNCHANGED <<session, opener, header, sent, lost, serviceVars, given, tpos, back, pos,
                    closed, need, parsed, inCopy, outCopy, target>>
    BY <1>4 DEF HeaderCut, HandlerGoto
  <2>3. session = "up" => header[s] = NoHeader
    <3>1. SUFFICES ASSUME session = "up", header[s] # NoHeader  PROVE FALSE
      OBVIOUS
    <3>2. /\ HeaderSize[header[s]] \in Nat /\ Prefix(header[s]) = HeaderSize[header[s]] + 2
          /\ Prefix(header[s]) <= sent[s] /\ sent[s] \in Nat /\ lost[s] = 0
      BY <3>1, HeaderAt
    <3>3. /\ hpc[s] = "length" => pos[s] = 0
          /\ hpc[s] = "header" => pos[s] = 1 /\ need[s] = HeaderSize[header[s]] + 1
      OBVIOUS
    <3>4. \/ hpc[s] = "length" /\ ~(pos[s] < Arrived(s))
          \/ hpc[s] = "header" /\ pos[s] + need[s] > Arrived(s)
      BY <1>4 DEF HeaderCut, HandlerGoto, Readable
    <3> HIDE DEF TypeOK, Types, Local
    <3> QED BY <3>2, <3>3, <3>4 DEF Arrived
  <2> QED BY <2>1, <2>2, <2>3
<1>5. CASE Dial(s)
  BY <1>5 DEF Dial
<1>6. CASE DialFails(s)
  BY <1>6 DEF DialFails, HandlerGoto
<1>7. CASE CopyReturns(s)
  BY <1>7 DEF CopyReturns, HandlerGoto
<1>8. CASE HandlerReturns(s)
  BY <1>8 DEF HandlerReturns, HandlerGoto
<1> QED BY <1>1, <1>2, <1>3, <1>4, <1>5, <1>6, <1>7, <1>8

(* What the copier from the stream makes of its own stream.                *)
LEMMA InHere ==
    ASSUME TypeOK, TypeOK', NEW s \in Streams, Local(s),
           InRead(s) \/ InReadEnds(s) \/ InWrite(s) \/ InWriteFails(s)
           \/ InCloseTarget(s) \/ InCloseStream(s)
    PROVE  Local(s)'
<1> USE ConstantsAssumption, TypesAt DEF TypeOK, Types, Local, Headed, Handling,
  Counting, Ending, Ended, Understood, Unlinked, Asked, InputOver
<1>1. CASE InRead(s)
  BY <1>1 DEF InRead, InGoto
<1>2. CASE InReadEnds(s)
  BY <1>2 DEF InReadEnds, InGoto
<1>3. CASE InWrite(s)
  <2>1. /\ inCopy[s] = "write" /\ inCopy'[s] = "read" /\ target[s] = "open"
        /\ given'[s] = Append(given[s], Written(s, pos[s]))
    BY <1>3 DEF InWrite, InGoto
  <2>2. given'[s] \in Seq(Unit)
    OBVIOUS
  <2>3. Len(given'[s]) = Len(given[s]) + 1
    BY <2>1, <2>2
  <2>4. header[s] \in Headers /\ Prefix(header[s]) \in Nat
    BY <2>1, Units
  <2>5. UNCHANGED <<session, opener, header, sent, lost, pos, closed, hpc, need, parsed, outCopy,
                    target, service, svcRead, svcSent, tpos, back>>
    BY <1>3 DEF InWrite, InGoto
  <2>6. Len(given[s]) \in Nat /\ pos[s] = Prefix(header[s]) + Len(given[s]) + 1
    BY <2>1
  <2>7. Headed(s)' /\ Handling(s)' /\ Understood(s)' /\ Ending(s)'
    BY <2>1, <2>5
  <2>8. Counting(s)'
    <3>1. svcRead[s] \in Nat /\ svcRead[s] <= Len(given[s])
      OBVIOUS
    <3>2. UNCHANGED Prefix(header[s])
      BY <2>5
    <3>3. Prefix(header[s]) + Len(given'[s]) = pos[s]
      BY <2>3, <2>4, <2>6
    <3>4. header'[s] # NoHeader
      BY <2>4, <2>5, ConstantsAssumption
    <3>5. outCopy[s] \in {"read", "write"} =>
             tpos[s] = IF outCopy[s] = "read" THEN Len(back[s]) ELSE Len(back[s]) + 1
      OBVIOUS
    <3>6. target[s] # "none"
      BY <2>1
    <3> HIDE DEF TypeOK, Types, Local
    <3> QED BY <2>1, <2>3, <2>4, <2>5, <2>6, <3>1, <3>2, <3>3, <3>4, <3>5, <3>6
  <2> QED BY <2>7, <2>8 DEF Local
<1>4. CASE InWriteFails(s)
  <2>1. header[s] \in Headers /\ Prefix(header[s]) \in Nat
    BY <1>4, Units DEF InWriteFails, InGoto
  <2>2. svcRead[s] < Asked(s)
    <3>1. pos[s] = Prefix(header[s]) + Len(given[s]) + 1 /\ header[s] # NoHeader
      BY <1>4 DEF InWriteFails, InGoto
    <3>2. /\ Asked(s) = sent[s] - Prefix(header[s])
          /\ pos[s] \in Nat /\ lost[s] \in Nat /\ sent[s] \in Nat
          /\ pos[s] + lost[s] <= sent[s]
      BY <3>1, HeaderAt
    <3>4. svcRead[s] \in Nat /\ svcRead[s] <= Len(given[s])
      OBVIOUS
    <3>3. Len(given[s]) \in Nat
      OBVIOUS
    <3> HIDE DEF TypeOK, Types, Local, Asked
    <3> QED BY <2>1, <3>1, <3>2, <3>3, <3>4
  <2> QED BY <1>4, <2>1, <2>2 DEF InWriteFails, InGoto
<1>5. CASE InCloseTarget(s)
  BY <1>5 DEF InCloseTarget, InGoto
<1>6. CASE InCloseStream(s)
  BY <1>6 DEF InCloseStream, InGoto
<1> QED BY <1>1, <1>2, <1>3, <1>4, <1>5, <1>6

(* What the copier to the stream makes of its own stream.                  *)
LEMMA OutHere ==
    ASSUME TypeOK, TypeOK', NEW s \in Streams, Local(s),
           OutRead(s) \/ OutReadEnds(s) \/ OutWrite(s) \/ OutWriteFails(s)
           \/ OutCloseTarget(s) \/ OutCloseStream(s)
    PROVE  Local(s)'
<1> USE ConstantsAssumption, TypesAt DEF TypeOK, Types, Local, Headed, Handling,
  Counting, Ending, Ended, Understood, Unlinked, Asked, InputOver
<1>1. CASE OutRead(s)
  BY <1>1 DEF OutRead, OutGoto
<1>2. CASE OutReadEnds(s)
  <2>1. header[s] \in Headers /\ Prefix(header[s]) \in Nat /\ Len(given[s]) <= Asked(s)
    BY <1>2, Units DEF OutReadEnds, OutGoto
  <2> QED BY <1>2, <2>1 DEF OutReadEnds, OutGoto, ServiceOver
<1>3. CASE OutWrite(s)
  BY <1>3 DEF OutWrite, OutGoto
<1>4. CASE OutWriteFails(s)
  BY <1>4 DEF OutWriteFails, OutGoto
<1>5. CASE OutCloseTarget(s)
  BY <1>5 DEF OutCloseTarget, OutGoto
<1>6. CASE OutCloseStream(s)
  BY <1>6 DEF OutCloseStream, OutGoto
<1> QED BY <1>1, <1>2, <1>3, <1>4, <1>5, <1>6

(* What the service makes of its own stream.                               *)
LEMMA ServiceHere ==
    ASSUME TypeOK, TypeOK', NEW s \in Streams, Local(s),
           ServiceReads(s) \/ ServiceSends(s) \/ ServiceEnds(s)
    PROVE  Local(s)'
<1> USE ConstantsAssumption, TypesAt DEF TypeOK, Types, Local, Headed, Handling,
  Counting, Ending, Ended, Understood, Unlinked, Asked, InputOver
<1>1. CASE ServiceReads(s)
  BY <1>1 DEF ServiceReads
<1>2. CASE ServiceSends(s)
  BY <1>2 DEF ServiceSends
<1>3. CASE ServiceEnds(s)
  BY <1>3 DEF ServiceEnds
<1> QED BY <1>1, <1>2, <1>3

(* The opener leaves the other streams alone.                              *)
LEMMA OpenerElsewhere ==
    ASSUME TypeOK, NEW s \in Streams, NEW q \in Streams, q # s, Local(q),
           Open(s) \/ (\E h \in Headers : SendHeader(s, h)) \/ Send(s)
           \/ OpenerReads(s) \/ CloseStream(s) \/ HandlerPanics(s) \/ Break
    PROVE  Local(q)'
<1> USE DEF TypeOK, Local, Headed, Handling, Counting, Ending, Ended, Understood,
  Unlinked, Asked, InputOver
<1>1. CASE Open(s)
  BY <1>1 DEF Open
<1>2. ASSUME NEW h \in Headers, SendHeader(s, h)  PROVE Local(q)'
  <2>1. /\ UNCHANGED <<opener[q], header[q], sent[q], session, lost, pos, closed, hpc, need, parsed,
                       inCopy, outCopy, target, given, service, svcRead, svcSent, tpos, back>>
    BY <1>2 DEF SendHeader
  <2> QED BY <2>1
<1>3. CASE Send(s)
  BY <1>3 DEF Send
<1>4. CASE OpenerReads(s)
  BY <1>4 DEF OpenerReads
<1>5. CASE CloseStream(s)
  BY <1>5 DEF CloseStream
<1>6. CASE HandlerPanics(s)
  <2>1. CASE SessionBreaks
    BY <1>6, <2>1 DEF HandlerPanics, SessionBreaks
  <2>2. CASE UNCHANGED <<session, lost>>
    BY <1>6, <2>2 DEF HandlerPanics
  <2> QED BY <1>6, <2>1, <2>2 DEF HandlerPanics
<1>7. CASE Break
  BY <1>7 DEF Break, SessionBreaks
<1> QED BY <1>1, <1>2, <1>3, <1>4, <1>5, <1>6, <1>7

(* The goroutine of handleStream leaves the other streams alone.           *)
LEMMA HandlerElsewhere ==
    ASSUME TypeOK, NEW s \in Streams, NEW q \in Streams, q # s, Local(q),
           Accept(s) \/ ReadLength(s) \/ ReadHeader(s) \/ HeaderCut(s) \/ Dial(s)
           \/ DialFails(s) \/ CopyReturns(s) \/ HandlerReturns(s)
    PROVE  Local(q)'
<1> USE DEF TypeOK, Local, Headed, Handling, Counting, Ending, Ended, Understood,
  Unlinked, Asked, InputOver
<1>1. CASE Accept(s)
  BY <1>1 DEF Accept, HandlerGoto
<1>2. CASE ReadLength(s)
  BY <1>2 DEF ReadLength, HandlerGoto
<1>3. CASE ReadHeader(s)
  BY <1>3 DEF ReadHeader, HandlerGoto
<1>4. CASE HeaderCut(s)
  <2>1. UNCHANGED <<opener, header, sent, session, lost, pos, closed, hpc[q], need, parsed,
                    inCopy, outCopy, target, given, service, svcRead, svcSent, tpos, back>>
    BY <1>4 DEF HeaderCut, HandlerGoto
  <2> QED BY <2>1
<1>5. CASE Dial(s)
  BY <1>5 DEF Dial
<1>6. CASE DialFails(s)
  BY <1>6 DEF DialFails, HandlerGoto
<1>7. CASE CopyReturns(s)
  BY <1>7 DEF CopyReturns, HandlerGoto
<1>8. CASE HandlerReturns(s)
  BY <1>8 DEF HandlerReturns, HandlerGoto
<1> QED BY <1>1, <1>2, <1>3, <1>4, <1>5, <1>6, <1>7, <1>8

(* The copier from the stream leaves the other streams alone.              *)
LEMMA InElsewhere ==
    ASSUME TypeOK, NEW s \in Streams, NEW q \in Streams, q # s, Local(q),
           InRead(s) \/ InReadEnds(s) \/ InWrite(s) \/ InWriteFails(s)
           \/ InCloseTarget(s) \/ InCloseStream(s)
    PROVE  Local(q)'
<1> USE DEF TypeOK, Local, Headed, Handling, Counting, Ending, Ended, Understood,
  Unlinked, Asked, InputOver
<1>1. CASE InRead(s)
  BY <1>1 DEF InRead, InGoto
<1>2. CASE InReadEnds(s)
  BY <1>2 DEF InReadEnds, InGoto
<1>3. CASE InWrite(s)
  BY <1>3 DEF InWrite, InGoto
<1>4. CASE InWriteFails(s)
  BY <1>4 DEF InWriteFails, InGoto
<1>5. CASE InCloseTarget(s)
  BY <1>5 DEF InCloseTarget, InGoto
<1>6. CASE InCloseStream(s)
  BY <1>6 DEF InCloseStream, InGoto
<1> QED BY <1>1, <1>2, <1>3, <1>4, <1>5, <1>6

(* The copier to the stream leaves the other streams alone.                *)
LEMMA OutElsewhere ==
    ASSUME TypeOK, NEW s \in Streams, NEW q \in Streams, q # s, Local(q),
           OutRead(s) \/ OutReadEnds(s) \/ OutWrite(s) \/ OutWriteFails(s)
           \/ OutCloseTarget(s) \/ OutCloseStream(s)
    PROVE  Local(q)'
<1> USE DEF TypeOK, Local, Headed, Handling, Counting, Ending, Ended, Understood,
  Unlinked, Asked, InputOver
<1>1. CASE OutRead(s)
  BY <1>1 DEF OutRead, OutGoto
<1>2. CASE OutReadEnds(s)
  BY <1>2 DEF OutReadEnds, OutGoto, ServiceOver
<1>3. CASE OutWrite(s)
  BY <1>3 DEF OutWrite, OutGoto
<1>4. CASE OutWriteFails(s)
  BY <1>4 DEF OutWriteFails, OutGoto
<1>5. CASE OutCloseTarget(s)
  BY <1>5 DEF OutCloseTarget, OutGoto
<1>6. CASE OutCloseStream(s)
  BY <1>6 DEF OutCloseStream, OutGoto
<1> QED BY <1>1, <1>2, <1>3, <1>4, <1>5, <1>6

(* The service leaves the other streams alone.                             *)
LEMMA ServiceElsewhere ==
    ASSUME TypeOK, NEW s \in Streams, NEW q \in Streams, q # s, Local(q),
           ServiceReads(s) \/ ServiceSends(s) \/ ServiceEnds(s)
    PROVE  Local(q)'
<1> USE DEF TypeOK, Local, Headed, Handling, Counting, Ending, Ended, Understood,
  Unlinked, Asked, InputOver
<1>1. CASE ServiceReads(s)
  BY <1>1 DEF ServiceReads
<1>2. CASE ServiceSends(s)
  BY <1>2 DEF ServiceSends
<1>3. CASE ServiceEnds(s)
  BY <1>3 DEF ServiceEnds
<1> QED BY <1>1, <1>2, <1>3

-----------------------------------------------------------------------------
(* The invariant.                                                          *)

(* Before the first stream there is nothing.                               *)
LEMMA Initially == Init => Inv
BY ConstantsAssumption DEF Init, Inv, TypeOK, Copier, Local, Headed, Handling, Counting, Ending,
   Ended, Understood, Unlinked, Asked

(* A step of one stream keeps Inv.                                         *)
LEMMA StreamKept ==
    ASSUME Inv, NEW s \in Streams, OpenerStep(s) \/ ClientStep(s) \/ ServiceStep(s)
    PROVE  Inv'
<1>1. TypeOK /\ Local(s)
  BY DEF Inv
<1>2. TypeOK'
  BY <1>1, OpenerTypes, HandlerTypes, InTypes, OutTypes, ServiceTypes
  DEF OpenerStep, ClientStep, HandlerStep, InStep, OutStep, ServiceStep
<1>3. Local(s)'
  BY <1>1, <1>2, OpenerHere, HandlerHere, InHere, OutHere, ServiceHere
  DEF OpenerStep, ClientStep, HandlerStep, InStep, OutStep, ServiceStep
<1>4. ASSUME NEW q \in Streams, q # s  PROVE Local(q)'
  <2>1. Local(q)
    BY DEF Inv
  <2> QED
    BY <1>1, <1>4, <2>1, OpenerElsewhere, HandlerElsewhere, InElsewhere, OutElsewhere,
       ServiceElsewhere
    DEF OpenerStep, ClientStep, HandlerStep, InStep, OutStep, ServiceStep
<1> QED BY <1>2, <1>3, <1>4 DEF Inv

(* Inv is inductive.                                                       *)
LEMMA Preserved == Inv /\ [Next]_vars => Inv'
<1> SUFFICES ASSUME Inv, [Next]_vars  PROVE Inv'
  OBVIOUS
<1>1. CASE UNCHANGED vars
  BY <1>1 DEF vars, Inv, TypeOK, Local, Headed, Handling, Counting, Ending, Ended, Understood,
     Unlinked, Asked, InputOver, Prefix
<1>2. CASE Break /\ Streams = {}
  BY <1>2, ConstantsAssumption DEF Inv, Break, SessionBreaks, TypeOK
<1>3. CASE Break /\ Streams # {}
  <2>1. ASSUME NEW s \in Streams  PROVE TypeOK' /\ Local(s)'
    <3>1. TypeOK /\ Local(s)
      BY DEF Inv
    <3>2. TypeOK'
      BY <1>3, <3>1, OpenerTypes
    <3> QED BY <1>3, <3>1, <3>2, OpenerHere
  <2> QED BY <1>3, <2>1 DEF Inv
<1> QED BY <1>1, <1>2, <1>3, StreamKept DEF Next

(* Inv holds in every reachable state, whatever the constants.             *)
THEOREM Invariant == Spec => []Inv
BY Initially, Preserved, PTL DEF Spec

(* The variables keep their types.                                         *)
THEOREM TypeCorrect == Spec => []TypeOK
<1>1. Inv => TypeOK  BY DEF Inv
<1> QED BY Invariant, <1>1, PTL

(* A header of any size that two bytes can announce is dialled as written. *)
THEOREM HeadersUnderstoodAlways == Spec => []HeadersUnderstood
<1>1. Inv => HeadersUnderstood
  BY DEF Inv, Local, Understood, HeadersUnderstood
<1> QED BY Invariant, <1>1, PTL

(* A handler that has returned has left no connection and no copier.       *)
THEOREM HandlerReleasesAlways == Spec => []HandlerReleases
<1>1. Inv => HandlerReleases
  BY DEF Inv, Local, Handling, HandlerReleases
<1> QED BY Invariant, <1>1, PTL

(* An answer to a request that was read to its end is not cut short.       *)
THEOREM AnswerCompleteAlways == Spec => []AnswerComplete
<1>1. Inv => AnswerComplete
  <2> SUFFICES ASSUME Inv, NEW s \in Streams, closed[s], session = "up",
                      opener[s] = "writing", svcRead[s] = Asked(s)
               PROVE  Len(back[s]) = svcSent[s]
    BY DEF AnswerComplete
  <2>1. Ending(s) /\ Headed(s)
    BY DEF Inv, Local
  <2>2. ~InputOver(s) /\ Ended(s)
    BY DEF InputOver, Ended
  <2>3. ~(svcRead[s] < Asked(s))
    <3>1. svcRead[s] \in Nat
      BY DEF Inv, TypeOK
    <3> QED BY <3>1
  <2> QED BY <2>1, <2>2, <2>3 DEF Ending
<1> QED BY Invariant, <1>1, PTL

-----------------------------------------------------------------------------
(* The refinement.                                                         *)

(* What a step keeps of the abstract state.                                *)
AskedKept == \A q \in Streams : Asked(q)' = Asked(q)
PhaseKept == \A q \in Streams : PhaseOf(q)' = PhaseOf(q)

(* A step that keeps all of it is a stutter.                               *)
LEMMA Stutter ==
    ASSUME AskedKept, PhaseKept, UNCHANGED <<given, svcSent, back>>
    PROVE  UNCHANGED ForwardingRelay!vars
BY DEF AskedKept, PhaseKept, ForwardingRelay!vars

(* The phase of a stream.                                                  *)
LEMMA Phases ==
    ASSUME NEW s \in Streams
    PROVE  /\ hpc[s] = "done" => PhaseOf(s) = "over"
           /\ hpc[s] # "done" /\ target[s] = "none" => PhaseOf(s) = "new"
           /\ hpc[s] # "done" /\ target[s] # "none" => PhaseOf(s) = "linked"
BY DEF PhaseOf

(* A step that writes no data, links no target and ends no handler is a    *)
(* stutter.                                                                *)
LEMMA OpenerStutters ==
    ASSUME Inv, NEW s \in Streams,
           Open(s) \/ (\E h \in Headers : SendHeader(s, h)) \/ OpenerReads(s)
           \/ CloseStream(s) \/ HandlerPanics(s) \/ Break
    PROVE  UNCHANGED ForwardingRelay!vars
<1>1. UNCHANGED <<hpc, target, given, svcSent, back>>
  BY DEF Open, SendHeader, OpenerReads, CloseStream, HandlerPanics, Break
<1>2. PhaseKept
  BY <1>1 DEF PhaseKept, PhaseOf
<1>3. AskedKept
  <2>1. CASE UNCHANGED <<header, sent>>
    BY <2>1 DEF AskedKept, Asked, Prefix
  <2>2. ASSUME NEW h \in Headers, SendHeader(s, h), ~(HeaderSize[h] > MaxHeader)
        PROVE  AskedKept
    <3>1. /\ header' = [header EXCEPT ![s] = h] /\ sent' = [sent EXCEPT ![s] = Prefix(h)]
          /\ opener[s] = "open"
      BY <2>2 DEF SendHeader
    <3>2. header[s] = NoHeader /\ header \in [Streams -> Headers \cup {NoHeader}]
          /\ sent \in [Streams -> Nat] /\ Prefix(h) \in Nat /\ h # NoHeader
      BY <3>1, Units, ConstantsAssumption DEF Inv, TypeOK, Local, Headed
    <3>3. header'[s] = h /\ sent'[s] = Prefix(h)
      BY <3>1, <3>2
    <3>4. Asked(s) = 0 /\ Asked(s)' = 0
      <4>1. Asked(s)' = Prefix(h) - Prefix(h)
        BY <3>2, <3>3 DEF Asked, Prefix
      <4> QED BY <3>2, <4>1 DEF Asked
    <3>5. ASSUME NEW q \in Streams, q # s  PROVE Asked(q)' = Asked(q)
      <4>1. header'[q] = header[q] /\ sent'[q] = sent[q]
        BY <3>1, <3>2, <3>5
      <4> QED BY <4>1 DEF Asked, Prefix
    <3> QED BY <3>4, <3>5 DEF AskedKept
  <2> QED
    BY <2>1, <2>2 DEF Open, SendHeader, OpenerReads, CloseStream, HandlerPanics, Break
<1> QED BY <1>1, <1>2, <1>3, Stutter

(* So do the steps of handleStream before the dial and after the copy.     *)
LEMMA HandlerStutters ==
    ASSUME Inv, NEW s \in Streams,
           Accept(s) \/ ReadLength(s) \/ ReadHeader(s) \/ HeaderCut(s) \/ DialFails(s)
           \/ CopyReturns(s)
    PROVE  UNCHANGED ForwardingRelay!vars
<1>1. UNCHANGED <<header, sent, target, given, svcSent, back>>
  BY DEF Accept, ReadLength, ReadHeader, HeaderCut, DialFails, CopyReturns, HandlerGoto
<1>2. AskedKept
  BY <1>1 DEF AskedKept, Asked, Prefix
<1>3. ASSUME NEW q \in Streams  PROVE (hpc'[q] = "done") <=> (hpc[q] = "done")
  <2>1. hpc[s] # "done" /\ hpc'[s] # "done"
    <3>1. hpc \in [Streams -> {"none", "length", "header", "dial", "copy", "ending", "done"}]
      BY DEF Inv, TypeOK
    <3> QED
      BY <3>1 DEF Accept, ReadLength, ReadHeader, HeaderCut, DialFails, CopyReturns, HandlerGoto
  <2>2. q # s => hpc'[q] = hpc[q]
    <3>1. hpc \in [Streams -> {"none", "length", "header", "dial", "copy", "ending", "done"}]
      BY DEF Inv, TypeOK
    <3> QED
      BY <3>1 DEF Accept, ReadLength, ReadHeader, HeaderCut, DialFails, CopyReturns, HandlerGoto
  <2> QED BY <2>1, <2>2
<1>4. PhaseKept
  BY <1>1, <1>3 DEF PhaseKept, PhaseOf
<1> QED BY <1>1, <1>2, <1>4, Stutter

(* So do the copiers' reads, failures and closes, and the service's.       *)
LEMMA CopiersStutter ==
    ASSUME Inv, NEW s \in Streams,
           InRead(s) \/ InReadEnds(s) \/ InWriteFails(s) \/ InCloseTarget(s) \/ InCloseStream(s)
           \/ OutRead(s) \/ OutReadEnds(s) \/ OutWriteFails(s) \/ OutCloseTarget(s)
           \/ OutCloseStream(s) \/ ServiceReads(s) \/ ServiceEnds(s)
    PROVE  UNCHANGED ForwardingRelay!vars
<1>1. UNCHANGED <<header, sent, hpc, given, svcSent, back>>
  BY DEF InRead, InReadEnds, InWriteFails, InCloseTarget, InCloseStream, InGoto,
     OutRead, OutReadEnds, OutWriteFails, OutCloseTarget, OutCloseStream, OutGoto,
     ServiceReads, ServiceEnds
<1>2. AskedKept
  BY <1>1 DEF AskedKept, Asked, Prefix
<1>3. \A q \in Streams : (target'[q] = "none") <=> (target[q] = "none")
  <2>1. CASE UNCHANGED target
    BY <2>1
  <2>2. CASE /\ target' = [target EXCEPT ![s] = "closed"]
             /\ inCopy[s] # "none" \/ outCopy[s] # "none"
    <3>1. target[s] # "none" /\ target \in [Streams -> {"none", "open", "closed"}]
      BY <2>2 DEF Inv, TypeOK, Local, Handling, Unlinked
    <3> QED BY <2>2, <3>1
  <2> QED
    BY <2>1, <2>2
    DEF InRead, InReadEnds, InWriteFails, InCloseTarget, InCloseStream, InGoto,
        OutRead, OutReadEnds, OutWriteFails, OutCloseTarget, OutCloseStream, OutGoto,
        ServiceReads, ServiceEnds
<1>4. PhaseKept
  BY <1>1, <1>3 DEF PhaseKept, PhaseOf
<1> QED BY <1>1, <1>2, <1>4, Stutter

(* The opener asks.                                                        *)
LEMMA SendAsks ==
    ASSUME Inv, NEW s \in Streams, Send(s)
    PROVE  ForwardingRelay!Next
<1>1. /\ header[s] \in Headers /\ header[s] # NoHeader /\ Prefix(header[s]) \in Nat
      /\ sent \in [Streams -> Nat]
  BY Units, ConstantsAssumption DEF Inv, TypeOK, Local, Headed, Send
<1>2. /\ sent' = [sent EXCEPT ![s] = sent[s] + 1]
      /\ UNCHANGED <<header, hpc, target, given, svcSent, back>>
  BY DEF Send
<1>3. Asked(s)' = Asked(s) + 1
  <2>1. sent'[s] = sent[s] + 1 /\ sent[s] \in Nat
    BY <1>1, <1>2
  <2> QED BY <1>1, <1>2, <2>1 DEF Asked, Prefix
<1>4. ASSUME NEW q \in Streams, q # s  PROVE Asked(q)' = Asked(q)
  BY <1>1, <1>2, <1>4 DEF Asked, Prefix
<1>5. [q \in Streams |-> Asked(q)'] = [[q \in Streams |-> Asked(q)] EXCEPT ![s] = @ + 1]
  BY <1>3, <1>4
<1>6. [q \in Streams |-> PhaseOf(q)'] = [q \in Streams |-> PhaseOf(q)]
  BY <1>2 DEF PhaseOf
<1>7. ForwardingRelay!Ask(s)
  BY <1>2, <1>5, <1>6 DEF ForwardingRelay!Ask
<1> QED BY <1>7 DEF ForwardingRelay!Next

(* The service answers.                                                    *)
LEMMA ServiceSendsAnswers ==
    ASSUME Inv, NEW s \in Streams, ServiceSends(s)
    PROVE  ForwardingRelay!Next
<1>1. /\ UNCHANGED <<header, sent, hpc, target, given, back>>
      /\ svcSent' = [svcSent EXCEPT ![s] = @ + 1] /\ service[s] = "open"
  BY DEF ServiceSends
<1>2. /\ [q \in Streams |-> Asked(q)'] = [q \in Streams |-> Asked(q)]
      /\ [q \in Streams |-> PhaseOf(q)'] = [q \in Streams |-> PhaseOf(q)]
  BY <1>1 DEF Asked, Prefix, PhaseOf
<1>3. target[s] # "none"
  BY <1>1 DEF Inv, Local, Counting
<1>4. PhaseOf(s) # "new"
  BY <1>3, Phases
<1>5. ForwardingRelay!Answer(s)
  BY <1>1, <1>2, <1>4 DEF ForwardingRelay!Answer
<1> QED BY <1>5 DEF ForwardingRelay!Next

(* The copier from the stream gives the service the next chunk.            *)
LEMMA InWriteTakes ==
    ASSUME Inv, NEW s \in Streams, InWrite(s)
    PROVE  ForwardingRelay!Next
<1>1. /\ UNCHANGED <<header, sent, hpc, target, svcSent, back>>
      /\ given' = [given EXCEPT ![s] = Append(@, Written(s, pos[s]))]
      /\ inCopy[s] = "write" /\ target[s] = "open"
  BY DEF InWrite, InGoto
<1>2. /\ [q \in Streams |-> Asked(q)'] = [q \in Streams |-> Asked(q)]
      /\ [q \in Streams |-> PhaseOf(q)'] = [q \in Streams |-> PhaseOf(q)]
  BY <1>1 DEF Asked, Prefix, PhaseOf
<1>3. PhaseOf(s) = "linked"
  <2>1. hpc[s] # "done"
    BY <1>1 DEF Inv, Local, Handling
  <2> QED BY <1>1, <2>1, Phases
<1>4. /\ header[s] # NoHeader /\ header[s] \in Headers /\ Prefix(header[s]) \in Nat
      /\ pos[s] = Prefix(header[s]) + Len(given[s]) + 1 /\ Len(given[s]) \in Nat
      /\ pos[s] \in Nat /\ lost[s] \in Nat /\ sent[s] \in Nat /\ pos[s] + lost[s] <= sent[s]
  <2>1. header[s] # NoHeader /\ pos[s] = Prefix(header[s]) + Len(given[s]) + 1
    BY <1>1 DEF Inv, Local, Counting
  <2>2. TypeOK /\ Types(s)
    BY TypesAt DEF Inv
  <2>3. header[s] \in Headers /\ Len(given[s]) \in Nat
    BY <2>1, <2>2 DEF Types
  <2> QED BY <2>1, <2>2, <2>3, Units, ConstantsAssumption DEF Types
<1>5. Len(given[s]) < Asked(s)
  BY <1>4 DEF Asked
<1>6. Written(s, pos[s]) = ForwardingRelay!Chunk(Len(given[s]) + 1)
  <2>1. pos[s] > Prefix(header[s]) /\ pos[s] - Prefix(header[s]) = Len(given[s]) + 1
    BY <1>4
  <2>2. Written(s, pos[s]) = Chunk(pos[s] - Prefix(header[s]))
    BY <1>4, <2>1, Units, ConstantsAssumption DEF Written
  <2> QED BY <2>1, <2>2 DEF Chunk, ForwardingRelay!Chunk
<1>7. given' = [given EXCEPT ![s] = Append(@, ForwardingRelay!Chunk(Len(@) + 1))]
  BY <1>1, <1>6
<1>8. ForwardingRelay!Take(s)
  BY <1>1, <1>2, <1>3, <1>5, <1>7 DEF ForwardingRelay!Take
<1> QED BY <1>8 DEF ForwardingRelay!Next

(* The copier to the stream gives the opener the next chunk.               *)
LEMMA OutWriteReturns ==
    ASSUME Inv, NEW s \in Streams, OutWrite(s)
    PROVE  ForwardingRelay!Next
<1>1. /\ UNCHANGED <<header, sent, hpc, target, given, svcSent>>
      /\ back' = [back EXCEPT ![s] = Append(@, Chunk(tpos[s]))]
      /\ outCopy[s] = "write"
  BY DEF OutWrite, OutGoto
<1>2. /\ [q \in Streams |-> Asked(q)'] = [q \in Streams |-> Asked(q)]
      /\ [q \in Streams |-> PhaseOf(q)'] = [q \in Streams |-> PhaseOf(q)]
  BY <1>1 DEF Asked, Prefix, PhaseOf
<1>3. PhaseOf(s) = "linked"
  <2>1. hpc[s] # "done" /\ target[s] # "none"
    BY <1>1 DEF Inv, Local, Handling, Unlinked
  <2> QED BY <2>1, Phases
<1>4. tpos[s] = Len(back[s]) + 1
  BY <1>1 DEF Inv, Local, Counting
<1>5. Len(back[s]) < svcSent[s]
  <2>1. Types(s)
    BY TypesAt DEF Inv
  <2>2. tpos[s] <= svcSent[s] /\ svcSent[s] \in Nat /\ Len(back[s]) \in Nat
    BY <2>1 DEF Types
  <2> QED BY <1>4, <2>2
<1>6. back' = [back EXCEPT ![s] = Append(@, ForwardingRelay!Chunk(Len(@) + 1))]
  BY <1>1, <1>4 DEF Chunk, ForwardingRelay!Chunk
<1>7. ForwardingRelay!Return(s)
  BY <1>1, <1>2, <1>3, <1>5, <1>6 DEF ForwardingRelay!Return
<1> QED BY <1>7 DEF ForwardingRelay!Next

(* The dial links the stream with the service.                             *)
LEMMA DialLinks ==
    ASSUME Inv, NEW s \in Streams, Dial(s)
    PROVE  ForwardingRelay!Next
<1>1. /\ UNCHANGED <<header, sent, given, svcSent, back>>
      /\ hpc[s] = "dial" /\ hpc' = [hpc EXCEPT ![s] = "copy"]
      /\ target' = [target EXCEPT ![s] = "open"]
  BY DEF Dial
<1>2. /\ hpc \in [Streams -> {"none", "length", "header", "dial", "copy", "ending", "done"}]
      /\ target \in [Streams -> {"none", "open", "closed"}] /\ target[s] = "none"
  BY <1>1 DEF Inv, TypeOK, Local, Handling
<1>3. PhaseOf(s) = "new"
  BY <1>1, <1>2, Phases
<1>4. PhaseOf(s)' = "linked"
  <2>1. hpc'[s] = "copy" /\ target'[s] = "open"
    BY <1>1, <1>2
  <2> QED BY <2>1 DEF PhaseOf
<1>5. ASSUME NEW q \in Streams, q # s  PROVE PhaseOf(q)' = PhaseOf(q)
  <2>1. hpc'[q] = hpc[q] /\ target'[q] = target[q]
    BY <1>1, <1>2, <1>5
  <2> QED BY <2>1 DEF PhaseOf
<1>6. /\ [q \in Streams |-> Asked(q)'] = [q \in Streams |-> Asked(q)]
      /\ [q \in Streams |-> PhaseOf(q)'] =
            [[q \in Streams |-> PhaseOf(q)] EXCEPT ![s] = "linked"]
  BY <1>1, <1>4, <1>5 DEF Asked, Prefix
<1>7. ForwardingRelay!Link(s)
  BY <1>1, <1>3, <1>6 DEF ForwardingRelay!Link
<1> QED BY <1>7 DEF ForwardingRelay!Next

(* The return of the handler ends the stream.                              *)
LEMMA HandlerReturnsEnds ==
    ASSUME Inv, NEW s \in Streams, HandlerReturns(s)
    PROVE  ForwardingRelay!Next
<1>1. /\ UNCHANGED <<header, sent, given, svcSent, back>>
      /\ hpc[s] = "ending" /\ hpc' = [hpc EXCEPT ![s] = "done"]
      /\ target' = [target EXCEPT ![s] = IF @ = "open" THEN "closed" ELSE @]
  BY DEF HandlerReturns, HandlerGoto
<1>2. /\ hpc \in [Streams -> {"none", "length", "header", "dial", "copy", "ending", "done"}]
      /\ target \in [Streams -> {"none", "open", "closed"}]
  BY DEF Inv, TypeOK
<1>3. PhaseOf(s) # "over"
  BY <1>1, Phases
<1>4. PhaseOf(s)' = "over"
  <2>1. hpc'[s] = "done"
    BY <1>1, <1>2
  <2> QED BY <2>1 DEF PhaseOf
<1>5. ASSUME NEW q \in Streams, q # s  PROVE PhaseOf(q)' = PhaseOf(q)
  <2>1. hpc'[q] = hpc[q] /\ target'[q] = target[q]
    BY <1>1, <1>2, <1>5
  <2> QED BY <2>1 DEF PhaseOf
<1>6. /\ [q \in Streams |-> Asked(q)'] = [q \in Streams |-> Asked(q)]
      /\ [q \in Streams |-> PhaseOf(q)'] = [[q \in Streams |-> PhaseOf(q)] EXCEPT ![s] = "over"]
  BY <1>1, <1>4, <1>5 DEF Asked, Prefix
<1>7. ForwardingRelay!End(s)
  BY <1>1, <1>3, <1>6 DEF ForwardingRelay!End
<1> QED BY <1>7 DEF ForwardingRelay!Next

(* The client's forwarding is a Relay, for any number of streams, headers  *)
(* and chunks: what the service gets is the opener's data and nothing of   *)
(* the header, in order and once, and likewise in the other direction.     *)
THEOREM RelayImplemented == Spec => ImplementsRelay
<1>1. Init => ForwardingRelay!Init
  <2> SUFFICES ASSUME Init  PROVE ForwardingRelay!Init
    OBVIOUS
  <2>1. \A s \in Streams : Asked(s) = 0 /\ PhaseOf(s) = "new"
    BY Phases DEF Init, Asked
  <2> QED BY <2>1 DEF Init, ForwardingRelay!Init
<1>2. Inv /\ [Next]_vars => [ForwardingRelay!Next]_(ForwardingRelay!vars)
  <2> SUFFICES ASSUME Inv, [Next]_vars
               PROVE  ForwardingRelay!Next \/ UNCHANGED ForwardingRelay!vars
    OBVIOUS
  <2>1. CASE UNCHANGED vars
    <3>1. AskedKept /\ PhaseKept
      BY <2>1 DEF vars, AskedKept, PhaseKept, Asked, Prefix, PhaseOf
    <3> QED BY <2>1, <3>1, Stutter DEF vars
  <2>2. CASE Break
    <3>1. AskedKept /\ PhaseKept
      BY <2>2 DEF Break, AskedKept, PhaseKept, Asked, Prefix, PhaseOf
    <3> QED BY <2>2, <3>1, Stutter DEF Break
  <2>3. ASSUME NEW s \in Streams, OpenerStep(s)
        PROVE  ForwardingRelay!Next \/ UNCHANGED ForwardingRelay!vars
    BY <2>3, OpenerStutters, SendAsks DEF OpenerStep
  <2>4. ASSUME NEW s \in Streams, ClientStep(s)
        PROVE  ForwardingRelay!Next \/ UNCHANGED ForwardingRelay!vars
    BY <2>4, HandlerStutters, CopiersStutter, DialLinks, HandlerReturnsEnds, InWriteTakes,
       OutWriteReturns DEF ClientStep, HandlerStep, InStep, OutStep
  <2>5. ASSUME NEW s \in Streams, ServiceStep(s)
        PROVE  ForwardingRelay!Next \/ UNCHANGED ForwardingRelay!vars
    BY <2>5, CopiersStutter, ServiceSendsAnswers DEF ServiceStep
  <2> QED BY <2>1, <2>2, <2>3, <2>4, <2>5 DEF Next
<1> QED BY <1>1, <1>2, Invariant, PTL DEF Spec, ImplementsRelay, ForwardingRelay!Spec
=============================================================================
