--------------------------- MODULE ImClientProofs ---------------------------
(***************************************************************************)
(* Proofs about ImClient, for any callers and any bounds.                  *)
(*                                                                         *)
(* That loops are paired is inductive as it stands.  That a message is     *)
(* accepted once is not: it needs that of all packets in the buffer, on    *)
(* the way and still to be written only one per message carries the        *)
(* current key (OneFresh), and that what Connect repeats was made with an  *)
(* earlier one (Dated).                                                    *)
(***************************************************************************)
EXTENDS ImClient, SequenceTheorems, WellFoundedInduction, TLAPS

\* The initial state.
LEMMA InitPaired == Init => LoopsPaired
  BY DEF Init, LoopsPaired

\* Each step keeps the loops paired: only Handshake starts a heartbeat, and
\* with it the read loop; only StopHeartbeat, which ends the heartbeat,
\* brings the loop back to Connect; a heartbeat that gives up cuts the
\* connection, and only Dial opens one.
LEMMA StepPaired ==
  ASSUME LoopsPaired, [Next]_vars
  PROVE  LoopsPaired'
  <1> USE DEF LoopsPaired, Cut
  <1>1. CASE Dial BY <1>1 DEF Dial
  <1>2. CASE ConnectFails BY <1>2 DEF ConnectFails
  <1>3. CASE Handshake BY <1>3 DEF Handshake
  <1>4. CASE ReadSendack BY <1>4 DEF ReadSendack
  <1>5. CASE ReadOther BY <1>5 DEF ReadOther
  <1>6. CASE ReadFails BY <1>6 DEF ReadFails
  <1>7. CASE LoopTestsFlag BY <1>7 DEF LoopTestsFlag
  <1>8. CASE LoopCloses BY <1>8 DEF LoopCloses
  <1>9. CASE StopHeartbeat BY <1>9 DEF StopHeartbeat
  <1>10. CASE PingTick BY <1>10 DEF PingTick
  <1>11. CASE PingGivesUp BY <1>11 DEF PingGivesUp
  <1>12. CASE DisconnectTests BY <1>12 DEF DisconnectTests
  <1>13. CASE DisconnectCloses BY <1>13 DEF DisconnectCloses
  <1>14. ASSUME NEW c \in Callers,
                \/ SendMessage(c) \/ SendMessageWrites(c) \/ SendMessageFlushes(c)
                \/ SendMessageSync(c) \/ SyncWrites(c) \/ SyncReturns(c)
         PROVE  LoopsPaired'
    <2>1. UNCHANGED connVars
      BY <1>14 DEF SendMessage, SendMessageWrites, SendMessageFlushes, SendMessageSync, SyncWrites, SyncReturns
    <2> QED BY <2>1 DEF connVars
  <1>15. CASE Serve BY <1>15 DEF Serve
  <1>16. CASE Break BY <1>16 DEF Break
  <1>17. CASE Rest \/ UNCHANGED vars BY <1>17 DEF Rest, vars
  <1> QED
    BY <1>1, <1>2, <1>3, <1>4, <1>5, <1>6, <1>7, <1>8, <1>9, <1>10, <1>11,
       <1>12, <1>13, <1>14, <1>15, <1>16, <1>17 DEF Next, LoopStep

\* The read loop and the heartbeat stay paired, for any number of callers,
\* messages and connections (loopConn, loopPing, handleClose).
THEOREM ClientLoopsPaired == Spec => []LoopsPaired
  BY InitPaired, StepPaired, PTL DEF Spec

-----------------------------------------------------------------------------
(* The packets, and the inductive invariant behind NotLost and             *)
(* AcceptedOnce.                                                           *)

Packet == [seq: Seqs, key: 0 .. MaxConns]
PCs == {"idle", "write", "flush", "syncwrite", "await"}

\* What has been written to the current connection and not been served.
Chan == toServer \o rw.buf

\* The types of what the packets pass through.
WireOK ==
    /\ rw \in [buf: Seq(Packet), err: BOOLEAN]
    /\ toServer \in Seq(Packet)
    /\ toClient \in Seq(Seqs)
    /\ sending \in Seq(Packet)
    /\ clientIDGen \in 0 .. MaxSeq
    /\ calls \in [Callers -> [pc: PCs, seq: 0 .. MaxSeq, key: 0 .. MaxConns]]
    /\ accepted \in [Seqs -> Nat]

\* A caller that has a packet to write.
Writing(c) == calls[c].pc \in {"write", "syncwrite"}

\* The key is that of a connection dialled, and older while Connect repeats
\* the list; every packet was made with a key in use so far and has a
\* number given out; callers write different packets.
Dated ==
    /\ key <= conn
    /\ loop = "handshake" => key < conn
    /\ ~alive => toServer = <<>>
    /\ \A i \in DOMAIN sending: sending[i].key <= key /\ sending[i].seq <= clientIDGen
    /\ \A i \in DOMAIN Chan: Chan[i].key <= key /\ Chan[i].seq <= clientIDGen
    /\ \A c \in Callers: calls[c].key <= key /\ calls[c].seq <= clientIDGen
    /\ \A c \in Callers: Writing(c) => calls[c].seq \in Seqs
    /\ \A c, d \in Callers: Writing(c) /\ Writing(d) /\ calls[c].seq = calls[d].seq => c = d

\* A packet with the key of the current connection, in the buffer, on the
\* way or still to be written, is the only one of its message and the
\* message has not been accepted.
OneFresh ==
    /\ \A i, j \in DOMAIN Chan:
          Chan[i].key = conn /\ Chan[j].key = conn /\ Chan[i].seq = Chan[j].seq => i = j
    /\ \A i \in DOMAIN Chan: Chan[i].key = conn => accepted[Chan[i].seq] = 0
    /\ \A c \in Callers: Writing(c) /\ calls[c].key = conn =>
          /\ accepted[calls[c].seq] = 0
          /\ \A i \in DOMAIN Chan: ~(Chan[i].key = conn /\ Chan[i].seq = calls[c].seq)
    /\ \A s \in Seqs: s > clientIDGen => accepted[s] = 0

IndInv == NotLost /\ WireOK /\ Dated /\ OneFresh /\ AcceptedOnce

-----------------------------------------------------------------------------
\* Writing to the buffer: what is written comes behind what was there, or
\* either is lost.
LEMMA SendPacketChan ==
  ASSUME WireOK, ~alive => toServer = <<>>,
         NEW ps \in Seq(Packet), NEW ok \in BOOLEAN, sendPacket(ps, ok)
  PROVE  /\ rw' \in [buf: Seq(Packet), err: BOOLEAN] /\ toServer' \in Seq(Packet)
         /\ ~alive => toServer' = <<>>
         /\ Chan' = Chan \/ Chan' = Chan \o ps \/ Chan' = ps
  <1>a. ASSUME NEW a \in Seq(Packet), NEW b \in Seq(Packet), NEW c \in Seq(Packet)
        PROVE  (a \o b) \o c = a \o (b \o c)
    OBVIOUS
  <1> USE DEF WireOK, Chan
  <1>0. rw.buf \in Seq(Packet) /\ toServer \in Seq(Packet) OBVIOUS
  <1>1. CASE rw.err /\ ~ok /\ UNCHANGED rwVars BY <1>1 DEF rwVars
  <1>2. CASE rw' = [rw EXCEPT !.buf = @ \o ps] /\ UNCHANGED toServer
    <2>1. rw'.buf = rw.buf \o ps BY <1>2
    <2>2. (toServer \o rw.buf) \o ps = toServer \o (rw.buf \o ps)
      BY <1>0, <1>a
    <2>3. Chan' = Chan \o ps BY <1>2, <2>1, <2>2, Zenon
    <2>4. rw.buf \o ps \in Seq(Packet) BY <1>0, ConcatProperties
    <2> QED BY <1>2, <2>1, <2>3, <2>4
  <1>3. CASE PutOut(ps, ok)
    <2>1. CASE toServer' = toServer \o rw.buf /\ rw' = [rw EXCEPT !.buf = ps] /\ alive
      <3>1. toServer \o rw.buf \in Seq(Packet) BY <1>0, ConcatProperties
      <3> QED BY <2>1, <3>1
    <2>2. CASE ~alive /\ rw' = [rw EXCEPT !.buf = ps] /\ UNCHANGED toServer
      <3>1. <<>> \o ps = ps BY ConcatEmptySeq
      <3> QED BY <2>2, <3>1
    <2>3. CASE ~alive /\ rw' = [rw EXCEPT !.err = TRUE] /\ UNCHANGED toServer
      BY <2>3
    <2> QED BY <1>3, <2>1, <2>2, <2>3 DEF PutOut
  <1> QED BY <1>1, <1>2, <1>3 DEF sendPacket

\* A flush adds nothing.
LEMMA FlushChan ==
  ASSUME WireOK, ~alive => toServer = <<>>, NEW ok \in BOOLEAN, Flush(ok)
  PROVE  /\ rw' \in [buf: Seq(Packet), err: BOOLEAN] /\ toServer' \in Seq(Packet)
         /\ ~alive => toServer' = <<>>
         /\ Chan' = Chan \/ Chan' = <<>>
  <1>1. <<>> \in Seq(Packet) OBVIOUS
  <1>2. sendPacket(<<>>, ok) BY DEF Flush, sendPacket
  <1>3. Chan \in Seq(Packet) BY ConcatProperties DEF WireOK, Chan
  <1>4. Chan \o <<>> = Chan BY <1>3, ConcatEmptySeq
  <1> QED BY <1>1, <1>2, <1>4, SendPacketChan

\* The initial state.
LEMMA InitInd == Init => IndInv
  <1> SUFFICES ASSUME Init PROVE IndInv OBVIOUS
  <1> USE BoundsAssumption DEF Init
  <1>1. Chan = <<>> BY ConcatEmptySeq DEF Chan, NewRW
  <1>2. NotLost
    <2>1. alive \in BOOLEAN /\ connected \in BOOLEAN BY Zenon
    <2>2. TypeOK BY <2>1 DEF TypeOK
    <2> QED BY <2>2 DEF NotLost
  <1>3. WireOK BY DEF WireOK, NewRW, Idle, PCs
  <1>4. Dated BY <1>1 DEF Dated, Writing, Idle
  <1>5. OneFresh BY <1>1 DEF OneFresh, Writing, Idle
  <1>6. AcceptedOnce BY DEF AcceptedOnce
  <1> QED BY <1>2, <1>3, <1>4, <1>5, <1>6 DEF IndInv

\* The variables that the packets of a step touch.
packetVars == <<conn, key, rw, toServer, toClient, sending, calls, clientIDGen,
                handed, acked, accepted>>

\* Steps that only move the loops or the user's Disconnect.
LEMMA MoveStep ==
  ASSUME IndInv, TypeOK', UNCHANGED <<packetVars, alive>>,
         loop' = "handshake" => loop = "handshake"
  PROVE  IndInv'
  <1> USE DEF IndInv, packetVars
  <1>1. NotLost' BY DEF NotLost
  <1>2. WireOK' BY DEF WireOK
  <1>3. Chan' = Chan BY DEF Chan
  <1>4. Dated' BY <1>3 DEF Dated, Writing
  <1>5. OneFresh' BY <1>3 DEF OneFresh, Writing
  <1> QED BY <1>1, <1>2, <1>4, <1>5 DEF AcceptedOnce

\* A step after which less is written and not served: what is left keeps its
\* order.
LEMMA FewerStep ==
  ASSUME IndInv, TypeOK', UNCHANGED <<conn, key, sending, clientIDGen, handed, acked, accepted>>,
         loop' = "handshake" => loop = "handshake",
         rw' \in [buf: Seq(Packet), err: BOOLEAN], toServer' \in Seq(Packet),
         toClient' \in Seq(Seqs), ~alive' => toServer' = <<>>,
         calls' \in [Callers -> [pc: PCs, seq: 0 .. MaxSeq, key: 0 .. MaxConns]],
         \A c \in Callers: calls'[c] = calls[c] \/ (~Writing(c)' /\ calls'[c].key <= key
                                                                /\ calls'[c].seq <= clientIDGen),
         NEW n \in Nat, \A i \in DOMAIN Chan': i + n \in DOMAIN Chan /\ Chan'[i] = Chan[i + n]
  PROVE  IndInv'
  <1> USE DEF IndInv
  <1>1. NotLost' BY DEF NotLost
  <1>2. WireOK' BY DEF WireOK
  <1>3. \A c \in Callers: Writing(c)' => Writing(c) /\ calls'[c] = calls[c] BY DEF Writing
  <1>4. Dated' BY <1>3 DEF Dated
  <1>5. OneFresh'
    <2>0. Chan' \in Seq(Packet) BY ConcatProperties DEF Chan
    <2>1. \A i, j \in DOMAIN Chan':
            Chan'[i].key = conn /\ Chan'[j].key = conn /\ Chan'[i].seq = Chan'[j].seq => i = j
      BY <2>0 DEF OneFresh
    <2>2. \A i \in DOMAIN Chan': Chan'[i].key = conn => accepted[Chan'[i].seq] = 0
      BY DEF OneFresh
    <2>3. \A c \in Callers: Writing(c)' /\ calls'[c].key = conn =>
            /\ accepted[calls'[c].seq] = 0
            /\ \A i \in DOMAIN Chan': ~(Chan'[i].key = conn /\ Chan'[i].seq = calls'[c].seq)
      BY <1>3 DEF OneFresh
    <2> QED BY <2>1, <2>2, <2>3 DEF OneFresh
  <1> QED BY <1>1, <1>2, <1>4, <1>5 DEF AcceptedOnce

\* Every step keeps the types.
LEMMA StepType ==
  ASSUME TypeOK, WireOK, [Next]_vars
  PROVE  TypeOK'
  <1> USE BoundsAssumption, ReconnAssumption DEF TypeOK, Cut, histVars, callVars
  <1>1. CASE Dial BY <1>1 DEF Dial
  <1>2. CASE ConnectFails BY <1>2 DEF ConnectFails
  <1>3. CASE Handshake BY <1>3 DEF Handshake
  <1>4. CASE ReadSendack BY <1>4 DEF ReadSendack, Trigger
  <1>5. CASE ReadOther BY <1>5 DEF ReadOther
  <1>6. CASE ReadFails BY <1>6 DEF ReadFails
  <1>7. CASE LoopTestsFlag BY <1>7 DEF LoopTestsFlag
  <1>8. CASE LoopCloses BY <1>8 DEF LoopCloses
  <1>9. CASE StopHeartbeat BY <1>9 DEF StopHeartbeat
  <1>10. CASE PingTick BY <1>10 DEF PingTick
  <1>11. CASE PingGivesUp BY <1>11 DEF PingGivesUp
  <1>12. CASE DisconnectTests BY <1>12 DEF DisconnectTests
  <1>13. CASE DisconnectCloses BY <1>13 DEF DisconnectCloses
  <1>14. ASSUME NEW c \in Callers PROVE
           /\ SendMessage(c) => TypeOK'
           /\ SendMessageWrites(c) \/ SendMessageFlushes(c) => TypeOK'
           /\ SendMessageSync(c) => TypeOK'
           /\ SyncWrites(c) => TypeOK'
           /\ SyncReturns(c) => TypeOK'
    <2> USE DEF connVars
    <2>1. SendMessage(c) => TypeOK' BY DEF SendMessage
    <2>2. SendMessageWrites(c) \/ SendMessageFlushes(c) => TypeOK'
      BY DEF SendMessageWrites, SendMessageFlushes
    <2>3. SendMessageSync(c) => TypeOK' BY DEF SendMessageSync, Register, WireOK, Seqs
    <2>4. SyncWrites(c) => TypeOK' BY DEF SyncWrites, Trigger
    <2>5. SyncReturns(c) => TypeOK' BY DEF SyncReturns
    <2> QED BY <2>1, <2>2, <2>3, <2>4, <2>5
  <1>15. CASE Serve BY <1>15 DEF Serve
  <1>16. CASE Break BY <1>16 DEF Break
  <1>17. CASE Rest \/ UNCHANGED vars BY <1>17 DEF Rest, vars
  <1> QED
    BY <1>1, <1>2, <1>3, <1>4, <1>5, <1>6, <1>7, <1>8, <1>9, <1>10, <1>11,
       <1>12, <1>13, <1>14, <1>15, <1>16, <1>17 DEF Next, LoopStep

\* The connection is cut: what is in the buffer is all that is left.
LEMMA CutStep ==
  ASSUME IndInv, TypeOK', Cut, toClient' \in Seq(Seqs),
         loop' = "handshake" => loop = "handshake",
         UNCHANGED <<conn, key, rw, sending, calls, clientIDGen, handed, acked, accepted>>
  PROVE  IndInv'
  <1> USE DEF IndInv, WireOK
  <1>1. Chan' = rw.buf
    <2>1. rw.buf \in Seq(Packet) OBVIOUS
    <2>2. <<>> \o rw.buf = rw.buf BY <2>1, ConcatEmptySeq
    <2> QED BY <2>2 DEF Cut, Chan
  <1>2. Len(toServer) \in Nat OBVIOUS
  <1>3. \A i \in DOMAIN rw.buf:
           i + Len(toServer) \in DOMAIN Chan /\ Chan[i + Len(toServer)] = rw.buf[i]
    BY DEF Chan
  <1> QED BY <1>1, <1>2, <1>3, FewerStep DEF Cut

\* A new connection starts with nothing written.
LEMMA DialStep ==
  ASSUME IndInv, TypeOK', Dial
  PROVE  IndInv'
  <1> USE DEF IndInv, Dial, callVars, histVars, NewRW
  <1>1. Chan' = <<>> BY ConcatEmptySeq DEF Chan
  <1>2. NotLost' BY DEF NotLost
  <1>3. WireOK' BY DEF WireOK
  <1>4. key < conn' BY DEF Dated, NotLost, TypeOK
  <1>5. Dated'
    <2>1. key' <= conn' BY <1>4, BoundsAssumption DEF NotLost, TypeOK
    <2> QED BY <1>1, <1>4, <2>1 DEF Dated, Writing
  <1>6. OneFresh'
    <2>1. ASSUME NEW c \in Callers PROVE calls[c].key # conn'
      <3>1. calls[c].key <= key /\ calls[c].key \in 0 .. MaxConns
        BY DEF Dated, WireOK
      <3> QED BY <1>4, <3>1 DEF NotLost, TypeOK
    <2> QED BY <1>1, <2>1 DEF OneFresh, Writing
  <1> QED BY <1>2, <1>3, <1>5, <1>6 DEF AcceptedOnce

\* What a packet of a sequence is.
LEMMA PacketIn ==
  ASSUME NEW q \in Seq(Packet), NEW i \in DOMAIN q
  PROVE  q[i] \in Packet /\ q[i].key \in Nat /\ q[i].seq \in Seqs
  <1>1. q[i] \in Packet OBVIOUS
  <1> QED BY <1>1, BoundsAssumption DEF Packet

\* Connect repeats the list behind what is in the buffer, all of it made
\* with an earlier key.
LEMMA HandshakeStep ==
  ASSUME IndInv, TypeOK', Handshake
  PROVE  IndInv'
  <1> DEFINE all == rw.buf \o sending
  <1>1. PICK n \in 0 .. Len(all):
          /\ toServer' = toServer \o SubSeq(all, 1, n)
          /\ rw' = [rw EXCEPT !.buf = SubSeq(all, n + 1, Len(all))]
    BY DEF Handshake, Repeated
  <1>2. all \in Seq(Packet) /\ toServer \in Seq(Packet) /\ Len(all) \in Nat
    BY ConcatProperties DEF IndInv, WireOK
  <1>3. \A i \in DOMAIN all: all[i].key <= key /\ all[i].seq <= clientIDGen
    <2>1. ASSUME NEW i \in DOMAIN all, i <= Len(rw.buf)
          PROVE  i + Len(toServer) \in DOMAIN Chan /\ Chan[i + Len(toServer)] = all[i]
      BY <2>1 DEF Chan, IndInv, WireOK
    <2>2. ASSUME NEW i \in DOMAIN all, i > Len(rw.buf)
          PROVE  i - Len(rw.buf) \in DOMAIN sending /\ sending[i - Len(rw.buf)] = all[i]
      BY <2>2 DEF IndInv, WireOK
    <2> QED BY <2>1, <2>2, <1>2 DEF IndInv, Dated, WireOK
  <1> HIDE DEF all
  <1>4. SubSeq(all, 1, n) \in Seq(Packet) /\ SubSeq(all, n + 1, Len(all)) \in Seq(Packet)
    BY <1>2
  <1>5. rw'.buf = SubSeq(all, n + 1, Len(all)) /\ rw'.buf \in Seq(Packet) /\ toServer' \in Seq(Packet)
    BY <1>1, <1>2, <1>4, ConcatProperties DEF IndInv, WireOK
  <1>6. Chan' \in Seq(Packet) BY <1>5, ConcatProperties DEF Chan
  <1>7. ASSUME NEW i \in DOMAIN Chan' PROVE Chan'[i].key <= key /\ Chan'[i].seq <= clientIDGen
    <2>1. CASE i <= Len(toServer)
      <3>1. i \in 1 .. Len(toServer) BY <1>6, <2>1
      <3>2. toServer'[i] = toServer[i] /\ i \in 1 .. Len(toServer')
        BY <1>1, <1>2, <1>4, <3>1
      <3>3. Chan'[i] = toServer'[i] BY <1>5, <3>2 DEF Chan
      <3>4. i \in DOMAIN Chan /\ Chan[i] = toServer[i]
        BY <1>2, <3>1 DEF Chan, IndInv, WireOK
      <3> QED BY <3>2, <3>3, <3>4 DEF IndInv, Dated
    <2>2. CASE i > Len(toServer)
      <3>1. Len(toServer') = Len(toServer) + n
        BY <1>1, <1>2, <1>4
      <3>2. Len(rw'.buf) = Len(all) - n BY <1>2, <1>5
      <3>3. i \in 1 .. Len(toServer) + Len(all)
        BY <1>2, <1>5, <3>1, <3>2 DEF Chan
      <3>4. CASE i <= Len(toServer')
        <4>1. Chan'[i] = toServer'[i] BY <1>5, <3>3, <3>4 DEF Chan
        <4>2. toServer'[i] = all[i - Len(toServer)]
          BY SMTT(40), <1>1, <1>2, <1>4, <2>2, <3>1, <3>3, <3>4
        <4> QED BY <1>2, <1>3, <2>2, <3>3, <4>1, <4>2
      <3>5. CASE i > Len(toServer')
        <4>1. Chan'[i] = rw'.buf[i - Len(toServer')]
          BY SMTT(40), <1>2, <1>5, <3>1, <3>2, <3>3, <3>5 DEF Chan
        <4>2. rw'.buf[i - Len(toServer')] = all[i - Len(toServer)]
          BY SMTT(40), <1>2, <1>5, <3>1, <3>2, <3>3, <3>5
        <4> QED BY <1>2, <1>3, <2>2, <3>3, <4>1, <4>2
      <3> QED BY <1>2, <3>1, <3>3, <3>4, <3>5
    <2> QED BY <2>1, <2>2, <1>2, <1>6
  <1>a. \A i \in DOMAIN Chan': Chan'[i].key \in Nat BY <1>6, PacketIn
  <1>8. key < conn /\ key \in Nat /\ conn \in Nat /\ loop' # "handshake"
    BY DEF IndInv, Dated, Handshake, NotLost, TypeOK
  <1> USE DEF Handshake, callVars, histVars
  <1>9. NotLost' BY DEF IndInv, NotLost
  <1>10. WireOK' BY <1>1, <1>5 DEF IndInv, WireOK
  <1>11. Dated'
    <2>1. \A i \in DOMAIN Chan': Chan'[i].key <= conn /\ Chan'[i].seq <= clientIDGen
      BY <1>7, <1>8, <1>a
    <2>2. \A i \in DOMAIN sending: sending[i].key <= conn
      <3>1. \A i \in DOMAIN sending: sending[i].key \in Nat BY PacketIn DEF IndInv, WireOK
      <3> QED BY <1>8, <3>1 DEF IndInv, Dated
    <2>3. \A c \in Callers: calls[c].key <= conn
      BY <1>8 DEF IndInv, Dated, WireOK
    <2> QED BY <1>8, <2>1, <2>2, <2>3 DEF IndInv, Dated, Writing
  <1>12. OneFresh'
    <2>1. \A i \in DOMAIN Chan': Chan'[i].key # conn
      BY <1>7, <1>8, <1>a
    <2> QED BY <2>1 DEF IndInv, OneFresh, Writing
  <1> QED BY <1>9, <1>10, <1>11, <1>12 DEF IndInv, AcceptedOnce

\* Taking the answered message off the list leaves the others on it.
LEMMA AckedKeeps ==
  ASSUME sending \in Seq(Packet), NEW s
  PROVE  /\ Acked(s) \in Seq(Packet)
         /\ \A i \in DOMAIN Acked(s): \E j \in DOMAIN sending: Acked(s)[i] = sending[j]
         /\ \A j \in DOMAIN sending: sending[j].seq # s => \E i \in DOMAIN Acked(s): Acked(s)[i] = sending[j]
  <1> DEFINE At == {i \in DOMAIN sending: sending[i].seq = s}
             k == CHOOSE i \in At: \A j \in At: i <= j
             q == RemoveAt(sending, k)
  <1>1. CASE At = {} BY <1>1 DEF Acked
  <1>2. CASE At # {}
    <2>1. Acked(s) = q BY <1>2 DEF Acked
    <2>2. At \subseteq Nat /\ At # {} BY <1>2
    <2>3. \E i \in At: \A j \in At: i <= j
      <3> HIDE DEF At
      <3>1. PICK a \in At: TRUE BY <2>2
      <3>2. \E i \in At: \A j \in At: <<j, i>> \notin OpToRel(<, Nat)
        BY <2>2, <3>1, NatLessThanWellFounded, WFMin
      <3>3. ASSUME NEW i \in Nat, NEW j \in Nat, <<j, i>> \notin OpToRel(<, Nat) PROVE ~(j < i)
        BY <3>3 DEF OpToRel
      <3>4. PICK i \in At: \A j \in At: <<j, i>> \notin OpToRel(<, Nat) BY <3>2
      <3>5. \A j \in At: ~(j < i) BY <2>2, <3>3, <3>4
      <3>6. \A j \in At: i <= j BY <2>2, <3>5
      <3> QED BY <3>6
    <2>4. k \in At BY <2>3
    <2> HIDE DEF k
    <2>5. k \in 1 .. Len(sending) /\ sending[k].seq = s /\ Len(sending) \in Nat BY <2>4
    <2> DEFINE a == SubSeq(sending, 1, k - 1)
               b == SubSeq(sending, k + 1, Len(sending))
    <2>6. /\ a \in Seq(Packet) /\ Len(a) = k - 1 /\ \A i \in 1 .. k - 1: a[i] = sending[i]
          /\ b \in Seq(Packet) /\ Len(b) = Len(sending) - k
          /\ \A i \in 1 .. Len(sending) - k: b[i] = sending[k + i]
      BY <2>5
    <2>0. q = a \o b BY DEF RemoveAt
    <2> HIDE DEF a, b, q
    <2>7. q \in Seq(Packet) /\ Len(q) = Len(sending) - 1
      BY <2>0, <2>5, <2>6
    <2>8. \A i \in 1 .. Len(sending) - 1: q[i] = IF i < k THEN sending[i] ELSE sending[i + 1]
      <3> TAKE i \in 1 .. Len(sending) - 1
      <3>1. q[i] = IF i < k THEN a[i] ELSE b[i - (k - 1)] BY <2>0, <2>5, <2>6
      <3> QED BY <2>5, <2>6, <3>1
    <2>9. ASSUME NEW i \in DOMAIN q PROVE \E j \in DOMAIN sending: q[i] = sending[j]
      <3>1. i \in 1 .. Len(sending) - 1 BY <2>7
      <3>2. CASE i < k
        <4>1. i \in DOMAIN sending /\ q[i] = sending[i] BY <2>5, <2>8, <3>1, <3>2
        <4> QED BY <4>1
      <3>3. CASE ~(i < k)
        <4>1. i + 1 \in DOMAIN sending /\ q[i] = sending[i + 1] BY <2>5, <2>8, <3>1, <3>3
        <4> QED BY <4>1
      <3> QED BY <3>2, <3>3
    <2>10. ASSUME NEW j \in DOMAIN sending, sending[j].seq # s
           PROVE  \E i \in DOMAIN q: q[i] = sending[j]
      <3>1. CASE j < k
        <4>1. j \in DOMAIN q /\ q[j] = sending[j] BY <2>5, <2>7, <2>8, <3>1
        <4> QED BY <4>1
      <3>2. CASE j > k
        <4>1. j - 1 \in DOMAIN q /\ q[j - 1] = sending[j] BY <2>5, <2>7, <2>8, <3>2
        <4> QED BY <4>1
      <3> QED BY <2>5, <2>10, <3>1, <3>2
    <2> QED BY <2>1, <2>7, <2>9, <2>10
  <1> QED BY <1>1, <1>2

\* A SENDACK.
LEMMA SendackStep ==
  ASSUME IndInv, TypeOK', ReadSendack
  PROVE  IndInv'
  <1> DEFINE s == Head(toClient)
  <1> USE DEF IndInv, ReadSendack, rwVars
  <1>1. sending' = Acked(s) /\ acked' = acked \cup {s} /\ handed' = handed OBVIOUS
  <1>2. sending \in Seq(Packet) /\ toClient' \in Seq(Seqs) BY DEF WireOK
  <1> HIDE DEF s
  <1>3. NotLost'
    <2>1. ASSUME NEW t \in handed' \ acked' PROVE \E i \in DOMAIN sending': sending'[i].seq = t
      <3>1. PICK j \in DOMAIN sending: sending[j].seq = t BY <1>1 DEF NotLost
      <3>2. t # s BY <1>1
      <3>3. PICK i \in DOMAIN Acked(s): Acked(s)[i] = sending[j]
        BY <1>2, <3>1, <3>2, AckedKeeps
      <3> QED BY <1>1, <3>1, <3>3
    <2> QED BY <2>1 DEF NotLost
  <1>4. WireOK' BY <1>1, <1>2, AckedKeeps DEF WireOK
  <1>5. Chan' = Chan BY DEF Chan
  <1>6. \A i \in DOMAIN sending': sending'[i].key <= key /\ sending'[i].seq <= clientIDGen
    BY <1>1, <1>2, AckedKeeps DEF Dated
  <1>7. Dated' BY <1>5, <1>6 DEF Dated, Writing
  <1>8. OneFresh' BY <1>5 DEF OneFresh, Writing
  <1> QED BY <1>3, <1>4, <1>7, <1>8 DEF AcceptedOnce

\* What an empty write or a flush leaves of Chan.
LEMMA EmptyWrite ==
  ASSUME IndInv, NEW ok \in BOOLEAN, sendPacket(<<>>, ok) \/ Flush(ok)
  PROVE  /\ rw' \in [buf: Seq(Packet), err: BOOLEAN] /\ toServer' \in Seq(Packet)
         /\ ~alive => toServer' = <<>>
         /\ \A i \in DOMAIN Chan': i + 0 \in DOMAIN Chan /\ Chan'[i] = Chan[i + 0]
  <1> USE DEF IndInv
  <1>1. ~alive => toServer = <<>> BY DEF Dated
  <1>2. Chan \in Seq(Packet) BY ConcatProperties DEF WireOK, Chan
  <1>3. Chan \o <<>> = Chan BY <1>2, ConcatEmptySeq
  <1>4. /\ rw' \in [buf: Seq(Packet), err: BOOLEAN] /\ toServer' \in Seq(Packet)
        /\ ~alive => toServer' = <<>>
        /\ Chan' = Chan \/ Chan' = <<>>
    <2>1. <<>> \in Seq(Packet) OBVIOUS
    <2>2. CASE sendPacket(<<>>, ok) BY <1>1, <1>3, <2>1, <2>2, SendPacketChan
    <2>3. CASE Flush(ok) BY <1>1, <2>3, FlushChan
    <2> QED BY <2>2, <2>3
  <1> QED BY <1>2, <1>4

\* PING, RECVACK, a flush, and the return of SendMessageSync.
LEMMA QuietStep ==
  ASSUME IndInv, TypeOK',
         \/ ReadOther \/ PingTick
         \/ \E c \in Callers: SendMessageFlushes(c) \/ SyncReturns(c)
  PROVE  IndInv'
  <1> USE DEF IndInv
  <1>0. IndInv /\ 0 \in Nat OBVIOUS
  <1>1. Chan \in Seq(Packet) /\ (~alive => toServer = <<>>)
    BY ConcatProperties DEF WireOK, Chan, Dated
  <1>2. ASSUME UNCHANGED rwVars
        PROVE  /\ rw' \in [buf: Seq(Packet), err: BOOLEAN] /\ toServer' \in Seq(Packet)
               /\ ~alive => toServer' = <<>>
               /\ \A i \in DOMAIN Chan': i + 0 \in DOMAIN Chan /\ Chan'[i] = Chan[i + 0]
    <2>1. Chan' = Chan BY <1>2 DEF rwVars, Chan
    <2> QED BY <1>1, <1>2, <2>1 DEF WireOK, rwVars
  <1>3. CASE ReadOther \/ PingTick
    <2>1. UNCHANGED rwVars \/ \E ok \in BOOLEAN: sendPacket(<<>>, ok)
      BY <1>3 DEF ReadOther, PingTick
    <2>2. /\ rw' \in [buf: Seq(Packet), err: BOOLEAN] /\ toServer' \in Seq(Packet)
          /\ ~alive => toServer' = <<>>
          /\ \A i \in DOMAIN Chan': i + 0 \in DOMAIN Chan /\ Chan'[i] = Chan[i + 0]
      BY <1>0, <1>2, <2>1, EmptyWrite
    <2>3. /\ UNCHANGED <<conn, alive, key, sending, clientIDGen, handed, acked, accepted>>
          /\ UNCHANGED <<calls, toClient, loop>>
      BY <1>3 DEF ReadOther, PingTick, callVars, histVars
    <2> QED BY <1>0, <2>2, <2>3, FewerStep DEF WireOK
  <1>4. ASSUME NEW c \in Callers, SendMessageFlushes(c) \/ SyncReturns(c) PROVE IndInv'
    <2>1. UNCHANGED rwVars \/ \E ok \in BOOLEAN: Flush(ok)
      BY <1>4 DEF SendMessageFlushes, SyncReturns
    <2>2. /\ rw' \in [buf: Seq(Packet), err: BOOLEAN] /\ toServer' \in Seq(Packet)
          /\ ~alive => toServer' = <<>>
          /\ \A i \in DOMAIN Chan': i + 0 \in DOMAIN Chan /\ Chan'[i] = Chan[i + 0]
      BY <1>0, <1>2, <2>1, EmptyWrite
    <2>3. /\ UNCHANGED <<conn, alive, key, sending, clientIDGen, handed, acked, accepted>>
          /\ UNCHANGED <<toClient, loop>> /\ calls' = [calls EXCEPT ![c] = Idle]
      BY <1>4 DEF SendMessageFlushes, SyncReturns, connVars, histVars
    <2>4. calls' \in [Callers -> [pc: PCs, seq: 0 .. MaxSeq, key: 0 .. MaxConns]]
      BY <2>3, BoundsAssumption DEF WireOK, Idle, PCs
    <2>5. \A d \in Callers: calls'[d] = calls[d] \/ (~Writing(d)' /\ calls'[d].key <= key
                                                               /\ calls'[d].seq <= clientIDGen)
      BY <2>3 DEF WireOK, Idle, Writing, NotLost, TypeOK
    <2> QED BY <1>0, <2>2, <2>3, <2>4, <2>5, FewerStep DEF WireOK
  <1> QED BY <1>3, <1>4

\* A message gets a new number: no packet and no caller has it.
LEMMA HandOverStep ==
  ASSUME IndInv, TypeOK', NEW c \in Callers, SendMessage(c) \/ SendMessageSync(c)
  PROVE  IndInv'
  <1> DEFINE s == clientIDGen + 1
             p == Send(s, key)
  <1> USE DEF IndInv
  <1>1. /\ clientIDGen \in Nat /\ MaxSeq \in Nat /\ key \in 0 .. MaxConns /\ key \in Nat
        /\ s \in Seqs /\ s \in 0 .. MaxSeq
    BY BoundsAssumption DEF SendMessage, SendMessageSync, WireOK, NotLost, TypeOK, Seqs
  <1>2. /\ UNCHANGED <<conn, alive, key, toClient, loop, rw, toServer, acked, accepted>>
        /\ clientIDGen' = s
    BY DEF SendMessage, SendMessageSync, connVars, rwVars, histVars
  <1>3. PICK pc \in {"write", "syncwrite"}:
           calls' = [calls EXCEPT ![c] = [pc |-> pc, seq |-> s, key |-> key]]
    BY DEF SendMessage, SendMessageSync
  <1>4. \/ sending' = Append(sending, p) /\ handed' = handed \cup {s}
        \/ sending' = sending /\ handed' = handed
    BY DEF SendMessage, SendMessageSync, histVars
  <1>5. p \in Packet /\ p.seq = s /\ p.key = key BY <1>1 DEF Send, Packet
  <1>6. Chan' = Chan /\ Chan \in Seq(Packet)
    BY <1>2, ConcatProperties DEF Chan, WireOK
  <1>7. calls'[c].seq = s /\ calls'[c].key = key /\ \A d \in Callers \ {c}: calls'[d] = calls[d]
    BY <1>3 DEF WireOK
  <1> HIDE DEF p
  <1>a. sending \in Seq(Packet) BY DEF WireOK
  <1>b. /\ Append(sending, p) \in Seq(Packet)
        /\ \A i \in DOMAIN sending: i \in DOMAIN Append(sending, p) /\ Append(sending, p)[i] = sending[i]
        /\ \A i \in DOMAIN Append(sending, p):
             (i \in DOMAIN sending /\ Append(sending, p)[i] = sending[i]) \/ Append(sending, p)[i] = p
    BY <1>5, <1>a
  <1>8. NotLost'
    <2>1. ASSUME NEW t \in handed' \ acked' PROVE \E i \in DOMAIN sending': sending'[i].seq = t
      <3>1. CASE t = s /\ sending' = Append(sending, p)
        <4>1. Len(sending) + 1 \in DOMAIN sending' /\ sending'[Len(sending) + 1] = p
          BY <3>1 DEF WireOK
        <4> QED BY <1>5, <3>1, <4>1
      <3>2. CASE t \in handed \ acked
        <4>1. PICK i \in DOMAIN sending: sending[i].seq = t BY <3>2 DEF NotLost
        <4>2. i \in DOMAIN sending' /\ sending'[i] = sending[i] BY <1>4, <1>b, <4>1
        <4> QED BY <4>1, <4>2
      <3> QED BY <1>2, <1>4, <2>1, <3>1, <3>2
    <2> QED BY <2>1 DEF NotLost
  <1>9. WireOK'
    <2>1. calls' \in [Callers -> [pc: PCs, seq: 0 .. MaxSeq, key: 0 .. MaxConns]]
      BY <1>1, <1>3 DEF WireOK, PCs
    <2>2. sending' \in Seq(Packet) BY <1>4, <1>a, <1>b
    <2> QED BY <1>1, <1>2, <2>1, <2>2 DEF WireOK
  <1>10. Dated'
    <2>1. \A i \in DOMAIN sending': sending'[i].key <= key /\ sending'[i].seq <= s
      <3>1. ASSUME NEW i \in DOMAIN sending'
            PROVE  (i \in DOMAIN sending /\ sending'[i] = sending[i]) \/ sending'[i] = p
        BY <1>4, <1>b
      <3>2. \A i \in DOMAIN sending: sending[i].key <= key /\ sending[i].seq <= s
        BY <1>1, PacketIn DEF Dated, WireOK, Seqs
      <3> QED BY <1>1, <1>5, <3>1, <3>2
    <2>2. \A i \in DOMAIN Chan': Chan'[i].key <= key /\ Chan'[i].seq <= s
      BY <1>1, <1>6, PacketIn DEF Dated, Seqs
    <2>3. \A d \in Callers: calls'[d].key <= key /\ calls'[d].seq <= s
      <3>1. ASSUME NEW d \in Callers PROVE calls[d].key <= key /\ calls[d].seq <= s
        <4>1. calls[d].seq <= clientIDGen /\ calls[d].seq \in 0 .. MaxSeq BY DEF Dated, WireOK
        <4> QED BY <1>1, <4>1 DEF Dated
      <3> QED BY <1>1, <1>7, <3>1
    <2>4. \A d \in Callers: Writing(d)' => calls'[d].seq \in Seqs
      BY <1>1, <1>7 DEF Dated, Writing
    <2>5. \A d \in Callers \ {c}: calls[d].seq # s BY <1>1 DEF Dated, WireOK
    <2>6. \A d, e \in Callers: Writing(d)' /\ Writing(e)' /\ calls'[d].seq = calls'[e].seq => d = e
      BY <1>7, <2>5 DEF Dated, Writing
    <2> QED BY <1>2, <2>1, <2>2, <2>3, <2>4, <2>6 DEF Dated
  <1>11. OneFresh'
    <2>1. \A i \in DOMAIN Chan: Chan[i].seq # s
      BY <1>1, <1>6, PacketIn DEF Dated, Seqs
    <2>2. accepted[s] = 0 BY <1>1 DEF OneFresh
    <2>3. \A d \in Callers: Writing(d)' /\ calls'[d].key = conn =>
            /\ accepted[calls'[d].seq] = 0
            /\ \A i \in DOMAIN Chan: ~(Chan[i].key = conn /\ Chan[i].seq = calls'[d].seq)
      BY <1>7, <2>1, <2>2 DEF OneFresh, Writing
    <2>4. \A t \in Seqs: t > s => accepted[t] = 0
      BY <1>1 DEF OneFresh, Seqs
    <2> QED BY <1>2, <1>6, <2>3, <2>4 DEF OneFresh
  <1> QED BY <1>2, <1>8, <1>9, <1>10, <1>11 DEF AcceptedOnce

\* A caller writes its packet and is no longer one that has it to write.
LEMMA WriteStep ==
  ASSUME IndInv, TypeOK', NEW c \in Callers, SendMessageWrites(c) \/ SyncWrites(c)
  PROVE  IndInv'
  <1> DEFINE p == Send(calls[c].seq, calls[c].key)
             Record == [pc: PCs, seq: 0 .. MaxSeq, key: 0 .. MaxConns]
  <1> USE DEF IndInv
  <1>1. PICK ok \in BOOLEAN: sendPacket(<<p>>, ok)
    BY DEF SendMessageWrites, SyncWrites
  <1>2. UNCHANGED <<conn, alive, key, toClient, loop, sending, clientIDGen, handed, acked, accepted>>
    BY DEF SendMessageWrites, SyncWrites, connVars, histVars
  <1>3. /\ calls[c] \in Record /\ Writing(c) /\ calls[c].seq \in Seqs
        /\ calls[c].key \in 0 .. MaxConns /\ calls[c].key \in Nat
        /\ calls[c].key <= key /\ calls[c].seq <= clientIDGen
    <2>1. calls[c].pc \in {"write", "syncwrite"} BY DEF SendMessageWrites, SyncWrites
    <2> QED BY <2>1, BoundsAssumption DEF WireOK, Dated, Writing
  <1>4. PICK r \in {Idle, [calls[c] EXCEPT !.pc = "flush"], [calls[c] EXCEPT !.pc = "await"]}:
          calls' = [calls EXCEPT ![c] = r]
    BY DEF SendMessageWrites, SyncWrites
  <1>5. /\ r \in Record /\ r.key <= key /\ r.seq <= clientIDGen
        /\ r.pc \notin {"write", "syncwrite"}
    <2>1. CASE r = Idle BY <2>1, BoundsAssumption DEF Idle, PCs, NotLost, TypeOK, WireOK
    <2>2. CASE r = [calls[c] EXCEPT !.pc = "flush"] BY <1>3, <2>2 DEF PCs
    <2>3. CASE r = [calls[c] EXCEPT !.pc = "await"] BY <1>3, <2>3 DEF PCs
    <2> QED BY <2>1, <2>2, <2>3
  <1>6. calls'[c] = r /\ \A d \in Callers \ {c}: calls'[d] = calls[d] BY <1>4 DEF WireOK
  <1>7. calls' \in [Callers -> Record] BY <1>4, <1>5 DEF WireOK
  <1>8. \A d \in Callers: Writing(d)' => d # c /\ Writing(d) /\ calls'[d] = calls[d]
    BY <1>5, <1>6 DEF Writing
  <1>9. p \in Packet /\ p.seq = calls[c].seq /\ p.key = calls[c].key
    BY <1>3 DEF Send, Packet
  <1> HIDE DEF p
  <1>10. Chan \in Seq(Packet) /\ <<p>> \in Seq(Packet) /\ (~alive => toServer = <<>>)
    BY <1>9, ConcatProperties DEF Chan, WireOK, Dated
  <1>11. /\ rw' \in [buf: Seq(Packet), err: BOOLEAN] /\ toServer' \in Seq(Packet)
         /\ ~alive => toServer' = <<>>
         /\ Chan' = Chan \/ Chan' = Chan \o <<p>> \/ Chan' = <<p>>
    BY <1>1, <1>10, SendPacketChan
  <1>12. ASSUME NEW i \in DOMAIN Chan'
         PROVE  \/ i \in DOMAIN Chan /\ Chan'[i] = Chan[i]
                \/ Chan'[i] = p /\ i = Len(Chan')
    <2> HIDE DEF IndInv
    <2>1. CASE Chan' = Chan BY <1>12, <2>1
    <2>2. CASE Chan' = Chan \o <<p>>
      <3>1. Len(Chan') = Len(Chan) + 1 BY <1>10, <2>2
      <3>2. \A j \in 1 .. Len(Chan): Chan'[j] = Chan[j] BY <1>10, <2>2
      <3>3. Chan'[Len(Chan) + 1] = p BY <1>10, <2>2
      <3>4. i \in 1 .. Len(Chan) + 1 BY <1>10, <1>12, <2>2, <3>1
      <3> QED BY <1>10, <3>1, <3>2, <3>3, <3>4
    <2>3. CASE Chan' = <<p>> BY <1>12, <2>3
    <2> QED BY <1>11, <2>1, <2>2, <2>3
  <1>13. \A i, j \in DOMAIN Chan': i = j \/ (i \in DOMAIN Chan /\ Chan'[i] = Chan[i])
                                       \/ (j \in DOMAIN Chan /\ Chan'[j] = Chan[j])
    BY <1>12
  <1>14. NotLost' BY <1>2 DEF NotLost
  <1>15. WireOK' BY <1>2, <1>7, <1>11 DEF WireOK
  <1>16. Dated'
    <2>1. \A i \in DOMAIN Chan': Chan'[i].key <= key /\ Chan'[i].seq <= clientIDGen
      BY <1>3, <1>9, <1>12 DEF Dated
    <2>2. \A d \in Callers: calls'[d].key <= key /\ calls'[d].seq <= clientIDGen
      BY <1>5, <1>6 DEF Dated
    <2> QED BY <1>2, <1>8, <1>11, <2>1, <2>2 DEF Dated
  <1>17. OneFresh'
    <2>1. p.key = conn => accepted[p.seq] = 0 /\ \A i \in DOMAIN Chan: ~(Chan[i].key = conn /\ Chan[i].seq = p.seq)
      BY <1>3, <1>9 DEF OneFresh
    <2>2. \A d \in Callers: Writing(d)' => calls'[d].seq # p.seq
      BY <1>3, <1>8, <1>9 DEF Dated
    <2>3. \A i, j \in DOMAIN Chan':
            Chan'[i].key = conn /\ Chan'[j].key = conn /\ Chan'[i].seq = Chan'[j].seq => i = j
      BY <1>12, <1>13, <2>1 DEF OneFresh
    <2>4. \A i \in DOMAIN Chan': Chan'[i].key = conn => accepted[Chan'[i].seq] = 0
      BY <1>12, <2>1 DEF OneFresh
    <2>5. \A d \in Callers: Writing(d)' /\ calls'[d].key = conn =>
            /\ accepted[calls'[d].seq] = 0
            /\ \A i \in DOMAIN Chan': ~(Chan'[i].key = conn /\ Chan'[i].seq = calls'[d].seq)
      BY <1>8, <1>12, <2>2 DEF OneFresh
    <2> QED BY <1>2, <2>3, <2>4, <2>5 DEF OneFresh
  <1> QED BY <1>2, <1>14, <1>15, <1>16, <1>17 DEF AcceptedOnce

\* The server takes the oldest packet and accepts it if its key is the
\* connection's.
LEMMA ServeStep ==
  ASSUME IndInv, TypeOK', Serve
  PROVE  IndInv'
  <1> DEFINE p == Head(toServer)
  <1> USE DEF IndInv
  <1>1. /\ UNCHANGED <<conn, alive, key, rw, loop, sending, calls, clientIDGen, handed, acked>>
        /\ toServer # <<>> /\ toServer' = Tail(toServer) /\ alive
        /\ toClient' = Append(toClient, p.seq)
        /\ accepted' = [accepted EXCEPT ![p.seq] = IF p.key = conn THEN @ + 1 ELSE @]
    BY DEF Serve, callVars
  <1>2. toServer \in Seq(Packet) /\ rw.buf \in Seq(Packet) /\ toServer[1] = p /\ 1 \in DOMAIN toServer
    BY <1>1 DEF WireOK
  <1>3. p \in Packet /\ p.seq \in Seqs BY <1>2, PacketIn
  <1>4. /\ Chan \in Seq(Packet) /\ Chan' \in Seq(Packet) /\ 1 \in DOMAIN Chan /\ Chan[1] = p
        /\ \A i \in DOMAIN Chan': i + 1 \in DOMAIN Chan /\ Chan'[i] = Chan[i + 1] /\ i + 1 # 1
    BY <1>1, <1>2 DEF Chan
  <1> HIDE DEF p
  <1>5. \A s \in Seqs: accepted'[s] = IF s = p.seq /\ p.key = conn THEN accepted[s] + 1 ELSE accepted[s]
    BY <1>1, <1>3 DEF WireOK
  <1>6. p.key = conn => accepted[p.seq] = 0 BY <1>4 DEF OneFresh
  <1>7. NotLost' BY <1>1 DEF NotLost
  <1>8. WireOK'
    <2>1. accepted' \in [Seqs -> Nat] BY <1>1, <1>3 DEF WireOK
    <2>2. toServer' \in Seq(Packet) /\ toClient' \in Seq(Seqs) BY <1>1, <1>2, <1>3 DEF WireOK
    <2> QED BY <1>1, <2>1, <2>2 DEF WireOK
  <1>9. Dated'
    <2>1. \A i \in DOMAIN Chan': Chan'[i].key <= key /\ Chan'[i].seq <= clientIDGen
      BY <1>4 DEF Dated
    <2> QED BY <1>1, <2>1 DEF Dated, Writing
  <1>10. OneFresh'
    <2>1. \A i \in DOMAIN Chan': Chan'[i].key = conn => Chan'[i].seq \in Seqs
                                   /\ ~(Chan'[i].seq = p.seq /\ p.key = conn)
      <3>1. \A i \in DOMAIN Chan': Chan'[i].seq \in Seqs BY <1>4, PacketIn
      <3> QED BY <1>4, <3>1 DEF OneFresh
    <2>2. \A i, j \in DOMAIN Chan':
            Chan'[i].key = conn /\ Chan'[j].key = conn /\ Chan'[i].seq = Chan'[j].seq => i = j
      <3> TAKE i, j \in DOMAIN Chan'
      <3>1. i \in Nat /\ j \in Nat BY <1>4
      <3>2. Chan'[i].key = conn /\ Chan'[j].key = conn /\ Chan'[i].seq = Chan'[j].seq => i + 1 = j + 1
        BY <1>4 DEF OneFresh
      <3> QED BY <3>1, <3>2
    <2>3. \A i \in DOMAIN Chan': Chan'[i].key = conn => accepted'[Chan'[i].seq] = 0
      BY <1>4, <1>5, <2>1 DEF OneFresh
    <2>4. \A d \in Callers: Writing(d) /\ calls[d].key = conn =>
            /\ accepted'[calls[d].seq] = 0
            /\ \A i \in DOMAIN Chan': ~(Chan'[i].key = conn /\ Chan'[i].seq = calls[d].seq)
      BY <1>4, <1>5 DEF OneFresh, Dated
    <2>5. \A s \in Seqs: s > clientIDGen => accepted'[s] = 0
      <3>1. p.seq <= clientIDGen BY <1>4 DEF Dated
      <3> QED BY <1>3, <1>5, <3>1 DEF OneFresh, WireOK, Seqs
    <2> QED BY <1>1, <2>2, <2>3, <2>4, <2>5 DEF OneFresh, Writing
  <1>11. AcceptedOnce' BY <1>5, <1>6 DEF AcceptedOnce
  <1> QED BY <1>7, <1>8, <1>9, <1>10, <1>11

\* Every step keeps the invariant.
LEMMA StepInd ==
  ASSUME IndInv, [Next]_vars
  PROVE  IndInv'
  <1>0. TypeOK' BY StepType DEF IndInv, NotLost
  <1>1. CASE ConnectFails \/ ReadFails \/ LoopTestsFlag \/ StopHeartbeat \/ DisconnectTests
             \/ Rest \/ UNCHANGED vars
    <2>1. UNCHANGED <<packetVars, alive>> /\ (loop' = "handshake" => loop = "handshake")
      BY <1>1, ReconnAssumption
      DEF ConnectFails, ReadFails, LoopTestsFlag, StopHeartbeat, DisconnectTests, Rest, vars,
          packetVars, rwVars, callVars, histVars
    <2> QED BY <1>0, <2>1, MoveStep
  <1>2. CASE LoopCloses \/ PingGivesUp \/ DisconnectCloses \/ Break
    <2>1. /\ UNCHANGED <<conn, key, rw, sending, calls, clientIDGen, handed, acked, accepted>>
          /\ Cut /\ (loop' = "handshake" => loop = "handshake")
          /\ toClient' = toClient \/ toClient' = <<>>
      BY <1>2 DEF LoopCloses, PingGivesUp, DisconnectCloses, Break, callVars, histVars
    <2>2. <<>> \in Seq(Seqs) /\ toClient \in Seq(Seqs) BY DEF IndInv, WireOK
    <2>3. toClient' \in Seq(Seqs) BY <2>1, <2>2, Zenon
    <2> QED BY <1>0, <2>1, <2>3, CutStep
  <1>3. CASE Dial BY <1>0, <1>3, DialStep
  <1>4. CASE Handshake BY <1>0, <1>4, HandshakeStep
  <1>5. CASE ReadSendack BY <1>0, <1>5, SendackStep
  <1>6. CASE ReadOther \/ PingTick BY <1>0, <1>6, QuietStep
  <1>7. ASSUME NEW c \in Callers,
               \/ SendMessage(c) \/ SendMessageWrites(c) \/ SendMessageFlushes(c)
               \/ SendMessageSync(c) \/ SyncWrites(c) \/ SyncReturns(c)
        PROVE  IndInv'
    BY <1>0, <1>7, HandOverStep, WriteStep, QuietStep
  <1>8. CASE Serve BY <1>0, <1>8, ServeStep
  <1> QED BY <1>1, <1>2, <1>3, <1>4, <1>5, <1>6, <1>7, <1>8 DEF Next, LoopStep

\* The inductive invariant holds.
THEOREM ClientInductive == Spec => []IndInv
  BY InitInd, StepInd, PTL DEF Spec

\* A message that SendMessage took stays on the list that Connect repeats
\* until it is answered, for any callers, messages and connections.
THEOREM ClientNotLost == Spec => []NotLost
  <1>1. IndInv => NotLost BY DEF IndInv
  <1> QED BY <1>1, ClientInductive, PTL

\* However often a message is repeated, the server accepts it at most once,
\* because a repeated packet carries an earlier connection's key.
THEOREM ClientAcceptedOnce == Spec => []AcceptedOnce
  <1>1. IndInv => AcceptedOnce BY DEF IndInv
  <1> QED BY <1>1, ClientInductive, PTL
=============================================================================
