------------------------------ MODULE ImClient ------------------------------
(***************************************************************************)
(* The client library (pkg/client/client.go) with the wait registry        *)
(* (pkg/wait/wait.go): a connection with a read loop and a heartbeat, the  *)
(* list of messages not yet answered that Connect repeats, and the callers *)
(* of SendMessage and SendMessageSync.                                     *)
(*                                                                         *)
(* The goroutine that runs loopConn is also the one that calls Connect     *)
(* again, so one variable, loop, says where it is; the first Connect, which*)
(* the user calls, is its start.  The server (not in this package) takes   *)
(* packets in order and answers each, late or not at all.                  *)
(***************************************************************************)
EXTENDS Naturals, Sequences, SequencesExt, FiniteSets

CONSTANTS
    Callers,    \* goroutines of the user that send
    MaxSeq,     \* bound: messages handed to the client
    MaxConns,   \* bound: connections dialled
    AutoReconn  \* the option of that name

ASSUME BoundsAssumption == MaxSeq \in Nat /\ MaxConns \in Nat
ASSUME ReconnAssumption == AutoReconn \in BOOLEAN

VARIABLES
    conn,        \* number of the current connection, 0 before the first
    alive,       \* it is open at both ends
    connected,   \* the flag of that name
    key,         \* aesKey and salt: those of connection number key
    rw,          \* the write buffer and its sticky error
    toServer,    \* SEND packets on the way
    toClient,    \* SENDACKs on the way, as the numbers they answer
    sending,     \* messages not answered, in the order they were handed over
    clientIDGen,
    retryPingCount,
    loop,        \* the goroutine of loopConn and of Connect
    pinger,      \* the goroutine of loopPing
    disconnect,  \* the user's call of Disconnect
    calls,       \* the callers
    waits,       \* ids in the wait registry
    answers,     \* ids whose channel holds an answer
    handed, acked, accepted   \* history

rwVars == <<rw, toServer>>
callVars == <<calls, waits, answers, clientIDGen>>
histVars == <<handed, acked, accepted>>
vars == <<conn, alive, connected, key, rw, toServer, toClient, sending, clientIDGen,
          retryPingCount, loop, pinger, disconnect, calls, waits, answers,
          handed, acked, accepted>>

Seqs == 1 .. MaxSeq
Send(s, k) == [seq |-> s, key |-> k]
NewRW == [buf |-> <<>>, err |-> FALSE]
Idle == [pc |-> "idle", seq |-> 0, key |-> 0]

Init ==
    /\ conn = 0 /\ alive = FALSE /\ connected = FALSE /\ key = 0
    /\ rw = NewRW /\ toServer = <<>> /\ toClient = <<>>
    /\ sending = <<>> /\ clientIDGen = 0 /\ retryPingCount = 0
    /\ loop = "connect" /\ pinger = "none" /\ disconnect = "idle"
    /\ calls = [c \in Callers |-> Idle]
    /\ waits = {} /\ answers = {}
    /\ handed = {} /\ acked = {} /\ accepted = [s \in Seqs |-> 0]

-----------------------------------------------------------------------------
(* The write buffer: a write goes to the connection only when the buffer   *)
(* is full, otherwise at a Flush.  What is written to a connection that    *)
(* has failed is lost; the error shows at once or at a later write.  Only  *)
(* the SEND packets are kept; PING and RECVACK are written, and may fill   *)
(* the buffer, as the empty sequence.                                      *)

\* What is in the buffer goes out; next is then in the buffer.
PutOut(next, ok) ==
    \/ /\ alive /\ ok
       /\ toServer' = toServer \o rw.buf
       /\ rw' = [rw EXCEPT !.buf = next]
    \/ /\ ~alive /\ ok
       /\ rw' = [rw EXCEPT !.buf = next]
       /\ UNCHANGED toServer
    \/ /\ ~alive /\ ~ok
       /\ rw' = [rw EXCEPT !.err = TRUE]
       /\ UNCHANGED toServer

\* The connection fails or is closed: what was on the way is lost.
Cut ==
    /\ alive' = FALSE
    /\ toServer' = <<>>

sendPacket(ps, ok) ==
    \/ /\ rw.err /\ ~ok
       /\ UNCHANGED rwVars
    \/ /\ ~rw.err /\ ok
       /\ rw' = [rw EXCEPT !.buf = @ \o ps]
       /\ UNCHANGED toServer
    \/ ~rw.err /\ PutOut(ps, ok)

Flush(ok) ==
    \/ rw.err /\ ~ok /\ UNCHANGED rwVars
    \/ ~rw.err /\ PutOut(<<>>, ok)

-----------------------------------------------------------------------------
(* Connect: dial, then the handshake, which repeats what is in sending     *)
(* (encrypted when it was handed over), takes the new key and starts both  *)
(* loops.  Any error ends it; the read loop does not try a second time.    *)

Dial ==
    /\ loop = "connect"
    /\ conn < MaxConns
    /\ conn' = conn + 1
    /\ alive' = TRUE
    /\ rw' = NewRW /\ toServer' = <<>> /\ toClient' = <<>>
    /\ loop' = "handshake"
    /\ UNCHANGED <<connected, key, sending, retryPingCount, pinger, disconnect>>
    /\ UNCHANGED <<callVars, histVars>>

ConnectFails ==
    /\ loop \in {"connect", "handshake"}
    /\ loop' = "done"
    /\ UNCHANGED <<conn, alive, connected, key, rw, toServer, toClient, sending,
                   retryPingCount, pinger, disconnect, callVars, histVars>>

\* Mutant: Connect encrypts what it repeats with the new key.
RepeatedFresh == [i \in DOMAIN sending |-> Send(sending[i].seq, conn)]

\* The packets Connect repeats are the ones SendMessage made.
Repeated == sending

\* sendPacket of each in turn: a full buffer pushes the first n out.
Handshake ==
    /\ loop = "handshake"
    /\ alive
    /\ LET all == rw.buf \o Repeated IN
       \E n \in 0 .. Len(all):
          /\ toServer' = toServer \o SubSeq(all, 1, n)
          /\ rw' = [rw EXCEPT !.buf = SubSeq(all, n + 1, Len(all))]
    /\ key' = conn
    /\ connected' = TRUE
    /\ loop' = "read" /\ pinger' = "wait"
    /\ UNCHANGED <<conn, alive, toClient, sending, retryPingCount, disconnect>>
    /\ UNCHANGED <<callVars, histVars>>

-----------------------------------------------------------------------------
(* loopConn                                                                *)

\* wait.Register; a number is taken once, so that it is not registered yet.
Register(s) == waits' = waits \cup {s} /\ UNCHANGED answers

\* wait.Trigger, of a registered number: its channel gets the answer, which
\* counts when somebody may read it.
Trigger(s, read) ==
    /\ waits' = waits \ {s}
    /\ answers' = IF read /\ s \in waits THEN answers \cup {s} ELSE answers

\* Mutant: the first message is taken off, whichever was answered.
AckedHead(s) == IF sending = <<>> THEN sending ELSE Tail(sending)

\* handleSendackPacket takes the first message with this number off the list.
Acked(s) ==
    LET At == {i \in DOMAIN sending: sending[i].seq = s}
    IN  IF At = {} THEN sending
        ELSE RemoveAt(sending, CHOOSE i \in At: \A j \in At: i <= j)

ReadSendack ==
    /\ loop = "read"
    /\ toClient # <<>>
    /\ LET s == Head(toClient) IN
       /\ Trigger(s, TRUE)
       /\ sending' = Acked(s)
       /\ acked' = acked \cup {s}
    /\ toClient' = Tail(toClient)
    /\ retryPingCount' = 0
    /\ UNCHANGED <<conn, alive, connected, key, rwVars, loop, pinger, disconnect,
                   calls, clientIDGen, handed, accepted>>

\* A PONG, or a RECV, whose RECVACK handleRecvPacket leaves in the buffer.
ReadOther ==
    /\ loop = "read" /\ alive
    /\ \/ UNCHANGED rwVars
       \/ \E ok \in BOOLEAN: sendPacket(<<>>, ok)
    /\ retryPingCount' = 0
    /\ UNCHANGED <<conn, alive, connected, key, toClient, sending, loop, pinger, disconnect>>
    /\ UNCHANGED <<callVars, histVars>>

ReadFails ==
    /\ loop = "read" /\ ~alive
    /\ loop' = "close"
    /\ UNCHANGED <<conn, alive, connected, key, rwVars, toClient, sending,
                   retryPingCount, pinger, disconnect, callVars, histVars>>

\* Mutant: after a Disconnect the loop reads on.
LoopTestsFlagReads ==
    /\ loop = "close"
    /\ loop' = IF connected THEN "closing" ELSE "read"
    /\ UNCHANGED <<conn, alive, connected, key, rwVars, toClient, sending,
                   retryPingCount, pinger, disconnect, callVars, histVars>>

\* handleClose: the flag is tested, then reset and the connection closed.
LoopTestsFlag ==
    /\ loop = "close"
    /\ loop' = IF connected THEN "closing" ELSE "stop"
    /\ UNCHANGED <<conn, alive, connected, key, rwVars, toClient, sending,
                   retryPingCount, pinger, disconnect, callVars, histVars>>

LoopCloses ==
    /\ loop = "closing"
    /\ loop' = "stop"
    /\ connected' = FALSE
    /\ Cut
    /\ UNCHANGED <<conn, key, rw, toClient, sending, retryPingCount, pinger,
                   disconnect, callVars, histVars>>

\* Mutant: the heartbeat is not told to stop.
StopHeartbeatSkipped ==
    /\ loop = "stop"
    /\ loop' = IF AutoReconn THEN "connect" ELSE "done"
    /\ UNCHANGED <<conn, alive, connected, key, rwVars, toClient, sending, pinger,
                   retryPingCount, disconnect, callVars, histVars>>

\* stopHeartbeatChan is unbuffered: loopConn goes on when loopPing listens.
StopHeartbeat ==
    /\ loop = "stop" /\ pinger = "wait"
    /\ pinger' = "ended"
    /\ loop' = IF AutoReconn THEN "connect" ELSE "done"
    /\ UNCHANGED <<conn, alive, connected, key, rwVars, toClient, sending,
                   retryPingCount, disconnect, callVars, histVars>>

-----------------------------------------------------------------------------
(* loopPing: a ping stays in the write buffer; after three without any     *)
(* packet from the server the connection is closed and the goroutine ends. *)

PingTick ==
    /\ pinger = "wait" /\ retryPingCount < 3
    /\ \E ok \in BOOLEAN: sendPacket(<<>>, ok)
    /\ retryPingCount' = retryPingCount + 1
    /\ UNCHANGED <<conn, alive, connected, key, toClient, sending, loop, pinger,
                   disconnect, callVars, histVars>>

PingGivesUp ==
    /\ pinger = "wait" /\ retryPingCount >= 3
    /\ Cut
    /\ pinger' = "gaveup"
    /\ UNCHANGED <<conn, connected, key, rw, toClient, sending, retryPingCount,
                   loop, disconnect, callVars, histVars>>

-----------------------------------------------------------------------------
(* Disconnect: handleClose, then disconnectChan is closed.  A second call  *)
(* would close a closed channel; the user makes one.                       *)

DisconnectTests ==
    /\ disconnect = "idle" /\ key # 0
    /\ disconnect' = IF connected THEN "closing" ELSE "done"
    /\ UNCHANGED <<conn, alive, connected, key, rwVars, toClient, sending,
                   retryPingCount, loop, pinger, callVars, histVars>>

DisconnectCloses ==
    /\ disconnect = "closing"
    /\ disconnect' = "done"
    /\ connected' = FALSE
    /\ Cut
    /\ UNCHANGED <<conn, key, rw, toClient, sending, retryPingCount, loop,
                   pinger, callVars, histVars>>

-----------------------------------------------------------------------------
(* SendMessage and SendMessageSync.  A packet is encrypted with the key of *)
(* the moment; the first goes to the list before it is written, the second *)
(* to the wait registry, and is not flushed.                               *)

connVars == <<conn, alive, connected, key, toClient, retryPingCount, loop, pinger, disconnect>>

SendMessage(c) ==
    /\ calls[c].pc = "idle" /\ key # 0
    /\ clientIDGen < MaxSeq
    /\ clientIDGen' = clientIDGen + 1
    /\ calls' = [calls EXCEPT ![c] = [pc |-> "write", seq |-> clientIDGen + 1, key |-> key]]
    /\ sending' = Append(sending, Send(clientIDGen + 1, key))
    /\ handed' = handed \cup {clientIDGen + 1}
    /\ UNCHANGED <<connVars, rwVars, waits, answers, acked, accepted>>

\* An error is returned while the message stays in the list.
SendMessageWrites(c) ==
    /\ calls[c].pc = "write"
    /\ \E ok, flush \in BOOLEAN:
       /\ sendPacket(<<Send(calls[c].seq, calls[c].key)>>, ok)
       /\ calls' = [calls EXCEPT ![c] = IF ok /\ flush THEN [@ EXCEPT !.pc = "flush"] ELSE Idle]
    /\ UNCHANGED <<connVars, sending, waits, answers, clientIDGen, histVars>>

SendMessageFlushes(c) ==
    /\ calls[c].pc = "flush"
    /\ \E ok \in BOOLEAN: Flush(ok)
    /\ calls' = [calls EXCEPT ![c] = Idle]
    /\ UNCHANGED <<connVars, sending, waits, answers, clientIDGen, histVars>>

SendMessageSync(c) ==
    /\ calls[c].pc = "idle" /\ key # 0
    /\ clientIDGen < MaxSeq
    /\ clientIDGen' = clientIDGen + 1
    /\ calls' = [calls EXCEPT ![c] = [pc |-> "syncwrite", seq |-> clientIDGen + 1, key |-> key]]
    /\ Register(clientIDGen + 1)
    /\ UNCHANGED <<connVars, rwVars, sending, histVars>>

\* On an error the id is triggered and nobody waits.
SyncWrites(c) ==
    /\ calls[c].pc = "syncwrite"
    /\ \E ok \in BOOLEAN:
       /\ sendPacket(<<Send(calls[c].seq, calls[c].key)>>, ok)
       /\ calls' = [calls EXCEPT ![c] = IF ok THEN [@ EXCEPT !.pc = "await"] ELSE Idle]
       /\ IF ok THEN UNCHANGED <<waits, answers>> ELSE Trigger(calls[c].seq, FALSE)
    /\ UNCHANGED <<connVars, sending, clientIDGen, histVars>>

\* An answer, the closed disconnectChan or the caller's deadline; the id
\* stays registered in the last two cases.
SyncReturns(c) ==
    /\ calls[c].pc = "await"
    /\ \/ calls[c].seq \in answers /\ answers' = answers \ {calls[c].seq}
       \/ disconnect = "done" /\ UNCHANGED answers
       \/ disconnect # "done" /\ calls[c].seq \notin answers /\ UNCHANGED answers
    /\ calls' = [calls EXCEPT ![c] = Idle]
    /\ UNCHANGED <<connVars, rwVars, sending, waits, clientIDGen, histVars>>

-----------------------------------------------------------------------------
(* The server and the network                                              *)

\* handler.go: a SEND whose MsgKey was made with another key is refused.
Serve ==
    /\ alive /\ toServer # <<>>
    /\ LET p == Head(toServer) IN
       /\ toClient' = Append(toClient, p.seq)
       /\ accepted' = [accepted EXCEPT ![p.seq] = IF p.key = conn THEN @ + 1 ELSE @]
    /\ toServer' = Tail(toServer)
    /\ UNCHANGED <<conn, alive, connected, key, rw, sending, retryPingCount, loop,
                   pinger, disconnect, callVars, handed, acked>>

Break ==
    /\ alive
    /\ Cut
    /\ \E keep \in {toClient, <<>>}: toClient' = keep
    /\ UNCHANGED <<conn, connected, key, rw, sending, retryPingCount, loop, pinger,
                   disconnect, callVars, histVars>>

-----------------------------------------------------------------------------
\* Nothing is left to do within the bounds.
Rest ==
    /\ loop \in {"done", "stop"} \/ (loop = "connect" /\ conn = MaxConns)
    /\ UNCHANGED vars

LoopStep ==
    \/ Dial \/ ConnectFails \/ Handshake
    \/ ReadSendack \/ ReadOther \/ ReadFails
    \/ LoopTestsFlag \/ LoopCloses \/ StopHeartbeat

Next ==
    \/ LoopStep
    \/ PingTick \/ PingGivesUp
    \/ DisconnectTests \/ DisconnectCloses
    \/ \E c \in Callers:
          \/ SendMessage(c) \/ SendMessageWrites(c) \/ SendMessageFlushes(c)
          \/ SendMessageSync(c) \/ SyncWrites(c) \/ SyncReturns(c)
    \/ Serve \/ Break \/ Rest

\* The goroutines of the library are scheduled; the user, the server and the
\* network owe nothing.
Fairness == WF_vars(LoopStep) /\ WF_vars(PingTick \/ PingGivesUp)

Spec == Init /\ [][Next]_vars /\ Fairness

-----------------------------------------------------------------------------
TypeOK ==
    /\ conn \in 0 .. MaxConns /\ key \in 0 .. MaxConns
    /\ alive \in BOOLEAN /\ connected \in BOOLEAN
    /\ retryPingCount \in 0 .. 3
    /\ loop \in {"connect", "handshake", "read", "close", "closing", "stop", "done"}
    /\ pinger \in {"none", "wait", "ended", "gaveup"}
    /\ waits \subseteq Seqs /\ answers \subseteq Seqs

\* A message that SendMessage took (sending) is on the list that Connect
\* repeats until the server has answered it, whatever happened to the
\* connection, the write or the flush in between.
NotLost ==
    /\ TypeOK
    /\ \A s \in handed \ acked: \E i \in DOMAIN sending: sending[i].seq = s

\* The server accepts a message at most once although Connect repeats it
\* and a caller may still write it after that: a repeated packet carries
\* the key of the earlier connection (client.go 127-131, handler.go 214).
AcceptedOnce == \A s \in Seqs: accepted[s] <= 1

\* The two loops belong together: no heartbeat outlives its read loop into
\* another Connect, and a read loop without heartbeat is one whose
\* heartbeat closed the connection.
LoopsPaired ==
    /\ pinger = "wait" => loop \in {"read", "close", "closing", "stop"}
    /\ loop = "read" => pinger = "wait" \/ (pinger = "gaveup" /\ ~alive)

\* A read loop whose connection has failed (ReadFails, by the network, by
\* Disconnect or by the heartbeat) ends or connects again; the only place
\* where it can stay is the hand-over to a heartbeat that gave up.
FailureHandled ==
    (loop = "read" /\ ~alive) ~> \/ loop \in {"connect", "done"}
                                 \/ loop = "stop" /\ pinger = "gaveup"

\* client.go 300: after three pings without an answer the connection is
\* closed "to make it reconnect".
GivesUpReconnects ==
    (pinger = "gaveup" /\ disconnect = "idle") ~> (loop = "connect" \/ disconnect # "idle")
=============================================================================
