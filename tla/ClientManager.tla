--------------------------- MODULE ClientManager ---------------------------
(***************************************************************************)
(* The connections of one user: registration, kicking of an older          *)
(* connection of the same device, removal, look-up and the online status   *)
(* reported to the webhook (internal/lim/client_manager.go, handleConnect  *)
(* and handleDisconnect of handler.go, onlinestatus_webhook.go).           *)
(*                                                                         *)
(* userClientMap holds a Go slice: a backing array and a length.  Remove   *)
(* shifts the array in place and Add may write into it in place, so other  *)
(* goroutines that have loaded the slice see the array change.  The manager*)
(* locks only around those updates; what they start from was loaded before.*)
(*                                                                         *)
(* A connection has two handlers: handleConnect on a goroutine of the      *)
(* message pool and handleDisconnect on its event loop.  A reader looks    *)
(* the user's connections up for a delivery.  Left out: the refusal of a   *)
(* connection (wrong node or token), which changes nothing here, keys,     *)
(* CONNACK and DISCONNECT packets.                                         *)
(***************************************************************************)
EXTENDS Naturals, Sequences, FiniteSets

CONSTANTS NumConns,    \* bound: connections 1..NumConns are made
          NumDevices,  \* device flags
          MaxHandlers, \* bound: handlers that run at the same time
          Arrays       \* backing arrays; unreferenced ones are collected

ASSUME ClientAssumption ==
    /\ NumConns \in Nat \ {0} /\ NumDevices \in Nat \ {0}
    /\ MaxHandlers \in Nat \ {0} /\ Arrays \subseteq Nat \ {0}

Conns == 1 .. NumConns
DeviceOf(c) == c % NumDevices
Devices == { DeviceOf(c) : c \in Conns }
Procs == {"connect", "disconnect"} \X Conns
NoSlice == [arr |-> 0, len |-> 0]
Idle == [pc |-> "idle", sl |-> NoSlice, i |-> 0, target |-> 0]
Remover(c) == [pc |-> "rm", sl |-> NoSlice, i |-> 0, target |-> c]

VARIABLES
    clients,  \* ClientManager.clientMap
    list,     \* the user's slice in userClientMap, or NoSlice
    array,    \* the backing arrays
    proc,     \* the handlers of the connections
    reader,   \* a call of GetClientsWithUID
    sock,     \* "new", "open" or "closed"
    status,   \* the last status reported for each device
    raced     \* the overlaps that have happened (history), see Overlaps

vars == <<clients, list, array, proc, reader, sock, status, raced>>

\* What the manager does not guard against:
\*   "device"  two handlers of one device run at once;
\*   "list"    a list is stored that was made from one no longer current;
\*   "shift"   a removal moves the array that a handleConnect is searching.
Overlaps == {"device", "list", "shift"}

PCs == {"idle", "find", "walk", "rm", "rmLoad", "rmLock", "add", "addLoad", "addLock", "report"}

TypeOK ==
    /\ clients \subseteq Conns
    /\ list = NoSlice \/ (list.arr \in Arrays /\ list.len \in 0 .. Len(array[list.arr]))
    /\ \A a \in Arrays : array[a] \in Seq(Conns \cup {0})
    /\ \A p \in Procs : proc[p].pc \in PCs /\ proc[p].target \in Conns \cup {0}
    /\ reader.pc \in {"idle", "walk", "done"} /\ reader.got \cup reader.missed \subseteq Conns
    /\ sock \in [Conns -> {"new", "open", "closed"}]
    /\ status \in [Devices -> {"online", "offline"}]
    /\ raced \subseteq Overlaps

NoReader == [pc |-> "idle", sl |-> NoSlice, i |-> 0, got |-> {}, must |-> {},
             moved |-> FALSE, missed |-> {}]

Init ==
    /\ clients = {}
    /\ list = NoSlice
    /\ array = [a \in Arrays |-> <<>>]
    /\ proc = [p \in Procs |-> Idle]
    /\ reader = NoReader
    /\ sock = [c \in Conns |-> "new"]
    /\ status = [d \in Devices |-> "offline"]
    /\ raced = {}

-----------------------------------------------------------------------------
\* No handler runs.
Quiet == \A p \in Procs : proc[p] = Idle

\* One more may start.
MayStart == Cardinality({ p \in Procs : proc[p] # Idle }) < MaxHandlers

Record(overlap, happened) == raced' = IF happened THEN raced \cup {overlap} ELSE raced

\* A handler of the device of c runs.
Busy(c) == \E p \in Procs : proc[p] # Idle /\ DeviceOf(p[2]) = DeviceOf(c)

At(p, pc) == proc[p].pc = pc
Goto(p, pc) == proc' = [proc EXCEPT ![p].pc = pc]
Finish(p) == proc' = [proc EXCEPT ![p] = Idle]

Fresh(a) ==
    /\ list.arr # a /\ reader.sl.arr # a
    /\ \A p \in Procs : proc[p].sl.arr # a

\* What a slice shows of its array.
Elem(sl, i) == array[sl.arr][i]

\* A CONNECT packet starts handleConnect.
Connect(c) ==
    /\ MayStart /\ sock[c] = "new"
    /\ \A d \in 1 .. c - 1 : sock[d] # "new"
    /\ sock' = [sock EXCEPT ![c] = "open"]
    /\ Goto(<<"connect", c>>, "find")
    /\ Record("device", Busy(c))
    /\ UNCHANGED <<clients, list, array, reader, status>>

\* Mutant: the close of a connection is not handled.
DisconnectIgnored(c) ==
    /\ MayStart /\ sock[c] = "open"
    /\ sock' = [sock EXCEPT ![c] = "closed"]
    /\ UNCHANGED <<clients, list, array, proc, reader, status, raced>>

\* The connection closes (also 4 seconds after it was kicked); OnClose looks
\* the client up: a connection that is not registered has nothing to undo.
Disconnect(c) ==
    /\ MayStart /\ sock[c] = "open"
    /\ sock' = [sock EXCEPT ![c] = "closed"]
    /\ proc' = IF c \in clients
               THEN [proc EXCEPT ![<<"disconnect", c>>] = Remover(c)]
               ELSE proc
    /\ Record("device", Busy(c))
    /\ UNCHANGED <<clients, list, array, reader, status>>

\* GetClientWith looks for a registered connection of the same device: it
\* loads the slice and then walks over it.
Find(p) ==
    /\ At(p, "find")
    /\ proc' = [proc EXCEPT ![p] = [pc |-> "walk", sl |-> list, i |-> 1, target |-> 0]]
    /\ UNCHANGED <<clients, list, array, reader, sock, status, raced>>

\* Mutant: no older connection is ever found.
MatchesNone(p, x) == FALSE

Matches(p, x) == x \in clients /\ DeviceOf(x) = DeviceOf(p[2])

\* handleConnect removes the connection it finds; handleDisconnect reports the
\* device as offline when it finds none.
Walk(p) ==
    LET w == proc[p]
        x == Elem(w.sl, w.i)
    IN  /\ At(p, "walk")
        /\ proc' = [proc EXCEPT ![p] =
              IF w.i > w.sl.len
              THEN [Idle EXCEPT !.pc = IF p[1] = "connect" THEN "add" ELSE "report"]
              ELSE IF ~Matches(p, x) THEN [w EXCEPT !.i = @ + 1]
              ELSE IF p[1] = "connect" THEN Remover(x) ELSE Idle]
        /\ UNCHANGED <<clients, list, array, reader, sock, status, raced>>

-----------------------------------------------------------------------------
(* ClientManager.Remove *)

AfterRemove(p) == IF p[1] = "connect" THEN "add" ELSE "find"

RemoveClient(p) ==
    LET x == proc[p].target
    IN  /\ At(p, "rm")
        /\ proc' = [proc EXCEPT ![p] = IF x \in clients THEN [@ EXCEPT !.pc = "rmLoad"]
                                       ELSE [Idle EXCEPT !.pc = AfterRemove(p)]]
        /\ clients' = clients \ {x}
        /\ reader' = [reader EXCEPT !.must = @ \ {x}]
        /\ UNCHANGED <<list, array, sock, status, raced>>

RemoveLoad(p) ==
    /\ At(p, "rmLoad")
    /\ proc' = [proc EXCEPT ![p] = [pc |-> "rmLock", sl |-> list, i |-> 0, target |-> proc[p].target]]
    /\ UNCHANGED <<clients, list, array, reader, sock, status, raced>>

\* Mutant: the shortened slice is not stored.
RemoveLockedUnstored(p) ==
    /\ At(p, "rmLock")
    /\ proc' = [proc EXCEPT ![p] = [Idle EXCEPT !.pc = AfterRemove(p)]]
    /\ UNCHANGED <<clients, list, array, reader, sock, status, raced>>

\* append(userList[:index], userList[index+1:]...) moves the rest down within
\* the array; the shorter slice is stored.
RemoveLocked(p) ==
    LET sl == proc[p].sl
        hits == { i \in 1 .. sl.len : Elem(sl, i) = proc[p].target }
        k == CHOOSE i \in hits : \A j \in hits : i <= j
        others == { q \in Procs : At(q, "walk") /\ proc[q].sl.arr = sl.arr }
    IN  /\ At(p, "rmLock")
        /\ IF hits = {} THEN UNCHANGED <<list, array, reader, raced>>
           ELSE /\ array' = [array EXCEPT ![sl.arr] =
                       [i \in DOMAIN @ |-> IF k <= i /\ i < sl.len THEN @[i + 1] ELSE @[i]]]
                /\ list' = [sl EXCEPT !.len = @ - 1]
                /\ reader' = [reader EXCEPT !.moved = @ \/ (reader.pc = "walk" /\ reader.sl.arr = sl.arr)]
                /\ raced' = raced \cup (IF sl # list THEN {"list"} ELSE {})
                                  \cup (IF \E q \in others : q[1] = "connect" THEN {"shift"} ELSE {})
        /\ proc' = [proc EXCEPT ![p] = [Idle EXCEPT !.pc = AfterRemove(p)]]
        /\ UNCHANGED <<clients, sock, status>>

-----------------------------------------------------------------------------
(* ClientManager.Add *)

AddClient(p) ==
    /\ At(p, "add")
    /\ clients' = clients \cup {p[2]}
    /\ Goto(p, "addLoad")
    /\ UNCHANGED <<list, array, reader, sock, status, raced>>

\* LoadOrStore: the first connection of the user stores a list of its own.
AddLoad(p, a) ==
    /\ At(p, "addLoad")
    /\ Fresh(a)
    /\ \A b \in Arrays : Fresh(b) => a <= b
    /\ IF list = NoSlice
       THEN /\ array' = [array EXCEPT ![a] = <<p[2]>>]
            /\ list' = [arr |-> a, len |-> 1]
            /\ Goto(p, "report")
       ELSE /\ proc' = [proc EXCEPT ![p] = [pc |-> "addLock", sl |-> list, i |-> 0, target |-> 0]]
            /\ UNCHANGED <<array, list>>
    /\ UNCHANGED <<clients, reader, sock, status, raced>>

\* Mutant: the grown slice is not stored.
AddLockedUnstored(p, a) ==
    /\ At(p, "addLock") /\ Fresh(a)
    /\ proc' = [proc EXCEPT ![p] = [Idle EXCEPT !.pc = "report"]]
    /\ UNCHANGED <<clients, list, array, reader, sock, status, raced>>

\* append to the slice loaded before: in place if the array has room, else in
\* a new array of twice the length.
AddLocked(p, a) ==
    LET sl == proc[p].sl
        room == sl.len < Len(array[sl.arr])
        grown == [i \in 1 .. 2 * sl.len |-> IF i <= sl.len THEN Elem(sl, i) ELSE 0]
    IN  /\ At(p, "addLock")
        /\ Fresh(a)
        /\ \A b \in Arrays : Fresh(b) => a <= b
        /\ array' = IF room THEN [array EXCEPT ![sl.arr][sl.len + 1] = p[2]]
                    ELSE [array EXCEPT ![a] = [grown EXCEPT ![sl.len + 1] = p[2]]]
        /\ list' = [arr |-> IF room THEN sl.arr ELSE a, len |-> sl.len + 1]
        /\ proc' = [proc EXCEPT ![p] = [Idle EXCEPT !.pc = "report"]]
        /\ Record("list", sl # list)
        /\ UNCHANGED <<clients, reader, sock, status>>

\* Mutant: only connections are reported.
ReportOnlineOnly(p) ==
    /\ At(p, "report")
    /\ status' = [status EXCEPT ![DeviceOf(p[2])] = IF p[1] = "connect" THEN "online" ELSE @]
    /\ Finish(p)
    /\ UNCHANGED <<clients, list, array, reader, sock, raced>>

\* onlineStatusWebhook.Online and Offline
Report(p) ==
    /\ At(p, "report")
    /\ status' = [status EXCEPT ![DeviceOf(p[2])] = IF p[1] = "connect" THEN "online" ELSE "offline"]
    /\ Finish(p)
    /\ UNCHANGED <<clients, list, array, reader, sock, raced>>

-----------------------------------------------------------------------------
(* GetClientsWithUID of a delivery.  must holds the connections that have     *)
(* been registered completely before the call and not been removed since;     *)
(* missed is what of them the call did not return.                            *)

ReadStart ==
    /\ reader.pc # "walk"
    /\ reader' = [pc |-> "walk", sl |-> list, i |-> 1, got |-> {},
                  must |-> { c \in clients : proc[<<"connect", c>>] = Idle },
                  moved |-> FALSE, missed |-> {}]
    /\ UNCHANGED <<clients, list, array, proc, sock, status, raced>>

ReadNext ==
    LET x == Elem(reader.sl, reader.i)
    IN  /\ reader.pc = "walk"
        /\ reader' = IF reader.i > reader.sl.len
                     THEN [pc |-> "done", sl |-> NoSlice, i |-> 0, got |-> {}, must |-> {},
                           moved |-> reader.moved, missed |-> reader.must \ reader.got]
                     ELSE [pc |-> "walk", sl |-> reader.sl, i |-> reader.i + 1,
                           got |-> IF x \in clients THEN reader.got \cup {x} ELSE reader.got,
                           must |-> reader.must, moved |-> reader.moved, missed |-> {}]
        /\ UNCHANGED <<clients, list, array, proc, sock, status, raced>>

Next ==
    \/ \E c \in Conns : Connect(c) \/ Disconnect(c)
    \/ \E p \in Procs : \/ Find(p) \/ Walk(p)
                        \/ RemoveClient(p) \/ RemoveLoad(p) \/ RemoveLocked(p)
                        \/ AddClient(p) \/ (\E a \in Arrays : AddLoad(p, a) \/ AddLocked(p, a)) \/ Report(p)
    \/ ReadStart \/ ReadNext

Spec == Init /\ [][Next]_vars

-----------------------------------------------------------------------------
Listed == { Elem(list, i) : i \in 1 .. list.len }

\* CONSTRAINT: behaviours are followed up to the first overlap that the
\* manager does not guard against.
NoOverlap == raced = {}

\* Between handlers the user's list is the set of registered connections, each
\* once, after handlers of several devices that ran at the same time, shifted
\* the array in place or grew it.
ListExact ==
    /\ TypeOK
    /\ Quiet /\ NoOverlap => Listed = clients /\ Cardinality(Listed) = list.len

\* A device has one connection: a newer one has replaced the older, also while
\* connections of other devices come and go.
OneConnPerDevice ==
    Quiet /\ NoOverlap => \A c, d \in clients : DeviceOf(c) = DeviceOf(d) => c = d

\* GetOnlineUIDs tests for a list under the user, whatever its length.
GetOnlineUIDs == list # NoSlice

\* The last status reported for a device is its status, and GetOnlineUIDs
\* misses no user who is online (it also names one whose connections are gone).
StatusRight ==
    Quiet /\ NoOverlap =>
        /\ \A d \in Devices : status[d] = "online" <=> \E c \in clients : DeviceOf(c) = d
        /\ clients # {} => GetOnlineUIDs

\* No closed connection stays registered once its close was handled.
ClosedIsGone == Quiet /\ NoOverlap => \A c \in clients : sock[c] = "open"

\* GetClientsWithUID returns the connections of the user, beside handlers that
\* grow the list: every one that was registered before the call and is still
\* there, unless a removal moved the array under the call.
ReadComplete ==
    reader.pc = "done" /\ ~reader.moved /\ NoOverlap => reader.missed = {}
=============================================================================
