---------------------------- MODULE WsTelemetry ----------------------------
(***************************************************************************)
(* The telemetry push (components/web_panel, ws_telemetry.c and            *)
(* ws_client_set.c): a timer that queues one push at a time, the push in   *)
(* the server task, and the slots of the clients.                          *)
(*                                                                         *)
(* The server and its sockets are external: it runs one handler or one     *)
(* queued push at a time, gives a new connection the lowest free           *)
(* descriptor, closes the least recently used session when all are taken,  *)
(* and sends to any open session, whatever was agreed on it.               *)
(***************************************************************************)
EXTENDS Naturals, Sequences, FiniteSets

CONSTANTS
  MaxClients,   \* WS_TELEMETRY_MAX_CLIENTS
  MaxSockets    \* config.max_open_sockets

ASSUME TelemetryAssumption == MaxClients \in Nat \ {0} /\ MaxSockets \in Nat \ {0}

VARIABLES
  slots,      \* s_clients
  timer,      \* s_timer runs; s_server is set before it
  in_flight,  \* s_push_in_flight
  \* push_work, in the server task
  push,       \* where it is
  index,      \* the member it sends to
  failed,     \* the descriptors whose send failed
  \* external
  queued,     \* pushes in the server's queue
  session,    \* what each descriptor is open for
  recent,     \* the open descriptors, least recently used first
  \* for the properties
  served      \* members this push has sent to, or failed to

pushVars == <<push, index, failed, served>>
sessionVars == <<session, recent>>
telemetryVars == <<slots, timer, in_flight, queued, pushVars, sessionVars>>

Descriptors == 1..MaxSockets
Slots == 1..MaxClients
FreeSlot == 0

(* ws_client_set.c *)

ClientSetInit == [s \in Slots |-> FreeSlot]
Members == {slots[s] : s \in Slots} \ {FreeSlot}
UsedSlots == {s \in Slots : slots[s] # FreeSlot}

\* The index-th member, without holes.
MemberAt(i) ==
  slots[CHOOSE s \in UsedSlots : Cardinality({r \in UsedSlots : r <= s}) = i]

FirstFreeSlot ==
  CHOOSE s \in Slots \ UsedSlots : \A r \in Slots \ UsedSlots : s <= r

Without(fds) == [s \in Slots |-> IF slots[s] \in fds THEN FreeSlot ELSE slots[s]]

TelemetryInit ==
  /\ slots = ClientSetInit
  /\ timer = FALSE
  /\ in_flight = FALSE
  /\ push = "none"   /\ index = 1   /\ failed = {}   /\ served = {}
  /\ queued = 0
  /\ session = [fd \in Descriptors |-> "closed"]
  /\ recent = << >>

(* on_tick, in the timer task. *)

\* Faulty: a push in flight does not drop this one.
OnTickQueuesAlways ==
  /\ timer
  /\ queued' = queued + 1
  /\ in_flight' = TRUE
  /\ UNCHANGED <<slots, timer, pushVars, sessionVars>>

\* A push in flight drops this one, and so does a server that does not take it: the
\* flag is cleared again.
OnTick ==
  /\ timer
  /\ ~in_flight
  /\ queued' = queued + 1
  /\ in_flight' = TRUE
  /\ UNCHANGED <<slots, timer, pushVars, sessionVars>>

(* push_work *)

\* Faulty: the flag stays set when there is no client.
PushBeginsKeepsFlag ==
  /\ push = "none"
  /\ queued > 0
  /\ queued' = queued - 1
  /\ push' = IF Members = {} THEN "none" ELSE "sending"
  /\ UNCHANGED <<slots, timer, in_flight, index, failed, served, sessionVars>>

PushBegins ==
  /\ push = "none"
  /\ queued > 0
  /\ queued' = queued - 1
  /\ IF Members = {} THEN in_flight' = FALSE /\ UNCHANGED push
     ELSE push' = "sending" /\ UNCHANGED in_flight
  /\ UNCHANGED <<slots, timer, index, failed, served, sessionVars>>

Receives(fd) == session[fd] \in {"http", "ws"}

PushSends ==
  /\ push = "sending"
  /\ index <= Cardinality(UsedSlots)
  /\ LET fd == MemberAt(index)
     IN  /\ failed' = IF Receives(fd) THEN failed ELSE failed \cup {fd}
         /\ served' = served \cup {fd}
  /\ index' = index + 1
  /\ UNCHANGED <<slots, timer, in_flight, queued, push, sessionVars>>

PushEnds ==
  /\ push = "sending"
  /\ index > Cardinality(UsedSlots)
  /\ slots' = Without(failed)
  /\ in_flight' = FALSE
  /\ push' = "none"  /\ index' = 1  /\ failed' = {}  /\ served' = {}
  /\ UNCHANGED <<timer, queued, sessionVars>>

(* The handlers, in the server task, between pushes. *)

Used(fd) == SelectSeq(recent, LAMBDA other : other # fd) \o <<fd>>

Close(fd) ==
  /\ session' = [session EXCEPT ![fd] = "closed"]
  /\ recent' = SelectSeq(recent, LAMBDA other : other # fd)

Refused(fd) == fd \notin Members /\ UsedSlots = Slots
Registered(fd) == IF fd \in Members THEN slots ELSE [slots EXCEPT ![FirstFreeSlot] = fd]

\* ws_handler: a client gets a slot, and the first one creates the timer.  With all
\* slots taken it gets a session without telemetry; when the timer cannot be created
\* the server closes the session, but the slot is taken.
Handshake(fd) ==
  /\ push = "none"
  /\ session[fd] = "http"
  /\ slots' = IF Refused(fd) THEN slots ELSE Registered(fd)
  /\ \/ /\ timer' = (timer \/ ~Refused(fd))
        /\ session' = [session EXCEPT ![fd] = "ws"]
        /\ recent' = Used(fd)
     \/ /\ ~timer /\ ~Refused(fd)
        /\ UNCHANGED timer
        /\ Close(fd)
  /\ UNCHANGED <<in_flight, queued, pushVars>>

\* Any other request.
Request(fd) ==
  /\ push = "none"
  /\ session[fd] = "http"
  /\ recent' = Used(fd)
  /\ UNCHANGED <<slots, timer, in_flight, queued, pushVars, session>>

\* A connection; when all sockets are taken the least recently used session goes.
Connect ==
  /\ push = "none"
  /\ LET free  == {fd \in Descriptors : session[fd] = "closed"}
         taken == IF free = {} THEN Head(recent)
                  ELSE CHOOSE fd \in free : \A other \in free : fd <= other
     IN  /\ session' = [session EXCEPT ![taken] = "http"]
         /\ recent' = Used(taken)
  /\ UNCHANGED <<slots, timer, in_flight, queued, pushVars>>

\* The peer closes its connection.
Disconnect(fd) ==
  /\ push = "none"
  /\ session[fd] # "closed"
  /\ Close(fd)
  /\ UNCHANGED <<slots, timer, in_flight, queued, pushVars>>

\* The peer is out of reach: sends fail, the session stays.
Vanish(fd) ==
  /\ session[fd] \in {"http", "ws"}
  /\ session' = [session EXCEPT ![fd] = "gone"]
  /\ UNCHANGED <<slots, timer, in_flight, queued, pushVars, recent>>

Push == PushBegins \/ PushSends \/ PushEnds

TelemetryNext ==
  \/ OnTick \/ Push \/ Connect
  \/ \E fd \in Descriptors : Handshake(fd) \/ Request(fd) \/ Disconnect(fd) \/ Vanish(fd)

\* The timer fires and finds the server ready to take a push now and then, and the
\* server task comes to what is queued.
TelemetryFairness == WF_telemetryVars(OnTick) /\ WF_telemetryVars(Push)

TelemetrySpec == TelemetryInit /\ [][TelemetryNext]_telemetryVars /\ TelemetryFairness
-----------------------------------------------------------------------------
\* A slow push never backs up: at most one is queued or running.
PushesNeverBackUp == queued + (IF push = "none" THEN 0 ELSE 1) <= 1

\* A client that holds its slot over an open session is sent to again and again: no
\* client lost, no push dropped and no time without clients silences the push for good.
TelemetryGoesOn ==
  \A fd \in Descriptors :
    <>[](fd \in Members /\ session[fd] = "ws") => []<>(fd \in served)

\* What http_server.c says of its socket budget ("so lru_purge never evicts an active
\* WS telemetry client").
ClientsAreNeverEvicted ==
  [][\A fd \in Members : ~(session[fd] = "ws" /\ session'[fd] = "http")]_telemetryVars

\* What ws_client_set.h says it holds ("connected WS fds"): what a push sends to was
\* opened as a WebSocket.
FramesGoToWebSockets ==
  push = "sending" /\ index <= Cardinality(UsedSlots) => session[MemberAt(index)] # "http"
=============================================================================
