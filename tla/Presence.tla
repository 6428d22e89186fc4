------------------------------ MODULE Presence ------------------------------
(***************************************************************************)
(* PresenceManager (sockets/presence.py) over a hub whose broadcasts take  *)
(* time and may raise.  Room membership is the hub's, a connection's       *)
(* status the manager's; leave clears the status only after its broadcast. *)
(***************************************************************************)
EXTENDS Integers, FiniteSets

CONSTANTS
  Conns, Rooms,
  Callers,    \* tasks that call the manager
  NoConn      \* "this task awaits no broadcast"

ASSUME NoConnAssumption == NoConn \notin Conns

VARIABLES
  here,      \* the hub's registered connections
  gone,      \* connections that have disconnected: ids are not used again
  inRoom,    \* the hub's rooms of a connection
  status,    \* connections that have an entry in _status
  leaving,   \* the connection whose leave a task broadcasts
  excused    \* history: what may have left a status behind

presenceVars == <<here, gone, inRoom, status, leaving, excused>>

PresenceInit ==
  /\ here = {} /\ gone = {} /\ status = {}
  /\ inRoom = [c \in Conns |-> {}]
  /\ leaving = [t \in Callers |-> NoConn]
  /\ excused = {}

Registers(c) ==
  /\ c \notin here \cup gone
  /\ here' = here \cup {c}
  /\ UNCHANGED <<gone, inRoom, status, leaving, excused>>

(* join: the broadcast that follows changes nothing, however it ends.      *)
Join(c, r) ==
  /\ c \in here
  /\ inRoom' = [inRoom EXCEPT ![c] = @ \cup {r}]
  /\ status' = status \cup {c}
  /\ excused' = excused \ {c}
  /\ UNCHANGED <<here, gone, leaving>>

LeaveRoom(c, r) == r \in inRoom[c] /\ inRoom' = [inRoom EXCEPT ![c] = @ \ {r}]

(* The status of a connection that is in no room any more.                 *)
Cleared(c, rooms) == IF rooms[c] = {} THEN status \ {c} ELSE status

LeaveQuietly(c, r) ==
  /\ LeaveRoom(c, r)
  /\ status' = Cleared(c, inRoom')
  /\ UNCHANGED <<here, gone, leaving, excused>>

LeaveBroadcasts(t, c, r) ==
  /\ leaving[t] = NoConn
  /\ LeaveRoom(c, r)
  /\ leaving' = [leaving EXCEPT ![t] = c]
  /\ UNCHANGED <<here, gone, status, excused>>

(* mutated form: the rooms are not looked at again after the broadcast     *)
LeaveEndsUnchecked(t) ==
  /\ leaving[t] # NoConn
  /\ status' = status \ {leaving[t]}
  /\ leaving' = [leaving EXCEPT ![t] = NoConn]
  /\ UNCHANGED <<here, gone, inRoom, excused>>

LeaveEnds(t) ==
  /\ leaving[t] # NoConn
  /\ status' = Cleared(leaving[t], inRoom)
  /\ leaving' = [leaving EXCEPT ![t] = NoConn]
  /\ UNCHANGED <<here, gone, inRoom, excused>>

(* The broadcast raises, or the task is cancelled in it.                   *)
LeaveRaises(t) ==
  /\ leaving[t] # NoConn
  /\ excused' = IF inRoom[leaving[t]] = {} THEN excused \cup {leaving[t]} ELSE excused
  /\ leaving' = [leaving EXCEPT ![t] = NoConn]
  /\ UNCHANGED <<here, gone, inRoom, status>>

UpdateStatus(c) ==
  /\ c \in here
  /\ status' = status \cup {c}
  /\ excused' = IF inRoom[c] = {} THEN excused \cup {c} ELSE excused
  /\ UNCHANGED <<here, gone, inRoom, leaving>>

HubDisconnect(c) ==
  /\ here' = here \ {c} /\ gone' = gone \cup {c}
  /\ inRoom' = [inRoom EXCEPT ![c] = {}]

Disconnect(c) ==
  /\ c \in here /\ HubDisconnect(c)
  /\ status' = status \ {c}
  /\ UNCHANGED <<leaving, excused>>

(* The hub's own disconnect, as the websocket handler calls it; the caller *)
(* is to clear_local_state.                                                *)
DropsBehind(c) ==
  /\ c \in here /\ HubDisconnect(c)
  /\ excused' = excused \cup {c}
  /\ UNCHANGED <<status, leaving>>

ClearLocalState(c) ==
  /\ c \in gone
  /\ status' = status \ {c} /\ excused' = excused \ {c}
  /\ UNCHANGED <<here, gone, inRoom, leaving>>

PresenceNext ==
  \/ \E c \in Conns :
       \/ Registers(c) \/ UpdateStatus(c) \/ Disconnect(c) \/ DropsBehind(c) \/ ClearLocalState(c)
       \/ \E r \in Rooms : Join(c, r) \/ LeaveQuietly(c, r) \/ \E t \in Callers : LeaveBroadcasts(t, c, r)
  \/ \E t \in Callers : LeaveEnds(t) \/ LeaveRaises(t)

PresenceSpec == PresenceInit /\ [][PresenceNext]_presenceVars

PresenceTypeOK ==
  /\ here \cap gone = {} /\ here \cup gone \cup status \cup excused \subseteq Conns
  /\ inRoom \in [Conns -> SUBSET Rooms]
  /\ leaving \in [Callers -> Conns \cup {NoConn}]

(* A connection in a room has a status, however leaves, joins and          *)
(* disconnects interleave in the broadcasts; one in no room has none once  *)
(* no leave of it is under way -- unless a leave's broadcast raised, its   *)
(* status was set outside rooms, or it disconnected past the manager, and  *)
(* it joined no room since.                                                *)
StatusIffInRoom ==
  \A c \in Conns :
    /\ inRoom[c] # {} => c \in status
    /\ c \in status /\ inRoom[c] = {} => c \in excused \/ \E t \in Callers : leaving[t] = c
=============================================================================
