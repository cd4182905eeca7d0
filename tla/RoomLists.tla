----------------------------- MODULE RoomLists -----------------------------
(***************************************************************************)
(* The cached room lists (GET /rooms, GET /dashboard/stats) and every      *)
(* handler that changes the status of a room.                              *)
(*                                                                         *)
(* A reader looks in Redis, on a miss reads the table and then stores what *)
(* it read; a writer updates the table and then deletes the keys it knows  *)
(* of.  Neither pair of calls is atomic, and every Redis call may fail     *)
(* silently.  A status is whatever text a request writes or asks for: the  *)
(* four of the domain, or another.  An entry is named by the status it     *)
(* lists; "all" and "stats" cover every room.                              *)
(***************************************************************************)
CONSTANTS
    Room,
    Writer,     \* requests that change a room
    Reader,     \* requests that read a list
    WriterKind, \* the handlers in use
    OtherText,  \* texts that are no status of the domain
    Everything, \* GET /rooms without a status
    Absent      \* no entry under a key; no such room yet

\* The statuses of the domain, which are the ones the handlers know of.
RoomStatus == {"available", "occupied", "cleaning", "maintenance"}

\* What rooms.status and the query may contain: any text.
Status == RoomStatus \cup OtherText

ListKey == Status \cup {"all"}

CacheKey == ListKey \cup {"stats"}

\* What a reader asks for: the rooms of a status, all of them, or the statistics.
Question == Status \cup {Everything, "stats"}

Lists == SUBSET (Room \X Status)

ASSUME RoomListsAssumption ==
    /\ WriterKind \subseteq {"status", "create", "booking", "rollback", "checkin",
                             "checkout", "cancel", "compat"}
    /\ OtherText \cap (RoomStatus \cup {"stats"}) = {}
    /\ Everything \notin CacheKey
    /\ Absent \notin Status /\ \A list \in Lists : list # Absent

VARIABLES
    roomStatus,     \* rooms.status, Absent for a room not created yet
    entry,          \* Redis: the rooms, with their status, stored under a key
    writer,         \* [kind, room, at]: each writer, its room and its next call
    reader,         \* [asks, at, list]: each reader, and what it read on a miss

    \* History variables: no guard reads them.
    outdated,       \* keys filled with a list read before the latest write
    skipped,        \* keys a write affected and its handler does not delete
    undeleted,      \* keys whose Delete failed
    confused        \* keys filled with the answer to the other question they name

listHistory == <<outdated, skipped, undeleted, confused>>
listVars == <<roomStatus, entry, writer, reader, listHistory>>

\* The key of a question. ?status=all and no status at all have the same one.
KeyOf(asks) == IF asks = Everything THEN "all" ELSE asks

\* What a question is answered: the rooms, with their status, that it asks for.
Answer(asks, status) ==
    {<<r, status[r]>> : r \in {r \in Room :
        status[r] # Absent /\ (asks \in Status => status[r] = asks)}}

\* What a key stands for: the answer to the question it is named after.
Listed(key, status) == Answer(IF key = "all" THEN Everything ELSE key, status)

TypeLists ==
    /\ roomStatus \in [Room -> Status \cup {Absent}]
    /\ entry \in [CacheKey -> Lists \cup {Absent}]
    /\ writer \in [Writer -> [kind : WriterKind, room : Room, at : {"write", "drop", "done"}]]
    /\ reader \in [Reader -> [asks : Question, at : {"get", "query", "set", "done"},
                              list : Lists \cup {Absent}]]
    /\ outdated \subseteq CacheKey
    /\ skipped \subseteq CacheKey
    /\ undeleted \subseteq CacheKey
    /\ confused \subseteq CacheKey

InitLists ==
    /\ roomStatus \in [Room -> {"available", "maintenance", Absent}]
    /\ entry = [k \in CacheKey |-> Absent]
    /\ writer \in [Writer -> [kind : WriterKind, room : Room, at : {"write"}]]
    /\ reader \in [Reader -> [asks : Question, at : {"get"}, list : {Absent}]]
    /\ outdated = {}
    /\ skipped = {}
    /\ undeleted = {}
    /\ confused = {}

-----------------------------------------------------------------------------
(* Writers.                                                                *)

\* Mutant: a booking writes a status of its own.
WrittenBooked(kind) ==
    CASE kind \in {"status", "create", "compat"} -> Status
      [] kind \in {"rollback", "cancel"} -> {"available"}
      [] kind = "booking" -> {"booked"}
      [] kind = "checkin" -> {"occupied"}
      [] kind = "checkout" -> {"cleaning"}

\* The status a handler writes. The room routes and the table API write the text of the
\* request: no handler and no constraint of the table looks at it. The booking checks
\* nothing between its own reading of the room and this write, so the room may have any
\* status by now.
Written(kind) ==
    CASE kind \in {"status", "create", "compat"} -> Status
      [] kind \in {"rollback", "cancel"} -> {"available"}
      [] kind \in {"booking", "checkin"} -> {"occupied"}
      [] kind = "checkout" -> {"cleaning"}

\* Mutant: the entry of all rooms is forgotten.
DroppedNotAll(kind) ==
    CASE kind \in {"status", "create"} -> RoomStatus \cup {"stats"}
      [] kind = "booking" -> {"stats", "available", "occupied"}
      [] OTHER -> {}

\* The keys a handler deletes after its write: invalidateRooms names those of the domain,
\* the bookings four, the roll-back, the front desk and the table API none.
Dropped(kind) ==
    CASE kind \in {"status", "create"} -> RoomStatus \cup {"all", "stats"}
      [] kind = "booking" -> {"stats", "all", "available", "occupied"}
      [] OTHER -> {}

\* The keys no handler takes care of after a write: every key after the handlers that delete
\* nothing, and after the booking of a room that was taken from "available" to another
\* status behind its back; always the lists of a text outside the domain.
Unhandled(kind, status) ==
    IF \/ kind \in {"rollback", "checkin", "checkout", "cancel", "compat"}
       \/ kind = "booking" /\ status # "available"
    THEN CacheKey ELSE OtherText \ {"all"}

Write(w) ==
    LET kind == writer[w].kind
        room == writer[w].room
    IN  /\ writer[w].at = "write"
        /\ (kind = "create") = (roomStatus[room] = Absent)
        /\ \E s \in Written(kind) : roomStatus' = [roomStatus EXCEPT ![room] = s]
        /\ writer' = [writer EXCEPT ![w].at = "drop"]
        /\ skipped' = skipped \cup {k \in Unhandled(kind, roomStatus[room]) :
                                        Listed(k, roomStatus') # Listed(k, roomStatus)}
        /\ UNCHANGED <<entry, reader, outdated, undeleted, confused>>

\* The room does not exist, or exists already, or the database fails.
WriteFails(w) ==
    /\ writer[w].at = "write"
    /\ writer' = [writer EXCEPT ![w].at = "done"]
    /\ UNCHANGED <<roomStatus, entry, reader, listHistory>>

\* One DEL of several keys; its result is discarded.
Drop(w) ==
    LET keys == Dropped(writer[w].kind)
    IN  /\ writer[w].at = "drop"
        /\ writer' = [writer EXCEPT ![w].at = "done"]
        /\ \/ /\ entry' = [k \in CacheKey |-> IF k \in keys THEN Absent ELSE entry[k]]
              /\ outdated' = outdated \ keys
              /\ skipped' = skipped \ keys
              /\ undeleted' = undeleted \ keys
              /\ confused' = confused \ keys
           \/ /\ undeleted' = undeleted \cup keys
              /\ UNCHANGED <<entry, outdated, skipped, confused>>
        /\ UNCHANGED <<roomStatus, reader>>

-----------------------------------------------------------------------------
(* Readers.                                                                *)

\* An entry is returned as it is; a Redis error counts as a miss.
Get(x) ==
    /\ reader[x].at = "get"
    /\ \/ entry[KeyOf(reader[x].asks)] # Absent /\ reader' = [reader EXCEPT ![x].at = "done"]
       \/ reader' = [reader EXCEPT ![x].at = "query"]
    /\ UNCHANGED <<roomStatus, entry, writer, listHistory>>

\* ListRooms, or the one statistics query.
Query(x) ==
    /\ reader[x].at = "query"
    /\ reader' = [reader EXCEPT ![x].at = "set",
                                ![x].list = Answer(reader[x].asks, roomStatus)]
    /\ UNCHANGED <<roomStatus, entry, writer, listHistory>>

QueryFails(x) ==
    /\ reader[x].at = "query"
    /\ reader' = [reader EXCEPT ![x].at = "done"]
    /\ UNCHANGED <<roomStatus, entry, writer, listHistory>>

\* Replacing the entry of the key of a question by list.
Put(asks, list) ==
    LET key == KeyOf(asks)
    IN  /\ entry' = [entry EXCEPT ![key] = list]
        /\ outdated' = IF list \in {Absent, Answer(asks, roomStatus)} THEN outdated \ {key}
                       ELSE outdated \cup {key}
        /\ skipped' = skipped \ {key}
        /\ undeleted' = undeleted \ {key}
        /\ confused' = IF list # Absent /\ asks = "all" THEN confused \cup {key}
                       ELSE confused \ {key}

\* The list is stored however old it is by now; a failure is ignored.
Store(x) ==
    /\ reader[x].at = "set"
    /\ reader' = [reader EXCEPT ![x].at = "done"]
    /\ Put(reader[x].asks, reader[x].list) \/ UNCHANGED <<entry, listHistory>>
    /\ UNCHANGED <<roomStatus, writer>>

\* TTLRoomList, 60 s; 30 s for the statistics.
Lapse(k) ==
    /\ entry[k] # Absent
    /\ Put(k, Absent)
    /\ UNCHANGED <<roomStatus, writer, reader>>

ListsIdle ==
    /\ \A w \in Writer : writer[w].at = "done"
    /\ \A x \in Reader : reader[x].at = "done"
    /\ UNCHANGED listVars

NextLists ==
    \/ \E w \in Writer : Write(w) \/ WriteFails(w) \/ Drop(w)
    \/ \E x \in Reader : Get(x) \/ Query(x) \/ QueryFails(x) \/ Store(x)
    \/ \E k \in CacheKey : Lapse(k)
    \/ ListsIdle

SpecLists == InitLists /\ [][NextLists]_listVars

-----------------------------------------------------------------------------
(* Properties.                                                             *)

Wrong(k) == entry[k] # Absent /\ entry[k] # Listed(k, roomStatus)

\* A list is wrong only while the writer that made it so has still to delete it, after a
\* reader has stored what it had read before the write, after a Delete has failed, after a
\* write of a handler that deletes nothing, for a text outside the domain, which no handler
\* deletes, or where ?status=all was asked, which is stored under the key of all rooms. In
\* particular the keys deleted by the status route, the creation of a room and the booking
\* of an available room cover every list of the domain that these affect.
WrongOnlyInRaces ==
    \A k \in CacheKey :
        Wrong(k) => \/ k \in outdated \cup skipped \cup undeleted \cup confused
                    \/ \E w \in Writer : writer[w].at = "drop" /\ k \in Dropped(writer[w].kind)

=============================================================================
