-------------------------------- MODULE Chat --------------------------------
(***************************************************************************)
(* The chat of a vDexNode server.  A stream of a room is a ChatReader with *)
(* an id and a buffer; it tells the chat thread of main.rs by events to    *)
(* listen to the room on the DHT and to stop.  The DHT calls back with     *)
(* every value at the hash of the room, once per listener, in any order,   *)
(* until the value expires.                                                *)
(***************************************************************************)
EXTENDS Totals, Sequences, SequencesExt

CONSTANTS
    Rooms,       \* room names; "" is what cannot be decoded
    MaxReaders,  \* bound: streams opened
    Messages,    \* bound: messages put, each once
    RoomOf,      \* RoomOf[m]: the room m is put in
    KindOf       \* KindOf[m]: "plain", "empty" (no UTF-8 body) or "oversize" (for the
                 \* buffer); what is encrypted for another node is not called back

ASSUME ChatAssumption ==
    /\ MaxReaders \in Nat
    /\ RoomOf \in [Messages -> Rooms]
    /\ KindOf \in [Messages -> {"plain", "empty", "oversize"}]

Readers == 1..MaxReaders

VARIABLES
    chat_readers_idx,  \* the last reader id given
    room,       \* room[r]: the room of reader r
    reader,     \* reader[r]: "none", "open" or "dropped"
    chat,       \* chat[r]: the messages pushed for r and not read
    chat_poisoned,  \* the readers whose chat mutex is poisoned
    output,     \* output[r]: the messages that the stream of r has sent
    events,     \* chat_events
    batch,      \* the chat thread: the events it still has to handle
    tokens,     \* the chat thread: its tokens, by reader and room
    put,        \* messages put so far
    stored,     \* DHT: those that have not expired
    arrived,    \* DHT: arrived[r]: the values it called back with for reader r
    down        \* a callback panicked, and the node with it

readerVars == <<chat_readers_idx, room, reader>>
streamVars == <<chat, chat_poisoned, output>>
threadVars == <<batch, tokens>>
dhtVars == <<put, stored, arrived>>
chatVars == <<readerVars, streamVars, events, threadVars, dhtVars, down>>

ChatInit ==
    /\ chat_readers_idx = 0
    /\ room = [r \in Readers |-> ""]
    /\ reader = [r \in Readers |-> "none"]
    /\ chat = [r \in Readers |-> <<>>]
    /\ chat_poisoned = {}
    /\ output = [r \in Readers |-> <<>>]
    /\ events = <<>>
    /\ batch = <<>>
    /\ tokens = {}
    /\ put = {}
    /\ stored = {}
    /\ arrived = [r \in Readers |-> <<>>]
    /\ down = FALSE

Join(r, rm) == [kind |-> "Join", id |-> r, room |-> rm]
Leave(r, rm) == [kind |-> "Leave", id |-> r, room |-> rm]

-----------------------------------------------------------------------------
(* HTTP requests.                                                            *)

\* GET /room/<room>: Handler::join and ChatReader::new.
stream(rm) ==
    /\ ~down
    /\ rm # ""
    /\ chat_readers_idx < MaxReaders
    /\ LET id == chat_readers_idx + 1
       IN  /\ chat_readers_idx' = id
           /\ room' = [room EXCEPT ![id] = rm]
           /\ reader' = [reader EXCEPT ![id] = "open"]
           /\ events' = Append(events, Join(id, rm))
    /\ UNCHANGED <<streamVars, threadVars, dhtVars, down>>

\* POST /room/<room> and /room/<room>/<user>: Handler::send and send_to_user.
send(m) ==
    /\ ~down
    /\ RoomOf[m] # ""
    /\ m \notin put
    /\ put' = put \cup {m}
    /\ stored' = stored \cup {m}
    /\ UNCHANGED <<readerVars, streamVars, events, threadVars, arrived, down>>

-----------------------------------------------------------------------------
(* The stream of a reader.                                                   *)

\* Fault: nothing is told to the chat thread.
DropsSilently(r) ==
    /\ reader' = [reader EXCEPT ![r] = "dropped"]
    /\ UNCHANGED <<chat_readers_idx, room, events>>

\* Drop::drop.
dropped(r) ==
    /\ reader' = [reader EXCEPT ![r] = "dropped"]
    /\ events' = Append(events, Leave(r, room[r]))
    /\ UNCHANGED <<chat_readers_idx, room>>

\* The client closes the connection.
disconnect(r) ==
    /\ ~down
    /\ reader[r] = "open"
    /\ dropped(r)
    /\ UNCHANGED <<streamVars, threadVars, dhtVars, down>>

\* Fault: the message is sent and stays in the buffer.
KeptAfterRead(r) == chat[r]

\* messages.remove(0).
AfterRead(r) == Tail(chat[r])

\* ChatReader::read, when there is a message: it is sent and removed.  Without
\* one, read sends zeros and changes nothing.  An oversize message makes
\* clone_from_slice panic with the mutex locked, and the reader is dropped.
read(r) ==
    /\ ~down
    /\ reader[r] = "open"
    /\ chat[r] # <<>>
    /\ \/ /\ KindOf[Head(chat[r])] # "oversize"
          /\ output' = [output EXCEPT ![r] = Append(@, Head(chat[r]))]
          /\ chat' = [chat EXCEPT ![r] = AfterRead(r)]
          /\ UNCHANGED <<readerVars, chat_poisoned, events>>
       \/ /\ KindOf[Head(chat[r])] = "oversize"
          /\ chat_poisoned' = chat_poisoned \cup {r}
          /\ dropped(r)
          /\ UNCHANGED <<chat, output>>
    /\ UNCHANGED <<threadVars, dhtVars, down>>

-----------------------------------------------------------------------------
(* The chat thread.                                                          *)

\* Fault: the events are cleared in a critical section of their own, which
\* loses what was pushed in between; here: the last event.
ClonedThenCleared == Front(events)

\* events = chat_events.clone(), and chat_events.clear() under the same lock.
Cloned == events

take_events ==
    /\ ~down
    /\ batch = <<>>
    /\ events # <<>>
    /\ batch' = Cloned
    /\ events' = <<>>
    /\ UNCHANGED <<readerVars, streamVars, tokens, dhtVars, down>>

\* ChatEvent::Join: listen to the room.
join_event ==
    /\ ~down
    /\ batch # <<>> /\ Head(batch).kind = "Join"
    /\ tokens' = tokens \cup {<<Head(batch).id, Head(batch).room>>}
    /\ batch' = Tail(batch)
    /\ UNCHANGED <<readerVars, streamVars, events, dhtVars, down>>

\* Fault: the token is taken out, but the listener goes on.
NotCancelled(event) == tokens

\* tokens.remove and cancel_listen, or the warning if there is no token.
Cancelled(event) == tokens \ {<<event.id, event.room>>}

\* ChatEvent::Leave.
leave_event ==
    /\ ~down
    /\ batch # <<>> /\ Head(batch).kind = "Leave"
    /\ tokens' = Cancelled(Head(batch))
    /\ batch' = Tail(batch)
    /\ UNCHANGED <<readerVars, streamVars, events, dhtVars, down>>

-----------------------------------------------------------------------------
(* The DHT.                                                                  *)

Arrived(r) == ToSet(arrived[r])

\* What value_cb leaves in the buffer of r.
Pushed(r, m) == IF KindOf[m] = "empty" THEN chat[r] ELSE Append(chat[r], m)

\* value_cb for a value that has not expired; with expired = TRUE it does
\* nothing.  A poisoned mutex makes the callback panic in the thread of the DHT.
value_cb(r, m) ==
    /\ ~down
    /\ <<r, room[r]>> \in tokens
    /\ m \in stored \ Arrived(r)
    /\ RoomOf[m] = room[r]
    /\ arrived' = [arrived EXCEPT ![r] = Append(@, m)]
    /\ \/ /\ r \notin chat_poisoned \/ KindOf[m] = "empty"
          /\ chat' = [chat EXCEPT ![r] = Pushed(r, m)]
          /\ UNCHANGED down
       \/ /\ r \in chat_poisoned /\ KindOf[m] # "empty"
          /\ down' = TRUE
          /\ UNCHANGED chat
    /\ UNCHANGED <<readerVars, chat_poisoned, output, events, threadVars, put, stored>>

\* A value that is not put permanently expires.
expire_message(m) ==
    /\ m \in stored
    /\ stored' = stored \ {m}
    /\ UNCHANGED <<readerVars, streamVars, events, threadVars, put, arrived, down>>

ThreadStep == take_events \/ join_event \/ leave_event

ChatNext ==
    \/ \E rm \in Rooms : stream(rm)
    \/ \E m \in Messages : send(m) \/ expire_message(m)
    \/ \E r \in Readers : disconnect(r) \/ read(r)
    \/ ThreadStep
    \/ \E r \in Readers, m \in Messages : value_cb(r, m)

\* The chat thread loops for ever, the DHT calls back, and Rocket reads a
\* stream for as long as its client takes the data.
ChatFairness ==
    /\ WF_chatVars(ThreadStep)
    /\ \A r \in Readers : /\ WF_chatVars(read(r))
                          /\ WF_chatVars(\E m \in Messages : value_cb(r, m))

ChatSpec == ChatInit /\ [][ChatNext]_chatVars /\ ChatFairness

-----------------------------------------------------------------------------
Listening(r) == <<r, room[r]>> \in tokens

Pending(event) == event \in ToSet(events) \cup ToSet(batch)

\* Ranges of the variables.
ChatTypeOK ==
    /\ chat_readers_idx \in 0..MaxReaders
    /\ room \in [Readers -> Rooms \cup {""}]
    /\ reader \in [Readers -> {"none", "open", "dropped"}]
    /\ \A r \in Readers : chat[r] \in Seq(put) /\ output[r] \in Seq(put) /\ arrived[r] \in Seq(put)
    /\ chat_poisoned \subseteq Readers
    /\ \A event \in ToSet(events) \cup ToSet(batch) :
          event.kind \in {"Join", "Leave"} /\ event.id \in 1..chat_readers_idx
    /\ tokens \subseteq Readers \X Rooms
    /\ stored \subseteq put
    /\ down \in BOOLEAN

\* The chat thread never meets a Leave without its token ("Leave room - Invalid
\* parameter"): no event is lost, doubled or overtaken, however requests,
\* disconnections and the clone and clear of the event list interleave.
LeaveFindsToken ==
    batch # <<>> /\ Head(batch).kind = "Leave" =>
        <<Head(batch).id, Head(batch).room>> \in tokens

\* No listener is leaked and no stream is deaf: the DHT listens for an open
\* reader or is about to, and for a dropped one only until its Leave is handled.
NoneForgotten ==
    \A r \in Readers :
        /\ reader[r] = "open" => Listening(r) \/ Pending(Join(r, room[r]))
        /\ reader[r] = "dropped" /\ Listening(r) => Pending(Leave(r, room[r]))

\* How many of the first k messages of s have a body.
Bodies(s, k) == Total([i \in 1..k |-> IF KindOf[s[i]] = "empty" THEN 0 ELSE 1], k)

\* What has a body in s is the sequence `sent`.
InOrder(sent, s) ==
    /\ Len(sent) = Bodies(s, Len(s))
    /\ \A i \in 1..Len(s) : KindOf[s[i]] # "empty" => sent[Bodies(s, i)] = s[i]

\* A stream sends what arrived for it, in that order, each message once and
\* none skipped, also after a panic of its read.
StreamInOrder ==
    \A r \in Readers : ~down => InOrder(output[r] \o chat[r], arrived[r])

\* Only a message longer than the buffer can bring the node down, and it does so
\* in the window between the panic of read and the handling of the Leave.
DownOnlyByOversize ==
    down => \E r \in Readers :
        /\ reader[r] = "dropped" /\ Pending(Leave(r, room[r]))
        /\ \E m \in Arrived(r) : KindOf[m] = "oversize"

\* A message in a room reaches every stream of the room, unless it expires or
\* the stream ends first.
MessagesReach ==
    \A r \in Readers, m \in Messages :
        KindOf[m] = "plain" =>
            (reader[r] = "open" /\ room[r] = RoomOf[m] /\ m \in stored)
                ~> (m \in ToSet(output[r]) \/ m \notin stored \/ reader[r] = "dropped" \/ down)

=============================================================================
