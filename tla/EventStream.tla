---------------------------- MODULE EventStream ----------------------------
(***************************************************************************)
(* event_stream.py and the SSE handler of http_bridge.py: a bus with       *)
(* numbered events and a bounded history, and clients that stream from it  *)
(* and resume at the number they saw last.                                 *)
(***************************************************************************)
EXTENDS Naturals, Sequences, FiniteSets

CONSTANTS
    StreamClients,
    MaxHistory,     \* max_history of the bus
    MaxPublished,   \* bound: events published by one bus
    MaxRestarts     \* bound: restarts of the daemon

ASSUME EventStreamAssumption ==
    MaxHistory \in Nat \ {0} /\ {MaxPublished, MaxRestarts} \subseteq Nat

VARIABLES
    streamSeq,      \* the number of the last event
    streamHistory,  \* the numbers still in the history, a set of the last ones
    busNumber,      \* how often the daemon was restarted
    stream          \* the connection and the memory of every client

eventStreamVars == <<streamSeq, streamHistory, busNumber, stream>>

(* last: last_id of the handler; batch: fetched and not yet written; seen: *)
(* what the client has received from this bus; resume: the number it saw   *)
(* last; own: this bus gave it; sound: the connection began at such one.   *)
NewClient == [open |-> FALSE, last |-> 0, batch |-> {}, seen |-> {},
              resume |-> 0, own |-> TRUE, sound |-> TRUE]

EventStreamInit ==
    /\ streamSeq = 0
    /\ streamHistory = {}
    /\ busNumber = 0
    /\ stream = [c \in StreamClients |-> NewClient]

(* Mutant of EventsSince: the client is taken to have one more. *)
EventsAfterNext(n) == {i \in streamHistory : i > n + 1}

EventsSince(n) == {i \in streamHistory : i > n}

(* Mutant of Publish: the history is not cut. *)
PublishUncut ==
    /\ streamSeq < MaxPublished
    /\ streamSeq' = streamSeq + 1
    /\ streamHistory' = streamHistory \cup {streamSeq + 1}
    /\ UNCHANGED <<busNumber, stream>>

Publish ==
    /\ streamSeq < MaxPublished
    /\ streamSeq' = streamSeq + 1
    /\ streamHistory' = {i \in streamHistory \cup {streamSeq + 1} :
                            i + MaxHistory > streamSeq + 1}
    /\ UNCHANGED <<busNumber, stream>>

(* A client connects with the number it saw last, or with the one of its   *)
(* page: the browser reconnects to the same URL, and the header it sends   *)
(* is not read.                                                            *)
Connect(c) ==
    /\ ~stream[c].open
    /\ \E n \in {0, stream[c].resume} :
          stream' = [stream EXCEPT ![c].open = TRUE, ![c].last = n,
                                   ![c].sound = (n = 0 \/ stream[c].own)]
    /\ UNCHANGED <<streamSeq, streamHistory, busNumber>>

(* events_since; an empty answer waits, and a ping changes nothing. *)
Fetch(c) ==
    /\ stream[c].open /\ stream[c].batch = {}
    /\ EventsSince(stream[c].last) # {}
    /\ stream' = [stream EXCEPT ![c].batch = EventsSince(stream[c].last)]
    /\ UNCHANGED <<streamSeq, streamHistory, busNumber>>

(* The handler writes the events of a batch in order.  What it has written *)
(* may be lost with the connection.                                        *)
WriteEvent(c) ==
    /\ stream[c].open
    /\ \E i \in stream[c].batch :
          /\ \A j \in stream[c].batch : i <= j
          /\ \/ stream' = [stream EXCEPT ![c].batch = @ \ {i}, ![c].last = i,
                                         ![c].seen = @ \cup {i},
                                         ![c].resume = i,
                                         ![c].own = stream[c].sound]
             \/ stream' = [stream EXCEPT ![c].batch = {}, ![c].last = 0,
                                         ![c].open = FALSE]
    /\ UNCHANGED <<streamSeq, streamHistory, busNumber>>

Disconnect(c) ==
    /\ stream[c].open
    /\ stream' = [stream EXCEPT ![c].open = FALSE, ![c].batch = {}, ![c].last = 0]
    /\ UNCHANGED <<streamSeq, streamHistory, busNumber>>

(* The bus lives in memory: a new daemon counts from zero. *)
RestartBus ==
    /\ busNumber < MaxRestarts
    /\ busNumber' = busNumber + 1
    /\ streamSeq' = 0
    /\ streamHistory' = {}
    /\ stream' = [c \in StreamClients |->
                    [stream[c] EXCEPT !.open = FALSE, !.last = 0, !.batch = {},
                                      !.seen = {}, !.own = (stream[c].resume = 0)]]

EventStreamNext ==
    \/ Publish \/ RestartBus
    \/ \E c \in StreamClients :
          Connect(c) \/ Fetch(c) \/ WriteEvent(c) \/ Disconnect(c)

EventStreamSpec == EventStreamInit /\ [][EventStreamNext]_eventStreamVars

-----------------------------------------------------------------------------
(* Properties *)

(* The history is the end of what was published, and clients know only     *)
(* numbers that were given.                                                *)
EventStreamTypeOK ==
    /\ streamSeq \in 0..MaxPublished
    /\ streamHistory = {i \in 1..streamSeq : i + MaxHistory > streamSeq}
    /\ busNumber \in 0..MaxRestarts
    /\ \A c \in StreamClients :
          /\ stream[c].open \in BOOLEAN
          /\ stream[c].seen \cup stream[c].batch \subseteq 1..streamSeq
          /\ stream[c].resume \in 0..MaxPublished
          /\ stream[c].own \in BOOLEAN /\ stream[c].sound \in BOOLEAN

(* Resuming leaves no gap: over any number of broken connections, what a   *)
(* client passed over in the stream of one bus it has received, or it had  *)
(* been dropped from the history.  A number given by an earlier bus passes *)
(* over events of the new one: the stream is not safe against restarts.    *)
ResumeLeavesNoGap ==
    \A c \in StreamClients :
        (stream[c].open /\ stream[c].sound) =>
            \A i \in 1..stream[c].last :
                i \in stream[c].seen \/ i \notin streamHistory
=============================================================================
