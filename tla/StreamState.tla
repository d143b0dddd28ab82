---------------------------- MODULE StreamState ----------------------------
(***************************************************************************)
(* The stream of an agent (control/stream_state.py): where its work stands *)
(* between NEW and MERGED, moved by the captain's `stream transition` and  *)
(* by the agent's `stream reply`.  Each command is a process of its own;   *)
(* the file of a stream is read and rewritten without a lock, and a reply  *)
(* reads it three times.                                                   *)
(***************************************************************************)
CONSTANTS
    Agents,
    Operators,      \* command line processes
    OtherBlocks,    \* the BLOCKED states but BLOCKED_LOCAL_QUALITY_GATE
    Heads,          \* commit hashes a command may name
    NoHead          \* the empty hash

ASSUME StreamAssumption ==
    /\ NoHead \notin Heads
    /\ OtherBlocks \cap {"NEW", "ASSIGNED", "WORKING", "READY_CANDIDATE",
           "READY_FOR_REVIEW", "MERGED", "CLOSED", "BLOCKED_LOCAL_QUALITY_GATE"} = {}

VARIABLES
    streams,        \* the stream file of each agent
    streamOp        \* the stream command of each process

streamVars == <<streams, streamOp>>

Blocks == OtherBlocks \cup {"BLOCKED_LOCAL_QUALITY_GATE"}

StreamStates == Blocks \cup {"NEW", "ASSIGNED", "WORKING", "READY_CANDIDATE",
                             "READY_FOR_REVIEW", "MERGED", "CLOSED"}

Replies == {"ACK", "PROGRESS", "BLOCKER", "READY_CANDIDATE", "READY"}

FollowingStates(s) ==
    CASE s = "NEW"              -> {"ASSIGNED"}
      [] s = "ASSIGNED"         -> {"WORKING", "CLOSED"}
      [] s = "WORKING"          -> Blocks \cup {"READY_CANDIDATE", "CLOSED"}
      [] s = "READY_CANDIDATE"  -> {"READY_FOR_REVIEW", "WORKING", "CLOSED",
                                    "BLOCKED_LOCAL_QUALITY_GATE"}
      [] s = "READY_FOR_REVIEW" -> {"MERGED", "WORKING", "CLOSED"}
      [] s \in Blocks           -> {"WORKING", "CLOSED"}
      [] OTHER                  -> {}

AllowedReplies(s) ==
    CASE s = "WORKING"          -> {"ACK", "PROGRESS", "BLOCKER", "READY_CANDIDATE"}
      [] s = "READY_CANDIDATE"  -> {"READY_CANDIDATE", "BLOCKER"}
      [] s \in Blocks           -> {"BLOCKER"}
      [] s \in {"NEW", "ASSIGNED"} -> {"ACK"}
      [] OTHER                  -> {}

(* What a reply asks for, if the stream is in state s: the new state, or s.*)
Wanted(reply, s) ==
    IF reply = "READY_CANDIDATE" /\ s = "WORKING" THEN "READY_CANDIDATE"
    ELSE IF reply = "ACK" /\ s = "NEW" THEN "ASSIGNED" ELSE s

StreamRecord == [state : StreamStates, head : Heads \cup {NoHead}]

NoStreamOp == [pc |-> "idle"]

StreamInit ==
    /\ streams = [a \in Agents |-> [state |-> "NEW", head |-> NoHead]]
    /\ streamOp = [o \in Operators |-> NoStreamOp]

GoTo(o, op) == streamOp' = [streamOp EXCEPT ![o] = op]

(* set_state as far as it can refuse: the record it will write if it does  *)
(* not.  A hash the command does not name stays as it is.                  *)
Permitted(record, state, head) ==
    /\ state \in FollowingStates(record.state)
    /\ state = "READY_FOR_REVIEW" => head # NoHead \/ record.head # NoHead

(* Mutant of Moved: the hash is taken as the command gave it. *)
MovedAsGiven(record, state, head) == [state |-> state, head |-> head]

Moved(record, state, head) ==
    [state |-> state, head |-> IF head # NoHead THEN head ELSE record.head]

SetState(o, a, state, head) ==
    /\ Permitted(streams[a], state, head)
    /\ GoTo(o, [pc |-> "save", agent |-> a,
                record |-> Moved(streams[a], state, head)])

Transition(o, a) ==
    /\ streamOp[o] = NoStreamOp
    /\ \E state \in StreamStates, head \in Heads \cup {NoHead} :
           SetState(o, a, state, head)
    /\ UNCHANGED streams

(* accept_reply: validate_reply reads the stream ...                       *)
ValidateReply(o, a) ==
    /\ streamOp[o] = NoStreamOp
    /\ \E reply \in AllowedReplies(streams[a].state) :
           GoTo(o, [pc |-> "validated", agent |-> a, reply |-> reply])
    /\ UNCHANGED streams

(* ... it is read again to choose the transition ...                       *)
AcceptReply(o) ==
    LET op == streamOp[o] IN
    /\ op.pc = "validated"
    /\ LET s == streams[op.agent].state IN
       IF Wanted(op.reply, s) = s THEN GoTo(o, NoStreamOp)
       ELSE GoTo(o, [pc |-> "accepted", agent |-> op.agent, want |-> Wanted(op.reply, s)])
    /\ UNCHANGED streams

(* ... and once more by set_state, which may find it moved and refuse.     *)
MoveOnReply(o) ==
    LET op == streamOp[o] IN
    /\ op.pc = "accepted"
    /\ IF Permitted(streams[op.agent], op.want, NoHead)
       THEN SetState(o, op.agent, op.want, NoHead)
       ELSE GoTo(o, NoStreamOp)
    /\ UNCHANGED streams

SaveStream(o) ==
    LET op == streamOp[o] IN
    /\ op.pc = "save"
    /\ streams' = [streams EXCEPT ![op.agent] = op.record]
    /\ GoTo(o, NoStreamOp)

StreamNext ==
    \E o \in Operators :
        \/ \E a \in Agents : Transition(o, a) \/ ValidateReply(o, a)
        \/ AcceptReply(o) \/ MoveOnReply(o) \/ SaveStream(o)

StreamSpec == StreamInit /\ [][StreamNext]_streamVars

\* Streams and the commands on them have their types.
StreamTypeOK ==
    /\ streams \in [Agents -> StreamRecord]
    /\ DOMAIN streamOp = Operators
    /\ \A o \in Operators :
           LET op == streamOp[o] IN
           \/ op = NoStreamOp
           \/ op \in [pc : {"save"}, agent : Agents, record : StreamRecord]
           \/ op \in [pc : {"validated"}, agent : Agents, reply : Replies]
           \/ op \in [pc : {"accepted"}, agent : Agents, want : StreamStates]

(* A stream under review, or merged, names a commit, however the commands  *)
(* that moved it there overlapped (the guard of set_state, which looks at  *)
(* a copy of the file that others may rewrite before it is saved).         *)
ReviewNamesACommit ==
    \A a \in Agents :
        streams[a].state \in {"READY_FOR_REVIEW", "MERGED"} => streams[a].head # NoHead
=============================================================================
