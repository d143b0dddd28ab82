------------------------- MODULE AgentToolsProofs -------------------------
(***************************************************************************)
(* What is proved of the tools agents are run with: the streams and the    *)
(* registry of agents, the locks they claim files with, and the gateway    *)
(* that routes their requests to models.  Each part has its own inductive  *)
(* invariant.                                                              *)
(***************************************************************************)
EXTENDS AgentControl, MultiAgentLock, GatewayRouter, TLAPS

-----------------------------------------------------------------------------
(* Streams.  A record is complete when it is computed, so that it does not *)
(* matter which of the overlapping writers comes last.                     *)

(* A record that is under review, or merged, names a commit.               *)
NamesACommit(record) ==
    record.state \in {"READY_FOR_REVIEW", "MERGED"} => record.head # NoHead

SaveOp == [pc : {"save"}, agent : Agents, record : StreamRecord]
ValidatedOp == [pc : {"validated"}, agent : Agents, reply : Replies]
AcceptedOp == [pc : {"accepted"}, agent : Agents, want : StreamStates]

OpOK(op) ==
    \/ op = NoStreamOp
    \/ op \in SaveOp /\ NamesACommit(op.record)
    \/ op \in ValidatedOp
    \/ op \in AcceptedOp

StreamInv ==
    /\ streams \in [Agents -> StreamRecord]
    /\ DOMAIN streamOp = Operators
    /\ streamOp = [o \in Operators |-> streamOp[o]]
    /\ \A a \in Agents : NamesACommit(streams[a])
    /\ \A o \in Operators : OpOK(streamOp[o])

(* A stream is merged only from under review.                              *)
LEMMA MergedAfterReview ==
    ASSUME StreamAssumption, NEW s \in StreamStates, "MERGED" \in FollowingStates(s)
    PROVE  s = "READY_FOR_REVIEW"
BY DEF StreamAssumption, StreamStates, Blocks, FollowingStates

(* No state is followed by one that is not a state.                        *)
LEMMA FollowingAreStates ==
    ASSUME StreamAssumption, NEW s \in StreamStates
    PROVE  FollowingStates(s) \subseteq StreamStates
BY DEF StreamAssumption, StreamStates, Blocks, FollowingStates

(* What set_state would save names a commit if it has to.                  *)
LEMMA MovedNamesACommit ==
    ASSUME StreamAssumption, NEW record \in StreamRecord, NamesACommit(record),
           NEW state \in StreamStates, NEW head \in Heads \cup {NoHead},
           Permitted(record, state, head)
    PROVE  /\ Moved(record, state, head) \in StreamRecord
           /\ NamesACommit(Moved(record, state, head))
<1>1. record.state \in StreamStates /\ record.head \in Heads \cup {NoHead}
  BY DEF StreamRecord
<1>2. Moved(record, state, head) \in StreamRecord
  BY <1>1 DEF Moved, StreamRecord
<1>3. CASE state = "MERGED"
  <2>1. record.state = "READY_FOR_REVIEW"
    BY <1>1, <1>3, MergedAfterReview DEF Permitted
  <2> QED BY <1>2, <2>1 DEF NamesACommit, Moved
<1>4. CASE state # "MERGED"
  BY <1>2, <1>4 DEF NamesACommit, Moved, Permitted
<1> QED BY <1>2, <1>3, <1>4

LEMMA StreamInitially ==
    ASSUME StreamInit
    PROVE  StreamInv
BY DEF StreamInit, StreamInv, StreamRecord, StreamStates, NamesACommit, OpOK

(* A command that goes on with an operation in order disturbs nothing.     *)
LEMMA CommandGoesOn ==
    ASSUME StreamInv, NEW o \in Operators, NEW op, OpOK(op), GoTo(o, op),
           streams' = streams
    PROVE  StreamInv'
BY DEF StreamInv, GoTo, OpOK

(* The same for set_state, when it does not refuse.                        *)
LEMMA SetStateGoesOn ==
    ASSUME StreamAssumption, StreamInv, NEW o \in Operators, NEW a \in Agents,
           NEW state \in StreamStates, NEW head \in Heads \cup {NoHead},
           SetState(o, a, state, head), streams' = streams
    PROVE  StreamInv'
<1> DEFINE op == [pc |-> "save", agent |-> a,
                  record |-> Moved(streams[a], state, head)]
<1>1. /\ streams[a] \in StreamRecord /\ NamesACommit(streams[a])
      /\ Permitted(streams[a], state, head) /\ GoTo(o, op)
  BY DEF StreamInv, SetState
<1>2. op \in SaveOp /\ NamesACommit(op.record)
  BY <1>1, MovedNamesACommit DEF SaveOp
<1>3. OpOK(op)
  BY <1>2 DEF OpOK
<1> HIDE DEF op
<1> QED BY <1>1, <1>3, CommandGoesOn

LEMMA StreamStep ==
    ASSUME StreamAssumption, StreamInv, [StreamNext]_streamVars
    PROVE  StreamInv'
<1>1. ASSUME NEW o \in Operators, NEW a \in Agents, Transition(o, a)
      PROVE  StreamInv'
  BY <1>1, SetStateGoesOn DEF Transition
<1>2. ASSUME NEW o \in Operators, NEW a \in Agents, ValidateReply(o, a)
      PROVE  StreamInv'
  <2>1. PICK reply \in AllowedReplies(streams[a].state) :
            GoTo(o, [pc |-> "validated", agent |-> a, reply |-> reply])
    BY <1>2 DEF ValidateReply
  <2>2. reply \in Replies
    BY <2>1 DEF AllowedReplies, Replies
  <2>3. OpOK([pc |-> "validated", agent |-> a, reply |-> reply])
    BY <2>2 DEF OpOK, ValidatedOp
  <2> QED BY <1>2, <2>1, <2>3, CommandGoesOn DEF ValidateReply
<1>3. ASSUME NEW o \in Operators, AcceptReply(o)
      PROVE  StreamInv'
  <2> DEFINE op == streamOp[o]
             accepted == [pc |-> "accepted", agent |-> op.agent,
                          want |-> Wanted(op.reply, streams[op.agent].state)]
  <2>1. op \in ValidatedOp
    BY <1>3 DEF AcceptReply, StreamInv, OpOK, NoStreamOp, SaveOp, AcceptedOp
  <2>2. op.agent \in Agents /\ streams[op.agent].state \in StreamStates
    BY <2>1 DEF ValidatedOp, StreamInv, StreamRecord
  <2>3. accepted \in AcceptedOp
    BY <2>2 DEF AcceptedOp, Wanted, StreamStates
  <2>4. OpOK(accepted) /\ OpOK(NoStreamOp)
    BY <2>3 DEF OpOK
  <2>5. (GoTo(o, accepted) \/ GoTo(o, NoStreamOp)) /\ streams' = streams
    BY <1>3 DEF AcceptReply
  <2> HIDE DEF accepted, op
  <2> QED BY <2>4, <2>5, CommandGoesOn
<1>4. ASSUME NEW o \in Operators, MoveOnReply(o)
      PROVE  StreamInv'
  <2> DEFINE op == streamOp[o]
  <2>1. op \in AcceptedOp
    BY <1>4 DEF MoveOnReply, StreamInv, OpOK, NoStreamOp, SaveOp, ValidatedOp
  <2>2. op.agent \in Agents /\ op.want \in StreamStates
    BY <2>1 DEF AcceptedOp
  <2>3. /\ \/ SetState(o, op.agent, op.want, NoHead)
           \/ GoTo(o, NoStreamOp)
        /\ streams' = streams
    BY <1>4 DEF MoveOnReply
  <2>4. OpOK(NoStreamOp)
    BY DEF OpOK
  <2> HIDE DEF op
  <2> QED BY <2>2, <2>3, <2>4, SetStateGoesOn, CommandGoesOn
<1>5. ASSUME NEW o \in Operators, SaveStream(o)
      PROVE  StreamInv'
  <2> DEFINE op == streamOp[o]
  <2>1. op \in SaveOp /\ NamesACommit(op.record)
    BY <1>5 DEF SaveStream, StreamInv, OpOK, NoStreamOp, AcceptedOp, ValidatedOp
  <2>2. op.agent \in Agents /\ op.record \in StreamRecord
    BY <2>1 DEF SaveOp
  <2>3. streams' = [streams EXCEPT ![op.agent] = op.record] /\ GoTo(o, NoStreamOp)
    BY <1>5 DEF SaveStream
  <2>4. OpOK(NoStreamOp)
    BY DEF OpOK
  <2> HIDE DEF op
  <2> QED BY <2>1, <2>2, <2>3, <2>4 DEF StreamInv, GoTo
<1>6. CASE UNCHANGED streamVars
  BY <1>6 DEF streamVars, StreamInv
<1> QED BY <1>1, <1>2, <1>3, <1>4, <1>5, <1>6 DEF StreamNext

LEMMA StreamTypes ==
    ASSUME StreamInv
    PROVE  StreamTypeOK
BY DEF StreamInv, OpOK, SaveOp, ValidatedOp, AcceptedOp, StreamTypeOK

(* A stream under review, or merged, names a commit, however many commands *)
(* overlap and whichever of them writes last.                              *)
THEOREM ReviewAlwaysNamesACommit ==
    ASSUME StreamAssumption
    PROVE  StreamSpec => []ReviewNamesACommit
<1>1. StreamInit => StreamInv
  BY StreamInitially
<1>2. StreamInv /\ [StreamNext]_streamVars => StreamInv'
  BY StreamStep
<1>3. StreamInv => ReviewNamesACommit
  BY DEF StreamInv, NamesACommit, ReviewNamesACommit
<1> QED BY <1>1, <1>2, <1>3, PTL DEF StreamSpec

-----------------------------------------------------------------------------
(* The gateway.  The decision is already right when it is made, and the    *)
(* configuration it was made with is the one in force when the request is  *)
(* forwarded: for every configuration, any number of clients and every     *)
(* order of their requests, sensitive data stays local.                    *)

Classes == DataClasses \cup {NoClass}

AskedCall == [pc : {"asked"}, profile : ProfileNames, class : Classes]

RoutedCall ==
    [pc : {"routed"}, profile : ProfileNames, class : Classes, to : ProfileNames]

(* The decision of a routed call keeps the rule. *)
StaysLocal(call) ==
    KnownAndForbidden(call.class) =>
        /\ call.to = call.profile
        /\ Profile(call.to).provider # "openai"

CallOK(call) ==
    \/ call = NoCall
    \/ call \in AskedCall
    \/ call \in RoutedCall /\ StaysLocal(call)

GatewayInv ==
    /\ gateway \in Gateway
    /\ calls \in [Callers -> {NoCall} \cup AskedCall \cup RoutedCall]
    /\ \A c \in Callers : CallOK(calls[c])
    /\ forwarded = NoCall \/ (forwarded \in RoutedCall /\ StaysLocal(forwarded))

(* A route names a profile. *)
LEMMA RouteNamesAProfile ==
    ASSUME GatewayAssumption, NEW name \in ProfileNames, NEW class \in Classes
    PROVE  Route(name, class).to \in ProfileNames
BY DEF GatewayAssumption, Route, RouteTo, Refuse, FallBack

(* A class that is kept from the cloud is not allowed into it: the two     *)
(* lookups of policies.py agree.                                           *)
LEMMA ForbiddenIsNotAllowed ==
    ASSUME NEW class, KnownAndForbidden(class)
    PROVE  class # NoClass /\ ~CloudAllowedForClass(class)
BY DEF KnownAndForbidden, CloudAllowedForClass

(* A route that passes, of data kept from the cloud, is the profile that   *)
(* was asked for, and no cloud provider.                                   *)
LEMMA RouteStaysLocal ==
    ASSUME GatewayAssumption, NEW name \in ProfileNames, NEW class \in Classes,
           KnownAndForbidden(class), Passes(Route(name, class))
    PROVE  /\ Route(name, class).to = name
           /\ Profile(name).provider # "openai"
<1>1. class # NoClass /\ ~CloudAllowedForClass(class)
  BY ForbiddenIsNotAllowed
<1>2. CASE Profile(name) = NoProfile
  BY <1>2 DEF Route, Refuse, Passes
<1>3. CASE Profile(name) # NoProfile /\ Profile(name).provider = "openai"
  BY <1>1, <1>3 DEF Route, Refuse, Passes
<1>4. CASE Profile(name) # NoProfile /\ Profile(name).provider # "openai"
  BY <1>4 DEF Route, RouteTo
<1> QED BY <1>2, <1>3, <1>4

LEMMA GatewayInitially ==
    ASSUME GatewayInit
    PROVE  GatewayInv
BY DEF GatewayInit, GatewayInv, CallOK

(* A step that leaves the configuration alone and changes one call to a    *)
(* call that is in order keeps the invariant's part on the calls.          *)
LEMMA OneCallChanges ==
    ASSUME GatewayInv, NEW c \in Callers, NEW call, CallOK(call),
           calls' = [calls EXCEPT ![c] = call],
           UNCHANGED <<gateway, forwarded>>
    PROVE  GatewayInv'
<1>1. \A k : CallOK(k) <=> CallOK(k)'
  BY DEF CallOK, StaysLocal, KnownAndForbidden, Profile
<1>2. call \in {NoCall} \cup AskedCall \cup RoutedCall
  BY DEF CallOK
<1>3. calls' \in [Callers -> {NoCall} \cup AskedCall \cup RoutedCall]
  BY <1>2 DEF GatewayInv
<1>4. ASSUME NEW d \in Callers
      PROVE  CallOK(calls'[d])
  BY DEF GatewayInv
<1>5. \A d \in Callers : CallOK(calls[d])'
  BY <1>1, <1>4
<1>6. (forwarded = NoCall \/ (forwarded \in RoutedCall /\ StaysLocal(forwarded)))'
  BY DEF GatewayInv, StaysLocal, KnownAndForbidden, Profile
<1> QED BY <1>3, <1>5, <1>6 DEF GatewayInv

LEMMA GatewayStep ==
    ASSUME GatewayAssumption, GatewayInv, [GatewayNext]_gatewayVars
    PROVE  GatewayInv'
<1>1. ASSUME NEW c \in Callers, Call(c)
      PROVE  GatewayInv'
  <2>1. PICK asked \in Asked :
            calls' = [calls EXCEPT ![c] = [pc |-> "asked", profile |-> asked.profile,
                                           class |-> asked.class]]
    BY <1>1 DEF Call
  <2>2. CallOK([pc |-> "asked", profile |-> asked.profile, class |-> asked.class])
    BY DEF CallOK, AskedCall, Asked, Classes
  <2> QED BY <1>1, <2>1, <2>2, OneCallChanges DEF Call
<1>2. ASSUME NEW c \in Callers, DecideRoute(c)
      PROVE  GatewayInv'
  <2> DEFINE call == calls[c]
             route == Route(call.profile, call.class)
             routed == [pc |-> "routed", profile |-> call.profile,
                        class |-> call.class, to |-> route.to]
  <2>1. call \in AskedCall
    BY <1>2 DEF DecideRoute, GatewayInv, CallOK, NoCall, RoutedCall
  <2>2. call.profile \in ProfileNames /\ call.class \in Classes
    BY <2>1 DEF AskedCall
  <2>3. CASE Passes(route)
    <3>1. routed \in RoutedCall
      BY <2>2, RouteNamesAProfile DEF RoutedCall
    <3>2. StaysLocal(routed)
      BY <2>2, <2>3, RouteStaysLocal DEF StaysLocal
    <3>3. CallOK(routed)
      BY <3>1, <3>2 DEF CallOK
    <3>4. calls' = [calls EXCEPT ![c] = routed] /\ UNCHANGED <<gateway, forwarded>>
      BY <1>2, <2>3 DEF DecideRoute
    <3> HIDE DEF routed
    <3> QED BY <3>3, <3>4, OneCallChanges
  <2>4. CASE ~Passes(route)
    <3>1. calls' = [calls EXCEPT ![c] = NoCall] /\ UNCHANGED <<gateway, forwarded>>
      BY <1>2, <2>4 DEF DecideRoute
    <3> QED BY <3>1, OneCallChanges DEF CallOK
  <2> QED BY <2>3, <2>4
<1>3. ASSUME NEW c \in Callers, Forward(c)
      PROVE  GatewayInv'
  <2>1. calls[c] \in RoutedCall /\ StaysLocal(calls[c])
    BY <1>3 DEF Forward, GatewayInv, CallOK, NoCall, AskedCall
  <2>2. calls' = [calls EXCEPT ![c] = NoCall] /\ forwarded' = calls[c] /\ gateway' = gateway
    BY <1>3 DEF Forward
  <2>3. \A k : CallOK(k) <=> CallOK(k)'
    BY <2>2 DEF CallOK, StaysLocal, KnownAndForbidden, Profile
  <2>4. calls' \in [Callers -> {NoCall} \cup AskedCall \cup RoutedCall]
    BY <2>2 DEF GatewayInv
  <2>5. \A d \in Callers : CallOK(calls'[d])
    BY <2>2 DEF GatewayInv, CallOK
  <2>6. \A d \in Callers : CallOK(calls[d])'
    BY <2>3, <2>5
  <2>7. (forwarded \in RoutedCall /\ StaysLocal(forwarded))'
    BY <2>1, <2>2 DEF StaysLocal, KnownAndForbidden, Profile
  <2> QED BY <2>2, <2>4, <2>6, <2>7 DEF GatewayInv
<1>4. CASE UNCHANGED gatewayVars
  BY <1>4 DEF gatewayVars, GatewayInv, CallOK, StaysLocal, KnownAndForbidden, Profile
<1> QED BY <1>1, <1>2, <1>3, <1>4 DEF GatewayNext

LEMMA GatewayTypes ==
    ASSUME GatewayInv
    PROVE  GatewayTypeOK
<1> DEFINE IsAsked(call, pc) ==
              /\ call.pc = pc
              /\ [profile |-> call.profile, class |-> call.class] \in Asked
<1>1. \A call \in AskedCall : IsAsked(call, "asked")
  BY DEF AskedCall, Asked, Classes
<1>2. \A call \in RoutedCall : IsAsked(call, "routed") /\ call.to \in ProfileNames
  BY DEF RoutedCall, Asked, Classes
<1>3. \A c \in Callers :
         \/ calls[c] = NoCall \/ IsAsked(calls[c], "asked")
         \/ IsAsked(calls[c], "routed") /\ calls[c].to \in ProfileNames
  BY <1>1, <1>2 DEF GatewayInv, CallOK
<1>4. forwarded = NoCall \/ (IsAsked(forwarded, "routed") /\ forwarded.to \in ProfileNames)
  BY <1>2 DEF GatewayInv
<1> QED BY <1>3, <1>4 DEF GatewayInv, GatewayTypeOK

(* Data of a class the configuration knows and keeps from the cloud is     *)
(* forwarded to the profile it was meant for and to no cloud provider      *)
(* (rules 1 and 3 of the class in router.py), whatever the profiles are    *)
(* and however many requests are under way.                                *)
THEOREM SensitiveDataStaysLocal ==
    ASSUME GatewayAssumption
    PROVE  GatewaySpec => []SensitiveStaysLocal
<1>1. GatewayInit => GatewayInv
  BY GatewayInitially
<1>2. GatewayInv /\ [GatewayNext]_gatewayVars => GatewayInv'
  BY GatewayStep
<1>3. GatewayInv => SensitiveStaysLocal
  BY DEF GatewayInv, SensitiveStaysLocal, StaysLocal
<1> QED BY <1>1, <1>2, <1>3, PTL DEF GatewaySpec

-----------------------------------------------------------------------------
(* Locks.  What a claim found free is still free of every lock that had    *)
(* been written when it looked: locks go and expire, and none comes back.  *)

ClaimRecord == [path : Paths \cup Patterns \cup {"none"}, scope : LockScopes,
                checked : 0..MaxLocks, busy : BOOLEAN]

(* A lock that was written after the n-th conflicts with path, or none of  *)
(* another agent does.                                                     *)
FreeUpTo(n, path, agent) ==
    \A lock \in Active : (lock.agent # agent /\ lock.id <= n) => ~PathsConflict(path, lock)

LockInv ==
    /\ lockFiles \subseteq Lock
    /\ written \in 0..MaxLocks
    /\ claim \in [Lockers -> ClaimRecord]
    /\ \A lock \in lockFiles : lock.id <= written /\ lock.checked < lock.id
    /\ \A a \in Lockers : claim[a].busy =>
          /\ claim[a].checked <= written
          /\ claim[a].path \in Paths \cup Patterns
          /\ FreeUpTo(claim[a].checked, claim[a].path, a)
    /\ \A lock \in Active : FreeUpTo(lock.checked, lock.path, lock.agent)

LEMMA NoClaimTyped ==
    ASSUME LockAssumption
    PROVE  NoClaim \in ClaimRecord /\ ~NoClaim.busy
<1>1. 0 \in 0..MaxLocks /\ "FILE" \in LockScopes
  BY DEF LockAssumption, LockScopes
<1> QED BY <1>1 DEF NoClaim, ClaimRecord

LEMMA LocksInitially ==
    ASSUME LockAssumption, LockInit
    PROVE  LockInv
<1>1. NoClaim \in ClaimRecord /\ ~NoClaim.busy
  BY NoClaimTyped
<1>2. \A a \in Lockers : claim[a] = NoClaim
  BY DEF LockInit
<1>3. claim \in [Lockers -> ClaimRecord]
  BY <1>1 DEF LockInit
<1>4. written \in 0..MaxLocks /\ lockFiles = {} /\ Active = {}
  BY DEF LockInit, LockAssumption, Active
<1> QED BY <1>1, <1>2, <1>3, <1>4 DEF LockInv

(* Locks go, and claims are given up.                                      *)
LEMMA LocksGo ==
    ASSUME LockInv, written' = written, lockFiles' \subseteq Lock,
           \A lock \in lockFiles' :
              /\ lock.id <= written /\ lock.checked < lock.id
              /\ ~lock.expired => lock \in lockFiles,
           claim' \in [Lockers -> ClaimRecord],
           \A a \in Lockers : claim'[a].busy => claim'[a] = claim[a]
    PROVE  LockInv'
<1>1. Active' \subseteq Active
  BY DEF Active
<1>2. \A n, path, agent : FreeUpTo(n, path, agent) => FreeUpTo(n, path, agent)'
  BY <1>1 DEF FreeUpTo
<1>3. ASSUME NEW a \in Lockers, claim'[a].busy
      PROVE  /\ claim'[a].checked <= written'
             /\ claim'[a].path \in Paths \cup Patterns
             /\ FreeUpTo(claim[a].checked, claim[a].path, a)'
  <2>1. PICK c : c = claim[a] /\ c = claim'[a]
    BY <1>3
  <2>2. FreeUpTo(c.checked, c.path, a)'
    BY <1>2, <1>3, <2>1 DEF LockInv
  <2>3. FreeUpTo(claim[a].checked, claim[a].path, a)'
    BY <2>1, <2>2 DEF FreeUpTo
  <2> QED BY <1>3, <2>1, <2>3 DEF LockInv
<1>4. \A lock \in Active' : FreeUpTo(lock.checked, lock.path, lock.agent)'
  BY <1>1, <1>2 DEF LockInv
<1> QED BY <1>3, <1>4 DEF LockInv

LEMMA LockStep ==
    ASSUME LockAssumption, LockInv, [LockNext]_lockVars
    PROVE  LockInv'
<1>t. /\ \A lock \in lockFiles : lock \in Lock /\ lock.id <= written /\ lock.checked < lock.id
      /\ written \in Nat /\ MaxLocks \in Nat /\ \A a \in Lockers : claim[a] \in ClaimRecord
      /\ claim \in [Lockers -> ClaimRecord] /\ Active \subseteq lockFiles
      /\ NoClaim \in ClaimRecord /\ ~NoClaim.busy
  <2>1. written \in Nat /\ MaxLocks \in Nat
    BY DEF LockInv, LockAssumption
  <2> QED BY <2>1, NoClaimTyped DEF LockInv, Active
<1>1. ASSUME NEW a \in Lockers, CheckClaim(a)
      PROVE  LockInv'
  <2>0. PICK sc \in LockScopes : \E path \in Claimable(sc) :
           claim' = IF CheckConflicts(path, a) = {}
                    THEN [claim EXCEPT ![a] = [path |-> path, scope |-> sc,
                                               checked |-> written, busy |-> TRUE]]
                    ELSE claim
    BY <1>1 DEF CheckClaim
  <2>1. PICK path \in Claimable(sc) :
           claim' = IF CheckConflicts(path, a) = {}
                    THEN [claim EXCEPT ![a] = [path |-> path, scope |-> sc,
                                               checked |-> written, busy |-> TRUE]]
                    ELSE claim
    BY <2>0
  <2>2. written' = written /\ lockFiles' = Active
    BY <1>1 DEF CheckClaim
  <2>3. CASE CheckConflicts(path, a) = {}
    <3> DEFINE new == [path |-> path, scope |-> sc, checked |-> written, busy |-> TRUE]
    <3>1. new \in ClaimRecord /\ path \in Paths \cup Patterns
      BY DEF ClaimRecord, LockInv, Claimable
    <3>2. claim' = [claim EXCEPT ![a] = new]
      BY <2>1, <2>3
    <3>3. Active' \subseteq Active
      BY <2>2 DEF Active
    <3>4. \A n, q, agent : FreeUpTo(n, q, agent) => FreeUpTo(n, q, agent)'
      BY <3>3 DEF FreeUpTo
    <3>5. \A lock \in Active : lock.agent # a => ~PathsConflict(path, lock)
      BY <2>3 DEF CheckConflicts
    <3>6. \A lock \in Active' : lock.agent # a => ~PathsConflict(path, lock)
      BY <3>3, <3>5
    <3>7. claim' \in [Lockers -> ClaimRecord] /\ claim'[a] = new
      BY <1>t, <3>1, <3>2
    <3>8. ASSUME NEW b \in Lockers, claim'[b].busy
          PROVE  /\ claim'[b].checked <= written'
                 /\ claim'[b].path \in Paths \cup Patterns
                 /\ FreeUpTo(claim[b].checked, claim[b].path, b)'
      <4>1. CASE b = a
        BY <1>t, <2>2, <3>1, <3>6, <3>7, <4>1 DEF FreeUpTo
      <4>2. CASE b # a
        <5>1. PICK c : c = claim[b] /\ c = claim'[b]
          BY <1>t, <3>2, <4>2
        <5>2. FreeUpTo(c.checked, c.path, b)'
          BY <3>4, <3>8, <5>1 DEF LockInv
        <5> QED BY <2>2, <3>8, <5>1, <5>2 DEF LockInv, FreeUpTo
      <4> QED BY <4>1, <4>2
    <3>9. \A lock \in Active' : FreeUpTo(lock.checked, lock.path, lock.agent)'
      BY <3>3, <3>4 DEF LockInv
    <3> QED BY <1>t, <2>2, <3>7, <3>8, <3>9 DEF LockInv
  <2>4. CASE CheckConflicts(path, a) # {}
    BY <1>t, <2>1, <2>2, <2>4, LocksGo DEF Active, LockInv
  <2> QED BY <2>3, <2>4
<1>2. ASSUME NEW a \in Lockers, SaveLock(a)
      PROVE  LockInv'
  <2>1. PICK new : new = [id |-> written + 1, agent |-> a, path |-> claim[a].path,
                          scope |-> claim[a].scope, expired |-> FALSE,
                          checked |-> claim[a].checked]
    OBVIOUS
  <2>2. /\ claim[a].busy /\ written < MaxLocks /\ written' = written + 1
        /\ lockFiles' = lockFiles \cup {new}
        /\ claim' = [claim EXCEPT ![a] = NoClaim]
    BY <1>2, <2>1 DEF SaveLock
  <2>3. /\ claim[a].checked \in 0..written /\ claim[a].path \in Paths \cup Patterns
        /\ FreeUpTo(claim[a].checked, claim[a].path, a)
        /\ claim[a].scope \in LockScopes
    BY <1>t, <2>2 DEF LockInv, ClaimRecord
  <2>4. new \in Lock
    BY <1>t, <2>1, <2>2, <2>3 DEF Lock
  <2>5. Active' = Active \cup {new}
    BY <2>1, <2>2 DEF Active
  <2>6. ASSUME NEW n \in Int, NEW path, NEW agent, n <= written, FreeUpTo(n, path, agent)
        PROVE  FreeUpTo(n, path, agent)'
    BY <1>t, <2>1, <2>5, <2>6 DEF FreeUpTo
  <2>7. claim' \in [Lockers -> ClaimRecord]
    BY <1>t, <2>2
  <2>8. ASSUME NEW b \in Lockers, claim'[b].busy
        PROVE  /\ claim'[b].checked <= written'
               /\ claim'[b].path \in Paths \cup Patterns
               /\ FreeUpTo(claim[b].checked, claim[b].path, b)'
    <3>1. PICK c \in ClaimRecord : c = claim[b] /\ c = claim'[b]
      BY <1>t, <2>2, <2>8
    <3>2. /\ c.checked \in Int /\ c.checked <= written /\ c.path \in Paths \cup Patterns
          /\ FreeUpTo(c.checked, c.path, b)
      <4>1. c.busy /\ c.checked \in Int
        BY <1>t, <2>8, <3>1 DEF ClaimRecord
      <4>2. FreeUpTo(claim[b].checked, claim[b].path, b)
        BY <3>1, <4>1 DEF LockInv
      <4>3. FreeUpTo(c.checked, c.path, b)
        BY <3>1, <4>2
      <4> QED BY <3>1, <4>1, <4>3 DEF LockInv
    <3>3. FreeUpTo(c.checked, c.path, b)'
      BY <2>6, <3>2
    <3> QED BY <1>t, <2>2, <3>1, <3>2, <3>3 DEF FreeUpTo
  <2>9. ASSUME NEW lock \in Active'
        PROVE  FreeUpTo(lock.checked, lock.path, lock.agent)'
    <3>1. CASE lock \in Active
      <4>1. lock.checked \in Int /\ lock.checked <= written
        BY <1>t, <3>1 DEF Lock
      <4> QED BY <2>6, <3>1, <4>1 DEF LockInv
    <3>2. CASE lock = new
      <4>1. FreeUpTo(lock.checked, lock.path, lock.agent)
        BY <2>1, <2>3, <3>2
      <4>2. lock.checked \in Int /\ lock.checked <= written
        BY <1>t, <2>1, <2>3, <3>2
      <4> QED BY <2>6, <4>1, <4>2
    <3> QED BY <2>5, <3>1, <3>2
  <2>10. \A lock \in lockFiles' : lock \in Lock /\ lock.id <= written' /\ lock.checked < lock.id
    <3>1. \A lock \in lockFiles : lock.id \in Nat
      BY <1>t DEF Lock
    <3>2. new.id = written + 1 /\ new.checked <= written /\ new.checked \in Nat
      BY <2>1, <2>3
    <3> QED BY <1>t, <2>2, <2>4, <3>1, <3>2
  <2> QED BY <1>t, <2>2, <2>7, <2>8, <2>9, <2>10 DEF LockInv
<1>3. ASSUME NEW a \in Lockers, ReleaseAgentLocks(a)
      PROVE  LockInv'
  BY <1>3, <1>t, LocksGo DEF ReleaseAgentLocks
<1>4. ASSUME NEW a \in Lockers, AgentDies(a)
      PROVE  LockInv'
  <2>1. claim' = [claim EXCEPT ![a] = NoClaim] /\ UNCHANGED <<lockFiles, written>>
    BY <1>4 DEF AgentDies
  <2>2. claim' \in [Lockers -> ClaimRecord] /\ \A b \in Lockers : claim'[b].busy => claim'[b] = claim[b]
    BY <1>t, <2>1
  <2> QED BY <1>t, <2>1, <2>2, LocksGo
<1>5. CASE ReleaseLock
  BY <1>5, <1>t, LocksGo DEF ReleaseLock
<1>6. CASE ListLocks
  BY <1>6, <1>t, LocksGo DEF ListLocks
<1>7. CASE LockExpires
  <2>1. PICK lock \in Active :
           lockFiles' = (lockFiles \ {lock}) \cup {[lock EXCEPT !.expired = TRUE]}
    BY <1>7 DEF LockExpires
  <2>2. PICK over : over = [lock EXCEPT !.expired = TRUE]
    OBVIOUS
  <2>3. /\ over \in Lock /\ over.expired /\ over.id = lock.id /\ over.checked = lock.checked
        /\ lock.id <= written /\ lock.checked < lock.id
    BY <1>t, <2>1, <2>2 DEF Lock
  <2>4. UNCHANGED <<written, claim>>
    BY <1>7 DEF LockExpires
  <2>5. \A l \in lockFiles' : l \in lockFiles \/ l = over
    BY <2>1, <2>2
  <2> QED BY <1>t, <2>3, <2>4, <2>5, LocksGo
<1>8. CASE UNCHANGED lockVars
  BY <1>8, <1>t, LocksGo DEF lockVars
<1> QED BY <1>1, <1>2, <1>3, <1>4, <1>5, <1>6, <1>7, <1>8 DEF LockNext

(* Two scopes that share a file conflict, if files are claimed one by one  *)
(* or directories against what is no pattern.  This is where it matters    *)
(* that directories are a tree.                                            *)
LEMMA OverlapConflicts ==
    ASSUME LockAssumption, NEW lock \in Lock, NEW other \in Lock,
           other.scope = "FILE" \/ (other.scope = "DIRECTORY" /\ lock.scope # "PATTERN"),
           Overlap(lock, other)
    PROVE  PathsConflict(other.path, lock)
<1>1. PICK p \in Paths : Covers(lock, p) /\ Covers(other, p)
  BY DEF Overlap
<1>2. lock.scope \in LockScopes
  BY DEF Lock
<1>3. CASE other.path = p
  BY <1>1, <1>2, <1>3 DEF Covers, PathsConflict, LockScopes
<1>4. CASE other.path # p
  <2>1. other.scope = "DIRECTORY" /\ <<p, other.path>> \in Inside /\ lock.scope # "PATTERN"
    BY <1>1, <1>4 DEF Covers
  <2>2. CASE lock.path = p
    BY <1>2, <2>1, <2>2 DEF PathsConflict, LockScopes
  <2>3. CASE lock.path # p
    <3>1. lock.scope = "DIRECTORY" /\ <<p, lock.path>> \in Inside
      BY <1>1, <2>1, <2>3 DEF Covers
    <3>2. lock.path \in Paths /\ other.path \in Paths
      BY <2>1, <3>1 DEF LockAssumption
    <3>3. \/ lock.path = other.path
          \/ <<lock.path, other.path>> \in Inside \/ <<other.path, lock.path>> \in Inside
      BY <1>1, <2>1, <3>1, <3>2 DEF LockAssumption
    <3> QED BY <3>1, <3>3 DEF PathsConflict
  <2> QED BY <2>2, <2>3
<1> QED BY <1>3, <1>4

LEMMA LockTypes ==
    ASSUME LockInv
    PROVE  LockTypeOK
BY DEF LockInv, ClaimRecord, LockTypeOK

(* A claim of a file or directory excludes every earlier lock of another   *)
(* agent that shares a file with it, unless it had looked before that one  *)
(* was written.                                                            *)
THEOREM LocksAlwaysExclude ==
    ASSUME LockAssumption
    PROVE  LockSpec => []LocksExclude
<1>1. LockInit => LockInv
  BY LocksInitially
<1>2. LockInv /\ [LockNext]_lockVars => LockInv'
  BY LockStep
<1>3. LockInv => LocksExclude
  <2> SUFFICES ASSUME LockInv, NEW lock \in Active, NEW other \in Active,
                      lock.agent # other.agent,
                      \/ other.scope = "FILE"
                      \/ other.scope = "DIRECTORY" /\ lock.scope # "PATTERN",
                      Overlap(lock, other), ~(other.checked < lock.id)
               PROVE  FALSE
    BY DEF LocksExclude
  <2>1. lock \in Lock /\ other \in Lock /\ FreeUpTo(other.checked, other.path, other.agent)
    BY DEF LockInv, Active
  <2>2. lock.id <= other.checked
    BY <2>1 DEF Lock
  <2>3. ~PathsConflict(other.path, lock)
    BY <2>1, <2>2 DEF FreeUpTo
  <2> QED BY <2>1, <2>3, OverlapConflicts
<1> QED BY <1>1, <1>2, <1>3, PTL DEF LockSpec

-----------------------------------------------------------------------------
(* The registry.  Overlapping commands write back what others have long    *)
(* changed, so that every reading of the registry still under way must be  *)
(* as true as the registry, and every update decided on as well founded.   *)

Knows(known, a, what) == <<a, what>> \in known

Earned(known, a, record) ==
    /\ record.status = "ready" => Knows(known, a, "checked") \/ Knows(known, a, "skipped")
    /\ record.evidence => Knows(known, a, "checked")
    /\ record.status = "crashed" => Knows(known, a, "dead")

(* A reading of the registry in which every agent's standing is earned.    *)
EarnedFile(known, file) ==
    /\ file \in RegistryFiles
    /\ \A a \in Agents : file[a] # NoAgent => Earned(known, a, file[a])

(* The updates of a a command may make, by what has been found out.        *)
Rightful(known, a, update) ==
    \/ update = <<>>
    \/ update = [session |-> TRUE]
    \/ update = LaunchedUpdate
    \/ update \in {Stands("active"), Stands("blocked"), Stands("stopped")}
    \/ update = Stands("ready") /\ Knows(known, a, "skipped")
    \/ update = ReadyUpdate /\ Knows(known, a, "checked")
    \/ update = Stands("crashed") /\ Knows(known, a, "dead")

RightfulOnes(known, a, todo) == \E U : todo \in Seq(U) /\ \A u \in U : Rightful(known, a, u)

CommandOK(known, op) ==
    /\ op.pc \in {"start", "readiness", "gates", "stream", "sentinel",
                  "register", "update", "save", "crash", "bury"} => op.agent \in Agents
    /\ op.pc \in {"register", "save", "tick", "crash", "bury"} => EarnedFile(known, op.file)
    /\ op.pc \in {"update", "save"} => op.todo # <<>> /\ RightfulOnes(known, op.agent, op.todo)
    /\ op.pc = "save" => op.file[op.agent] # NoAgent
    /\ op.pc = "tick" => op.rest \subseteq Agents
    /\ op.pc \in {"crash", "bury"} => op.rest \subseteq Agents /\ Knows(known, op.agent, "dead")
    /\ op.pc = "bury" => EarnedFile(known, op.now) /\ op.now[op.agent] # NoAgent

AgentsInv ==
    /\ EarnedFile(witnessed, registry)
    /\ DOMAIN control = Operators
    /\ \A o \in Operators : CommandOK(witnessed, control[o])

RecordFields == {"status", "session", "evidence"}

(* An update sets its fields and leaves the others. *)
LEMMA UpdatedFields ==
    ASSUME NEW r \in AgentRecord, NEW u, DOMAIN u \subseteq RecordFields
    PROVE  Updated(r, u) = [status   |-> IF "status" \in DOMAIN u THEN u["status"] ELSE r.status,
                     session  |-> IF "session" \in DOMAIN u THEN u["session"] ELSE r.session,
                     evidence |-> IF "evidence" \in DOMAIN u THEN u["evidence"] ELSE r.evidence]
<1>1. DOMAIN r = RecordFields
  BY DEF AgentRecord, RecordFields
<1>2. Updated(r, u) = [x \in RecordFields |-> IF x \in DOMAIN u THEN u[x] ELSE r[x]]
  BY <1>1 DEF Updated
<1> DEFINE merged == [x \in RecordFields |-> IF x \in DOMAIN u THEN u[x] ELSE r[x]]
<1>3. merged = [status |-> merged["status"], session |-> merged["session"],
                evidence |-> merged["evidence"]]
  BY DEF RecordFields
<1> QED BY <1>2, <1>3 DEF RecordFields

(* What an update makes of a record. *)
LEMMA UpdatesEarn ==
    ASSUME NEW known, NEW a, NEW u, NEW r \in AgentRecord, Earned(known, a, r), Rightful(known, a, u)
    PROVE  Updated(r, u) \in AgentRecord /\ Earned(known, a, Updated(r, u))
<1>r. /\ r = [status |-> r.status, session |-> r.session, evidence |-> r.evidence]
      /\ r.status \in AgentStatuses /\ r.session \in BOOLEAN /\ r.evidence \in BOOLEAN
  BY DEF AgentRecord
<1>0. CASE u = <<>>
  <2>1. DOMAIN u = {}
    BY <1>0
  <2>2. Updated(r, u) = r
    BY <1>r, <2>1, UpdatedFields
  <2> QED BY <2>2
<1>1. CASE u = [session |-> TRUE]
  <2>1. DOMAIN u = {"session"} /\ u["session"] = TRUE
    BY <1>1
  <2>2. Updated(r, u) = [status |-> r.status, session |-> TRUE, evidence |-> r.evidence]
    BY <2>1, UpdatedFields DEF RecordFields
  <2> QED BY <2>2, <1>r DEF AgentRecord, Earned
<1>2. CASE u = LaunchedUpdate
  <2>1. DOMAIN u = {"session", "status"} /\ u["session"] = TRUE /\ u["status"] = "active"
    BY <1>2 DEF LaunchedUpdate
  <2>2. Updated(r, u) = [status |-> "active", session |-> TRUE, evidence |-> r.evidence]
    BY <2>1, UpdatedFields DEF RecordFields
  <2> QED BY <2>2, <1>r DEF AgentRecord, Earned, AgentStatuses
<1>3. ASSUME NEW s \in AgentStatuses, u = Stands(s),
             s = "ready" => Knows(known, a, "skipped"), s = "crashed" => Knows(known, a, "dead")
      PROVE  Updated(r, u) \in AgentRecord /\ Earned(known, a, Updated(r, u))
  <2>1. DOMAIN u = {"status"} /\ u["status"] = s
    BY <1>3 DEF Stands
  <2>2. Updated(r, u) = [status |-> s, session |-> r.session, evidence |-> r.evidence]
    BY <2>1, UpdatedFields DEF RecordFields
  <2> QED BY <2>2, <1>3, <1>r DEF AgentRecord, Earned
<1>4. CASE u = ReadyUpdate /\ Knows(known, a, "checked")
  <2>1. DOMAIN u = {"status", "evidence"} /\ u["status"] = "ready" /\ u["evidence"] = TRUE
    BY <1>4 DEF ReadyUpdate
  <2>2. Updated(r, u) = [status |-> "ready", session |-> r.session, evidence |-> TRUE]
    BY <2>1, UpdatedFields DEF RecordFields
  <2> QED BY <2>2, <1>4, <1>r DEF AgentRecord, Earned, AgentStatuses
<1> QED BY <1>0, <1>1, <1>2, <1>3, <1>4 DEF Rightful, AgentStatuses

(* What has been found out stays so. *)
LEMMA FindingsStay ==
    ASSUME NEW known, NEW more, known \subseteq more
    PROVE  /\ \A file : EarnedFile(known, file) => EarnedFile(more, file)
           /\ \A op : CommandOK(known, op) => CommandOK(more, op)
<1>1. \A a, what : Knows(known, a, what) => Knows(more, a, what)
  BY DEF Knows
<1>2. \A a, r : Earned(known, a, r) => Earned(more, a, r)
  BY <1>1 DEF Earned
<1>3. \A a, u : Rightful(known, a, u) => Rightful(more, a, u)
  BY <1>1 DEF Rightful
<1>4. \A a, todo : RightfulOnes(known, a, todo) => RightfulOnes(more, a, todo)
  BY <1>3 DEF RightfulOnes
<1>5. \A file : EarnedFile(known, file) => EarnedFile(more, file)
  BY <1>2 DEF EarnedFile
<1> QED BY <1>1, <1>4, <1>5 DEF CommandOK

LEMMA RightfulSequence ==
    ASSUME NEW known, NEW a, NEW U, NEW todo \in Seq(U), \A u \in U : Rightful(known, a, u)
    PROVE  RightfulOnes(known, a, todo)
BY Zenon DEF RightfulOnes

LEMMA DecideAny ==
    ASSUME NEW known, NEW a \in Agents, NEW todo,
           todo = <<>> \/ RightfulOnes(known, a, todo)
    PROVE  CommandOK(known, Decided(a, todo))
<1>1. CASE todo = <<>>
  BY <1>1 DEF Decided, CommandOK, NoCommand
<1>2. CASE todo # <<>>
  <2>1. Decided(a, todo) = [pc |-> "update", agent |-> a, todo |-> todo]
    BY <1>2 DEF Decided
  <2> QED BY <1>2, <2>1 DEF CommandOK
<1> QED BY <1>1, <1>2

LEMMA DecideOne ==
    ASSUME NEW known, NEW a \in Agents, NEW u, Rightful(known, a, u)
    PROVE  CommandOK(known, Decided(a, <<u>>))
<1>1. <<u>> \in Seq({u})
  OBVIOUS
<1>2. RightfulOnes(known, a, <<u>>)
  <2>1. PICK U, todo : U = {u} /\ todo = <<u>>
    OBVIOUS
  <2>2. todo \in Seq(U) /\ \A w \in U : Rightful(known, a, w)
    BY <1>1, <2>1
  <2>3. RightfulOnes(known, a, todo)
    BY <2>2, RightfulSequence
  <2> QED BY <2>1, <2>3
<1> QED BY <1>2, DecideAny

LEMMA DecideTwo ==
    ASSUME NEW known, NEW a \in Agents, NEW u, Rightful(known, a, u),
           NEW v, Rightful(known, a, v)
    PROVE  CommandOK(known, Decided(a, <<u, v>>))
<1>1. <<u, v>> \in Seq({u, v})
  OBVIOUS
<1>2. RightfulOnes(known, a, <<u, v>>)
  <2>1. PICK U, todo : U = {u, v} /\ todo = <<u, v>>
    OBVIOUS
  <2>2. todo \in Seq(U) /\ \A w \in U : Rightful(known, a, w)
    BY <1>1, <2>1
  <2>3. RightfulOnes(known, a, todo)
    BY <2>2, RightfulSequence
  <2> QED BY <2>1, <2>3
<1> QED BY <1>2, DecideAny

LEMMA IdleIsOK ==
    ASSUME NEW known
    PROVE  CommandOK(known, NoCommand)
BY DEF CommandOK, NoCommand

(* A file with the record of one agent updated. *)
LEMMA UpdateFile ==
    ASSUME NEW known, NEW file, EarnedFile(known, file), NEW a \in Agents,
           file[a] # NoAgent, NEW u, Rightful(known, a, u)
    PROVE  EarnedFile(known, [file EXCEPT ![a] = Updated(@, u)])
<1>1. file[a] \in AgentRecord /\ Earned(known, a, file[a])
  BY DEF EarnedFile, RegistryFiles
<1>2. Updated(file[a], u) \in AgentRecord /\ Earned(known, a, Updated(file[a], u))
  BY <1>1, UpdatesEarn
<1> DEFINE new == [file EXCEPT ![a] = Updated(@, u)]
<1>3. new \in RegistryFiles
  BY <1>2 DEF EarnedFile, RegistryFiles
<1>4. ASSUME NEW b \in Agents, new[b] # NoAgent
      PROVE  Earned(known, b, new[b])
  <2>1. CASE b = a
    BY <1>2, <2>1 DEF EarnedFile, RegistryFiles
  <2>2. CASE b # a
    BY <1>4, <2>2 DEF EarnedFile, RegistryFiles
  <2> QED BY <2>1, <2>2
<1> QED BY <1>3, <1>4 DEF EarnedFile

(* A step after which every command still stands on its feet. *)
LEMMA CommandGoes ==
    ASSUME AgentsInv, NEW o \in Operators, NEW op, Go(o, op),
           witnessed \subseteq witnessed', EarnedFile(witnessed', registry'),
           CommandOK(witnessed', op)
    PROVE  AgentsInv'
<1>1. DOMAIN control' = Operators
  BY DEF Go, AgentsInv
<1>2. ASSUME NEW p \in Operators
      PROVE  CommandOK(witnessed', control'[p])
  <2>1. control'[p] = IF p = o THEN op ELSE control[p]
    BY DEF Go, AgentsInv
  <2>2. CommandOK(witnessed, control[p])
    BY DEF AgentsInv
  <2> QED BY <2>1, <2>2, FindingsStay
<1> QED BY <1>1, <1>2 DEF AgentsInv

(* The same of a command that reads, decides or looks.                     *)
LEMMA CommandThinks ==
    ASSUME AgentsInv, NEW o \in Operators, NEW op, Go(o, op),
           witnessed \subseteq witnessed', registry' = registry,
           CommandOK(witnessed', op)
    PROVE  AgentsInv'
<1>1. EarnedFile(witnessed', registry')
  BY FindingsStay DEF AgentsInv
<1> QED BY <1>1, CommandGoes

LEMMA AgentsInitially ==
    ASSUME AgentInit
    PROVE  AgentsInv
<1>1. EarnedFile(witnessed, registry)
  BY DEF AgentInit, EarnedFile, RegistryFiles
<1>2. \A o \in Operators : CommandOK(witnessed, control[o])
  BY IdleIsOK DEF AgentInit
<1> QED BY <1>1, <1>2 DEF AgentsInv, AgentInit

(* Commands that read the registry, or decide by what they read. *)
LEMMA CommandsBegin ==
    ASSUME AgentsInv, NEW o \in Operators, NEW a \in Agents,
           \/ Boot(o, a) \/ DeclareReady(o, a) \/ Block(o, a) \/ Sync(o, a)
           \/ Dispatch(o, a) \/ Stop(o, a) \/ Launch(o, a)
    PROVE  AgentsInv'
<1>f. EarnedFile(witnessed, registry)
  BY DEF AgentsInv
<1>1. CASE Boot(o, a)
  <2>1. PICK op : op = [pc |-> "register", agent |-> a, file |-> registry]
    OBVIOUS
  <2>2. Go(o, op) /\ registry' = registry /\ witnessed' = witnessed
    BY <1>1, <2>1 DEF Boot
  <2>3. CommandOK(witnessed, op)
    BY <1>f, <2>1 DEF CommandOK
  <2> QED BY <2>2, <2>3, CommandThinks
<1>2. CASE DeclareReady(o, a)
  <2>1. registry' = registry
    BY <1>2 DEF DeclareReady
  <2>2. CASE Go(o, Decided(a, <<Stands("ready")>>)) /\ Learn(a, "skipped")
    <3>1. Rightful(witnessed', a, Stands("ready")) /\ witnessed \subseteq witnessed'
      BY <2>2 DEF Rightful, Learn, Knows
    <3>2. CommandOK(witnessed', Decided(a, <<Stands("ready")>>))
      BY <3>1, DecideOne
    <3> QED BY <2>1, <2>2, <3>1, <3>2, CommandThinks
  <2>3. CASE Go(o, [pc |-> "readiness", agent |-> a]) /\ UNCHANGED witnessed
    <3>1. CommandOK(witnessed, [pc |-> "readiness", agent |-> a])
      BY DEF CommandOK
    <3> QED BY <2>1, <2>3, <3>1, CommandThinks
  <2> QED BY <1>2, <2>2, <2>3 DEF DeclareReady
<1>3. CASE Block(o, a)
  <2>1. CommandOK(witnessed, Decided(a, <<Stands("blocked")>>))
    BY DecideOne DEF Rightful
  <2> QED BY <1>3, <2>1, CommandThinks DEF Block
<1>4. CASE Sync(o, a)
  <2>1. PICK op : op = [pc |-> "tick", file |-> registry, rest |-> {a}]
    OBVIOUS
  <2>2. CommandOK(witnessed, op)
    BY <1>f, <2>1 DEF CommandOK
  <2> QED BY <1>4, <2>1, <2>2, CommandThinks DEF Sync
<1>5. CASE Dispatch(o, a)
  <2>1. CommandOK(witnessed, Decided(a, <<<<>>, Stands("active")>>))
    BY DecideTwo DEF Rightful
  <2> QED BY <1>5, <2>1, CommandThinks DEF Dispatch
<1>6. CASE Stop(o, a)
  <2>1. CommandOK(witnessed, Decided(a, <<Stands("stopped")>>))
    BY DecideOne DEF Rightful
  <2> QED BY <1>6, <2>1, CommandThinks DEF Stop
<1>7. CASE Launch(o, a)
  <2>1. CommandOK(witnessed, [pc |-> "stream", agent |-> a])
    BY DEF CommandOK
  <2> QED BY <1>7, <2>1, CommandThinks DEF Launch
<1> QED BY <1>1, <1>2, <1>3, <1>4, <1>5, <1>6, <1>7

(* Commands that write the registry they read. *)
LEMMA CommandsSave ==
    ASSUME AgentsInv, NEW o \in Operators,
           LoadRegistry(o) \/ SaveRegistry(o) \/ Register(o) \/ LoadToCrash(o) \/ SaveCrashed(o)
    PROVE  AgentsInv'
<1>0. PICK op : op = control[o]
  OBVIOUS
<1>f. CommandOK(witnessed, op) /\ EarnedFile(witnessed, registry)
  BY <1>0 DEF AgentsInv
<1>1. CASE LoadRegistry(o)
  <2>1. PICK new : new = IF Registered(op.agent)
                         THEN [pc |-> "save", agent |-> op.agent, todo |-> op.todo,
                               file |-> registry]
                         ELSE NoCommand
    OBVIOUS
  <2>2. op.pc = "update" /\ Go(o, new) /\ registry' = registry /\ witnessed' = witnessed
    BY <1>0, <1>1, <2>1 DEF LoadRegistry
  <2>3. CASE Registered(op.agent)
    <3>1. new = [pc |-> "save", agent |-> op.agent, todo |-> op.todo, file |-> registry]
      BY <2>1, <2>3
    <3>2. CommandOK(witnessed, new)
      BY <1>f, <2>2, <2>3, <3>1 DEF CommandOK, Registered
    <3> QED BY <2>2, <3>2, CommandThinks
  <2>4. CASE ~Registered(op.agent)
    BY <2>1, <2>2, <2>4, IdleIsOK, CommandThinks
  <2> QED BY <2>3, <2>4
<1>2. CASE SaveRegistry(o)
  <2>1. PICK a, todo, file : a = op.agent /\ todo = op.todo /\ file = op.file
    OBVIOUS
  <2>2. /\ op.pc = "save" /\ witnessed' = witnessed
        /\ registry' = [file EXCEPT ![a] = Updated(@, Head(todo))]
        /\ Go(o, Decided(a, Tail(todo)))
    BY <1>0, <1>2, <2>1 DEF SaveRegistry
  <2>3. /\ a \in Agents /\ EarnedFile(witnessed, file) /\ todo # <<>>
        /\ RightfulOnes(witnessed, a, todo) /\ file[a] # NoAgent
    BY <1>f, <2>1, <2>2 DEF CommandOK
  <2>4. PICK U : todo \in Seq(U) /\ \A u \in U : Rightful(witnessed, a, u)
    BY <2>3 DEF RightfulOnes
  <2>5. Head(todo) \in U /\ Tail(todo) \in Seq(U)
    BY <2>3, <2>4
  <2>6. EarnedFile(witnessed', registry')
    BY <2>2, <2>3, <2>4, <2>5, UpdateFile
  <2>7. RightfulOnes(witnessed, a, Tail(todo))
    BY <2>4, <2>5, RightfulSequence
  <2>8. CommandOK(witnessed', Decided(a, Tail(todo)))
    BY <2>2, <2>3, <2>7, DecideAny
  <2> QED BY <2>2, <2>6, <2>8, CommandGoes
<1>3. CASE Register(o)
  <2>1. PICK a, file : a = op.agent /\ file = op.file
    OBVIOUS
  <2>2. PICK fresh : fresh = [status |-> "booting", session |-> FALSE, evidence |-> FALSE]
    OBVIOUS
  <2>3. /\ op.pc = "register" /\ witnessed' = witnessed
        /\ registry' = [file EXCEPT ![a] = fresh]
        /\ Go(o, [pc |-> "start", agent |-> a])
    BY <1>0, <1>3, <2>1, <2>2 DEF Register
  <2>4. a \in Agents /\ EarnedFile(witnessed, file)
    BY <1>f, <2>1, <2>3 DEF CommandOK
  <2>5. fresh \in AgentRecord /\ \A known, b : Earned(known, b, fresh)
    BY <2>2 DEF AgentRecord, AgentStatuses, Earned
  <2>6. EarnedFile(witnessed', registry')
    BY <2>3, <2>4, <2>5 DEF EarnedFile, RegistryFiles
  <2>7. CommandOK(witnessed', [pc |-> "start", agent |-> a])
    BY <2>4 DEF CommandOK
  <2> QED BY <2>3, <2>6, <2>7, CommandGoes
<1>4. CASE LoadToCrash(o)
  <2>1. PICK new : new = IF Registered(op.agent)
                         THEN [pc |-> "bury", agent |-> op.agent, file |-> op.file,
                               rest |-> op.rest, now |-> registry]
                         ELSE NoCommand
    OBVIOUS
  <2>2. op.pc = "crash" /\ Go(o, new) /\ registry' = registry /\ witnessed' = witnessed
    BY <1>0, <1>4, <2>1 DEF LoadToCrash
  <2>3. CASE Registered(op.agent)
    <3>1. new = [pc |-> "bury", agent |-> op.agent, file |-> op.file,
                 rest |-> op.rest, now |-> registry]
      BY <2>1, <2>3
    <3>2. CommandOK(witnessed, new)
      BY <1>f, <2>2, <2>3, <3>1 DEF CommandOK, Registered
    <3> QED BY <2>2, <3>2, CommandThinks
  <2>4. CASE ~Registered(op.agent)
    BY <2>1, <2>2, <2>4, IdleIsOK, CommandThinks
  <2> QED BY <2>3, <2>4
<1>5. CASE SaveCrashed(o)
  <2>1. PICK a, now : a = op.agent /\ now = op.now
    OBVIOUS
  <2>2. PICK new : new = IF op.rest = {} THEN NoCommand
                         ELSE [pc |-> "tick", file |-> op.file, rest |-> op.rest]
    OBVIOUS
  <2>3. /\ op.pc = "bury" /\ witnessed' = witnessed
        /\ registry' = [now EXCEPT ![a] = Updated(@, Stands("crashed"))]
        /\ Go(o, new)
    BY <1>0, <1>5, <2>1, <2>2 DEF SaveCrashed
  <2>4. /\ a \in Agents /\ EarnedFile(witnessed, now) /\ now[a] # NoAgent
        /\ Rightful(witnessed, a, Stands("crashed"))
    BY <1>f, <2>1, <2>3 DEF CommandOK, Rightful
  <2>5. EarnedFile(witnessed', registry')
    BY <2>3, <2>4, UpdateFile
  <2>6. CommandOK(witnessed, new)
    <3>1. CASE op.rest = {}
      BY <2>2, <3>1, IdleIsOK
    <3>2. CASE op.rest # {}
      <4>1. new = [pc |-> "tick", file |-> op.file, rest |-> op.rest]
        BY <2>2, <3>2
      <4> QED BY <1>f, <2>3, <4>1 DEF CommandOK
    <3> QED BY <3>1, <3>2
  <2> QED BY <2>3, <2>5, <2>6, CommandGoes
<1> QED BY <1>1, <1>2, <1>3, <1>4, <1>5

(* Commands that start sessions, run gates, or look at sessions. *)
LEMMA CommandsAct ==
    ASSUME AgentsInv, NEW o \in Operators,
           \/ StartSession(o) \/ Readiness(o) \/ RunGates(o) \/ Tick(o) \/ LookAtSession(o)
           \/ ConsultStream(o) \/ LaunchSession(o) \/ CommandDies(o)
    PROVE  AgentsInv'
<1>0. PICK op, a : op = control[o] /\ a = op.agent
  OBVIOUS
<1>f. CommandOK(witnessed, op) /\ EarnedFile(witnessed, registry)
  BY <1>0 DEF AgentsInv
<1>1. CASE StartSession(o)
  <2>1. op.pc = "start" /\ registry' = registry /\ witnessed' = witnessed
    BY <1>0, <1>1 DEF StartSession
  <2>2. a \in Agents
    BY <1>0, <1>f, <2>1 DEF CommandOK
  <2>3. \/ Go(o, Decided(a, <<[session |-> TRUE], Stands("active")>>))
        \/ Go(o, Decided(a, <<Stands("active")>>))
    <3>1. PICK start \in Starts(a) :
             Go(o, Decided(a, IF start[2] THEN <<[session |-> TRUE], Stands("active")>>
                              ELSE <<Stands("active")>>))
      BY <1>0, <1>1 DEF StartSession
    <3> QED BY <3>1
  <2>4. /\ CommandOK(witnessed, Decided(a, <<[session |-> TRUE], Stands("active")>>))
        /\ CommandOK(witnessed, Decided(a, <<Stands("active")>>))
    BY <2>2, DecideOne, DecideTwo DEF Rightful
  <2> QED BY <2>1, <2>3, <2>4, CommandThinks
<1>2. CASE Readiness(o)
  <2>1. op.pc = "readiness" /\ registry' = registry
    BY <1>0, <1>2 DEF Readiness
  <2>2. a \in Agents
    BY <1>0, <1>f, <2>1 DEF CommandOK
  <2>3. CASE Go(o, Decided(a, <<Stands("blocked")>>)) /\ UNCHANGED witnessed
    <3>1. CommandOK(witnessed, Decided(a, <<Stands("blocked")>>))
      BY <2>2, DecideOne DEF Rightful
    <3> QED BY <2>1, <2>3, <3>1, CommandThinks
  <2>4. CASE Go(o, Decided(a, <<ReadyUpdate>>)) /\ Learn(a, "checked")
    <3>1. Rightful(witnessed', a, ReadyUpdate) /\ witnessed \subseteq witnessed'
      BY <2>4 DEF Rightful, Learn, Knows
    <3>2. CommandOK(witnessed', Decided(a, <<ReadyUpdate>>))
      BY <2>2, <3>1, DecideOne
    <3> QED BY <2>1, <2>4, <3>1, <3>2, CommandThinks
  <2>5. CASE Go(o, [pc |-> "gates", agent |-> a]) /\ UNCHANGED witnessed
    <3>1. CommandOK(witnessed, [pc |-> "gates", agent |-> a])
      BY <2>2 DEF CommandOK
    <3> QED BY <2>1, <2>5, <3>1, CommandThinks
  <2>6. CASE Go(o, NoCommand) /\ UNCHANGED witnessed
    BY <2>1, <2>6, IdleIsOK, CommandThinks
  <2> QED BY <1>0, <1>2, <2>3, <2>4, <2>5, <2>6 DEF Readiness
<1>3. CASE RunGates(o)
  <2>1. op.pc = "gates" /\ registry' = registry
    BY <1>0, <1>3 DEF RunGates
  <2>2. a \in Agents
    BY <1>0, <1>f, <2>1 DEF CommandOK
  <2>3. PICK results \in GateResults(a) :
           /\ Go(o, Decided(a, IF OverallPass(results) THEN <<ReadyUpdate>>
                               ELSE <<Stands("blocked")>>))
           /\ IF \E g \in RequiredGates(a) : results[g] # "pass" THEN UNCHANGED witnessed
              ELSE Learn(a, "checked")
    BY <1>0, <1>3 DEF RunGates
  <2>4. witnessed \subseteq witnessed'
    BY <2>3 DEF Learn
  <2>5. CASE OverallPass(results)
    <3>1. \A g \in RequiredGates(a) : results[g] = "pass"
      BY <2>3, <2>5 DEF OverallPass, GateResults
    <3>2. Rightful(witnessed', a, ReadyUpdate)
      BY <2>3, <3>1 DEF Rightful, Learn, Knows
    <3>3. CommandOK(witnessed', Decided(a, <<ReadyUpdate>>))
      BY <2>2, <3>2, DecideOne
    <3> QED BY <2>1, <2>3, <2>4, <2>5, <3>3, CommandThinks
  <2>6. CASE ~OverallPass(results)
    <3>1. CommandOK(witnessed', Decided(a, <<Stands("blocked")>>))
      BY <2>2, DecideOne DEF Rightful
    <3> QED BY <2>1, <2>3, <2>4, <2>6, <3>1, CommandThinks
  <2> QED BY <2>5, <2>6
<1>4. CASE Tick(o)
  <2>1. PICK rest : rest = {b \in Agents :
                       Registered(b) /\ registry[b].status \notin {"stopped", "crashed"}}
    OBVIOUS
  <2>2. PICK new : new = [pc |-> "tick", file |-> registry, rest |-> rest]
    OBVIOUS
  <2>3. Go(o, new) /\ registry' = registry /\ witnessed' = witnessed
    BY <1>4, <2>1, <2>2 DEF Tick
  <2>4. CommandOK(witnessed, new)
    BY <1>f, <2>1, <2>2 DEF CommandOK
  <2> QED BY <2>3, <2>4, CommandThinks
<1>5. CASE LookAtSession(o)
  <2>1. op.pc = "tick" /\ registry' = registry
    BY <1>0, <1>5 DEF LookAtSession
  <2>2. EarnedFile(witnessed, op.file) /\ op.rest \subseteq Agents
    BY <1>f, <2>1 DEF CommandOK
  <2>3. PICK b \in op.rest :
           /\ IF Verdict(b, op.file[b]) = <<>>
              THEN Go(o, IF op.rest = {b} THEN NoCommand
                         ELSE [pc |-> "tick", file |-> op.file, rest |-> op.rest \ {b}])
              ELSE Go(o, [pc |-> "crash", agent |-> b,
                          file |-> op.file, rest |-> op.rest \ {b}])
           /\ IF LooksDead(b) THEN Learn(b, "dead") ELSE UNCHANGED witnessed
    BY <1>0, <1>5 DEF LookAtSession
  <2>4. witnessed \subseteq witnessed'
    BY <2>3 DEF Learn
  <2>5. EarnedFile(witnessed', op.file)
    BY <2>2, <2>4, FindingsStay
  <2>6. CASE Verdict(b, op.file[b]) = <<>>
    <3>1. CASE op.rest = {b}
      BY <2>1, <2>3, <2>4, <2>6, <3>1, IdleIsOK, CommandThinks
    <3>2. CASE op.rest # {b}
      <4>1. PICK new : new = [pc |-> "tick", file |-> op.file, rest |-> op.rest \ {b}]
        OBVIOUS
      <4>2. CommandOK(witnessed', new)
        BY <2>2, <2>5, <4>1 DEF CommandOK
      <4> QED BY <2>1, <2>3, <2>4, <2>6, <3>2, <4>1, <4>2, CommandThinks
    <3> QED BY <3>1, <3>2
  <2>7. CASE Verdict(b, op.file[b]) # <<>>
    <3>1. Knows(witnessed', b, "dead")
      <4>1. LooksDead(b)
        BY <2>7 DEF Verdict
      <4> QED BY <2>3, <4>1 DEF Knows, Learn
    <3>2. PICK new : new = [pc |-> "crash", agent |-> b,
                            file |-> op.file, rest |-> op.rest \ {b}]
      OBVIOUS
    <3>3. CommandOK(witnessed', new)
      BY <2>2, <2>5, <3>1, <3>2 DEF CommandOK
    <3> QED BY <2>1, <2>3, <2>4, <2>7, <3>2, <3>3, CommandThinks
  <2> QED BY <2>6, <2>7
<1>6. CASE ConsultStream(o)
  <2>1. op.pc = "stream" /\ UNCHANGED <<registry, witnessed>>
    BY <1>0, <1>6 DEF ConsultStream
  <2>2. Go(o, NoCommand) \/ Go(o, [pc |-> "sentinel", agent |-> a])
    BY <1>0, <1>6 DEF ConsultStream
  <2>3. CommandOK(witnessed, [pc |-> "sentinel", agent |-> a])
    BY <1>0, <1>f, <2>1 DEF CommandOK
  <2> QED BY <2>1, <2>2, <2>3, IdleIsOK, CommandThinks
<1>7. CASE LaunchSession(o)
  <2>1. op.pc = "sentinel" /\ UNCHANGED <<registry, witnessed>>
    BY <1>0, <1>7 DEF LaunchSession
  <2>2. Go(o, NoCommand) \/ Go(o, Decided(a, <<LaunchedUpdate>>))
    BY <1>0, <1>7 DEF LaunchSession
  <2>3. a \in Agents
    BY <1>0, <1>f, <2>1 DEF CommandOK
  <2>4. CommandOK(witnessed, Decided(a, <<LaunchedUpdate>>))
    BY <2>3, DecideOne DEF Rightful
  <2> QED BY <2>1, <2>2, <2>4, IdleIsOK, CommandThinks
<1>8. CASE CommandDies(o)
  BY <1>8, IdleIsOK, CommandThinks DEF CommandDies
<1> QED BY <1>1, <1>2, <1>3, <1>4, <1>5, <1>6, <1>7, <1>8

LEMMA AgentsStep ==
    ASSUME AgentsInv, [AgentNext]_<<agentVars, streamVars>>
    PROVE  AgentsInv'
<1>1. ASSUME NEW o \in Operators, NEW a \in Agents,
             \/ Boot(o, a) \/ DeclareReady(o, a) \/ Block(o, a) \/ Sync(o, a)
             \/ Dispatch(o, a) \/ Stop(o, a) \/ Launch(o, a)
      PROVE  AgentsInv'
  BY <1>1, CommandsBegin
<1>2. ASSUME NEW o \in Operators,
             LoadRegistry(o) \/ SaveRegistry(o) \/ Register(o) \/ LoadToCrash(o) \/ SaveCrashed(o)
      PROVE  AgentsInv'
  BY <1>2, CommandsSave
<1>3. ASSUME NEW o \in Operators,
             \/ StartSession(o) \/ Readiness(o) \/ RunGates(o) \/ Tick(o) \/ LookAtSession(o)
             \/ ConsultStream(o) \/ LaunchSession(o) \/ CommandDies(o)
      PROVE  AgentsInv'
  BY <1>3, CommandsAct
<1>4. ASSUME UNCHANGED <<registry, control, witnessed>>
      PROVE  AgentsInv'
  BY <1>4 DEF AgentsInv
<1>5. ASSUME NEW a \in Agents, SessionDies(a)
      PROVE  AgentsInv'
  BY <1>4, <1>5 DEF SessionDies
<1>6. CASE UNCHANGED agentVars
  BY <1>4, <1>6 DEF agentVars
<1> QED BY <1>1, <1>2, <1>3, <1>5, <1>6 DEF AgentNext

(* An agent is READY, has evidence, or is CRASHED only if a command found  *)
(* what that takes, whatever files overlapping commands write back         *)
(* (gates.py, registry.py).                                                *)
THEOREM StandingIsAlwaysEarned ==
    AgentSpec => []StandingIsEarned
<1>1. AgentInit => AgentsInv
  BY AgentsInitially
<1>2. AgentsInv /\ [AgentNext]_<<agentVars, streamVars>> => AgentsInv'
  BY AgentsStep
<1>3. AgentsInv => StandingIsEarned
  BY DEF AgentsInv, EarnedFile, Earned, Knows, StandingIsEarned, Registered
<1> QED BY <1>1, <1>2, <1>3, PTL DEF AgentSpec

-----------------------------------------------------------------------------
(* The shapes of the commands. *)
PlainCommand == [pc : {"start", "readiness", "gates", "stream", "sentinel"}, agent : Agents]
RegisterCommand == [pc : {"register"}, agent : Agents, file : RegistryFiles]

CommandShape(op) ==
    \/ op = NoCommand
    \/ op \in PlainCommand
    \/ op \in RegisterCommand
    \/ op.pc \in {"update", "save", "tick", "crash", "bury"}

AgentsTyped ==
    /\ sessions \subseteq Agents
    /\ witnessed \subseteq Findings
    /\ \A o \in Operators : CommandShape(control[o])

LEMMA AgentsTypedInitially ==
    ASSUME AgentInit
    PROVE  AgentsTyped
BY DEF AgentInit, AgentsTyped, CommandShape

(* A command goes on to an operation that has its shape. *)
LEMMA ShapeGoesOn ==
    ASSUME AgentsInv, AgentsTyped, NEW o \in Operators, NEW op, Go(o, op), CommandShape(op),
           sessions' \subseteq Agents, witnessed' \subseteq Findings
    PROVE  AgentsTyped'
<1>1. \A p \in Operators : control'[p] = IF p = o THEN op ELSE control[p]
  BY DEF Go, AgentsInv
<1> QED BY <1>1 DEF AgentsTyped, CommandShape

LEMMA DecidedShape ==
    ASSUME NEW a, NEW todo
    PROVE  CommandShape(Decided(a, todo))
BY DEF CommandShape, Decided

LEMMA PlainShape ==
    ASSUME NEW a \in Agents, NEW pc \in {"start", "readiness", "gates", "stream", "sentinel"}
    PROVE  CommandShape([pc |-> pc, agent |-> a])
BY DEF CommandShape, PlainCommand

LEMMA SessionsOfAgents ==
    ASSUME AgentAssumption, AgentsTyped, NEW a \in Agents
    PROVE  /\ WithoutSession(a) \subseteq Agents
           /\ \A start \in Starts(a) : start[1] \subseteq Agents
<1>1. ToolOf[a] \in {"manual", "opencode", "droid"}
  BY DEF AgentAssumption
<1>2. sessions \subseteq Agents /\ sessions \cup {a} \subseteq Agents
  BY DEF AgentsTyped
<1>3. \A start \in Starts(a) : start[1] \in {sessions, sessions \cup {a}}
  <2>1. CASE ToolOf[a] = "opencode"
    <3>1. ToolOf[a] = "opencode" => Starts(a) = {<<sessions \cup {a}, TRUE>>, <<sessions, FALSE>>}
      BY Zenon DEF Starts
    <3>2. \A start \in Starts(a) : start \in {<<sessions \cup {a}, TRUE>>, <<sessions, FALSE>>}
      BY <2>1, <3>1
    <3>3. ASSUME NEW start, NEW S, NEW b, start = <<S, b>>
          PROVE  start[1] = S
      BY <3>3
    <3>4. \A start \in Starts(a) :
             start = <<sessions \cup {a}, TRUE>> \/ start = <<sessions, FALSE>>
      BY <3>2, Zenon
    <3> QED BY <3>3, <3>4
  <2>2. CASE ToolOf[a] = "droid"
    BY <2>2 DEF Starts
  <2>3. CASE ToolOf[a] = "manual"
    BY <2>3 DEF Starts
  <2> QED BY <1>1, <2>1, <2>2, <2>3
<1>4. WithoutSession(a) \subseteq Agents
  BY <1>2 DEF WithoutSession
<1> QED BY <1>2, <1>3, <1>4

LEMMA TypedCommandsBegin ==
    ASSUME AgentAssumption, AgentsInv, AgentsTyped, NEW o \in Operators, NEW a \in Agents,
           \/ Boot(o, a) \/ DeclareReady(o, a) \/ Block(o, a) \/ Sync(o, a)
           \/ Dispatch(o, a) \/ Stop(o, a) \/ Launch(o, a)
    PROVE  AgentsTyped'
<1>t. sessions \subseteq Agents /\ witnessed \subseteq Findings
  BY DEF AgentsTyped
<1>1. CASE Boot(o, a)
  <2>1. CommandShape([pc |-> "register", agent |-> a, file |-> registry])
    BY DEF CommandShape, RegisterCommand, AgentsInv, EarnedFile
  <2> QED BY <1>1, <1>t, <2>1, ShapeGoesOn DEF Boot
<1>2. CASE DeclareReady(o, a)
  <2>1. CASE Go(o, Decided(a, <<Stands("ready")>>)) /\ Learn(a, "skipped")
    BY <1>2, <1>t, <2>1, DecidedShape, ShapeGoesOn DEF DeclareReady, Learn, Findings
  <2>2. CASE Go(o, [pc |-> "readiness", agent |-> a]) /\ UNCHANGED witnessed
    BY <1>2, <1>t, <2>2, PlainShape, ShapeGoesOn DEF DeclareReady
  <2> QED BY <1>2, <2>1, <2>2 DEF DeclareReady
<1>3. CASE Block(o, a)
  BY <1>3, <1>t, DecidedShape, ShapeGoesOn DEF Block
<1>4. CASE Sync(o, a)
  <2>1. CommandShape([pc |-> "tick", file |-> registry, rest |-> {a}])
    BY DEF CommandShape
  <2> QED BY <1>4, <1>t, <2>1, ShapeGoesOn DEF Sync
<1>5. CASE Dispatch(o, a)
  BY <1>5, <1>t, DecidedShape, ShapeGoesOn DEF Dispatch
<1>6. CASE Stop(o, a)
  BY <1>6, <1>t, SessionsOfAgents, DecidedShape, ShapeGoesOn DEF Stop
<1>7. CASE Launch(o, a)
  BY <1>7, <1>t, PlainShape, ShapeGoesOn DEF Launch
<1> QED BY <1>1, <1>2, <1>3, <1>4, <1>5, <1>6, <1>7

LEMMA TypedCommandsGo ==
    ASSUME AgentAssumption, AgentsInv, AgentsTyped, NEW o \in Operators,
           \/ LoadRegistry(o) \/ SaveRegistry(o) \/ Register(o) \/ StartSession(o)
           \/ Readiness(o) \/ RunGates(o) \/ Tick(o) \/ LookAtSession(o)
           \/ LoadToCrash(o) \/ SaveCrashed(o) \/ ConsultStream(o)
           \/ LaunchSession(o) \/ CommandDies(o)
    PROVE  AgentsTyped'
<1>0. PICK op, a : op = control[o] /\ a = op.agent
  OBVIOUS
<1>t. /\ sessions \subseteq Agents /\ witnessed \subseteq Findings
      /\ CommandOK(witnessed, op) /\ CommandShape(NoCommand)
  BY <1>0 DEF AgentsTyped, AgentsInv, CommandShape
<1>1. CASE LoadRegistry(o)
  <2>1. PICK new : /\ Go(o, new)
                   /\ new = IF Registered(op.agent)
                            THEN [pc |-> "save", agent |-> op.agent, todo |-> op.todo,
                                  file |-> registry]
                            ELSE NoCommand
    BY <1>0, <1>1 DEF LoadRegistry
  <2>2. CommandShape(new)
    BY <2>1 DEF CommandShape
  <2> QED BY <1>1, <1>t, <2>1, <2>2, ShapeGoesOn DEF LoadRegistry
<1>2. CASE SaveRegistry(o)
  BY <1>2, <1>t, DecidedShape, ShapeGoesOn DEF SaveRegistry
<1>3. CASE Register(o)
  <2>1. Go(o, [pc |-> "start", agent |-> a]) /\ op.pc = "register"
    BY <1>0, <1>3 DEF Register
  <2>2. CommandShape([pc |-> "start", agent |-> a])
    BY <1>0, <1>t, <2>1, PlainShape DEF CommandOK
  <2> QED BY <1>3, <1>t, <2>1, <2>2, ShapeGoesOn DEF Register
<1>4. CASE StartSession(o)
  <2>1. op.pc = "start" /\ witnessed' = witnessed
    BY <1>0, <1>4 DEF StartSession
  <2>2. PICK start \in Starts(a) :
            sessions' = start[1] /\ \E todo : Go(o, Decided(a, todo))
    BY <1>0, <1>4 DEF StartSession
  <2>3. a \in Agents
    BY <1>0, <1>t, <2>1 DEF CommandOK
  <2> QED BY <1>t, <2>1, <2>2, <2>3, SessionsOfAgents, DecidedShape, ShapeGoesOn
<1>5. CASE Readiness(o)
  <2>1. op.pc = "readiness" /\ sessions' = sessions
    BY <1>0, <1>5 DEF Readiness
  <2>2. a \in Agents
    BY <1>0, <1>t, <2>1 DEF CommandOK
  <2>3. \/ \E todo : Go(o, Decided(a, todo))
        \/ Go(o, [pc |-> "gates", agent |-> a])
        \/ Go(o, NoCommand)
    BY <1>0, <1>5 DEF Readiness
  <2>4. witnessed' \subseteq Findings
    BY <1>0, <1>5, <1>t, <2>2 DEF Readiness, Learn, Findings
  <2> QED BY <1>t, <2>1, <2>2, <2>3, <2>4, PlainShape, DecidedShape, ShapeGoesOn
<1>6. CASE RunGates(o)
  <2>1. op.pc = "gates" /\ sessions' = sessions
    BY <1>0, <1>6 DEF RunGates
  <2>2. a \in Agents
    BY <1>0, <1>t, <2>1 DEF CommandOK
  <2>3. \E todo : Go(o, Decided(a, todo))
    BY <1>0, <1>6 DEF RunGates
  <2>4. UNCHANGED witnessed \/ Learn(a, "checked")
    BY <1>0, <1>6 DEF RunGates
  <2>5. witnessed' \subseteq Findings
    BY <1>t, <2>2, <2>4 DEF Learn, Findings
  <2> QED BY <1>t, <2>1, <2>3, <2>5, DecidedShape, ShapeGoesOn
<1>7. CASE Tick(o)
  <2>1. PICK new : Go(o, new) /\ new.pc = "tick"
    BY <1>7 DEF Tick
  <2>2. CommandShape(new)
    BY <2>1 DEF CommandShape
  <2> QED BY <1>7, <1>t, <2>1, <2>2, ShapeGoesOn DEF Tick
<1>8. CASE LookAtSession(o)
  <2>1. op.pc = "tick" /\ sessions' = sessions
    BY <1>0, <1>8 DEF LookAtSession
  <2>2. PICK b \in op.rest :
          /\ \E new : Go(o, new) /\ (new = NoCommand \/ new.pc \in {"tick", "crash"})
          /\ Learn(b, "dead") \/ UNCHANGED witnessed
    BY <1>0, <1>8 DEF LookAtSession
  <2>3. b \in Agents
    BY <1>t, <2>1, <2>2 DEF CommandOK
  <2>4. witnessed' \subseteq Findings
    BY <1>t, <2>2, <2>3 DEF Learn, Findings
  <2>5. PICK new : Go(o, new) /\ CommandShape(new)
    BY <2>2 DEF CommandShape
  <2> QED BY <1>t, <2>1, <2>2, <2>4, <2>5, ShapeGoesOn
<1>9. CASE LoadToCrash(o)
  <2>1. PICK new : Go(o, new) /\ (new = NoCommand \/ new.pc = "bury")
    BY <1>0, <1>9 DEF LoadToCrash
  <2>2. CommandShape(new)
    BY <2>1 DEF CommandShape
  <2> QED BY <1>9, <1>t, <2>1, <2>2, ShapeGoesOn DEF LoadToCrash
<1>10. CASE SaveCrashed(o)
  <2>1. PICK new : Go(o, new) /\ (new = NoCommand \/ new.pc = "tick")
    BY <1>0, <1>10 DEF SaveCrashed
  <2>2. CommandShape(new)
    BY <2>1 DEF CommandShape
  <2> QED BY <1>10, <1>t, <2>1, <2>2, ShapeGoesOn DEF SaveCrashed
<1>11. CASE ConsultStream(o)
  <2>1. op.pc = "stream"
    BY <1>0, <1>11 DEF ConsultStream
  <2>2. Go(o, NoCommand) \/ Go(o, [pc |-> "sentinel", agent |-> a])
    BY <1>0, <1>11 DEF ConsultStream
  <2>3. a \in Agents
    BY <1>0, <1>t, <2>1 DEF CommandOK
  <2> QED BY <1>11, <1>t, <2>2, <2>3, PlainShape, ShapeGoesOn DEF ConsultStream
<1>12. CASE LaunchSession(o)
  <2>1. op.pc = "sentinel" /\ witnessed' = witnessed
    BY <1>0, <1>12 DEF LaunchSession
  <2>2. a \in Agents
    BY <1>0, <1>t, <2>1 DEF CommandOK
  <2>3. (\E todo : Go(o, Decided(a, todo))) \/ Go(o, NoCommand)
    BY <1>0, <1>12 DEF LaunchSession
  <2>4. sessions' \subseteq Agents
    BY <1>0, <1>12, <1>t, <2>2 DEF LaunchSession
  <2> QED BY <1>t, <2>1, <2>3, <2>4, DecidedShape, ShapeGoesOn
<1>13. CASE CommandDies(o)
  BY <1>13, <1>t, ShapeGoesOn DEF CommandDies
<1> QED BY <1>1, <1>2, <1>3, <1>4, <1>5, <1>6, <1>7, <1>8, <1>9, <1>10, <1>11, <1>12, <1>13

LEMMA AgentsTypedStep ==
    ASSUME AgentAssumption, AgentsInv, AgentsTyped, [AgentNext]_<<agentVars, streamVars>>
    PROVE  AgentsTyped'
<1>1. ASSUME NEW a \in Agents, SessionDies(a)
      PROVE  AgentsTyped'
  BY <1>1 DEF SessionDies, AgentsTyped, CommandShape
<1>2. CASE UNCHANGED agentVars
  BY <1>2 DEF agentVars, AgentsTyped, CommandShape
<1> QED BY <1>1, <1>2, TypedCommandsBegin, TypedCommandsGo DEF AgentNext

LEMMA RightfulAreUpdates ==
    ASSUME NEW known, NEW a, NEW u, Rightful(known, a, u)
    PROVE  u \in Updates
BY DEF Rightful, Updates, AgentStatuses

LEMMA AgentTypes ==
    ASSUME StreamInv, AgentsInv, AgentsTyped
    PROVE  AgentTypeOK
<1>1. ASSUME NEW o \in Operators
      PROVE  LET op == control[o] IN
             \/ op = NoCommand
             \/ op \in PlainCommand
             \/ op \in RegisterCommand
             \/ op.pc = "update" /\ op.agent \in Agents /\ Range(op.todo) \subseteq Updates
             \/ op.pc = "save" /\ op.file \in RegistryFiles /\ op.file[op.agent] # NoAgent
             \/ op.pc = "tick" /\ op.file \in RegistryFiles /\ op.rest \subseteq Agents
             \/ op.pc \in {"crash", "bury"} /\ op.agent \in Agents /\ op.rest \subseteq Agents
  <2>1. PICK op : op = control[o]
    OBVIOUS
  <2>2. CommandOK(witnessed, op) /\ CommandShape(op)
    BY <2>1 DEF AgentsInv, AgentsTyped
  <2>3. ASSUME op.pc = "update"
        PROVE  op.agent \in Agents /\ Range(op.todo) \subseteq Updates
    <3>1. op.agent \in Agents /\ RightfulOnes(witnessed, op.agent, op.todo)
      BY <2>2, <2>3 DEF CommandOK
    <3>2. PICK U, todo, a : /\ todo \in Seq(U) /\ \A u \in U : Rightful(witnessed, a, u)
                            /\ todo = op.todo
      BY <3>1 DEF RightfulOnes
    <3>3. Range(todo) \subseteq U
      BY <3>2 DEF Range
    <3> QED BY <3>1, <3>2, <3>3, RightfulAreUpdates
  <2>4. \/ op = NoCommand
        \/ op \in PlainCommand
        \/ op \in RegisterCommand
        \/ op.pc = "update" /\ op.agent \in Agents /\ Range(op.todo) \subseteq Updates
        \/ op.pc = "save" /\ op.file \in RegistryFiles /\ op.file[op.agent] # NoAgent
        \/ op.pc = "tick" /\ op.file \in RegistryFiles /\ op.rest \subseteq Agents
        \/ op.pc \in {"crash", "bury"} /\ op.agent \in Agents /\ op.rest \subseteq Agents
    BY <2>2, <2>3 DEF CommandOK, CommandShape, EarnedFile
  <2> QED BY <2>1, <2>4
<1> QED BY <1>1, StreamTypes DEF AgentsInv, EarnedFile, AgentsTyped, AgentTypeOK,
        PlainCommand, RegisterCommand

=============================================================================
