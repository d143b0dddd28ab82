---------------------------- MODULE GatewayRouter ----------------------------
(***************************************************************************)
(* The AI gateway (control/gateway/) for a client that authenticated: from *)
(* the profile asked for and the class of the data it decides which        *)
(* provider may see the request, and forwards it or refuses.               *)
(***************************************************************************)
CONSTANTS
    Callers,        \* clients of gateway-clients.yaml
    ProfileNames,
    CloudProfile,   \* the profile that requests fall back to
    DataClasses,    \* names a request may give as its sensitive class
    NoProfile,      \* no such profile
    NoClass         \* a request, or a configuration, without the class

ASSUME GatewayAssumption ==
    /\ CloudProfile \in ProfileNames
    /\ NoClass \notin DataClasses

VARIABLES
    gateway,        \* the configuration that was loaded
    calls,          \* the request each client has under way
    forwarded       \* the last request a backend was sent

gatewayVars == <<gateway, calls, forwarded>>

(* ProfileConfig refuses a sensitive profile that may fall back.           *)
GatewayProfile ==
    {p \in [provider : {"openai", "openai_compatible"}, endpoint : BOOLEAN,
            fallback : BOOLEAN, sensitive : BOOLEAN] : ~(p.fallback /\ p.sensitive)}

Gateway == [profiles : [ProfileNames -> GatewayProfile \cup {NoProfile}],
            allowed  : [DataClasses -> BOOLEAN \cup {NoClass}]]

Asked == [profile : ProfileNames, class : DataClasses \cup {NoClass}]
NoCall == [pc |-> "none"]

GatewayInit ==
    /\ gateway \in Gateway
    /\ calls = [c \in Callers |-> NoCall]
    /\ forwarded = NoCall

Profile(name) == gateway.profiles[name]

(* Mutant of CloudAllowedForClass: being listed is being allowed.          *)
CloudAllowedIfListed(class) == gateway.allowed[class] # NoClass

(* An unknown class may not go to the cloud either.                        *)
CloudAllowedForClass(class) == gateway.allowed[class] = TRUE

(* get_sensitive_class finds it, and it forbids the cloud.                 *)
KnownAndForbidden(class) == class # NoClass /\ gateway.allowed[class] = FALSE

RouteTo(name) == [to |-> name, decision |-> "allowed"]
Refuse(name, decision) == [to |-> name, decision |-> decision]

(* A profile that cannot be reached itself falls back, if it may and if    *)
(* there is a cloud profile.                                               *)
FallBack(name) ==
    IF Profile(name).fallback /\ Profile(CloudProfile) # NoProfile
    THEN [to |-> CloudProfile, decision |-> "fallback_to_cloud"]
    ELSE Refuse(name, "blocked_no_fallback")

Route(name, class) ==
    CASE Profile(name) = NoProfile -> Refuse(name, "blocked_profile_not_found")
      [] /\ Profile(name) # NoProfile
         /\ class # NoClass
         /\ ~CloudAllowedForClass(class)
         /\ Profile(name).provider = "openai" -> Refuse(name, "blocked_cloud_forbidden")
      [] OTHER ->
         IF \/ KnownAndForbidden(class)
            \/ Profile(name).endpoint
            \/ Profile(name).provider # "openai_compatible"
         THEN RouteTo(name) ELSE FallBack(name)

(* chat_completions reads the body, while other requests are served: it    *)
(* may name a profile, or leave the client's default, and may name a class.*)
Call(c) ==
    /\ calls[c] = NoCall
    /\ \E asked \in Asked :
          calls' = [calls EXCEPT ![c] = [pc      |-> "asked",
                                         profile |-> asked.profile,
                                         class   |-> asked.class]]
    /\ UNCHANGED <<gateway, forwarded>>

Passes(route) ==
    /\ route.decision \in {"allowed", "fallback_to_cloud"}
    /\ Profile(route.to).endpoint

(* It then decides and refuses, or goes on to the backend.                 *)
DecideRoute(c) ==
    LET call == calls[c] route == Route(call.profile, call.class) IN
    /\ call.pc = "asked"
    /\ calls' = [calls EXCEPT ![c] =
           IF Passes(route)
           THEN [pc      |-> "routed",
                 profile |-> call.profile,
                 class   |-> call.class,
                 to      |-> route.to]
           ELSE NoCall]
    /\ UNCHANGED <<gateway, forwarded>>

(* The request leaves; the answer, or a failure of the backend, ends it.   *)
Forward(c) ==
    /\ calls[c].pc = "routed"
    /\ forwarded' = calls[c]
    /\ calls' = [calls EXCEPT ![c] = NoCall]
    /\ UNCHANGED gateway

GatewayNext == \E c \in Callers : Call(c) \/ DecideRoute(c) \/ Forward(c)

GatewaySpec == GatewayInit /\ [][GatewayNext]_gatewayVars

\* The configuration, the calls and what was forwarded have their types.
GatewayTypeOK ==
    LET IsAsked(call, pc) ==
            /\ call.pc = pc
            /\ [profile |-> call.profile, class |-> call.class] \in Asked
        Routed(call) == IsAsked(call, "routed") /\ call.to \in ProfileNames
    IN  /\ gateway \in Gateway
        /\ \A c \in Callers :
               calls[c] = NoCall \/ IsAsked(calls[c], "asked") \/ Routed(calls[c])
        /\ forwarded = NoCall \/ Routed(forwarded)

(* Data of a class that the configuration knows and keeps from the cloud   *)
(* reaches the profile it was meant for and no cloud provider: no fallback *)
(* applies to it (router.py: rules 1 and 3 of the class).                  *)
SensitiveStaysLocal ==
    forwarded # NoCall /\ KnownAndForbidden(forwarded.class) =>
        /\ forwarded.to = forwarded.profile
        /\ Profile(forwarded.to).provider # "openai"
=============================================================================
