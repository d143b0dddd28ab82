---------------------------- MODULE Publication ----------------------------
(***************************************************************************)
(* What the delivery domain promises about GitHub, without records,        *)
(* gates, retries or failures.  A human approves a content; only approved  *)
(* content is ever pushed, a branch is written once and never moved, and a *)
(* pull request carries what its branch carried when it was opened.        *)
(***************************************************************************)
EXTENDS Naturals

CONSTANTS
    Contents,       \* everything a branch may carry
    Branches,       \* branch names
    Numbers,        \* pull request numbers
    NoContent,      \* of a branch that does not exist
    NoPull          \* of a number not yet given to a pull request

VARIABLES
    approved,       \* the contents a human has approved
    branch,         \* what every branch carries
    pull            \* the pull requests: branch, content, open or not

publicationVars == <<approved, branch, pull>>

PublicationInit ==
    /\ approved = {}
    /\ branch = [b \in Branches |-> NoContent]
    /\ pull = [n \in Numbers |-> NoPull]

Approve(c) ==
    /\ approved' = approved \cup {c}
    /\ UNCHANGED <<branch, pull>>

Push(b, c) ==
    /\ c \in approved
    /\ branch[b] = NoContent
    /\ branch' = [branch EXCEPT ![b] = c]
    /\ UNCHANGED <<approved, pull>>

DeleteBranch(b) ==
    /\ branch' = [branch EXCEPT ![b] = NoContent]
    /\ UNCHANGED <<approved, pull>>

OpenPull(n, b) ==
    /\ pull[n] = NoPull
    /\ branch[b] # NoContent
    /\ \A m \in Numbers :
          pull[m] # NoPull => ~(pull[m].open /\ pull[m].branch = b)
    /\ pull' = [pull EXCEPT
                  ![n] = [branch |-> b, content |-> branch[b], open |-> TRUE]]
    /\ UNCHANGED <<approved, branch>>

EndPull(n) ==
    /\ pull[n] # NoPull
    /\ pull' = [pull EXCEPT ![n].open = FALSE]
    /\ UNCHANGED <<approved, branch>>

PublicationNext ==
    \/ \E c \in Contents : Approve(c)
    \/ \E b \in Branches, c \in Contents : Push(b, c)
    \/ \E b \in Branches : DeleteBranch(b)
    \/ \E n \in Numbers, b \in Branches : OpenPull(n, b)
    \/ \E n \in Numbers : EndPull(n)

PublicationSpec == PublicationInit /\ [][PublicationNext]_publicationVars

-----------------------------------------------------------------------------

(* No branch and no pull request ever carries anything a human has not     *)
(* approved.                                                               *)
OnlyApprovedContent ==
    /\ \A b \in Branches : branch[b] = NoContent \/ branch[b] \in approved
    /\ \A n \in Numbers : pull[n] = NoPull \/ pull[n].content \in approved

(* A branch has at most one open pull request.                             *)
OneOpenPull ==
    \A m, n \in Numbers :
        (/\ pull[m] # NoPull /\ pull[n] # NoPull
         /\ pull[m].open /\ pull[n].open
         /\ pull[m].branch = pull[n].branch)
            => m = n

=============================================================================
