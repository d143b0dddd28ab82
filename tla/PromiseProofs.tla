--------------------------- MODULE PromiseProofs ---------------------------
(***************************************************************************)
(* What follows from the two promises: whatever implements SlotPool never  *)
(* runs more processes than it has slots, and whatever implements          *)
(* Publication shows GitHub approved content only, and one open pull       *)
(* request a branch.                                                       *)
(***************************************************************************)
EXTENDS SlotPool, Publication, FiniteSetTheorems, TLAPS

-----------------------------------------------------------------------------
(* SlotPool. *)

PoolInv ==
    /\ holding \subseteq Attempts
    /\ Cardinality(holding) <= Limit
    /\ live \subseteq holding

LEMMA PoolInitially ==
    ASSUME SlotPoolAssumption, PoolInit
    PROVE  PoolInv
BY FS_EmptySet DEF SlotPoolAssumption, PoolInit, PoolInv

LEMMA PoolBounds ==
    ASSUME SlotPoolAssumption, PoolInv
    PROVE  /\ IsFiniteSet(holding) /\ Cardinality(holding) \in Nat
           /\ LiveWithinLimit
<1>1. holding \in SUBSET Attempts /\ live \in SUBSET holding
  BY DEF PoolInv
<1>2. IsFiniteSet(holding)
  BY <1>1, FS_Subset DEF SlotPoolAssumption
<1>3. IsFiniteSet(live) /\ Cardinality(live) <= Cardinality(holding)
  BY <1>1, <1>2, FS_Subset
<1>4. Cardinality(holding) \in Nat /\ Cardinality(live) \in Nat
  BY <1>2, <1>3, FS_CardinalityType
<1>5. Cardinality(live) <= Limit
  BY <1>3, <1>4 DEF PoolInv, SlotPoolAssumption
<1> QED BY <1>1, <1>2, <1>4, <1>5 DEF LiveWithinLimit

LEMMA PoolStep ==
    ASSUME SlotPoolAssumption, PoolInv, [PoolNext]_poolVars
    PROVE  PoolInv'
<1>1. IsFiniteSet(holding) /\ Cardinality(holding) \in Nat
  BY PoolBounds
<1>2. ASSUME NEW a \in Attempts, Acquire(a)
      PROVE  PoolInv'
  <2>1. /\ IsFiniteSet(holding \cup {a})
        /\ Cardinality(holding \cup {a}) =
              IF a \in holding THEN Cardinality(holding)
                               ELSE Cardinality(holding) + 1
    BY <1>1, FS_AddElement
  <2>2. Cardinality(holding \cup {a}) \in Nat
    BY <2>1, FS_CardinalityType
  <2> QED BY <1>1, <1>2, <2>1, <2>2 DEF Acquire, PoolInv, SlotPoolAssumption
<1>3. ASSUME NEW a \in Attempts, Start(a) \/ Exit(a)
      PROVE  PoolInv'
  BY <1>3 DEF Start, Exit, PoolInv
<1>4. ASSUME NEW S \in SUBSET Attempts, Release(S)
      PROVE  PoolInv'
  <2>1. Cardinality(holding \ S) <= Cardinality(holding)
    BY <1>1, FS_Subset
  <2>2. Cardinality(holding \ S) \in Nat
    <3>1. IsFiniteSet(holding \ S)
      BY <1>1, FS_Subset
    <3> QED BY <3>1, FS_CardinalityType
  <2> QED BY <1>1, <1>4, <2>1, <2>2 DEF Release, PoolInv, SlotPoolAssumption
<1>5. CASE UNCHANGED poolVars
  BY <1>5 DEF poolVars, PoolInv
<1> QED BY <1>2, <1>3, <1>4, <1>5 DEF PoolNext

(* The machine never runs more harness processes than there are slots      *)
(* (Scheduler.global_limit), because a process lives only while its        *)
(* attempt has one.                                                        *)
THEOREM ProcessesWithinLimit ==
    ASSUME SlotPoolAssumption
    PROVE  PoolSpec => []LiveWithinLimit
<1>1. PoolInit => PoolInv
  BY PoolInitially
<1>2. PoolInv /\ [PoolNext]_poolVars => PoolInv'
  BY PoolStep
<1>3. PoolInv => LiveWithinLimit
  BY PoolBounds
<1> QED BY <1>1, <1>2, <1>3, PTL DEF PoolSpec

-----------------------------------------------------------------------------
(* Publication. *)

PullRecord == [branch : Branches, content : Contents, open : BOOLEAN]

PublicationInv ==
    /\ approved \subseteq Contents
    /\ branch \in [Branches -> Contents \cup {NoContent}]
    /\ pull \in [Numbers -> PullRecord \cup {NoPull}]
    /\ OnlyApprovedContent
    /\ OneOpenPull

LEMMA PublicationInitially ==
    ASSUME PublicationInit
    PROVE  PublicationInv
BY DEF PublicationInit, PublicationInv, OnlyApprovedContent, OneOpenPull

LEMMA PublicationStep ==
    ASSUME PublicationInv, [PublicationNext]_publicationVars
    PROVE  PublicationInv'
<1> USE DEF PublicationInv
<1>1. ASSUME NEW c \in Contents, Approve(c)
      PROVE  PublicationInv'
  BY <1>1 DEF Approve, OnlyApprovedContent, OneOpenPull
<1>2. ASSUME NEW b \in Branches, NEW c \in Contents, Push(b, c)
      PROVE  PublicationInv'
  BY <1>2 DEF Push, OnlyApprovedContent, OneOpenPull
<1>3. ASSUME NEW b \in Branches, DeleteBranch(b)
      PROVE  PublicationInv'
  BY <1>3 DEF DeleteBranch, OnlyApprovedContent, OneOpenPull
<1>4. ASSUME NEW n \in Numbers, NEW b \in Branches, OpenPull(n, b)
      PROVE  PublicationInv'
  <2> DEFINE new == [branch |-> b, content |-> branch[b], open |-> TRUE]
  <2>1. pull' = [pull EXCEPT ![n] = new] /\ UNCHANGED <<approved, branch>>
    BY <1>4 DEF OpenPull
  <2>2. new \in PullRecord /\ new.content \in approved /\ new.branch = b
    BY <1>4 DEF OpenPull, OnlyApprovedContent, PullRecord
  <2>3. \A m \in Numbers : pull[m] # NoPull => ~(pull[m].open /\ pull[m].branch = b)
    BY <1>4 DEF OpenPull
  <2> HIDE DEF new
  <2>4. OnlyApprovedContent'
    BY <2>1, <2>2 DEF OnlyApprovedContent
  <2>5. OneOpenPull'
    BY <2>1, <2>2, <2>3 DEF OneOpenPull
  <2> QED BY <2>1, <2>2, <2>4, <2>5
<1>5. ASSUME NEW n \in Numbers, EndPull(n)
      PROVE  PublicationInv'
  <2>1. PICK ended \in PullRecord :
            /\ ended.content = pull[n].content /\ ended.open = FALSE
            /\ pull' = [pull EXCEPT ![n] = ended]
    BY <1>5 DEF EndPull, PullRecord
  <2>2. pull[n] # NoPull /\ UNCHANGED <<approved, branch>>
    BY <1>5 DEF EndPull
  <2>3. OnlyApprovedContent'
    BY <2>1, <2>2 DEF OnlyApprovedContent
  <2>4. OneOpenPull'
    BY <2>1, <2>2 DEF OneOpenPull
  <2> QED BY <2>1, <2>2, <2>3, <2>4
<1>6. CASE UNCHANGED publicationVars
  BY <1>6 DEF publicationVars, OnlyApprovedContent, OneOpenPull
<1> QED BY <1>1, <1>2, <1>3, <1>4, <1>5, <1>6 DEF PublicationNext

(* Neither a branch nor a pull request ever carries what no human has      *)
(* approved (candidate_service.approve before commit_candidate).           *)
THEOREM OnlyApprovedIsPublished == PublicationSpec => []OnlyApprovedContent
<1>1. PublicationInit => PublicationInv
  BY PublicationInitially
<1>2. PublicationInv /\ [PublicationNext]_publicationVars => PublicationInv'
  BY PublicationStep
<1>3. PublicationInv => OnlyApprovedContent
  BY DEF PublicationInv
<1> QED BY <1>1, <1>2, <1>3, PTL DEF PublicationSpec

(* A branch never has two open pull requests.                              *)
THEOREM OneOpenPullOfABranch == PublicationSpec => []OneOpenPull
<1>1. PublicationInit => PublicationInv
  BY PublicationInitially
<1>2. PublicationInv /\ [PublicationNext]_publicationVars => PublicationInv'
  BY PublicationStep
<1>3. PublicationInv => OneOpenPull
  BY DEF PublicationInv
<1> QED BY <1>1, <1>2, <1>3, PTL DEF PublicationSpec

=============================================================================
