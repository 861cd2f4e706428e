------------------------------ MODULE PlanRefinement ------------------------------
(***************************************************************************)
(* Refinement of a general plan into batches (performRefinement): one call *)
(* for the outline, which is pinned the moment it is accepted, one call    *)
(* per batch, each draft staged the moment it lands, and one transaction   *)
(* that captures the assembled result.  A refiner that fails or dies is    *)
(* resumed by the next one.  Batch ids follow from their ordinals alone,   *)
(* so the code cannot tell which outline a draft was authored against; the *)
(* model records it.                                                       *)
(***************************************************************************)
EXTENDS Naturals, FiniteSets

CONSTANTS
  Refiner,        \* refinement runs, every one with the outline it would author
  MaxBatches,     \* bound: batches of an outline
  Legacy, NoOutline

ASSUME RefinementAssumption ==
  /\ MaxBatches \in Nat \ {0}
  /\ Legacy \notin Refiner /\ NoOutline \notin Refiner \cup {Legacy}
  /\ NoOutline \notin [author: Refiner \cup {Legacy}, count: 1..MaxBatches]

VARIABLES
  pinned,         \* review_workflow_refinement_outlines: who authored it, how many batches
  drafts,         \* review_workflow_refinement_drafts: the outline behind each ordinal
  refined,        \* the captured batches, by ordinal, and the outline they belong to
  createReceipt,  \* the receipt of the first CREATE_BATCH
  refiners,       \* what each refiner is doing
  contested       \* history: two refiners were at work at once

refinementVars == <<pinned, drafts, refined, createReceipt, refiners, contested>>

Ordinals == 1..MaxBatches

Authors == Refiner \cup {Legacy, NoOutline}

RefinedOutline == [author: Refiner \cup {Legacy}, count: Ordinals]

RefinementPCs == {"NEW", "CHECK", "OUTLINE", "DISCARD", "AUTHOR", "CAPTURE", "GONE"}

NoRefinement == [author |-> NoOutline, batches |-> <<>>]

RefinementTypeOK ==
  /\ pinned \in RefinedOutline \cup {NoOutline}
  /\ drafts \in [Ordinals -> Authors]
  /\ refined.author \in Authors /\ DOMAIN refined.batches \subseteq Ordinals
  /\ createReceipt \in {"NONE", "FAILED_FINAL", "SUCCEEDED"}
  /\ refiners \in [Refiner -> [pc: RefinementPCs, outline: RefinedOutline \cup {NoOutline},
                               staged: [Ordinals -> Authors], next: 1..(MaxBatches + 1)]]
  /\ contested \in BOOLEAN

NewRefiner ==
  [pc |-> "NEW", outline |-> NoOutline, staged |-> [n \in Ordinals |-> NoOutline], next |-> 1]

(* Drafts of a release that did not pin its outline may be there already.  *)
RefinementInit ==
  /\ pinned = NoOutline
  /\ \E k \in 0..MaxBatches :
       drafts = [n \in Ordinals |-> IF n <= k THEN Legacy ELSE NoOutline]
  /\ refined = NoRefinement
  /\ createReceipt = "NONE"
  /\ refiners = [r \in Refiner |-> NewRefiner]
  /\ contested = FALSE

RefinerAt(r, pc) == refiners[r].pc = pc

RefinerBusy(r) == refiners[r].pc \notin {"NEW", "GONE"}

OutlineOf(r) == refiners[r].outline

RefinerEnds(r) == refiners' = [refiners EXCEPT ![r] = [NewRefiner EXCEPT !.pc = "GONE"]]

StagedOrdinals == {n \in Ordinals : drafts[n] # NoOutline}

RefinementStarts(r) ==
  /\ RefinerAt(r, "NEW") /\ refined = NoRefinement
  /\ refiners' = [refiners EXCEPT ![r].pc = "CHECK"]
  /\ contested' = (contested \/ \E q \in Refiner : RefinerBusy(q))
  /\ UNCHANGED <<pinned, drafts, refined, createReceipt>>

(***************************************************************************)
(* Invocation 0: the outline.                                              *)
(***************************************************************************)
(* Seeded fault: every run asks for the outline again.                     *)
NeverPinned == NoOutline

PinnedOutline == pinned

ReusesOutline(r) ==
  /\ RefinerAt(r, "CHECK") /\ PinnedOutline # NoOutline
  /\ refiners' = [refiners EXCEPT ![r].pc = "DISCARD", ![r].outline = PinnedOutline]
  /\ UNCHANGED <<pinned, drafts, refined, createReceipt, contested>>

AsksForOutline(r) ==
  /\ RefinerAt(r, "CHECK") /\ PinnedOutline = NoOutline
  /\ refiners' = [refiners EXCEPT ![r].pc = "OUTLINE"]
  /\ UNCHANGED <<pinned, drafts, refined, createReceipt, contested>>

(* Staged drafts are the decomposition: the batch set is adopted from      *)
(* them, and must be sequential.                                           *)
Adopted == [author |-> Legacy, count |-> Cardinality(StagedOrdinals)]

(* The first outline stays pinned; the loser of a race keeps its own.      *)
PinsOutline(r, outline) ==
  /\ pinned' = IF pinned = NoOutline THEN outline ELSE pinned
  /\ refiners' = [refiners EXCEPT ![r].pc = "DISCARD", ![r].outline = outline]
  /\ UNCHANGED <<drafts, refined, createReceipt, contested>>

AuthorsOutline(r, count) ==
  /\ RefinerAt(r, "OUTLINE") /\ StagedOrdinals = {}
  /\ PinsOutline(r, [author |-> r, count |-> count])

AdoptsDrafts(r) ==
  /\ RefinerAt(r, "OUTLINE") /\ StagedOrdinals # {}
  /\ StagedOrdinals = 1..Cardinality(StagedOrdinals)
  /\ PinsOutline(r, Adopted)

(***************************************************************************)
(* Invocations 1..N: the batch plans.                                      *)
(***************************************************************************)
DiscardsResidue(r) ==
  /\ RefinerAt(r, "DISCARD")
  /\ drafts' = [n \in Ordinals |-> IF n <= OutlineOf(r).count THEN drafts[n] ELSE NoOutline]
  /\ refiners' = [refiners EXCEPT ![r].pc = "AUTHOR", ![r].staged = drafts']
  /\ UNCHANGED <<pinned, refined, createReceipt, contested>>

SkipsStaged(r) ==
  /\ RefinerAt(r, "AUTHOR") /\ refiners[r].next <= OutlineOf(r).count
  /\ refiners[r].staged[refiners[r].next] # NoOutline
  /\ refiners' = [refiners EXCEPT ![r].next = @ + 1]
  /\ UNCHANGED <<pinned, drafts, refined, createReceipt, contested>>

AuthorsBatch(r) ==
  /\ RefinerAt(r, "AUTHOR") /\ refiners[r].next <= OutlineOf(r).count
  /\ LET n == refiners[r].next IN
       /\ refiners[r].staged[n] = NoOutline
       /\ drafts' = [drafts EXCEPT ![n] = OutlineOf(r).author]
       /\ refiners' = [refiners EXCEPT ![r].staged[n] = OutlineOf(r).author, ![r].next = n + 1]
  /\ UNCHANGED <<pinned, refined, createReceipt, contested>>

(***************************************************************************)
(* captureRefinement.                                                      *)
(***************************************************************************)
(* A failed reservation is released first; anything else that is there     *)
(* makes the release or the reservation throw.                             *)
RefinementReservable == createReceipt # "SUCCEEDED" /\ refined = NoRefinement

Captures(r) ==
  /\ RefinerAt(r, "AUTHOR") /\ refiners[r].next > OutlineOf(r).count
  /\ RefinementReservable

RefinementCaptured(r) ==
  /\ Captures(r)
  /\ refined' = [author |-> OutlineOf(r).author,
                 batches |-> [n \in 1..OutlineOf(r).count |-> refiners[r].staged[n]]]
  /\ createReceipt' = "SUCCEEDED"
  /\ RefinerEnds(r)
  /\ UNCHANGED <<pinned, drafts, contested>>

RefinementRejected(r) ==
  /\ Captures(r)
  /\ createReceipt' = "FAILED_FINAL"
  /\ RefinerEnds(r)
  /\ UNCHANGED <<pinned, drafts, refined, contested>>

(* A call fails, a contract does not parse, or the process dies.           *)
RefinerGone(r) ==
  /\ RefinerBusy(r) /\ RefinerEnds(r)
  /\ UNCHANGED <<pinned, drafts, refined, createReceipt, contested>>

(* refinement-drafts --discard: the operator drops staged drafts.          *)
OperatorDiscards(n) ==
  /\ drafts[n] # NoOutline
  /\ drafts' = [drafts EXCEPT ![n] = NoOutline]
  /\ UNCHANGED <<pinned, refined, createReceipt, refiners, contested>>

RefinementNext ==
  \/ \E r \in Refiner :
       \/ RefinementStarts(r) \/ ReusesOutline(r) \/ AsksForOutline(r)
       \/ \E count \in Ordinals : AuthorsOutline(r, count)
       \/ AdoptsDrafts(r) \/ DiscardsResidue(r) \/ SkipsStaged(r) \/ AuthorsBatch(r)
       \/ RefinementCaptured(r) \/ RefinementRejected(r) \/ RefinerGone(r)
  \/ \E n \in Ordinals : OperatorDiscards(n)

RefinementSpec == RefinementInit /\ [][RefinementNext]_refinementVars

(* "Pins the ACCEPTED decomposition on first success": what is captured is *)
(* one decomposition, the pinned one, and every batch was authored against *)
(* it - across refiners that fail, die and are resumed, rejected captures, *)
(* discarded drafts and drafts of an earlier release; but only while they  *)
(* run one after the other, for the loser of a race for the pin goes on    *)
(* with its own outline and stages its drafts among the winner's.          *)
OneDecomposition ==
  refined # NoRefinement /\ ~contested =>
    /\ refined.author = pinned.author
    /\ DOMAIN refined.batches = 1..pinned.count
    /\ \A n \in DOMAIN refined.batches : refined.batches[n] = pinned.author

=============================================================================
