-------------------------- MODULE RosterRefinement --------------------------
(***************************************************************************)
(* Roster implements the entity loop of Pipeline: what Pipeline chooses    *)
(* (a transform that returns rows, returns none, or raises) Roster works   *)
(* out from the rows of the exports.  The mapping reads Pipeline's state   *)
(* off the ledger; what run_transform has no part in stays as it is before *)
(* anything is written.                                                    *)
(***************************************************************************)
EXTENDS Roster

\* The orders of the configurations.
CaseOrders == {c.config.order : c \in Cases}

\* classify_error_category: a SourceSchemaError answers for itself, and the
\* other exceptions of the transformers are ValueErrors.
CategoryOf(reason) ==
    IF reason = "missing_source_column" THEN "source_schema" ELSE "data"

OutcomeAt(i) == ledger[config.order[i]]

\* The turns behind the loop whose exception the bulkhead contained.
Contained == {i \in 1 .. position - 1 : OutcomeAt(i).kind = "failed"}

FirstContained == CHOOSE i \in Contained : \A j \in Contained : i <= j

\* first_isolated, as its category.
Isolated ==
    IF Contained = {} THEN "none" ELSE CategoryOf(OutcomeAt(FirstContained).reason)

\* What stopped the loop: the turn it is at, or, past the last one, the first
\* exception it had contained.
StoppedBy ==
    IF position > Len(config.order) THEN Isolated
    ELSE IF OutcomeAt(position).kind = "empty" THEN "empty_required_output"
    ELSE CategoryOf(OutcomeAt(position).reason)

StageOf(l) ==
    CASE l = "running" -> "transform"
      [] l = "built"   -> "integrity"
      [] l = "stopped" -> "sink"

HasStopped == loop = "stopped"

Loop == INSTANCE Pipeline WITH
    Orders <- CaseOrders, Feeds <- {},
    order <- config.order,
    file <- [f \in Files |-> IF extract[f] # <<>> THEN "rows" ELSE "rowless"],
    dry <- FALSE, sftp <- FALSE,
    stage <- StageOf(loop),
    lacking <- {},
    next <- position,
    outcome <- ledger,
    isolated <- Isolated,
    raised <- IF HasStopped THEN StoppedBy ELSE "none",
    raisedAt <- IF HasStopped THEN "transform" ELSE "start",
    written <- {}, attempted <- FALSE, delivered <- {}, sftpOk <- FALSE,
    logged <- <<>>, stored <- 0, exit <- -1

\* What the transformers make of the exports, turn by turn, is something
\* Pipeline lets an entity do: the ledger, the entity the loop stops at, the
\* category it is told under and the first contained exception all agree.
ImplementsTransform == Loop!TransformSpec

=============================================================================
