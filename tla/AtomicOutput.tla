---------------------------- MODULE AtomicOutput ----------------------------
(***************************************************************************)
(* What DataLoader promises whoever reads the output folder when no run is *)
(* committing, with no staging, no backup directories and no steps in      *)
(* between: a run publishes all of its files or leaves the folder alone.   *)
(* The promise has two exceptions, and they are spelled out: a run that is *)
(* killed, or whose rollback cannot finish, may leave any of its own files *)
(* new, old or missing, and it never touches a file it does not produce;   *)
(* and once two runs have met in the folder nothing is promised of it.     *)
(***************************************************************************)
EXTENDS Integers

CONSTANTS Runs, Files, Original, Absent

VARIABLES
    out,       \* what a reader finds under each CSV name
    produces,  \* the files each run sets out to write
    verdict,   \* "none", "published", "abandoned" or "torn", per run
    met        \* whether two runs have met

avars == <<out, produces, verdict, met>>

Nowhere == [f \in Files |-> Absent]

AInit ==
    /\ out \in [Files -> {Original, Absent}]
    /\ produces = [r \in Runs |-> {}]
    /\ verdict = [r \in Runs |-> "none"]
    /\ met = FALSE

Declare(r) ==
    /\ verdict[r] = "none" /\ produces[r] = {}
    /\ \E s \in (SUBSET Files) \ {{}} : produces' = [produces EXCEPT ![r] = s]
    /\ ~met
    /\ UNCHANGED <<out, verdict, met>>

Decide(r, v) ==
    /\ produces[r] # {}
    /\ verdict[r] = "none"
    /\ ~met
    /\ verdict' = [verdict EXCEPT ![r] = v]
    /\ UNCHANGED <<produces, met>>

\* All of them, at once.
Publish(r) ==
    /\ Decide(r, "published")
    /\ out' = [f \in Files |-> IF f \in produces[r] THEN r ELSE out[f]]

\* None of them.
Abandon(r) ==
    /\ Decide(r, "abandoned")
    /\ UNCHANGED out

\* The run is killed, interrupted, or could not restore what it moved.
Tear(r) ==
    /\ Decide(r, "torn")
    /\ \E torn \in [produces[r] -> {"new", "old", "missing"}] :
          out' = [f \in Files |->
                    IF f \notin produces[r] THEN out[f]
                    ELSE CASE torn[f] = "new"     -> r
                           [] torn[f] = "old"     -> out[f]
                           [] torn[f] = "missing" -> Absent]

\* A file the published run does not produce leaves the folder.
Retire(r) ==
    /\ verdict[r] = "published" /\ ~met
    /\ \E f \in Files \ produces[r] :
          /\ out[f] # Absent
          /\ out' = [out EXCEPT ![f] = Absent]
    /\ UNCHANGED <<produces, verdict, met>>

\* Two runs meet: what the folder held and who wrote it is forgotten.
Meet ==
    /\ ~met
    /\ met' = TRUE
    /\ out' = Nowhere
    /\ produces' = [r \in Runs |-> {}]
    /\ verdict' = [r \in Runs |-> "none"]

ANext ==
    \/ \E r \in Runs :
          Declare(r) \/ Publish(r) \/ Abandon(r) \/ Tear(r) \/ Retire(r)
    \/ Meet

ASpec == AInit /\ [][ANext]_avars

=============================================================================
