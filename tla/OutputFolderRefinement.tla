----------------------- MODULE OutputFolderRefinement -----------------------
(***************************************************************************)
(* OutputFolder implements AtomicOutput until two runs meet in the folder. *)
(* While a commit is undecided the folder counts as what the run found in  *)
(* it: the promise is made to those who read it between commits, as        *)
(* delivery and the next run do.                                           *)
(***************************************************************************)
EXTENDS OutputFolder

\* Two runs have met.
Met == alone # Runs

\* The run whose commit or rollback is under way, if there is one.
Undecided(r) == pc[r] \in Committing \cup RollingBack

\* Until the commit is decided the folder is what the run found in it.
AbstractOut ==
    IF Met THEN Nothing
    ELSE IF \E r \in Runs : Undecided(r)
      THEN before[CHOOSE r \in Runs : Undecided(r)]
      ELSE top

AbstractOuts == IF Met THEN [r \in Runs |-> {}] ELSE outs

Verdict(how, isSpoiled) ==
    CASE how = "running"                 -> "none"
      [] how = "committed"               -> "published"
      [] how = "failed" /\ ~isSpoiled    -> "abandoned"
      [] OTHER                           -> "torn"

AbstractVerdict ==
    [r \in Runs |-> IF Met THEN "none" ELSE Verdict(result[r], r \in spoiled)]

Atomic == INSTANCE AtomicOutput WITH
              out <- AbstractOut, produces <- AbstractOuts,
              verdict <- AbstractVerdict, met <- Met

\* save_all, until two runs meet, is all-or-nothing for whoever reads the
\* folder: every step of the code maps to a step of AtomicOutput or changes
\* nothing a reader could see.
ImplementsAtomicOutput == Atomic!ASpec

=============================================================================
