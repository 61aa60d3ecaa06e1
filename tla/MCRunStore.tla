----------------------------- MODULE MCRunStore -----------------------------
(* RunStore on four computers.  On the first, programs of three versions    *)
(* share an established store and write at the same time; on the second,    *)
(* programs of today's version do, and the store is damaged under them.  On *)
(* the others two versions write one after the other: to a store that is    *)
(* damaged again as soon as it is repaired, or damaged once, read, and      *)
(* handed over meanwhile.                                                   *)
EXTENDS RunStore, TLC

Version(nightly, window, convert) ==
    "nightly" :> nightly @@ "window" :> window @@ "convert" :> convert

Shared == [version |-> Version(1, Newest, Newest), readers |-> {},
           established |-> TRUE, overlap |-> TRUE, handOver |-> FALSE,
           damages |-> 0, seconds |-> 1]

Torn == [version |-> Version(1, 1, 0), readers |-> {},
         established |-> TRUE, overlap |-> TRUE, handOver |-> FALSE,
         damages |-> 1, seconds |-> 2]

BadDisk == [version |-> Version(1, 2, 0), readers |-> {},
            established |-> FALSE, overlap |-> FALSE, handOver |-> FALSE,
            damages |-> 2, seconds |-> 2]

Superseded == [version |-> Version(1, 2, 0), readers |-> {"home"},
               established |-> FALSE, overlap |-> FALSE, handOver |-> TRUE,
               damages |-> 1, seconds |-> 2]

MCSettings == {Shared, Torn, BadDisk, Superseded}

=============================================================================
