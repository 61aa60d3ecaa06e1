------------------------------ MODULE Delivery ------------------------------
(***************************************************************************)
(* One SFTP delivery (src/sftp/uploader.py, SFTPUploader.upload_csvs): the *)
(* manifest check, the zip built once, the bounded retry around a connect  *)
(* and the puts, and the pinned host keys that decide every connection.    *)
(*                                                                         *)
(* Bytes are abstracted to the run that wrote them: 1 is the run that      *)
(* delivers, 2 another run into the same output folder, 0 a missing file.  *)
(***************************************************************************)
EXTENDS Sequences, Integers, FiniteSets

CONSTANTS
    CsvFiles,      \* the entity CSVs of the output folder, as ranks in sorted()
    Standalone,    \* those that travel on their own; the others go in the zip
    Interactive,   \* the waits of INTERACTIVE_RETRY, a sequence
    Unattended,    \* the waits of UNATTENDED_RETRY
    Budget,        \* SFTP_RETRY_BUDGET_SECONDS
    Durations,     \* how long an attempt may take before it fails
    Midnights,     \* when the date may change, counted from the start
    MayRewrite     \* TRUE: another run may write into the output folder

ASSUME TimesAssumption ==
    /\ Interactive \in Seq(Nat) /\ Unattended \in Seq(Nat)
    /\ Budget \in Nat
    /\ Durations \subseteq Nat /\ Midnights \subseteq Nat
ASSUME FilesAssumption == CsvFiles \subseteq Nat /\ Standalone \subseteq CsvFiles
ASSUME RewriteAssumption == MayRewrite \in BOOLEAN

\* The host keys a server may show; a known_hosts file pins one of them or none.
HostKeys == {"ours", "theirs"}
Unpinned == "none"
Pins == HostKeys \cup {Unpinned}

VARIABLES
    manifest,     \* the files this delivery vouches for
    scheduled,    \* whether the run's source is "scheduled"
    pins,         \* the user's and the bundled known_hosts
    midnight,     \* when the date changes
    local,        \* the output folder
    phase,        \* where the delivery is
    zip,          \* the files of the zip, with their bytes when they were added
    zipDay,       \* the date in the zip's name
    attempt,      \* number of the attempt
    elapsed,      \* time since the first attempt began
    server,       \* the key of the server of this attempt's connection
    sending,      \* the feeds this attempt has still to put
    remote        \* each server's folder: key -> name -> [whole, bytes]

handed == <<manifest, scheduled, pins, midnight>>
deliveryVars == <<handed, local, phase, zip, zipDay, attempt, elapsed, server, sending,
          remote>>

Waits == IF scheduled THEN Unattended ELSE Interactive
Attempts == Len(Waits) + 1

Phases == {"check", "zip", "connect", "putZip", "putFeed", "close", "delivered",
           "failed"}

\* A file's name on the server: the zip's carries the date.
Names == {<<"zip", day>> : day \in {1, 2}} \cup {<<"feed", f>> : f \in Standalone}

Bytes == UNION {[s -> 0 .. 2] : s \in SUBSET CsvFiles}

Nothing == [whole |-> FALSE, bytes |-> <<>>]

DeliveryTypeOK ==
    /\ manifest \subseteq CsvFiles
    /\ scheduled \in BOOLEAN
    /\ pins \in [{"user", "bundled"} -> Pins]
    /\ midnight \in Midnights
    /\ local \in [CsvFiles -> 0 .. 2]
    /\ phase \in Phases
    /\ zip \in Bytes /\ DOMAIN zip \subseteq manifest \ Standalone
    /\ zipDay \in {1, 2}
    /\ attempt \in 1 .. Attempts
    /\ elapsed \in Nat
    /\ server \in Pins
    /\ sending \subseteq manifest \cap Standalone
    /\ remote \in [HostKeys -> [Names -> [whole : BOOLEAN, bytes : Bytes]]]

Day(time) == IF time >= midnight THEN 2 ELSE 1

DeliveryInit ==
    /\ manifest \in SUBSET CsvFiles
    /\ scheduled \in BOOLEAN
    /\ pins \in [{"user", "bundled"} -> Pins]
    /\ midnight \in Midnights
    /\ local = [f \in CsvFiles |-> 1]
    /\ phase = "check"
    /\ zip = <<>> /\ zipDay = Day(0)
    /\ attempt = 1 /\ elapsed = 0
    /\ server = Unpinned
    /\ sending = {}
    /\ remote = [k \in HostKeys |-> [n \in Names |-> Nothing]]

-----------------------------------------------------------------------------

Enter(p) == phase' = p

IsNext(todo, f) == f \in todo /\ \A g \in todo : f <= g

\* load_pinned_host_keys merges the files, the user's entries first; an
\* unreadable file pins nothing.
Pinned == IF pins["user"] # Unpinned THEN pins["user"] ELSE pins["bundled"]

\* PinnedHostKeyPolicy: the one accepting branch.
Accepts(key) == key = Pinned

\* The manifest names the payload: an empty one, or one with a file that is
\* not on disk, is refused.
CheckManifest ==
    /\ phase = "check"
    /\ Enter(IF manifest # {} /\ \A f \in manifest : local[f] # 0
              THEN "zip" ELSE "failed")
    /\ UNCHANGED <<handed, local, zip, zipDay, attempt, elapsed, server, sending,
                   remote>>

\* The zip is built once, outside the retry, a file at a time; a file that has
\* vanished, or a staging directory that cannot be made, ends the delivery.
ZipFile ==
    /\ phase = "zip"
    /\ \E f \in CsvFiles :
         /\ IsNext((manifest \ Standalone) \ DOMAIN zip, f)
         /\ local[f] # 0
         /\ zip' = [g \in DOMAIN zip \cup {f} |-> IF g = f THEN local[f] ELSE zip[g]]
    /\ UNCHANGED <<handed, local, phase, zipDay, attempt, elapsed, server, sending,
                   remote>>

ZipFails ==
    /\ phase = "zip"
    /\ Enter("failed")
    /\ UNCHANGED <<handed, local, zip, zipDay, attempt, elapsed, server, sending,
                   remote>>

ZipBuilt ==
    /\ phase = "zip"
    /\ DOMAIN zip = manifest \ Standalone
    /\ Enter("connect")
    /\ UNCHANGED <<handed, local, zip, zipDay, attempt, elapsed, server, sending,
                   remote>>

\* Mutant: the budget is compared without the wait.
RetryIgnoresWait ==
    \E d \in Durations :
        /\ attempt < Attempts
        /\ elapsed + d < Budget
        /\ Enter("connect")
        /\ attempt' = attempt + 1
        /\ elapsed' = elapsed + d + Waits[attempt]

\* _with_retry after a failure: one that is not transient is final, and so is
\* the last attempt's; so is one after which the wait would reach the budget.
Fails ==
    \E d \in Durations :
        /\ Enter("failed")
        /\ elapsed' = elapsed + d
        /\ UNCHANGED attempt

Retry ==
    \E d \in Durations :
        /\ attempt < Attempts
        /\ elapsed + d + Waits[attempt] < Budget
        /\ Enter("connect")
        /\ attempt' = attempt + 1
        /\ elapsed' = elapsed + d + Waits[attempt]

\* Mutant: a host key nobody pinned is accepted.
ConnectUnpinned(key) ==
    /\ phase = "connect"
    /\ server' = key
    /\ IF Accepts(key) \/ Pinned = Unpinned
         THEN \/ Enter("putZip") /\ sending' = manifest \cap Standalone
                 /\ UNCHANGED <<attempt, elapsed>>
              \/ (Fails \/ Retry) /\ UNCHANGED sending
         ELSE Fails /\ UNCHANGED sending
    /\ UNCHANGED <<handed, local, zip, zipDay, remote>>

\* _connect meets a server with some key.  Only the pinned key's is offered the
\* password; any other key ends the delivery, and so does a refused password.
ConnectTo(key) ==
    /\ phase = "connect"
    /\ server' = key
    /\ IF Accepts(key)
         THEN \/ Enter("putZip") /\ sending' = manifest \cap Standalone
                 /\ UNCHANGED <<attempt, elapsed>>
              \/ (Fails \/ Retry) /\ UNCHANGED sending
         ELSE Fails /\ UNCHANGED sending
    /\ UNCHANGED <<handed, local, zip, zipDay, remote>>

\* No server answers, or there is no password to sign in with.
ConnectFails ==
    /\ phase = "connect"
    /\ Fails \/ Retry
    /\ server' = Unpinned
    /\ UNCHANGED <<handed, local, zip, zipDay, sending, remote>>

\* sftp.put: it ends with all the bytes there, or it raises, and then the file
\* may be as it was, cut short or even whole.
Put(name, bytes) ==
    remote' = [remote EXCEPT ![server][name] = [whole |-> TRUE, bytes |-> bytes]]

BrokenPut(name, bytes) ==
    \/ UNCHANGED remote
    \/ \E whole \in BOOLEAN :
         remote' = [remote EXCEPT ![server][name] = [whole |-> whole, bytes |-> bytes]]

\* Mutant: the dated name is made anew at each attempt.
PutZipRenamed ==
    /\ phase = "putZip"
    /\ zipDay' = Day(elapsed)
    /\ \/ /\ IF DOMAIN zip = {} THEN UNCHANGED remote ELSE Put(<<"zip", zipDay'>>, zip)
          /\ Enter("putFeed")
          /\ UNCHANGED <<attempt, elapsed>>
       \/ /\ DOMAIN zip # {}
          /\ BrokenPut(<<"zip", zipDay'>>, zip)
          /\ Fails \/ Retry
    /\ UNCHANGED <<handed, local, zip, server, sending>>

\* A run without rostering files has no zip to send.
PutZip ==
    /\ phase = "putZip"
    /\ \/ /\ IF DOMAIN zip = {} THEN UNCHANGED remote ELSE Put(<<"zip", zipDay>>, zip)
          /\ Enter("putFeed")
          /\ UNCHANGED <<attempt, elapsed>>
       \/ /\ DOMAIN zip # {}
          /\ BrokenPut(<<"zip", zipDay>>, zip)
          /\ Fails \/ Retry
    /\ UNCHANGED <<handed, local, zip, zipDay, server, sending>>

\* Mutant: a feed that breaks is left behind and the attempt goes on.
PutFeedSkips ==
    /\ phase = "putFeed"
    /\ \E f \in sending :
         /\ IsNext(sending, f)
         /\ sending' = sending \ {f}
         /\ \/ Put(<<"feed", f>>, [g \in {f} |-> local[f]])
            \/ BrokenPut(<<"feed", f>>, [g \in {f} |-> local[f]])
    /\ UNCHANGED <<handed, local, phase, zip, zipDay, attempt, elapsed, server>>

\* Each standalone feed is read from the output folder when it is put; one that
\* has vanished is a failure like a broken put.
PutFeed ==
    /\ phase = "putFeed"
    /\ \E f \in sending :
         /\ IsNext(sending, f)
         /\ \/ /\ local[f] # 0
               /\ Put(<<"feed", f>>, [g \in {f} |-> local[f]])
               /\ sending' = sending \ {f}
               /\ UNCHANGED <<phase, attempt, elapsed>>
            \/ /\ IF local[f] = 0 THEN UNCHANGED remote
                    ELSE BrokenPut(<<"feed", f>>, [g \in {f} |-> local[f]])
               /\ Fails \/ Retry
               /\ UNCHANGED sending
    /\ UNCHANGED <<handed, local, zip, zipDay, server>>

FeedsPut ==
    /\ phase = "putFeed" /\ sending = {}
    /\ Enter("close")
    /\ UNCHANGED <<handed, local, zip, zipDay, attempt, elapsed, server, sending,
                   remote>>

\* The close can fail too, and the whole envelope is then sent again.
Close ==
    /\ phase = "close"
    /\ \/ Enter("delivered") /\ UNCHANGED <<attempt, elapsed>>
       \/ Fails \/ Retry
    /\ UNCHANGED <<handed, local, zip, zipDay, server, sending, remote>>

Step ==
    \/ CheckManifest \/ ZipFile \/ ZipFails \/ ZipBuilt
    \/ \E key \in HostKeys : ConnectTo(key)
    \/ ConnectFails \/ PutZip \/ PutFeed \/ FeedsPut \/ Close

\* Another run commits into the same output folder: a file is moved aside,
\* then replaced.
OtherRunWrites ==
    /\ MayRewrite
    /\ \E f \in CsvFiles :
         \/ local[f] = 1 /\ local' = [local EXCEPT ![f] = 0]
         \/ local[f] = 0 /\ local' = [local EXCEPT ![f] = 2]
    /\ UNCHANGED <<handed, phase, zip, zipDay, attempt, elapsed, server, sending,
                   remote>>

DeliveryNext == Step \/ OtherRunWrites

DeliverySpec == DeliveryInit /\ [][DeliveryNext]_deliveryVars

-----------------------------------------------------------------------------
(* Properties                                                               *)

\* The names this delivery owns on the server, and what each should hold.
Envelope ==
    {<<"zip", zipDay>> : f \in manifest \ Standalone}
        \cup {<<"feed", f>> : f \in manifest \cap Standalone}

\* A delivery reported as successful (upload_csvs returns) put every manifested
\* file, whole, on the pinned server, and nothing else in those names.
SuccessMeansWhole ==
    phase = "delivered" =>
        /\ \A n \in Envelope : remote[server][n].whole
        /\ UNION {DOMAIN remote[server][n].bytes : n \in Envelope} = manifest

\* _deliver: a retry "never adds a differently-named one", across midnight too,
\* and nothing outside the manifest ever reaches a server.
OnlyTheEnvelope ==
    \A k \in HostKeys, n \in Names : remote[k][n] # Nothing =>
        n \in Envelope /\ DOMAIN remote[k][n].bytes \subseteq manifest

\* Fail closed (PinnedHostKeyPolicy, _NEVER_RETRY_EXCEPTIONS): whatever servers
\* the attempts meet, one whose key is not the pinned one receives nothing, and
\* meeting it is the end of the delivery.
UnverifiedServerGetsNothing ==
    /\ \A k \in HostKeys \ {Pinned}, n \in Names : remote[k][n] = Nothing
    /\ server \in HostKeys \ {Pinned} => phase = "failed"

\* SFTP_RETRY_BUDGET_SECONDS: an attempt after the first begins within the
\* budget, so the delivery leaves the nightly task its time limit.
RetriesStayInBudget ==
    attempt > 1 /\ phase # "failed" => elapsed < Budget

=============================================================================
