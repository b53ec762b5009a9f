------------------------- MODULE ReferenceVersions -------------------------
(***************************************************************************)
(* The versions of Everhealth's own reference data: created as a complete  *)
(* copy of the active version with some changes, previewed, activated, and *)
(* used by every calculation that begins while they are active.            *)
(*                                                                         *)
(* Activating takes several statements of one transaction, so two          *)
(* activations can interleave: each loads its version, reads which version *)
(* is active, and writes both flags when it commits.  The session does not *)
(* reload what it already loaded, and writes a flag only if it differs     *)
(* from the value loaded.  A calculation reads the configuration once, at  *)
(* its beginning.  Calculations of one snapshot that overlap are the       *)
(* subject of DeskRaces; here there is one at a time.                      *)
(***************************************************************************)
EXTENDS Engine, Sequences

CONSTANTS
    Book,          \* the lines of the latest snapshot: line records by id
    Tables,        \* the abattoir's lookup tables submitted with it
    Averages,      \* the 30-day averages there may be: prices by species
    Keys,          \* the writable entries: <<table, key1 or None>>
    Seed,          \* the entries of the version the migration activates
    Asked,         \* the changes admins ask for, in this order
    Admins,        \* requests that activate
    MaxPreviews    \* bound on the previews that differ

Cif(key1) == <<"CIF_BUFFER_PER_KG", key1>>
Factor(sp) == <<"DNBP_FACTOR", sp>>
Weight(sp) == <<"STANDARD_WEIGHT", sp>>

(* Values of some entries. *)
AreEntries(e) ==
    /\ e = [k \in DOMAIN e |-> e[k]]
    /\ DOMAIN e \subseteq Keys
    /\ \A k \in DOMAIN e : e[k] \in Int

ASSUME EntriesAssumption ==
    /\ AreEntries(Seed) /\ Cif(None) \in DOMAIN Seed
    /\ \A n \in DOMAIN Asked : AreEntries(Asked[n])

ASSUME KeysAssumption == \A k \in Keys : k = <<k[1], k[2]>>

ASSUME BookAssumption == \A i \in DOMAIN Book : Book[i] \in Line

VARIABLES
    versions,   \* the rows of reference_data_versions, with their entries
    workings,   \* order_workings, with the version used, by line
    issues,     \* validation_issues, by line
    request,    \* the activations in flight
    calc,       \* the calculation in flight
    previews,   \* history: what was read for previews of versions not active
    activated,  \* history: the version of the last activation committed
    raced       \* history: another activation was committed during that one

vars == <<versions, workings, issues, request, calc, previews, activated, raced>>

Idle == [job |-> "idle"]
VersionIds == DOMAIN versions
Lines == DOMAIN Book

-----------------------------------------------------------------------------

(* The sections of the entries that are keyed by species. *)
Section(entries, table) ==
    [sp \in {k[2] : k \in {x \in DOMAIN entries : x[1] = table}} |->
        entries[<<table, sp>>]]

(* The buffers of a version.  There should be one, but nothing keeps an    *)
(* admin from sending the buffer for a species, which is then one more.    *)
(* The last of the rows counts, and the query leaves their order open: any *)
(* of them may.                                                            *)
Buffers(entries) == {entries[k] : k \in {x \in DOMAIN entries : x = Cif(x[2])}}

ConfigOf(entries, buffer) ==
    [cif |-> buffer,
     factor |-> Section(entries, "DNBP_FACTOR"),
     weight |-> Section(entries, "STANDARD_WEIGHT")]

ActiveIds == {v \in VersionIds : versions[v].active}

(* get_active_version raises when there are several.                       *)
ActiveIsReadable == \A v, w \in ActiveIds : v = w

ActiveId == IF ActiveIds = {} THEN 0 ELSE CHOOSE v \in ActiveIds : TRUE

(* The buffers get_active_everhealth_config may come back with.  It raises *)
(* when nothing is active and when what is active has no buffer.           *)
ActiveBuffers ==
    IF ActiveIsReadable /\ ActiveId # 0 THEN Buffers(versions[ActiveId].entries) ELSE {}

Init ==
    /\ versions = <<[entries |-> Seed, previewed |-> TRUE, active |-> TRUE]>>
    /\ workings = [i \in Lines |-> None]
    /\ issues = [i \in Lines |-> {}]
    /\ request = [a \in Admins |-> Idle]
    /\ calc = Idle
    /\ previews = {}
    /\ activated = 1
    /\ raced = FALSE

-----------------------------------------------------------------------------
(* Versions *)

(* A complete copy of the active version, overlaid with the changes.       *)
Overlaid(entries, changes) ==
    [k \in DOMAIN entries \cup DOMAIN changes |->
        IF k \in DOMAIN changes THEN changes[k] ELSE entries[k]]

Merged(changes) ==
    IF ActiveId = 0 THEN changes ELSE Overlaid(versions[ActiveId].entries, changes)

Create ==
    /\ Len(versions) <= Len(Asked)
    /\ ActiveIsReadable
    /\ versions' = Append(versions,
           [entries |-> Merged(Asked[Len(versions)]), previewed |-> FALSE, active |-> FALSE])
    /\ UNCHANGED <<workings, issues, request, calc, previews,
                   activated, raced>>

(* A mutant of PreviewBuffers: the buffer is always the active one.        *)
KeepingTheBuffer(entries, old) == {old}

(* The buffer the preview takes: one that is missing is the active one.    *)
PreviewBuffers(entries, old) ==
    IF Buffers(entries) = {} THEN {old} ELSE Buffers(entries)

(* The lines a preview lists. *)
Previewed ==
    [i \in {x \in Lines : Active(Book[x]) /\ Book[x].species # None} |-> Book[i]]

(* What a preview answers.  Entries are never edited, so that it follows   *)
(* from the versions and the buffers read.                                 *)
Answer(p) ==
    ComputeImpact(Previewed, ConfigOf(versions[p.base].entries, p.old),
                  ConfigOf(versions[p.version].entries, p.new))

Preview(v) ==
    \E old \in ActiveBuffers : \E new \in PreviewBuffers(versions[v].entries, old) :
        /\ versions' = [versions EXCEPT ![v].previewed = TRUE]
        /\ previews' = IF v = ActiveId THEN previews ELSE previews \cup
               {[version |-> v, base |-> ActiveId, old |-> old, new |-> new]}
        /\ Cardinality(previews') <= MaxPreviews
        /\ UNCHANGED <<workings, issues, request, calc, activated, raced>>

(* The version is loaded, and has been previewed. *)
BeginActivate(a, v) ==
    /\ request[a] = Idle
    /\ versions[v].previewed
    /\ ActiveIsReadable
    /\ request' = [request EXCEPT ![a] =
           [job |-> "load", version |-> v, loaded |-> versions[v].active,
            crossed |-> FALSE]]
    /\ UNCHANGED <<versions, workings, issues, calc, previews,
                   activated, raced>>

ReadPrevious(a) ==
    /\ request[a].job = "load"
    /\ ActiveIsReadable
    /\ request' = [request EXCEPT ![a] =
           [job |-> "flip", version |-> @.version, loaded |-> @.loaded,
            crossed |-> @.crossed, previous |-> ActiveId]]
    /\ UNCHANGED <<versions, workings, issues, calc, previews,
                   activated, raced>>

(* A mutant of Flipped: the version that was active stays so.              *)
FlippedOn(rq, v) ==
    v = rq.version \/ versions[v].active

(* Whether v is active after the flip: the previous version no longer is,  *)
(* and the new one is, unless it was loaded as active: then the assignment *)
(* changes nothing and nothing is written.                                 *)
Flipped(rq, v) ==
    IF v = rq.version THEN versions[v].active \/ ~rq.loaded
    ELSE versions[v].active /\ v # rq.previous

CommitActivate(a) ==
    LET rq == request[a]
    IN  /\ rq.job = "flip"
        /\ versions' = [v \in VersionIds |->
               [versions[v] EXCEPT !.active = Flipped(rq, v)]]
        /\ request' = [b \in Admins |->
               IF b = a \/ request[b] = Idle THEN Idle
               ELSE [request[b] EXCEPT !.crossed = TRUE]]
        /\ activated' = rq.version
        /\ raced' = rq.crossed
        /\ UNCHANGED <<workings, issues, calc, previews>>

(* Several versions are active when an activation looks for one.           *)
Fail(a) ==
    /\ request[a].job = "load"
    /\ ~ActiveIsReadable
    /\ request' = [request EXCEPT ![a] = Idle]
    /\ UNCHANGED <<versions, workings, issues, calc, previews,
                   activated, raced>>

-----------------------------------------------------------------------------
(* Calculation *)

BeginCalculate ==
    /\ calc = Idle
    /\ \E buffer \in ActiveBuffers :
           calc' = [job |-> "calculate", version |-> ActiveId, buffer |-> buffer]
    /\ UNCHANGED <<versions, workings, issues, request, previews, activated,
                   raced>>

(* The configuration a calculation read. *)
RunConfig(run) == ConfigOf(versions[run.version].entries, run.buffer)

(* A mutant of ComputedRow: loaded lines get workings too.                 *)
RowOfAny(i, run) == [by |-> run.version, row |-> Workings(Book[i], RunConfig(run))]

(* A loaded line has no workings.                                          *)
ComputedRow(i, run) ==
    IF Active(Book[i])
    THEN [by |-> run.version, row |-> Workings(Book[i], RunConfig(run))]
    ELSE None

(* Every line of the snapshot under the one configuration read.            *)
CommitCalculate(averages) ==
    /\ calc # Idle
    /\ workings' = [i \in Lines |-> ComputedRow(i, calc)]
    /\ issues' = [i \in Lines |-> Issues(Book[i], RunConfig(calc), Tables, averages)]
    /\ calc' = Idle
    /\ UNCHANGED <<versions, request, previews, activated, raced>>

Next ==
    \/ Create
    \/ \E v \in VersionIds : Preview(v)
    \/ \E a \in Admins, v \in VersionIds : BeginActivate(a, v)
    \/ \E a \in Admins : ReadPrevious(a) \/ CommitActivate(a) \/ Fail(a)
    \/ BeginCalculate
    \/ \E averages \in Averages : CommitCalculate(averages)

Spec == Init /\ [][Next]_vars

-----------------------------------------------------------------------------

Working ==
    [by : Nat,
     row : [adjusted : Number, pack : Number, offal : Number, skin : Number,
            profitPeter : Number, dnbp : Number, factor : Number,
            profitDnbp : Number, overBenchmark : Number, overPeter : Number,
            complete : BOOLEAN]]

(* Every row, request and note has its shape; a LOADED line never has      *)
(* workings.                                                               *)
TypeOK ==
    /\ \A v \in VersionIds :
          /\ AreEntries(versions[v].entries)
          /\ versions[v].previewed \in BOOLEAN
          /\ versions[v].active \in BOOLEAN
    /\ \A i \in Lines :
          /\ workings[i] \in IF Active(Book[i]) THEN Working \cup {None}
                             ELSE {None}
          /\ IsFiniteSet(issues[i])
    /\ \A a \in Admins : request[a].job \in {"idle", "load", "flip"}
    /\ calc = Idle \/ IsConfig(RunConfig(calc))
    /\ activated \in VersionIds
    /\ raced \in BOOLEAN

(* One version is active, the last one activated, unless another           *)
(* activation was committed while that one was in flight; an activation by *)
(* itself sets it right again.  "Exactly one version is is_active at a     *)
(* time" (models/reference_data.py) rests on that.                         *)
OneActiveVersion == raced \/ ActiveIds = {activated}

OneBuffer(v) == \A x, y \in Buffers(versions[v].entries) : x = y

(* What a preview promised comes true, line by line: whatever is computed  *)
(* later for a previewed line under the version previewed has the new      *)
(* price, and what is computed under the version it was compared with has  *)
(* the old one, unless the version has several buffers, of which each      *)
(* reader may take another.  Two pieces of code compute them.  A line with *)
(* a price of zero or less is previewed and never priced.                  *)
ImpactIsWhatHappens ==
    \A p \in previews :
        LET promised == Answer(p).lines IN
        \A i \in DOMAIN Previewed :
            LET computed == workings[i] IN
            /\ computed # None
            /\ Book[i].price # None => HasSellPrice(Book[i])
            => /\ computed.by = p.version /\ OneBuffer(p.version)
                     => computed.row.dnbp = promised[i].after
               /\ computed.by = p.base /\ OneBuffer(p.base)
                     => computed.row.dnbp = promised[i].before

(* After a calculation an active line either has a price or an issue that  *)
(* blocks its publication, never both and never neither, and a loaded line *)
(* has neither a price nor any issue of the pricing rules; and lines that  *)
(* agree in price and species have one DNBP, whatever else differs.        *)
PricedOrBlocked ==
    \A i \in Lines :
        LET w == workings[i] IN
        /\ w # None => (w.row.dnbp = None <=> ~IsPublishable(issues[i]))
        /\ ~Active(Book[i]) => \A x \in issues[i] : x[1] \notin ActiveOnlyCodes
        /\ w # None =>
              \A j \in Lines :
                  /\ workings[j] # None
                  /\ Book[j].price = Book[i].price
                  /\ Book[j].species = Book[i].species
                  => workings[j].row.dnbp = w.row.dnbp
=============================================================================
