------------------------------ MODULE Ingestion ------------------------------
(***************************************************************************)
(* How a workbook of the abattoir becomes a submission.  Somebody uploads  *)
(* it, is shown what would change, and the parsed workbook waits in Redis  *)
(* until it is committed or expires.  Committing stores its lines and      *)
(* records what disappeared, or drifted, since the submission before.      *)
(*                                                                         *)
(* Only one organisation is modelled.  Requests run at READ COMMITTED; one *)
(* action is one step of a request that others can come between.           *)
(***************************************************************************)
EXTENDS Layout

CONSTANTS
    Contracts,       \* a contract number with a product type
    Species,
    Customers,
    Incoterms,       \* what workbooks say, of which
    KnownIncoterms,  \* only these are stored
    Precision,       \* what is counted, in a tenth decimal of the database
    TableKeys,       \* entries of the abattoir's lookup sheet
    Files,           \* names of workbooks
    ContentOf,       \* what is in each workbook
    SmallBooks,      \* small workbooks that reading is checked on
    Requests,        \* requests to commit the server can have in flight
    MaxUploads,      \* bound: uploads
    MaxCommits,      \* bound: attempts to commit
    MaxReviews       \* bound: previews expired and records acknowledged

Row == [contract : Contracts, species : Species \cup {None},
        incoterm : Incoterms \cup {None}, customer : Customers \cup {None},
        amount : Nat \cup {None}, heads : Nat \cup {None}]

Tables == [TableKeys -> Nat \cup {None}]

(* Besides what Layout looks at, a row of a sheet has the order that is    *)
(* read of it if it is taken for one, whatever it was meant to be, or None *)
(* if it never is.                                                         *)
SheetRow ==
    [id : {None, "TOTAL", "TEXT"} \cup Words, other : {None} \cup Words,
     matches : Nat, named : BOOLEAN, order : Row \cup {None}]

IsSheet(sheet) ==
    /\ sheet \in Seq(SheetRow)
    /\ \A i \in 1..Len(sheet) :
           sheet[i].order = None <=> sheet[i].id \in {None, "TOTAL"}

(* tables is None if there is no lookup sheet.                             *)
IsWorkbook(content) ==
    /\ DOMAIN content = {"sheets", "tables"}
    /\ content.tables \in Tables \cup {None}
    /\ Len(content.sheets) \in Nat
    /\ \A s \in 1..Len(content.sheets) : IsSheet(content.sheets[s])

ASSUME IngestionAssumption ==
    /\ KnownIncoterms \subseteq Incoterms
    /\ Precision \in Nat \ {0}
    /\ DOMAIN ContentOf = Files
    /\ \A f \in Files : IsWorkbook(ContentOf[f])
    /\ SmallBooks \subseteq Seq(Seq(Line))
    /\ {MaxUploads, MaxCommits, MaxReviews} \subseteq Nat

-----------------------------------------------------------------------------
(* Parsing, storing and comparing workbooks.                               *)

Readable(f) == Candidates(ContentOf[f].sheets) # {}

(* Rows from the top down.                                                 *)
InOrder(rows) ==
    CHOOSE s \in [1..Cardinality(rows) -> rows] :
        \A m, n \in 1..Cardinality(rows) : m < n => s[m] < s[n]

ParsedSection(f, section, lifecycle) ==
    LET book == ContentOf[f].sheets
        rows == InOrder(Rows(book, section))
    IN  [n \in 1..Len(rows) |->
            [row |-> book[section.sheet][rows[n]].order, lifecycle |-> lifecycle]]

Parsed ==
    [f \in Files |->
        IF ~Readable(f) THEN << >>
        ELSE LET book == ContentOf[f].sheets
             IN  ParsedSection(f, ActiveSection(book), "ACTIVE")
                 \o ParsedSection(f, LoadedSection(book), "LOADED")]

ParsedLines(f) == Parsed[f]

(* Without a lookup sheet every entry is missing.                          *)
ParsedTables(f) ==
    IF ContentOf[f].tables = None THEN [k \in TableKeys |-> None] ELSE ContentOf[f].tables

(* Numeric(18, 10) keeps ten decimals.                                     *)
Rounded(number) ==
    IF number = None THEN None
    ELSE ((number + Precision \div 2) \div Precision) * Precision

(* What the database keeps of a line: an incoterm that is not recognised   *)
(* is dropped.                                                             *)
OrderLineModel(line) ==
    LET kept == [line.row EXCEPT !.incoterm = IF @ \in KnownIncoterms THEN @ ELSE None,
                                 !.amount = Rounded(@),
                                 !.heads = Rounded(@)]
    IN  [line EXCEPT !.row = kept]

StoredLines(f) ==
    LET lines == ParsedLines(f) IN [i \in 1..Len(lines) |-> OrderLineModel(lines[i])]

IdentityKey(line) == <<line.row.contract, line.row.species, line.row.incoterm>>

Keys(lines) == {IdentityKey(lines[i]) : i \in 1..Len(lines)}

(* The last of several lines with one key counts.                          *)
ByKey(lines) ==
    [k \in Keys(lines) |->
        LET last == CHOOSE i \in 1..Len(lines) :
                       /\ IdentityKey(lines[i]) = k
                       /\ \A j \in i + 1..Len(lines) : IdentityKey(lines[j]) # k
        IN  lines[last]]

ValuesDiffer(a, b) ==
    \E field \in {"customer", "amount", "heads", "incoterm"} : a.row[field] # b.row[field]

(* previous is None when nothing was ever submitted.                       *)
Compare(previous, current) ==
    IF previous \in {None, << >>}
    THEN [new |-> Keys(current), changed |-> {}, moved |-> {}, removed |-> {}]
    ELSE LET before == ByKey(previous)
             now == ByKey(current)
             kept == DOMAIN before \cap DOMAIN now
         IN  [new |-> DOMAIN now \ DOMAIN before,
              changed |-> {k \in kept : ValuesDiffer(before[k], now[k])},
              moved |-> {k \in kept : /\ before[k].lifecycle = "ACTIVE"
                                      /\ now[k].lifecycle = "LOADED"},
              removed |-> DOMAIN before \ DOMAIN now]

CompareAbattoirTables(previous, current) ==
    IF previous = None THEN {}
    ELSE {[key |-> k, old |-> previous[k], new |-> current[k]] :
              k \in {key \in TableKeys : previous[key] # current[key]}}

-----------------------------------------------------------------------------

VARIABLES
    uploads,    \* uploads so far
    previews,   \* what waits in Redis, by preview_id
    expired,    \* history: previews whose time ran out
    attempts,   \* attempts to commit so far
    commit,     \* what each request to commit has read
    objects,    \* attempts whose file is in object storage
    snapshots,  \* order_snapshots and their lines, in order of commit
    removals,   \* order_line_removals
    drifts,     \* reference_data_drift
    cut         \* history: previews deleted by a request that then stopped

intakeVars == <<uploads, previews, expired, attempts, commit, objects,
                snapshots, removals, drifts, cut>>

PreviewIds == 1..MaxUploads
SnapshotIds == 1..MaxCommits
Key == Contracts \X (Species \cup {None}) \X (Incoterms \cup {None})
Diff == [new : SUBSET Key, changed : SUBSET Key, moved : SUBSET Key, removed : SUBSET Key]

(* known, here and below, is history: how many snapshots there were.       *)
Preview == [file : Files, shown : Diff, duplicate : BOOLEAN, known : 0..MaxCommits]

ASSUME PreviewsAreNotNull == None \notin Preview

Idle == [step |-> "idle"]

(* found and known: snapshots there were when Redis and when the previous  *)
(* snapshot was read.                                                      *)
Begun == [step : {"begun"}, id : SnapshotIds, preview : PreviewIds, of : Preview,
          found : 0..MaxCommits]
Written == [step : {"read", "deleted"}, id : SnapshotIds, preview : PreviewIds,
            of : Preview, found : 0..MaxCommits, known : 0..MaxCommits,
            previous : 0..MaxCommits]

(* id is the instant the transaction began, which is created_at; lines are *)
(* the rows of order_lines, tables those of abattoir_reference_data.       *)
StoredLine == [row : Row, lifecycle : {"ACTIVE", "LOADED"}]
Snapshot == [id : SnapshotIds, preview : PreviewIds, of : Preview,
             lines : Seq(StoredLine), tables : Tables,
             found : 0..MaxCommits, known : 0..MaxCommits]

Removal == [snapshot : SnapshotIds, key : Key, acknowledged : BOOLEAN]
Drift == [snapshot : SnapshotIds, key : TableKeys, old : Nat \cup {None},
          new : Nat \cup {None}, acknowledged : BOOLEAN]

IntakeTypeOK ==
    /\ uploads \in 0..MaxUploads /\ attempts \in 0..MaxCommits
    /\ \A p \in PreviewIds :
           previews[p] \in Preview \cup {None}
    /\ expired \subseteq PreviewIds /\ cut \subseteq PreviewIds
    /\ commit \in [Requests -> {Idle} \cup Begun \cup Written]
    /\ objects \subseteq 1..attempts
    /\ Len(snapshots) <= attempts
    /\ \A i \in 1..Len(snapshots) : snapshots[i] \in Snapshot
    /\ \A i, j \in 1..Len(snapshots) : i # j => snapshots[i].id # snapshots[j].id
    /\ removals \subseteq Removal /\ drifts \subseteq Drift
    /\ \A x \in removals \cup drifts :
           \E i \in 1..Len(snapshots) : snapshots[i].id = x.snapshot

IntakeInit ==
    /\ uploads = 0 /\ previews = [p \in PreviewIds |-> None] /\ expired = {}
    /\ attempts = 0 /\ commit = [r \in Requests |-> Idle] /\ objects = {}
    /\ snapshots = << >> /\ removals = {} /\ drifts = {} /\ cut = {}

-----------------------------------------------------------------------------

(* get_latest_for_org: the position of the snapshot created last, or 0.    *)
Latest ==
    IF snapshots = << >> THEN 0
    ELSE CHOOSE i \in 1..Len(snapshots) :
             \A j \in 1..Len(snapshots) : snapshots[j].id <= snapshots[i].id

LinesOf(i) == IF i = 0 THEN None ELSE snapshots[i].lines
TablesOf(i) == IF i = 0 THEN None ELSE snapshots[i].tables

DiffSnapshots(i, j) == Compare(LinesOf(i), LinesOf(j))

Reviews ==
    Cardinality(expired) + Cardinality({x \in removals \cup drifts : x.acknowledged})

(* A workbook in which no sheet has active orders is refused.              *)
Upload(f) ==
    /\ uploads < MaxUploads
    /\ Readable(f)
    /\ previews' = [previews EXCEPT ![uploads + 1] =
           [file |-> f, shown |-> Compare(LinesOf(Latest), ParsedLines(f)),
            duplicate |-> Latest # 0 /\ snapshots[Latest].of.file = f,
            known |-> Len(snapshots)]]
    /\ uploads' = uploads + 1
    /\ UNCHANGED <<expired, attempts, commit, objects, snapshots, removals, drifts, cut>>

(* upload_preview_ttl_seconds have passed.                                 *)
Expire(p) ==
    /\ previews[p] # None
    /\ Reviews < MaxReviews
    /\ previews' = [previews EXCEPT ![p] = None]
    /\ expired' = expired \cup {p}
    /\ UNCHANGED <<uploads, attempts, commit, objects, snapshots, removals, drifts, cut>>

BeginCommit(r, p) ==
    /\ commit[r] = Idle
    /\ previews[p] # None
    /\ attempts < MaxCommits
    /\ attempts' = attempts + 1
    /\ commit' = [commit EXCEPT ![r] =
           [step |-> "begun", id |-> attempts + 1, preview |-> p,
            of |-> previews[p], found |-> Len(snapshots)]]
    /\ UNCHANGED <<uploads, previews, expired, objects, snapshots, removals, drifts, cut>>

(* The previous snapshot is read and the file is put into storage.         *)
ReadPrevious(r) ==
    /\ commit[r].step = "begun"
    /\ LET c == commit[r]
       IN  /\ commit' = [commit EXCEPT ![r] =
                  [step |-> "read", id |-> c.id, preview |-> c.preview, of |-> c.of,
                   found |-> c.found, known |-> Len(snapshots), previous |-> Latest]]
           /\ objects' = objects \cup {c.id}
    /\ UNCHANGED <<uploads, previews, expired, attempts, snapshots, removals, drifts, cut>>

(* A mutant of DeletePreview: the preview is left in Redis.                *)
KeepPreview(r) ==
    /\ commit[r].step = "read"
    /\ commit' = [commit EXCEPT ![r].step = "deleted"]
    /\ UNCHANGED <<uploads, previews, expired, attempts, objects, snapshots, removals, drifts, cut>>

(* Everything has been inserted, but not committed.                        *)
DeletePreview(r) ==
    /\ commit[r].step = "read"
    /\ commit' = [commit EXCEPT ![r].step = "deleted"]
    /\ previews' = [previews EXCEPT ![commit[r].preview] = None]
    /\ UNCHANGED <<uploads, expired, attempts, objects, snapshots, removals, drifts, cut>>

(* A mutant of RemovedKeys: a key counts as kept if its contract does.     *)
RemovedContracts(i, f) ==
    LET kept == {k[1] : k \in Keys(ParsedLines(f))}
    IN  {k \in Compare(LinesOf(i), ParsedLines(f)).removed : k[1] \notin kept}

RemovedKeys(i, f) == Compare(LinesOf(i), ParsedLines(f)).removed

CommitSnapshot(r) ==
    /\ commit[r].step = "deleted"
    /\ LET c == commit[r]
       IN  /\ snapshots' = Append(snapshots,
                  [id |-> c.id, preview |-> c.preview, of |-> c.of,
                   lines |-> StoredLines(c.of.file), tables |-> ParsedTables(c.of.file),
                   found |-> c.found, known |-> c.known])
           /\ removals' = removals \cup
                  {[snapshot |-> c.id, key |-> k, acknowledged |-> FALSE] :
                      k \in RemovedKeys(c.previous, c.of.file)}
           /\ drifts' = drifts \cup
                  {[snapshot |-> c.id, key |-> d.key, old |-> d.old, new |-> d.new,
                    acknowledged |-> FALSE] :
                      d \in CompareAbattoirTables(TablesOf(c.previous), ParsedTables(c.of.file))}
    /\ commit' = [commit EXCEPT ![r] = Idle]
    /\ UNCHANGED <<uploads, previews, expired, attempts, objects, cut>>

(* The process stops or a statement fails: the transaction is rolled back, *)
(* Redis and the storage keep what was done.                               *)
Stop(r) ==
    /\ commit[r] # Idle
    /\ cut' = cut \cup (IF commit[r].step = "deleted" THEN {commit[r].preview} ELSE {})
    /\ commit' = [commit EXCEPT ![r] = Idle]
    /\ UNCHANGED <<uploads, previews, expired, attempts, objects, snapshots, removals, drifts>>

AcknowledgeRemoval(x) ==
    /\ Reviews < MaxReviews
    /\ removals' = (removals \ {x}) \cup {[x EXCEPT !.acknowledged = TRUE]}
    /\ UNCHANGED <<uploads, previews, expired, attempts, commit, objects,
                   snapshots, drifts, cut>>

AcknowledgeDrift(x) ==
    /\ Reviews < MaxReviews
    /\ drifts' = (drifts \ {x}) \cup {[x EXCEPT !.acknowledged = TRUE]}
    /\ UNCHANGED <<uploads, previews, expired, attempts, commit, objects,
                   snapshots, removals, cut>>

IntakeNext ==
    \/ \E f \in Files : Upload(f)
    \/ \E p \in PreviewIds : Expire(p)
    \/ \E r \in Requests :
           \/ \E p \in PreviewIds : BeginCommit(r, p)
           \/ ReadPrevious(r)
           \/ DeletePreview(r)
           \/ CommitSnapshot(r)
           \/ Stop(r)
    \/ \E x \in removals : AcknowledgeRemoval(x)
    \/ \E x \in drifts : AcknowledgeDrift(x)

-----------------------------------------------------------------------------
(* Properties.                                                             *)

(* Snapshot i was being committed while another one was.                   *)
Overlapping(i) ==
    \/ snapshots[i].known # i - 1
    \/ \E j \in 1..i - 1 : snapshots[j].id > snapshots[i].id

(* An upload that is no longer in Redis became a snapshot, unless its time *)
(* ran out or the request that deleted it stopped or is still busy; and it *)
(* became two only if both requests were under way at once                 *)
(* (commit_snapshot reads Redis first and deletes last).                   *)
UploadsBecomeSnapshots ==
    /\ \A p \in 1..uploads :
           \/ previews[p] # None
           \/ p \in expired \cup cut
           \/ \E r \in Requests : commit[r].step = "deleted" /\ commit[r].preview = p
           \/ \E i \in 1..Len(snapshots) : snapshots[i].preview = p
    /\ \A j \in 1..Len(snapshots) : \A i \in 1..j - 1 :
           snapshots[i].preview = snapshots[j].preview => snapshots[j].found < i
    /\ {snapshots[i].id : i \in 1..Len(snapshots)} \subseteq objects

(* The contracts a workbook gives an incoterm that is not stored.          *)
Unrecognised(f) ==
    LET lines == ParsedLines(f)
    IN  {<<lines[i].row.contract, lines[i].row.species>> :
            i \in {j \in 1..Len(lines) :
                      lines[j].row.incoterm \notin KnownIncoterms \cup {None}}}

RecordedRemovals(i) == {x.key : x \in {y \in removals : y.snapshot = snapshots[i].id}}
RecordedDrifts(i) ==
    {[key |-> x.key, old |-> x.old, new |-> x.new] :
        x \in {y \in drifts : y.snapshot = snapshots[i].id}}

(* Between one snapshot and the next, exactly the order lines that         *)
(* disappeared have a removal row and exactly the lookup values that       *)
(* changed have a drift row, unless commits overlapped; a line whose       *)
(* incoterm was not recognised may be recorded as removed while it is      *)
(* there.  And what the uploader was shown to disappear is what was        *)
(* recorded, if nothing was committed in between (commit_snapshot and      *)
(* create_upload_preview compare on their own).                            *)
RecordsExplainTheBook ==
    \A i \in 1..Len(snapshots) :
        ~Overlapping(i) /\ (i > 1 => ~Overlapping(i - 1)) =>
            LET gone == IF i = 1 THEN {} ELSE DiffSnapshots(i - 1, i).removed
            IN  /\ gone \subseteq RecordedRemovals(i)
                /\ \A k \in RecordedRemovals(i) \ gone :
                       /\ k[3] = None
                       /\ <<k[1], k[2]>> \in Unrecognised(snapshots[i].of.file)
                /\ RecordedDrifts(i) =
                       CompareAbattoirTables(TablesOf(i - 1), TablesOf(i))
                /\ snapshots[i].of.known = i - 1 =>
                       snapshots[i].of.shown.removed = RecordedRemovals(i)

(* Workbooks are read as they are meant (detect_layout, _parse_section).   *)
SheetsAreRead == \A book \in SmallBooks : ReadsEveryOrder(book)
=============================================================================
