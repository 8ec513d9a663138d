-------------------------------- MODULE Seeds --------------------------------
(***************************************************************************)
(* scripts/prep: seed_mongo.py writes the manifest's documents into the    *)
(* plans of the application, cleanup.py removes them by their mark,        *)
(* verify.py checks what is there.  Operators start these scripts when     *)
(* they like, kill them and start them again, while users of the           *)
(* application create plans and upload files.                              *)
(***************************************************************************)
EXTENDS Integers, SequencesExt

CONSTANTS
    Manifest,       \* SEED_DOCS: [tenant : {"A", "B"}, plan, name]
    OwnerSettings,  \* values SEED_OWNER_IDS may have: sequences of owners
    SyntheticA, SyntheticB,
    UserPlans,      \* plans users may create: <<owner, plan>>
    UserFiles,      \* names of files users may upload
    Runs,           \* runs of the scripts
    MaxUserActions  \* bound

Synthetic == [A |-> SyntheticA, B |-> SyntheticB]

ASSUME SeedsAssumption ==
    /\ Manifest \in Seq(ToSet(Manifest)) \ {<<>>}
    /\ \A d \in ToSet(Manifest) : d.tenant \in DOMAIN Synthetic
    /\ \A ids \in OwnerSettings : ids \in Seq(ToSet(ids))
    /\ MaxUserActions \in Nat

VARIABLES
    ownerIds,   \* SEED_OWNER_IDS
    plans,      \* the collection: <<ownerUserId, planId>> -> document
    pc,         \* where each run is
    dry,        \* runs started with --dry-run
    at,         \* seeder: number of the document at hand
    fetched,    \* seeder: documents downloaded
    done,       \* seeder: documents written or found, of this run
    userActions,
    \* History.
    created,    \* plans users created
    touched,    \* whether a user changed a seeded plan
    overlapped, \* whether two runs were under way at once
    seeded      \* whether the last finished run was a seeding of every document

run     == <<pc, dry, at, fetched, done>>
user    == <<userActions, created>>
history == <<touched, overlapped, seeded>>
vars    == <<ownerIds, plans, run, user, history>>

File     == [name : UserFiles \cup {d.name : d \in ToSet(Manifest)},
             seedSource : BOOLEAN, analyzed : BOOLEAN]
Owners   == {SyntheticA, SyntheticB} \cup UNION {ToSet(ids) : ids \in OwnerSettings}
Document == [seedSource : BOOLEAN, attachments : Seq(File)]

Init ==
    /\ ownerIds \in OwnerSettings
    /\ plans = <<>>
    /\ pc = [r \in Runs |-> "idle"]
    /\ dry = {}
    /\ at = [r \in Runs |-> 0]
    /\ fetched = [r \in Runs |-> {}]
    /\ done = [r \in Runs |-> {}]
    /\ userActions = 0 /\ created = {}
    /\ touched = FALSE /\ overlapped = FALSE /\ seeded = FALSE

-----------------------------------------------------------------------------
(* seed_mongo.py.                                                           *)

(* _resolve_owners: the ids in order, the last one for the tenants that are *)
(* left, the synthetic ones for none.                                       *)
ResolveOwners ==
    CASE Len(ownerIds) = 0 -> Synthetic
      [] Len(ownerIds) = 1 -> [A |-> ownerIds[1], B |-> ownerIds[1]]
      [] OTHER             -> [A |-> ownerIds[1], B |-> ownerIds[2]]

Doc(r) == Manifest[at[r]]
Key(d) == <<ResolveOwners[d.tenant], d.plan>>

Busy == {r \in Runs : pc[r] \notin {"idle", "over"}}

Goto(r, label) == pc' = [pc EXCEPT ![r] = label]

(* A run begins; the history notes whether another is under way.            *)
Begin(r, label) ==
    /\ pc[r] = "idle"
    /\ Goto(r, label)
    /\ dry' \in {dry, dry \cup {r}}
    /\ overlapped' = (overlapped \/ Busy # {})

(* Mutant of Continue: the loop takes one document too many.                *)
ContinuePastEnd(r, got) ==
    IF at[r] <= Len(Manifest)
    THEN Goto(r, "fetch") /\ at' = [at EXCEPT ![r] = @ + 1] /\ UNCHANGED seeded
    ELSE Goto(r, "over") /\ UNCHANGED <<at, seeded>>

(* The loop goes on to the next document or ends, having fetched got.       *)
Continue(r, got) ==
    IF at[r] < Len(Manifest)
    THEN Goto(r, "fetch") /\ at' = [at EXCEPT ![r] = @ + 1] /\ UNCHANGED seeded
    ELSE /\ Goto(r, "over")
         /\ seeded' = (r \notin dry /\ got = DOMAIN Manifest)
         /\ UNCHANGED at

Seed(r) ==
    /\ Begin(r, "fetch")
    /\ at' = [at EXCEPT ![r] = 1]
    /\ UNCHANGED <<ownerIds, plans, fetched, done, user, touched, seeded>>

(* fetch_bytes: a document that cannot be had is skipped; a dry run stops   *)
(* at the download.                                                         *)
FetchBytes(r) ==
    /\ pc[r] = "fetch"
    /\ \/ UNCHANGED fetched /\ Continue(r, fetched[r])
       \/ /\ fetched' = [fetched EXCEPT ![r] = @ \cup {at[r]}]
          /\ IF r \in dry THEN Continue(r, fetched'[r])
             ELSE Goto(r, "find") /\ UNCHANGED <<at, seeded>>
    /\ UNCHANGED <<ownerIds, plans, dry, done, user, touched, overlapped>>

HasFile(k, name) ==
    k \in DOMAIN plans /\ \E i \in DOMAIN plans[k].attachments :
                              plans[k].attachments[i].name = name

(* Mutants of FindOne: by the plan alone; not at all.                       *)
FindOneByPlan(r) ==
    /\ pc[r] = "find"
    /\ IF Key(Doc(r)) \in DOMAIN plans
       THEN done' = [done EXCEPT ![r] = @ \cup {at[r]}] /\ Continue(r, fetched[r])
       ELSE Goto(r, "write") /\ UNCHANGED <<at, done, seeded>>
    /\ UNCHANGED <<ownerIds, plans, dry, fetched, user, touched, overlapped>>

FindOneSkipped(r) ==
    /\ pc[r] = "find"
    /\ Goto(r, "write")
    /\ UNCHANGED <<ownerIds, plans, dry, at, fetched, done, user, history>>

(* find_one by owner, plan and file name.                                   *)
FindOne(r) ==
    /\ pc[r] = "find"
    /\ IF HasFile(Key(Doc(r)), Doc(r).name)
       THEN done' = [done EXCEPT ![r] = @ \cup {at[r]}] /\ Continue(r, fetched[r])
       ELSE Goto(r, "write") /\ UNCHANGED <<at, done, seeded>>
    /\ UNCHANGED <<ownerIds, plans, dry, fetched, user, touched, overlapped>>

(* Mutant of SeedFile: the file does not carry the mark.                    *)
SeedFileUnmarked(d) == [name |-> d.name, seedSource |-> FALSE, analyzed |-> FALSE]

SeedFile(d) == [name |-> d.name, seedSource |-> TRUE, analyzed |-> FALSE]

(* The collection with p as the document of k.                              *)
With(k, p) == [j \in DOMAIN plans \cup {k} |-> IF j = k THEN p ELSE plans[j]]

(* Mutants of Upserted: a plan that exists is marked too; no plan is.       *)
UpsertedMarkingAll(d) ==
    LET k == Key(d)
        old == IF k \in DOMAIN plans THEN plans[k].attachments ELSE <<>>
    IN With(k, [seedSource |-> TRUE, attachments |-> Append(old, SeedFile(d))])

UpsertedUnmarked(d) ==
    LET k == Key(d)
        old == IF k \in DOMAIN plans THEN plans[k]
               ELSE [seedSource |-> FALSE, attachments |-> <<>>]
    IN With(k, [old EXCEPT !.attachments = Append(@, SeedFile(d))])

(* The upsert: $setOnInsert marks a new plan only, $push adds the file.     *)
Upserted(d) ==
    LET k == Key(d)
        old == IF k \in DOMAIN plans THEN plans[k]
               ELSE [seedSource |-> TRUE, attachments |-> <<>>]
    IN With(k, [old EXCEPT !.attachments = Append(@, SeedFile(d))])

Write(r) ==
    /\ pc[r] = "write"
    /\ plans' = Upserted(Doc(r))
    /\ done' = [done EXCEPT ![r] = @ \cup {at[r]}]
    /\ Continue(r, fetched[r])
    /\ UNCHANGED <<ownerIds, dry, fetched, user, touched, overlapped>>

(* The operator stops a script, or it crashes, between any two of its steps. *)
Kill(r) ==
    /\ r \in Busy
    /\ Goto(r, "over")
    /\ seeded' = FALSE
    /\ UNCHANGED <<ownerIds, plans, dry, at, fetched, done, user, touched, overlapped>>

-----------------------------------------------------------------------------
(* cleanup.py.                                                              *)

Marked == {k \in DOMAIN plans : plans[k].seedSource}

Without(keys) == [k \in DOMAIN plans \ keys |-> plans[k]]

(* count_documents: nothing to remove ends the run.                         *)
Cleanup(r) ==
    /\ IF Marked = {} THEN Begin(r, "over") ELSE Begin(r, "delete")
    /\ UNCHANGED <<ownerIds, plans, at, fetched, done, user, touched, seeded>>

(* delete_many, or the preview.                                             *)
DeleteMany(r) ==
    /\ pc[r] = "delete"
    /\ IF r \in dry THEN UNCHANGED <<plans, seeded>>
       ELSE plans' = Without(Marked) /\ seeded' = FALSE
    /\ done' = IF r \in dry THEN done ELSE [s \in Runs |-> {}]
    /\ Goto(r, "over")
    /\ UNCHANGED <<ownerIds, dry, at, fetched, user, touched, overlapped>>

-----------------------------------------------------------------------------
(* verify.py: whether all its checks pass.                                  *)

VerifyFile(f) == f.seedSource /\ ~f.analyzed

Verify ==
    LET names(k)   == [i \in DOMAIN plans[k].attachments |-> plans[k].attachments[i].name]
        owners     == {k[1] : k \in Marked}
        files(o)   == UNION {ToSet(plans[k].attachments) : k \in {k \in Marked : k[1] = o}}
    IN /\ Marked # {}
       /\ \A k \in Marked :
            /\ \A f \in ToSet(plans[k].attachments) : VerifyFile(f)
            /\ IsInjective(names(k))
       /\ \A o \in owners : files(o) # {}
       /\ Cardinality(owners) >= 2

-----------------------------------------------------------------------------
(* The application's users.                                                 *)

UserAct == userActions < MaxUserActions /\ userActions' = userActions + 1

CreatePlan(k) ==
    /\ UserAct
    /\ k \notin DOMAIN plans
    /\ plans' = With(k, [seedSource |-> FALSE, attachments |-> <<>>])
    /\ created' = created \cup {k}
    /\ UNCHANGED <<ownerIds, run, history>>

Upload(k, name) ==
    /\ UserAct
    /\ plans' = [plans EXCEPT ![k].attachments =
            Append(@, [name |-> name, seedSource |-> FALSE, analyzed |-> FALSE])]
    /\ touched' = (touched \/ plans[k].seedSource)
    /\ UNCHANGED <<ownerIds, run, created, overlapped, seeded>>

(* The application stores the verdict of /analyze on the attachment.        *)
Analyze(k, i) ==
    /\ UserAct
    /\ ~plans[k].attachments[i].analyzed
    /\ plans' = [plans EXCEPT ![k].attachments[i].analyzed = TRUE]
    /\ touched' = (touched \/ plans[k].seedSource)
    /\ UNCHANGED <<ownerIds, run, created, overlapped, seeded>>

-----------------------------------------------------------------------------
Next ==
    \/ \E r \in Runs :
        \/ Seed(r) \/ FetchBytes(r) \/ FindOne(r) \/ Write(r) \/ Kill(r)
        \/ Cleanup(r) \/ DeleteMany(r)
    \/ \E k \in UserPlans : CreatePlan(k)
    \/ \E k \in DOMAIN plans :
        \/ \E name \in UserFiles : Upload(k, name)
        \/ \E i \in DOMAIN plans[k].attachments : Analyze(k, i)

Spec == Init /\ [][Next]_vars

-----------------------------------------------------------------------------
(* Properties.                                                              *)

(* Plans, runs, users and history hold values of their types; a run is at a *)
(* document of the manifest, and has fetched and written only such.         *)
TypeOK ==
    /\ ownerIds \in OwnerSettings
    /\ \A k \in DOMAIN plans :
        /\ k[1] \in Owners \cup {p[1] : p \in UserPlans}
        /\ plans[k] \in Document
    /\ pc \in [Runs -> {"idle", "fetch", "find", "write", "delete", "over"}]
    /\ dry \subseteq Runs
    /\ at \in [Runs -> 0..Len(Manifest)]
    /\ \A r \in Runs : pc[r] \in {"fetch", "find", "write"} => at[r] \in DOMAIN Manifest
    /\ fetched \in [Runs -> SUBSET DOMAIN Manifest]
    /\ done \in [Runs -> SUBSET DOMAIN Manifest]
    /\ userActions \in 0..MaxUserActions
    /\ created \subseteq UserPlans
    /\ touched \in BOOLEAN /\ overlapped \in BOOLEAN /\ seeded \in BOOLEAN

(* However often the seeder is killed and started again, as long as no two  *)
(* runs overlap, no plan gets the same seeded file twice.                   *)
SeedIdempotent ==
    ~overlapped => \A k \in DOMAIN plans : \A i, j \in DOMAIN plans[k].attachments :
        LET f == plans[k].attachments[i]
            g == plans[k].attachments[j]
        IN f.seedSource /\ g.seedSource /\ f.name = g.name => i = j

(* Every document a run has dealt with is in the plan of its owner, until a *)
(* cleanup removes it: also the second file of a plan, the file a user had  *)
(* uploaded under that name, and the file a killed run left behind.         *)
SeededIsThere ==
    \A r \in Runs : \A i \in done[r] : HasFile(Key(Manifest[i]), Manifest[i].name)

(* No script removes a plan that a user created, even one into which the    *)
(* seeder has put its files since.                                          *)
CleanupSparesUserPlans == created \subseteq DOMAIN plans

(* What a cleanup leaves behind of the seeder's files is in plans that      *)
(* users created, and in every other plan it removes.                       *)
ResidueOnlyInUserPlans ==
    \A k \in DOMAIN plans \ Marked : k \in created

(* After an undisturbed seeding of every document for two different owners  *)
(* verify finds nothing to complain about, whatever runs, kills and         *)
(* cleanups came before it.                                                 *)
FreshSeedVerifies ==
    /\ seeded /\ ~overlapped /\ ~touched
    /\ ResolveOwners.A # ResolveOwners.B
    /\ \A t \in {"A", "B"} : \E d \in ToSet(Manifest) : d.tenant = t /\ Key(d) \notin created
    => Verify

=============================================================================
