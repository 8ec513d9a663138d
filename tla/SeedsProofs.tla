----------------------------- MODULE SeedsProofs -----------------------------
(***************************************************************************)
(* For any manifest, any number of runs and users and however they         *)
(* interleave: the mark tells the plans of users and of the seeder apart,  *)
(* so that cleanup removes exactly the latter; what was seeded stays, and  *)
(* is there once unless two runs overlap; verify accepts what an           *)
(* undisturbed run leaves.                                                 *)
(***************************************************************************)
EXTENDS Seeds, FiniteSetTheorems, TLAPS

Shaped(p) == p = [seedSource |-> p.seedSource, attachments |-> p.attachments]

(* The plans there are have the fields of a plan and are marked, except     *)
(* those users created, which are all there.                                *)
MarkInv ==
    /\ created \subseteq DOMAIN plans
    /\ \A k \in DOMAIN plans : /\ Shaped(plans[k])
                               /\ plans[k].seedSource = (k \notin created)

LEMMA FilesReplaced ==
  \A mark, files, more : [[seedSource |-> mark, attachments |-> files] EXCEPT !.attachments = more]
                            = [seedSource |-> mark, attachments |-> more]
  OBVIOUS

(* A file is appended to a plan, or the plan's files change: it stays what  *)
(* it was.                                                                  *)
LEMMA MarkByFiles ==
  ASSUME MarkInv, NEW k \in DOMAIN plans, NEW files,
         plans' = [plans EXCEPT ![k].attachments = files], UNCHANGED created
  PROVE  MarkInv'
<1>1. DOMAIN plans' = DOMAIN plans
  OBVIOUS
<1>2. \A j \in DOMAIN plans : j # k => plans'[j] = plans[j]
  OBVIOUS
<1>3. plans'[k] = [plans[k] EXCEPT !.attachments = files]
  OBVIOUS
<1>4. plans'[k] = [seedSource |-> plans[k].seedSource, attachments |-> files]
  BY <1>3 DEF MarkInv, Shaped
<1> QED  BY <1>1, <1>2, <1>4 DEF MarkInv, Shaped

(* A plan comes into being with the mark its creator gives it.              *)
LEMMA MarkByPlan ==
  ASSUME MarkInv, NEW k, k \notin DOMAIN plans, NEW files, NEW mark \in BOOLEAN,
         plans' = With(k, [seedSource |-> mark, attachments |-> files]),
         created' = IF mark THEN created ELSE created \cup {k}
  PROVE  MarkInv'
<1>1. DOMAIN plans' = {k} \cup DOMAIN plans
  BY DEF With
<1>2. \A j \in DOMAIN plans : plans'[j] = plans[j]
  BY DEF With
<1>3. plans'[k] = [seedSource |-> mark, attachments |-> files]
  BY DEF With
<1>4. k \notin created  BY DEF MarkInv
<1> QED  BY <1>1, <1>2, <1>3, <1>4 DEF MarkInv, Shaped

LEMMA MarkStep == MarkInv /\ [Next]_vars => MarkInv'
<1> SUFFICES ASSUME MarkInv, [Next]_vars PROVE MarkInv'
  OBVIOUS
<1>1. CASE UNCHANGED <<plans, created>>
  BY <1>1 DEF MarkInv, Shaped
<1>2. ASSUME NEW r \in Runs, Write(r) PROVE MarkInv'
  <2> DEFINE d == Doc(r)
             k == Key(d)
  <2>1. plans' = Upserted(d) /\ UNCHANGED created  BY <1>2 DEF Write, user
  <2>2. CASE k \in DOMAIN plans
    <3> DEFINE files == Append(plans[k].attachments, SeedFile(d))
    <3>1. plans' = With(k, [plans[k] EXCEPT !.attachments = files])
      BY <2>1, <2>2 DEF Upserted
    <3>2. [plans[k] EXCEPT !.attachments = files]
              = [seedSource |-> plans[k].seedSource, attachments |-> files]
      BY <2>2 DEF MarkInv, Shaped
    <3> HIDE DEF files, k
    <3>3. /\ DOMAIN plans' = DOMAIN plans
          /\ \A j \in DOMAIN plans : j # k => plans'[j] = plans[j]
          /\ plans'[k] = [seedSource |-> plans[k].seedSource, attachments |-> files]
      BY <2>2, <3>1, <3>2 DEF With
    <3> QED  BY <2>1, <2>2, <3>3 DEF MarkInv, Shaped
  <2>3. CASE k \notin DOMAIN plans
    <3> DEFINE old   == [seedSource |-> TRUE, attachments |-> <<>>]
               files == Append(old.attachments, SeedFile(d))
    <3>1. plans' = With(k, [old EXCEPT !.attachments = files])
      BY <2>1, <2>3 DEF Upserted
    <3> HIDE DEF files, k
    <3>2. [old EXCEPT !.attachments = files] = [seedSource |-> TRUE, attachments |-> files]
      BY FilesReplaced
    <3>3. plans' = With(k, [seedSource |-> TRUE, attachments |-> files])
      BY <3>1, <3>2
    <3> QED  BY <2>1, <2>3, <3>3, MarkByPlan
  <2> QED  BY <2>2, <2>3
<1>3. ASSUME NEW r \in Runs, DeleteMany(r) PROVE MarkInv'
  <2>1. UNCHANGED created  BY <1>3 DEF DeleteMany, user
  <2>2. CASE plans' = Without(Marked)
    BY <2>1, <2>2 DEF Without, Marked, MarkInv, Shaped
  <2> QED  BY <1>1, <1>3, <2>1, <2>2 DEF DeleteMany
<1>4. ASSUME NEW k \in UserPlans, CreatePlan(k) PROVE MarkInv'
  BY <1>4, MarkByPlan DEF CreatePlan
<1>5. ASSUME NEW k \in DOMAIN plans, NEW name \in UserFiles, Upload(k, name) PROVE MarkInv'
  <2>1. plans' = [plans EXCEPT ![k].attachments = Append(plans[k].attachments,
                    [name |-> name, seedSource |-> FALSE, analyzed |-> FALSE])]
    BY <1>5 DEF Upload
  <2> QED  BY <1>5, <2>1, MarkByFiles DEF Upload
<1>6. ASSUME NEW k \in DOMAIN plans, NEW i \in DOMAIN plans[k].attachments, Analyze(k, i)
      PROVE  MarkInv'
  <2>1. plans' = [plans EXCEPT ![k].attachments =
                    [plans[k].attachments EXCEPT ![i].analyzed = TRUE]]
    BY <1>6 DEF Analyze
  <2> QED  BY <1>6, <2>1, MarkByFiles DEF Analyze
<1>7. ASSUME NEW r \in Runs, Seed(r) \/ FetchBytes(r) \/ FindOne(r) \/ Kill(r) \/ Cleanup(r)
      PROVE  MarkInv'
  BY <1>1, <1>7 DEF Seed, FetchBytes, FindOne, Kill, Cleanup, user
<1>8. CASE UNCHANGED vars
  BY <1>1, <1>8 DEF vars, user
<1> QED  BY <1>2, <1>3, <1>4, <1>5, <1>6, <1>7, <1>8 DEF Next

LEMMA MarkInit == Init => MarkInv
  BY DEF Init, MarkInv

(* No script removes a plan a user created.                                 *)
THEOREM UserPlansStay == Spec => []CleanupSparesUserPlans
<1>1. MarkInv => CleanupSparesUserPlans
  BY DEF MarkInv, CleanupSparesUserPlans
<1> QED  BY MarkInit, MarkStep, <1>1, PTL DEF Spec

(* What a cleanup leaves is in plans users created: every other plan        *)
(* carries the mark it deletes by.                                          *)
THEOREM ResidueTheorem == Spec => []ResidueOnlyInUserPlans
<1>1. MarkInv => ResidueOnlyInUserPlans
  BY DEF MarkInv, Marked, ResidueOnlyInUserPlans
<1> QED  BY MarkInit, MarkStep, <1>1, PTL DEF Spec

-----------------------------------------------------------------------------
(* What a run has dealt with is there.                                      *)

SeedInv ==
    /\ pc \in [Runs -> {"idle", "fetch", "find", "write", "delete", "over"}]
    /\ at \in [Runs -> Nat]
    /\ done \in [Runs -> SUBSET DOMAIN Manifest]
    /\ \A r \in Runs : pc[r] \in {"fetch", "find", "write"} => at[r] \in DOMAIN Manifest
    /\ \A k \in DOMAIN plans : Shaped(plans[k]) /\ plans[k].attachments \in Seq(File)
    /\ SeededIsThere

LEMMA SeedInit == Init => SeedInv
<1> SUFFICES ASSUME Init PROVE SeedInv
  OBVIOUS
<1>1. /\ pc = [r \in Runs |-> "idle"] /\ at = [r \in Runs |-> 0]
      /\ done = [r \in Runs |-> {}]
  BY DEF Init
<1>2. DOMAIN plans = {}  BY DEF Init
<1> QED  BY <1>1, <1>2 DEF SeedInv, SeededIsThere

(* Every file there was is there.                                           *)
Kept == \A k, name : HasFile(k, name) => HasFile(k, name)'

FilesTyped == \A k \in DOMAIN plans : Shaped(plans[k]) /\ plans[k].attachments \in Seq(File)

LEMMA KeptByAppend ==
  ASSUME SeedInv, NEW k \in DOMAIN plans, NEW f \in File,
         plans' = [plans EXCEPT ![k].attachments = Append(plans[k].attachments, f)]
  PROVE  Kept /\ FilesTyped' /\ HasFile(k, f.name)'
<1> DEFINE old == plans[k].attachments
<1>1. old \in Seq(File)  BY DEF SeedInv
<1>2. /\ DOMAIN plans' = DOMAIN plans
      /\ \A j \in DOMAIN plans : j # k => plans'[j] = plans[j]
      /\ plans'[k] = [plans[k] EXCEPT !.attachments = Append(old, f)]
  OBVIOUS
<1>3. plans'[k] = [seedSource |-> plans[k].seedSource, attachments |-> Append(old, f)]
  <2> DEFINE more == Append(old, f)
  <2>1. plans[k] = [seedSource |-> plans[k].seedSource, attachments |-> old]
    BY DEF SeedInv, Shaped
  <2> HIDE DEF more, old
  <2> QED  BY <1>2, <2>1, FilesReplaced DEF more
<1> HIDE DEF old
<1>4. /\ Append(old, f) \in Seq(File)
      /\ DOMAIN Append(old, f) = 1..(Len(old) + 1)
      /\ DOMAIN old = 1..Len(old) /\ Len(old) \in Nat
      /\ \A i \in DOMAIN old : Append(old, f)[i] = old[i]
      /\ Append(old, f)[Len(old) + 1] = f
  BY <1>1
<1>5. ASSUME NEW j, NEW name, HasFile(j, name) PROVE HasFile(j, name)'
  <2>1. CASE j # k  BY <1>2, <1>5, <2>1 DEF HasFile
  <2>2. CASE j = k
    <3>1. PICK i \in DOMAIN old : old[i].name = name  BY <1>5, <2>2 DEF HasFile, old
    <3>2. i \in DOMAIN Append(old, f) /\ Append(old, f)[i].name = name  BY <1>4, <3>1
    <3> QED  BY <1>2, <1>3, <2>2, <3>2 DEF HasFile
  <2> QED  BY <2>1, <2>2
<1>6. HasFile(k, f.name)'
  <2>1. Len(old) + 1 \in DOMAIN Append(old, f)  BY <1>4
  <2> QED  BY <1>2, <1>3, <1>4, <2>1 DEF HasFile
<1>7. FilesTyped'  BY <1>2, <1>3, <1>4 DEF FilesTyped, SeedInv, Shaped
<1> QED  BY <1>5, <1>6, <1>7 DEF Kept

LEMMA KeptByVerdict ==
  ASSUME SeedInv, NEW k \in DOMAIN plans, NEW i \in DOMAIN plans[k].attachments,
         plans' = [plans EXCEPT ![k].attachments[i].analyzed = TRUE]
  PROVE  Kept /\ FilesTyped'
<1> DEFINE old  == plans[k].attachments
           more == [old EXCEPT ![i].analyzed = TRUE]
<1>1. old \in Seq(File)  BY DEF SeedInv
<1>2. /\ DOMAIN plans' = DOMAIN plans
      /\ \A j \in DOMAIN plans : j # k => plans'[j] = plans[j]
      /\ plans'[k] = [plans[k] EXCEPT !.attachments = more]
  OBVIOUS
<1>3. plans'[k] = [seedSource |-> plans[k].seedSource, attachments |-> more]
  <2>1. plans[k] = [seedSource |-> plans[k].seedSource, attachments |-> old]
    BY DEF SeedInv, Shaped
  <2> HIDE DEF more, old
  <2> QED  BY <1>2, <2>1, FilesReplaced
<1>4. i \in DOMAIN old  OBVIOUS
<1> HIDE DEF old
<1>5. more \in Seq(File) /\ DOMAIN more = DOMAIN old
  <2>1. PICK e \in File : e = old[i]  BY <1>1, <1>4
  <2>2. [e EXCEPT !.analyzed = TRUE] \in File  BY DEF File
  <2> QED  BY <1>1, <1>4, <2>1, <2>2
<1>6. \A j \in DOMAIN old : more[j].name = old[j].name
  <2>1. old[i] \in File  BY <1>1, <1>4
  <2>2. [old[i] EXCEPT !.analyzed = TRUE].name = old[i].name  BY <2>1 DEF File
  <2> QED  BY <1>4, <2>2
<1> HIDE DEF more
<1>7. ASSUME NEW j, NEW name, HasFile(j, name) PROVE HasFile(j, name)'
  <2>1. CASE j # k  BY <1>2, <1>7, <2>1 DEF HasFile
  <2>2. CASE j = k
    <3>1. PICK n \in DOMAIN old : old[n].name = name  BY <1>7, <2>2 DEF HasFile, old
    <3>2. n \in DOMAIN more /\ more[n].name = name  BY <1>5, <1>6, <3>1
    <3>3. k \in DOMAIN plans' /\ plans'[k].attachments = more  BY <1>2, <1>3
    <3> QED  BY <2>2, <3>2, <3>3 DEF HasFile
  <2> QED  BY <2>1, <2>2
<1>8. FilesTyped'  BY <1>2, <1>3, <1>5 DEF FilesTyped, SeedInv, Shaped
<1> QED  BY <1>7, <1>8 DEF Kept

LEMMA KeptByPlan ==
  ASSUME SeedInv, NEW k, k \notin DOMAIN plans, NEW mark, NEW files \in Seq(File),
         plans' = With(k, [seedSource |-> mark, attachments |-> files])
  PROVE  Kept /\ FilesTyped'
<1>1. /\ DOMAIN plans' = {k} \cup DOMAIN plans
      /\ \A j \in DOMAIN plans : plans'[j] = plans[j]
      /\ plans'[k] = [seedSource |-> mark, attachments |-> files]
  BY DEF With
<1>2. Kept  BY <1>1 DEF Kept, HasFile
<1> QED  BY <1>1, <1>2 DEF FilesTyped, SeedInv, Shaped

(* A step that keeps the files and, of the documents dealt with, adds at    *)
(* most one that is there.                                                  *)
LEMMA SeedFrame ==
  ASSUME SeedInv, Kept, FilesTyped', UNCHANGED <<ownerIds, pc, at, done>>
  PROVE  SeedInv'
<1>1. \A d : Key(d)' = Key(d)  BY DEF Key, ResolveOwners
<1>2. SeededIsThere'  BY <1>1 DEF SeedInv, SeededIsThere, Kept
<1> QED  BY <1>2 DEF SeedInv, FilesTyped

(* The loop of the seeder goes on or ends: runs stay where they can be.      *)
Positions ==
    /\ pc \in [Runs -> {"idle", "fetch", "find", "write", "delete", "over"}]
    /\ at \in [Runs -> Nat]
    /\ \A r \in Runs : pc[r] \in {"fetch", "find", "write"} => at[r] \in DOMAIN Manifest

LEMMA Continued ==
  ASSUME SeedInv, NEW r \in Runs, pc[r] \in {"fetch", "find", "write"}, NEW got,
         Continue(r, got)
  PROVE  Positions'
<1>1. /\ DOMAIN Manifest = 1..Len(Manifest) /\ Len(Manifest) \in Nat
      /\ at[r] \in DOMAIN Manifest
  BY SeedsAssumption DEF SeedInv
<1>2. CASE at[r] < Len(Manifest)
  <2>1. pc' = [pc EXCEPT ![r] = "fetch"] /\ at' = [at EXCEPT ![r] = @ + 1]
    BY <1>2 DEF Continue, Goto
  <2>2. at[r] + 1 \in DOMAIN Manifest  BY <1>1, <1>2
  <2> QED  BY <2>1, <2>2 DEF SeedInv, Positions
<1>3. CASE ~(at[r] < Len(Manifest))
  <2>1. pc' = [pc EXCEPT ![r] = "over"] /\ UNCHANGED at
    BY <1>3 DEF Continue, Goto
  <2> QED  BY <2>1 DEF SeedInv, Positions
<1> QED  BY <1>2, <1>3

LEMMA Moved ==
  ASSUME SeedInv, NEW r \in Runs, UNCHANGED at,
         NEW label \in {"fetch", "find", "write", "delete", "over"}, Goto(r, label),
         label \in {"fetch", "find", "write"} => at[r] \in DOMAIN Manifest
  PROVE  Positions'
  BY DEF SeedInv, Positions, Goto

(* A step of a run that keeps the files and has dealt with one document     *)
(* more, if any, which is there.                                            *)
LEMMA SeedByRun ==
  ASSUME SeedInv, Kept, FilesTyped', Positions', UNCHANGED ownerIds,
         NEW r \in Runs, NEW n \in DOMAIN Manifest,
         \/ UNCHANGED done
         \/ /\ done' = [done EXCEPT ![r] = @ \cup {n}]
            /\ HasFile(Key(Manifest[n]), Manifest[n].name)'
  PROVE  SeedInv'
<1>1. \A d : Key(d)' = Key(d)  BY DEF Key, ResolveOwners
<1>2. /\ done' \in [Runs -> SUBSET DOMAIN Manifest]
      /\ \A s \in Runs : \A i \in done'[s] :
            \/ i \in done[s]
            \/ i = n /\ HasFile(Key(Manifest[n]), Manifest[n].name)'
  BY DEF SeedInv
<1>3. SeededIsThere'
  BY <1>1, <1>2 DEF SeedInv, SeededIsThere, Kept
<1> QED  BY <1>2, <1>3 DEF SeedInv, FilesTyped, Positions

LEMMA SameFiles == SeedInv /\ UNCHANGED plans => Kept /\ FilesTyped'
  BY DEF SeedInv, Kept, HasFile, FilesTyped, Shaped

LEMMA SeedStep == SeedInv /\ [Next]_vars => SeedInv'
<1> SUFFICES ASSUME SeedInv, [Next]_vars PROVE SeedInv'
  OBVIOUS
<1>1. 1 \in DOMAIN Manifest
  BY SeedsAssumption
<1>2. ASSUME NEW r \in Runs, Seed(r) PROVE SeedInv'
  <2>1. /\ pc' = [pc EXCEPT ![r] = "fetch"] /\ at' = [at EXCEPT ![r] = 1]
        /\ UNCHANGED <<ownerIds, plans, done>>
    BY <1>2 DEF Seed, Begin, Goto
  <2>2. Positions'  BY <1>1, <2>1 DEF SeedInv, Positions
  <2> QED  BY <1>1, <2>1, <2>2, SameFiles, SeedByRun
<1>3. ASSUME NEW r \in Runs, FetchBytes(r) PROVE SeedInv'
  <2>1. pc[r] = "fetch" /\ UNCHANGED <<ownerIds, plans, done>>
    BY <1>3 DEF FetchBytes
  <2>2. at[r] \in DOMAIN Manifest  BY <2>1 DEF SeedInv
  <2>3. CASE Goto(r, "find") /\ UNCHANGED at
    BY <2>2, <2>3, Moved, <1>1, <2>1, SameFiles, SeedByRun
  <2>4. ASSUME NEW got, Continue(r, got) PROVE SeedInv'
    <3>1. Positions'  BY <2>1, <2>4, Continued
    <3> QED  BY <1>1, <2>1, <3>1, SameFiles, SeedByRun
  <2> QED  BY <1>3, <2>3, <2>4 DEF FetchBytes
<1>4. ASSUME NEW r \in Runs, FindOne(r) PROVE SeedInv'
  <2>1. pc[r] = "find" /\ UNCHANGED <<ownerIds, plans>>
    BY <1>4 DEF FindOne
  <2>2. at[r] \in DOMAIN Manifest  BY <2>1 DEF SeedInv
  <2>3. CASE Goto(r, "write") /\ UNCHANGED <<at, done>>
    BY <2>2, <2>3, Moved, <2>1, SameFiles, SeedByRun
  <2>4. CASE /\ HasFile(Key(Doc(r)), Doc(r).name)
             /\ done' = [done EXCEPT ![r] = @ \cup {at[r]}]
             /\ Continue(r, fetched[r])
    <3>1. Positions'  BY <2>1, <2>4, Continued
    <3>2. PICK n \in DOMAIN Manifest : n = at[r]  BY <2>2
    <3>3. HasFile(Key(Manifest[n]), Manifest[n].name)'
      BY <2>1, <2>4, <3>2 DEF Doc, HasFile, Key, ResolveOwners
    <3> QED  BY <2>1, <2>4, <3>1, <3>2, <3>3, SameFiles, SeedByRun
  <2> QED  BY <1>4, <2>3, <2>4 DEF FindOne
<1>5. ASSUME NEW r \in Runs, Write(r) PROVE SeedInv'
  <2>1. /\ pc[r] = "write" /\ plans' = Upserted(Doc(r)) /\ UNCHANGED ownerIds
        /\ done' = [done EXCEPT ![r] = @ \cup {at[r]}]
        /\ Continue(r, fetched[r])
    BY <1>5 DEF Write
  <2>2. PICK n \in DOMAIN Manifest : n = at[r]  BY <2>1 DEF SeedInv
  <2>3. PICK k : k = Key(Manifest[n])  OBVIOUS
  <2>4. PICK f : f = SeedFile(Manifest[n])  OBVIOUS
  <2>5. f \in File /\ f.name = Manifest[n].name
    BY <2>4 DEF SeedFile, File, ToSet
  <2>6. Kept /\ FilesTyped' /\ HasFile(k, f.name)'
    <3>1. CASE k \in DOMAIN plans
      <4> DEFINE more == Append(plans[k].attachments, f)
      <4>1. plans' = With(k, [plans[k] EXCEPT !.attachments = more])
        BY <2>1, <2>2, <2>3, <2>4, <3>1 DEF Upserted, Doc
      <4> HIDE DEF more
      <4>2. With(k, [plans[k] EXCEPT !.attachments = more])
              = [plans EXCEPT ![k].attachments = more]
        BY <3>1 DEF With
      <4> QED  BY <2>5, <3>1, <4>1, <4>2, KeptByAppend DEF more
    <3>2. CASE k \notin DOMAIN plans
      <4> DEFINE old  == [seedSource |-> TRUE, attachments |-> <<>>]
                 more == Append(old.attachments, f)
      <4>1. plans' = With(k, [old EXCEPT !.attachments = more])
        BY <2>1, <2>2, <2>3, <2>4, <3>2 DEF Upserted, Doc
      <4>2. more = <<f>>  OBVIOUS
      <4> HIDE DEF more
      <4>3. [old EXCEPT !.attachments = more] = [seedSource |-> TRUE, attachments |-> more]
        BY FilesReplaced
      <4>4. plans' = With(k, [seedSource |-> TRUE, attachments |-> more])
        BY <4>1, <4>3
      <4>5. more \in Seq(File)  BY <2>5, <4>2
      <4>6. HasFile(k, f.name)'
        <5>1. k \in DOMAIN plans' /\ plans'[k].attachments = more
          BY <4>4 DEF With
        <5>2. 1 \in DOMAIN more /\ more[1] = f  BY <4>2
        <5> QED  BY <5>1, <5>2 DEF HasFile
      <4> QED  BY <3>2, <4>4, <4>5, <4>6, KeptByPlan
    <3> QED  BY <3>1, <3>2
  <2>7. HasFile(Key(Manifest[n]), Manifest[n].name)'
    BY <2>1, <2>3, <2>5, <2>6 DEF Key, ResolveOwners
  <2>8. Positions'  BY <2>1, Continued
  <2> QED  BY <2>1, <2>2, <2>6, <2>7, <2>8, SeedByRun
<1>6. ASSUME NEW r \in Runs, Kill(r) PROVE SeedInv'
  <2>1. Goto(r, "over") /\ UNCHANGED <<ownerIds, plans, at, done>>  BY <1>6 DEF Kill
  <2> QED  BY <1>1, <2>1, Moved, SameFiles, SeedByRun
<1>7. ASSUME NEW r \in Runs, Cleanup(r) PROVE SeedInv'
  <2>1. /\ Goto(r, "over") \/ Goto(r, "delete")
        /\ UNCHANGED <<ownerIds, plans, at, done>>
    BY <1>7 DEF Cleanup, Begin
  <2> QED  BY <1>1, <2>1, Moved, SameFiles, SeedByRun
<1>8. ASSUME NEW r \in Runs, DeleteMany(r) PROVE SeedInv'
  <2>1. Goto(r, "over") /\ UNCHANGED <<ownerIds, at>>  BY <1>8 DEF DeleteMany
  <2>2. CASE UNCHANGED <<plans, done>>
    BY <1>1, <2>1, <2>2, Moved, SameFiles, SeedByRun
  <2>3. CASE plans' = Without(Marked) /\ done' = [s \in Runs |-> {}]
    <3>1. Positions'  BY <2>1, Moved
    <3>2. SeededIsThere'  BY <2>3 DEF SeededIsThere
    <3>3. FilesTyped'  BY <2>3 DEF SeedInv, FilesTyped, Shaped, Without
    <3> QED  BY <2>3, <3>1, <3>2, <3>3 DEF SeedInv, Positions, FilesTyped
  <2> QED  BY <1>8, <2>2, <2>3 DEF DeleteMany
<1>9. ASSUME NEW k \in UserPlans, CreatePlan(k) PROVE SeedInv'
  <2>1. <<>> \in Seq(File)  OBVIOUS
  <2> QED  BY <1>9, <2>1, KeptByPlan, SeedFrame DEF CreatePlan, run
<1>10. ASSUME NEW k \in DOMAIN plans, NEW name \in UserFiles, Upload(k, name) PROVE SeedInv'
  <2>1. PICK f : f = [name |-> name, seedSource |-> FALSE, analyzed |-> FALSE]  OBVIOUS
  <2>2. f \in File  BY <2>1 DEF File
  <2>3. plans' = [plans EXCEPT ![k].attachments = Append(plans[k].attachments, f)]
    BY <1>10, <2>1 DEF Upload
  <2>4. Kept /\ FilesTyped'  BY <2>2, <2>3, KeptByAppend
  <2> QED  BY <1>10, <2>4, SeedFrame DEF Upload, run
<1>11. ASSUME NEW k \in DOMAIN plans, NEW i \in DOMAIN plans[k].attachments, Analyze(k, i)
       PROVE  SeedInv'
  <2>1. Kept /\ FilesTyped'  BY <1>11, KeptByVerdict DEF Analyze
  <2> QED  BY <1>11, <2>1, SeedFrame DEF Analyze, run
<1>12. CASE UNCHANGED vars
  BY <1>12, SameFiles, SeedFrame DEF vars, run
<1> QED
  BY <1>2, <1>3, <1>4, <1>5, <1>6, <1>7, <1>8, <1>9, <1>10, <1>11, <1>12 DEF Next

(* A document a run has written or found stays in its plan until a cleanup. *)
THEOREM SeededStays == Spec => []SeededIsThere
<1>1. SeedInv => SeededIsThere  BY DEF SeedInv
<1> QED  BY SeedInit, SeedStep, <1>1, PTL DEF Spec

-----------------------------------------------------------------------------
(* What a step does to the plans: a file is appended to one, one comes into *)
(* being, or a file of one is judged.                                       *)

Elsewhere(k) == \A j \in DOMAIN plans : j # k => plans'[j] = plans[j]

Appends(k, f) ==
    /\ k \in DOMAIN plans /\ DOMAIN plans' = DOMAIN plans /\ Elsewhere(k)
    /\ plans'[k].seedSource = plans[k].seedSource
    /\ plans'[k].attachments = Append(plans[k].attachments, f)

Creates(k, mark, files) ==
    /\ k \notin DOMAIN plans /\ DOMAIN plans' = {k} \cup DOMAIN plans /\ Elsewhere(k)
    /\ plans'[k] = [seedSource |-> mark, attachments |-> files]

Judges(k) ==
    /\ k \in DOMAIN plans /\ DOMAIN plans' = DOMAIN plans /\ Elsewhere(k)
    /\ plans'[k].seedSource = plans[k].seedSource
    /\ DOMAIN plans'[k].attachments = DOMAIN plans[k].attachments
    /\ \A i \in DOMAIN plans[k].attachments :
          /\ plans'[k].attachments[i].name = plans[k].attachments[i].name
          /\ plans'[k].attachments[i].seedSource = plans[k].attachments[i].seedSource

LEMMA Replaces ==
  ASSUME MarkInv, NEW k \in DOMAIN plans, NEW files,
         plans' = [plans EXCEPT ![k].attachments = files]
  PROVE  /\ DOMAIN plans' = DOMAIN plans /\ Elsewhere(k)
         /\ plans'[k].seedSource = plans[k].seedSource
         /\ plans'[k].attachments = files
<1>1. /\ DOMAIN plans' = DOMAIN plans
      /\ \A j \in DOMAIN plans : j # k => plans'[j] = plans[j]
      /\ plans'[k] = [plans[k] EXCEPT !.attachments = files]
  OBVIOUS
<1>2. plans'[k] = [seedSource |-> plans[k].seedSource, attachments |-> files]
  BY <1>1 DEF MarkInv, Shaped
<1> QED  BY <1>1, <1>2 DEF Elsewhere

LEMMA WriteEffect ==
  ASSUME MarkInv, NEW r \in Runs, Write(r)
  PROVE  LET k == Key(Doc(r))
             f == SeedFile(Doc(r))
         IN Appends(k, f) \/ Creates(k, TRUE, <<f>>)
<1>1. plans' = Upserted(Doc(r))  BY DEF Write
<1>2. PICK k : k = Key(Doc(r))  OBVIOUS
<1>3. PICK f : f = SeedFile(Doc(r))  OBVIOUS
<1>4. CASE k \in DOMAIN plans
  <2> DEFINE more == Append(plans[k].attachments, f)
  <2>1. plans' = With(k, [plans[k] EXCEPT !.attachments = more])
    BY <1>1, <1>2, <1>3, <1>4 DEF Upserted
  <2>2. With(k, [plans[k] EXCEPT !.attachments = more]) = [plans EXCEPT ![k].attachments = more]
    <3> HIDE DEF more
    <3> QED  BY <1>4 DEF With
  <2>3. plans' = [plans EXCEPT ![k].attachments = more]  BY <2>1, <2>2
  <2>4. Appends(k, f)  BY <1>4, <2>3, Replaces DEF Appends
  <2> QED  BY <1>2, <1>3, <2>4
<1>5. CASE k \notin DOMAIN plans
  <2> DEFINE old  == [seedSource |-> TRUE, attachments |-> <<>>]
             more == Append(old.attachments, f)
  <2>1. plans' = With(k, [old EXCEPT !.attachments = more])
    BY <1>1, <1>2, <1>3, <1>5 DEF Upserted
  <2>2. more = <<f>>  OBVIOUS
  <2> HIDE DEF more
  <2>3. [old EXCEPT !.attachments = more] = [seedSource |-> TRUE, attachments |-> more]
    BY FilesReplaced
  <2>4. plans' = With(k, [seedSource |-> TRUE, attachments |-> <<f>>])
    BY <2>1, <2>2, <2>3
  <2>5. Creates(k, TRUE, <<f>>)  BY <1>5, <2>4 DEF Creates, With, Elsewhere
  <2> QED  BY <1>2, <1>3, <2>5
<1> QED  BY <1>4, <1>5

LEMMA CreateEffect ==
  ASSUME NEW k, CreatePlan(k)
  PROVE  Creates(k, FALSE, <<>>)
  BY DEF CreatePlan, Creates, With, Elsewhere

LEMMA UploadEffect ==
  ASSUME MarkInv, NEW k \in DOMAIN plans, NEW name, Upload(k, name)
  PROVE  Appends(k, [name |-> name, seedSource |-> FALSE, analyzed |-> FALSE])
<1>1. PICK f : f = [name |-> name, seedSource |-> FALSE, analyzed |-> FALSE]  OBVIOUS
<1>2. plans' = [plans EXCEPT ![k].attachments = Append(plans[k].attachments, f)]
  BY <1>1 DEF Upload
<1> QED  BY <1>1, <1>2, Replaces DEF Appends

LEMMA AnalyzeEffect ==
  ASSUME MarkInv, SeedInv, NEW k \in DOMAIN plans, NEW i \in DOMAIN plans[k].attachments,
         Analyze(k, i)
  PROVE  Judges(k)
<1> DEFINE old  == plans[k].attachments
           more == [old EXCEPT ![i].analyzed = TRUE]
<1>1. plans' = [plans EXCEPT ![k].attachments = more]  BY DEF Analyze
<1>2. old \in Seq(File)  BY DEF SeedInv
<1>3. /\ DOMAIN plans' = DOMAIN plans /\ Elsewhere(k)
      /\ plans'[k].seedSource = plans[k].seedSource
      /\ plans'[k].attachments = more
  <2> HIDE DEF more
  <2> QED  BY <1>1, Replaces
<1>4. i \in DOMAIN old  OBVIOUS
<1> HIDE DEF old
<1>5. old[i] \in File  BY <1>2, <1>4
<1>6. /\ [old[i] EXCEPT !.analyzed = TRUE].name = old[i].name
      /\ [old[i] EXCEPT !.analyzed = TRUE].seedSource = old[i].seedSource
  BY <1>5 DEF File
<1>7. DOMAIN more = DOMAIN old /\ \A j \in DOMAIN old : more[j] = IF j = i THEN [old[i] EXCEPT !.analyzed = TRUE] ELSE old[j]
  BY <1>2, <1>4
<1> QED  BY <1>3, <1>6, <1>7 DEF Judges, old

(* The actions that leave the plans alone.                                  *)
LEMMA QuietRuns ==
  ASSUME NEW r \in Runs,
         Seed(r) \/ FetchBytes(r) \/ FindOne(r) \/ Kill(r) \/ Cleanup(r)
  PROVE  UNCHANGED <<ownerIds, plans, user, touched>>
  BY DEF Seed, FetchBytes, FindOne, Kill, Cleanup

-----------------------------------------------------------------------------
(* Types.                                                                   *)

KeyInv ==
    /\ ownerIds \in OwnerSettings
    /\ \A k \in DOMAIN plans : k[1] \in Owners \cup {p[1] : p \in UserPlans}

LEMMA KeyIsOwned ==
  ASSUME ownerIds \in OwnerSettings, NEW d \in ToSet(Manifest)
  PROVE  Key(d)[1] \in Owners
<1>1. d.tenant \in {"A", "B"}  BY SeedsAssumption DEF Synthetic
<1>2. ownerIds \in Seq(ToSet(ownerIds))  BY SeedsAssumption
<1>3. Len(ownerIds) \in Nat /\ DOMAIN ownerIds = 1..Len(ownerIds)  BY <1>2
<1>4. \A i \in 1..Len(ownerIds) : ownerIds[i] \in Owners
  <2>1. \A i \in 1..Len(ownerIds) : ownerIds[i] \in ToSet(ownerIds)  BY <1>3 DEF ToSet
  <2>2. ToSet(ownerIds) \subseteq Owners  BY Zenon DEF Owners
  <2> QED  BY <2>1, <2>2
<1>5. /\ ResolveOwners["A"] \in Owners
      /\ ResolveOwners["B"] \in Owners
  <2>1. CASE Len(ownerIds) = 0
    BY <2>1 DEF ResolveOwners, Synthetic, Owners
  <2>2. CASE Len(ownerIds) = 1
    BY <1>4, <2>2 DEF ResolveOwners
  <2>3. CASE Len(ownerIds) \notin {0, 1}
    <3>1. 1 \in 1..Len(ownerIds) /\ 2 \in 1..Len(ownerIds)  BY <1>3, <2>3
    <3> QED  BY <1>4, <2>3, <3>1 DEF ResolveOwners
  <2> QED  BY <2>1, <2>2, <2>3
<1>6. ResolveOwners[d.tenant] \in Owners  BY <1>1, <1>5
<1> QED  BY <1>6 DEF Key

LEMMA KeyInit == Init => KeyInv
  BY DEF Init, KeyInv

LEMMA KeyStep == MarkInv /\ SeedInv /\ KeyInv /\ [Next]_vars => KeyInv'
<1> SUFFICES ASSUME MarkInv, SeedInv, KeyInv, [Next]_vars PROVE KeyInv'
  OBVIOUS
<1>1. CASE UNCHANGED <<ownerIds, plans>>
  BY <1>1 DEF KeyInv
<1>2. ASSUME UNCHANGED ownerIds, DOMAIN plans' \subseteq DOMAIN plans PROVE KeyInv'
  BY <1>2 DEF KeyInv
<1>3. ASSUME NEW r \in Runs, Write(r) PROVE KeyInv'
  <2>1. pc[r] = "write" /\ UNCHANGED ownerIds  BY <1>3 DEF Write
  <2>2. Doc(r) \in ToSet(Manifest)  BY <2>1 DEF SeedInv, Doc, ToSet
  <2>3. Key(Doc(r))[1] \in Owners  BY <2>2, KeyIsOwned DEF KeyInv
  <2>4. DOMAIN plans' \subseteq {Key(Doc(r))} \cup DOMAIN plans
    BY <1>3, WriteEffect DEF Appends, Creates
  <2> QED  BY <2>1, <2>3, <2>4 DEF KeyInv
<1>4. ASSUME NEW r \in Runs, DeleteMany(r) PROVE KeyInv'
  BY <1>2, <1>4 DEF DeleteMany, Without
<1>5. ASSUME NEW k \in UserPlans, CreatePlan(k) PROVE KeyInv'
  BY <1>5, CreateEffect DEF Creates, CreatePlan, KeyInv
<1>6. ASSUME NEW k \in DOMAIN plans, NEW name \in UserFiles, Upload(k, name) PROVE KeyInv'
  BY <1>2, <1>6, UploadEffect DEF Appends, Upload
<1>7. ASSUME NEW k \in DOMAIN plans, NEW i \in DOMAIN plans[k].attachments, Analyze(k, i)
      PROVE  KeyInv'
  BY <1>2, <1>7, AnalyzeEffect DEF Judges, Analyze
<1>8. CASE UNCHANGED vars  BY <1>1, <1>8 DEF vars
<1> QED  BY <1>1, <1>3, <1>4, <1>5, <1>6, <1>7, <1>8, QuietRuns DEF Next

(* What the runs have at hand, the users' bound and the history.            *)
DataInv ==
    /\ dry \subseteq Runs
    /\ at \in [Runs -> 0..Len(Manifest)]
    /\ fetched \in [Runs -> SUBSET DOMAIN Manifest]
    /\ done \in [Runs -> SUBSET DOMAIN Manifest]
    /\ userActions \in 0..MaxUserActions
    /\ created \subseteq UserPlans
    /\ touched \in BOOLEAN /\ overlapped \in BOOLEAN /\ seeded \in BOOLEAN

LEMMA ManifestIs == /\ Len(Manifest) \in Nat /\ DOMAIN Manifest = 1..Len(Manifest)
                    /\ 0 \in 0..Len(Manifest) /\ 1 \in 0..Len(Manifest)
<1>1. Manifest \in Seq(ToSet(Manifest)) /\ Manifest # <<>>  BY SeedsAssumption
<1>2. Len(Manifest) \in Nat /\ DOMAIN Manifest = 1..Len(Manifest) /\ Len(Manifest) # 0
  BY <1>1
<1> QED  BY <1>2

LEMMA DataInit == Init => DataInv
<1> SUFFICES ASSUME Init PROVE DataInv
  OBVIOUS
<1>1. at = [r \in Runs |-> 0] /\ 0 \in 0..Len(Manifest)  BY ManifestIs DEF Init
<1>2. fetched = [r \in Runs |-> {}] /\ done = [r \in Runs |-> {}]  BY DEF Init
<1>3. userActions = 0 /\ 0 \in 0..MaxUserActions  BY SeedsAssumption DEF Init
<1>4. at \in [Runs -> 0..Len(Manifest)]  BY <1>1
<1>5. fetched \in [Runs -> SUBSET DOMAIN Manifest] /\ done \in [Runs -> SUBSET DOMAIN Manifest]
  BY <1>2
<1> QED  BY <1>3, <1>4, <1>5 DEF Init, DataInv

(* The loop goes on with the next document, which there is.                 *)
LEMMA ContinueData ==
  ASSUME DataInv, NEW r \in Runs, NEW got, at[r] \in DOMAIN Manifest, Continue(r, got)
  PROVE  at' \in [Runs -> 0..Len(Manifest)] /\ seeded' \in BOOLEAN
<1>1. CASE at[r] < Len(Manifest)
  <2>1. at' = [at EXCEPT ![r] = at[r] + 1] /\ UNCHANGED seeded  BY <1>1 DEF Continue
  <2>2. at[r] + 1 \in 0..Len(Manifest)  BY <1>1, ManifestIs
  <2> QED  BY <2>1, <2>2 DEF DataInv
<1>2. CASE ~(at[r] < Len(Manifest))
  <2>1. UNCHANGED at /\ seeded' = (r \notin dry /\ got = DOMAIN Manifest)
    BY <1>2 DEF Continue
  <2>2. seeded' \in BOOLEAN  BY <2>1, Zenon
  <2> QED  BY <2>1, <2>2 DEF DataInv
<1> QED  BY <1>1, <1>2

LEMMA DataStep == SeedInv /\ DataInv /\ [Next]_vars => DataInv'
<1> SUFFICES ASSUME SeedInv, DataInv, [Next]_vars PROVE DataInv'
  OBVIOUS
<1>0. \A r \in Runs : pc[r] \in {"fetch", "find", "write"} => at[r] \in DOMAIN Manifest
  BY DEF SeedInv
<1>1. ASSUME NEW r \in Runs, Seed(r) \/ Cleanup(r) PROVE DataInv'
  <2>1. /\ dry' \in {dry, dry \cup {r}} /\ overlapped' = (overlapped \/ Busy # {})
        /\ at' = [at EXCEPT ![r] = 1] \/ UNCHANGED at
        /\ UNCHANGED <<fetched, done, user, touched, seeded>>
    BY <1>1 DEF Seed, Cleanup, Begin
  <2>2. overlapped' \in BOOLEAN  BY <2>1, Zenon
  <2>3. at' \in [Runs -> 0..Len(Manifest)]  BY <2>1, ManifestIs DEF DataInv
  <2> QED  BY <2>1, <2>2, <2>3 DEF DataInv, user
<1>2. ASSUME NEW r \in Runs, FetchBytes(r) PROVE DataInv'
  <2>1. at[r] \in DOMAIN Manifest  BY <1>0, <1>2 DEF FetchBytes
  <2>2. /\ UNCHANGED fetched \/ fetched' = [fetched EXCEPT ![r] = @ \cup {at[r]}]
        /\ (\E got : Continue(r, got)) \/ UNCHANGED <<at, seeded>>
        /\ UNCHANGED <<dry, done, user, touched, overlapped>>
    BY <1>2 DEF FetchBytes
  <2>3. at' \in [Runs -> 0..Len(Manifest)] /\ seeded' \in BOOLEAN
    BY <2>1, <2>2, ContinueData DEF DataInv
  <2>4. fetched' \in [Runs -> SUBSET DOMAIN Manifest]  BY <2>1, <2>2 DEF DataInv
  <2> QED  BY <2>2, <2>3, <2>4 DEF DataInv, user
<1>3. ASSUME NEW r \in Runs, FindOne(r) \/ Write(r) PROVE DataInv'
  <2>1. at[r] \in DOMAIN Manifest  BY <1>0, <1>3 DEF FindOne, Write
  <2>2. /\ UNCHANGED done \/ done' = [done EXCEPT ![r] = @ \cup {at[r]}]
        /\ (\E got : Continue(r, got)) \/ UNCHANGED <<at, seeded>>
        /\ UNCHANGED <<dry, fetched, user, touched, overlapped>>
    BY <1>3 DEF FindOne, Write
  <2>3. at' \in [Runs -> 0..Len(Manifest)] /\ seeded' \in BOOLEAN
    BY <2>1, <2>2, ContinueData DEF DataInv
  <2>4. done' \in [Runs -> SUBSET DOMAIN Manifest]  BY <2>1, <2>2 DEF DataInv
  <2> QED  BY <2>2, <2>3, <2>4 DEF DataInv, user
<1>4. ASSUME NEW r \in Runs, Kill(r) PROVE DataInv'
  BY <1>4 DEF Kill, DataInv, user
<1>5. ASSUME NEW r \in Runs, DeleteMany(r) PROVE DataInv'
  <2>1. /\ UNCHANGED seeded \/ seeded' = FALSE
        /\ UNCHANGED done \/ done' = [s \in Runs |-> {}]
        /\ UNCHANGED <<dry, at, fetched, user, touched, overlapped>>
    BY <1>5 DEF DeleteMany
  <2> QED  BY <2>1 DEF DataInv, user
<1>6. ASSUME UserAct PROVE userActions' \in 0..MaxUserActions
  BY <1>6, SeedsAssumption DEF UserAct, DataInv
<1>7. ASSUME NEW k \in UserPlans, CreatePlan(k) PROVE DataInv'
  BY <1>6, <1>7 DEF CreatePlan, DataInv, run, history
<1>8. ASSUME NEW k \in DOMAIN plans,
             \/ \E name \in UserFiles : Upload(k, name)
             \/ \E i \in DOMAIN plans[k].attachments : Analyze(k, i)
      PROVE  DataInv'
  <2>1. /\ UserAct /\ touched' = (touched \/ plans[k].seedSource)
        /\ UNCHANGED <<run, created, overlapped, seeded>>
    BY <1>8 DEF Upload, Analyze
  <2>2. touched' \in BOOLEAN  BY <2>1, Zenon
  <2> QED  BY <1>6, <2>1, <2>2 DEF DataInv, run
<1>9. CASE UNCHANGED vars
  BY <1>9 DEF vars, run, user, history, DataInv
<1> QED  BY <1>1, <1>2, <1>3, <1>4, <1>5, <1>7, <1>8, <1>9 DEF Next

(* Every plan belongs to an owner of the settings or a user and its files   *)
(* have the fields the scripts read; a run is at a document of the manifest *)
(* and has fetched and dealt with only such; users and history keep their   *)
(* types.                                                                   *)
THEOREM TypeTheorem == Spec => []TypeOK
<1>1. MarkInv /\ SeedInv /\ KeyInv /\ DataInv => TypeOK
  <2> SUFFICES ASSUME MarkInv, SeedInv, KeyInv, DataInv PROVE TypeOK
    OBVIOUS
  <2>1. ASSUME NEW k \in DOMAIN plans PROVE plans[k] \in Document
    <3>1. /\ Shaped(plans[k]) /\ plans[k].seedSource \in BOOLEAN
          /\ plans[k].attachments \in Seq(File)
      BY DEF MarkInv, SeedInv
    <3> QED  BY <3>1 DEF Shaped, Document
  <2> QED  BY <2>1 DEF TypeOK, KeyInv, SeedInv, DataInv
<1> QED  BY <1>1, MarkInit, MarkStep, SeedInit, SeedStep, KeyInit, KeyStep, DataInit,
            DataStep, PTL DEF Spec

-----------------------------------------------------------------------------
(* A run that does not overlap another still knows what it has looked up.   *)

NoTwins(files) ==
    \A i, j \in DOMAIN files :
        files[i].seedSource /\ files[j].seedSource /\ files[i].name = files[j].name => i = j

HasSeeded(k, name) ==
    /\ k \in DOMAIN plans
    /\ \E i \in DOMAIN plans[k].attachments :
          plans[k].attachments[i].seedSource /\ plans[k].attachments[i].name = name

(* One run at a time, no twins, and a run about to write has found none of  *)
(* its document.                                                            *)
OneRun  == \A r, s \in Busy : r = s
LookedUp == \A r \in Runs : pc[r] = "write" => ~HasSeeded(Key(Doc(r)), Doc(r).name)

IdemInv == ~overlapped => /\ OneRun
                          /\ \A k \in DOMAIN plans : NoTwins(plans[k].attachments)
                          /\ LookedUp

LEMMA IdemInit == Init => IdemInv
<1> SUFFICES ASSUME Init PROVE IdemInv
  OBVIOUS
<1>1. \A r \in Runs : pc[r] = "idle"  BY DEF Init
<1>2. DOMAIN plans = {}  BY DEF Init
<1> QED  BY <1>1, <1>2 DEF IdemInv, OneRun, LookedUp, Busy, HasSeeded

LEMMA TwinsOfAppend ==
  ASSUME NEW files \in Seq(File), NoTwins(files), NEW f \in File,
         f.seedSource => \A i \in DOMAIN files : ~(files[i].seedSource /\ files[i].name = f.name)
  PROVE  NoTwins(Append(files, f))
<1>1. /\ DOMAIN files = 1..Len(files) /\ Len(files) \in Nat
      /\ DOMAIN Append(files, f) = 1..(Len(files) + 1)
      /\ \A i \in 1..Len(files) : Append(files, f)[i] = files[i]
      /\ Append(files, f)[Len(files) + 1] = f
  OBVIOUS
<1> DEFINE more == Append(files, f)
<1> HIDE DEF more
<1> SUFFICES ASSUME NEW i \in 1..(Len(files) + 1), NEW j \in 1..(Len(files) + 1),
                    more[i].seedSource, more[j].seedSource, more[i].name = more[j].name
             PROVE  i = j
  BY <1>1 DEF NoTwins, more
<1>2. CASE i \in 1..Len(files) /\ j \in 1..Len(files)
  BY <1>1, <1>2 DEF NoTwins, more
<1>3. CASE i \notin 1..Len(files)
  <2>1. i = Len(files) + 1 /\ more[i] = f  BY <1>1, <1>3 DEF more
  <2>2. j \notin 1..Len(files)  BY <1>1, <2>1 DEF more
  <2> QED  BY <1>1, <2>1, <2>2
<1>4. CASE i \in 1..Len(files) /\ j \notin 1..Len(files)
  <2>1. j = Len(files) + 1 /\ more[j] = f  BY <1>1, <1>4 DEF more
  <2> QED  BY <1>1, <1>4, <2>1 DEF more
<1> QED  BY <1>2, <1>3, <1>4

(* The plans change, but no document about to be written turns up.          *)
LEMMA SeededByUser ==
  ASSUME SeedInv, NEW k, NEW name,
         \/ UNCHANGED plans
         \/ \E j : \E f \in File : Appends(j, f) /\ ~f.seedSource
         \/ \E j : Judges(j)
         \/ \E j : Creates(j, FALSE, <<>>)
  PROVE  HasSeeded(k, name)' => HasSeeded(k, name)
<1> SUFFICES ASSUME HasSeeded(k, name)' PROVE HasSeeded(k, name)
  OBVIOUS
<1>1. CASE UNCHANGED plans  BY <1>1 DEF HasSeeded
<1>2. ASSUME NEW j, NEW f \in File, Appends(j, f), ~f.seedSource PROVE HasSeeded(k, name)
  <2>1. CASE k # j  BY <1>2, <2>1 DEF HasSeeded, Appends, Elsewhere
  <2>2. CASE k = j
    <3> DEFINE files == plans[k].attachments
    <3>1. files \in Seq(File)  BY <1>2, <2>2 DEF SeedInv, Appends
    <3>2. plans'[k].attachments = Append(files, f)  BY <1>2, <2>2 DEF Appends
    <3> HIDE DEF files
    <3>3. PICK i \in DOMAIN Append(files, f) :
             Append(files, f)[i].seedSource /\ Append(files, f)[i].name = name
      BY <3>2 DEF HasSeeded
    <3>4. i \in DOMAIN files /\ Append(files, f)[i] = files[i]  BY <1>2, <3>1, <3>3
    <3>5. files[i].seedSource /\ files[i].name = name  BY <3>3, <3>4
    <3> QED  BY <1>2, <2>2, <3>4, <3>5 DEF HasSeeded, Appends, files
  <2> QED  BY <2>1, <2>2
<1>3. ASSUME NEW j, Judges(j) PROVE HasSeeded(k, name)
  BY <1>3 DEF HasSeeded, Judges, Elsewhere
<1>4. ASSUME NEW j, Creates(j, FALSE, <<>>) PROVE HasSeeded(k, name)
  <2>1. plans'[j].attachments = <<>>  BY <1>4 DEF Creates
  <2>2. k # j
    <3> SUFFICES ASSUME k = j PROVE FALSE
      OBVIOUS
    <3>1. DOMAIN plans'[k].attachments = {}  BY <2>1
    <3> QED  BY <3>1 DEF HasSeeded
  <2> QED  BY <1>4, <2>2 DEF HasSeeded, Creates, Elsewhere
<1> QED  BY <1>1, <1>2, <1>3, <1>4

LEMMA TwinsByUser ==
  ASSUME SeedInv, \A k \in DOMAIN plans : NoTwins(plans[k].attachments),
         \/ UNCHANGED plans
         \/ \E j : \E f \in File : Appends(j, f) /\ ~f.seedSource
         \/ \E j : Judges(j)
         \/ \E j : Creates(j, FALSE, <<>>)
  PROVE  \A k \in DOMAIN plans' : NoTwins(plans'[k].attachments)
<1>1. CASE UNCHANGED plans  BY <1>1
<1>2. ASSUME NEW j, NEW f \in File, Appends(j, f), ~f.seedSource,
             NEW k \in DOMAIN plans'
      PROVE  NoTwins(plans'[k].attachments)
  <2>1. CASE k # j  BY <1>2, <2>1 DEF Appends, Elsewhere
  <2>2. CASE k = j
    <3>1. plans[k].attachments \in Seq(File) /\ NoTwins(plans[k].attachments)
      BY <1>2, <2>2 DEF SeedInv, Appends
    <3>2. NoTwins(Append(plans[k].attachments, f))  BY <1>2, <3>1, TwinsOfAppend
    <3> QED  BY <1>2, <2>2, <3>2 DEF Appends
  <2> QED  BY <2>1, <2>2
<1>3. ASSUME NEW j, Judges(j), NEW k \in DOMAIN plans' PROVE NoTwins(plans'[k].attachments)
  <2>1. CASE k # j  BY <1>3, <2>1 DEF Judges, Elsewhere
  <2>2. CASE k = j  BY <1>3, <2>2 DEF Judges, NoTwins
  <2> QED  BY <2>1, <2>2
<1>4. ASSUME NEW j, Creates(j, FALSE, <<>>), NEW k \in DOMAIN plans'
      PROVE  NoTwins(plans'[k].attachments)
  <2>1. CASE k # j  BY <1>4, <2>1 DEF Creates, Elsewhere
  <2>2. CASE k = j
    <3>1. DOMAIN plans'[k].attachments = {}  BY <1>4, <2>2 DEF Creates
    <3> QED  BY <3>1 DEF NoTwins
  <2> QED  BY <2>1, <2>2
<1> QED  BY <1>1, <1>2, <1>3, <1>4

(* A run that writes adds the one file it has looked for.                   *)
LEMMA TwinsByWrite ==
  ASSUME SeedInv, \A k \in DOMAIN plans : NoTwins(plans[k].attachments),
         NEW k, NEW f \in File, ~HasSeeded(k, f.name), Appends(k, f) \/ Creates(k, TRUE, <<f>>),
         NEW j \in DOMAIN plans'
  PROVE  NoTwins(plans'[j].attachments)
<1>1. CASE j # k  BY <1>1 DEF Appends, Creates, Elsewhere
<1>2. CASE j = k /\ Appends(k, f)
  <2>1. plans[k].attachments \in Seq(File) /\ NoTwins(plans[k].attachments)
    BY <1>2 DEF SeedInv, Appends
  <2>2. \A i \in DOMAIN plans[k].attachments :
           ~(plans[k].attachments[i].seedSource /\ plans[k].attachments[i].name = f.name)
    BY <1>2 DEF HasSeeded, Appends
  <2>3. NoTwins(Append(plans[k].attachments, f))  BY <2>1, <2>2, TwinsOfAppend
  <2> QED  BY <1>2, <2>3 DEF Appends
<1>3. CASE j = k /\ Creates(k, TRUE, <<f>>)
  <2>1. plans'[j].attachments = <<f>>  BY <1>3 DEF Creates
  <2>2. DOMAIN plans'[j].attachments = {1}  BY <2>1
  <2> QED  BY <2>2 DEF NoTwins
<1> QED  BY <1>1, <1>2, <1>3

LEMMA IdemByUser ==
  ASSUME SeedInv, IdemInv, UNCHANGED <<ownerIds, run, overlapped>>,
         \/ UNCHANGED plans
         \/ \E j : \E f \in File : Appends(j, f) /\ ~f.seedSource
         \/ \E j : Judges(j)
         \/ \E j : Creates(j, FALSE, <<>>)
  PROVE  IdemInv'
<1> SUFFICES ASSUME ~overlapped PROVE OneRun' /\ LookedUp' /\ \A k \in DOMAIN plans' : NoTwins(plans'[k].attachments)
  BY DEF IdemInv
<1>1. OneRun'  BY DEF IdemInv, OneRun, Busy, run
<1>2. \A k \in DOMAIN plans' : NoTwins(plans'[k].attachments)
  BY TwinsByUser DEF IdemInv
<1>3. \A k, name : HasSeeded(k, name)' => HasSeeded(k, name)  BY SeededByUser
<1>4. LookedUp'
  <2>1. \A r : Key(Doc(r))' = Key(Doc(r)) /\ Doc(r)' = Doc(r)
    BY DEF Key, Doc, ResolveOwners, run
  <2> QED  BY <1>3, <2>1 DEF IdemInv, LookedUp, run
<1> QED  BY <1>1, <1>2, <1>4

LEMMA ContinueGoes ==
  ASSUME NEW r \in Runs, NEW got, Continue(r, got), SeedInv
  PROVE  /\ pc' \in [Runs -> {"idle", "fetch", "find", "write", "delete", "over"}]
         /\ pc'[r] \in {"fetch", "over"}
         /\ \A s \in Runs : s # r => pc'[s] = pc[s] /\ at'[s] = at[s]
  BY DEF Continue, Goto, SeedInv

(* Of the runs only r moves, and it was under way or is alone.              *)
LEMMA OneRunStays ==
  ASSUME OneRun, NEW r \in Runs, \A s \in Runs : s # r => pc'[s] = pc[s],
         r \in Busy \/ Busy = {}
  PROVE  OneRun'
  BY DEF OneRun, Busy

(* A run moves, but not to its write; nothing is added to the plans.        *)
LEMMA IdemByRun ==
  ASSUME SeedInv, IdemInv, UNCHANGED ownerIds, NEW r \in Runs,
         \A s \in Runs : s # r => pc'[s] = pc[s] /\ at'[s] = at[s],
         \/ r \in Busy /\ UNCHANGED overlapped
         \/ overlapped' = (overlapped \/ Busy # {}),
         pc'[r] # "write" \/ ~HasSeeded(Key(Doc(r)), Doc(r).name)',
         \A k \in DOMAIN plans' : k \in DOMAIN plans /\ plans'[k] = plans[k]
  PROVE  IdemInv'
<1> SUFFICES ASSUME ~overlapped' PROVE OneRun' /\ LookedUp' /\ \A k \in DOMAIN plans' : NoTwins(plans'[k].attachments)
  BY DEF IdemInv
<1>0. ~overlapped  OBVIOUS
<1>1. OneRun'  BY <1>0, OneRunStays DEF IdemInv
<1>2. \A k \in DOMAIN plans' : NoTwins(plans'[k].attachments)
  BY <1>0 DEF IdemInv
<1>3. ASSUME NEW s \in Runs, s # r, pc'[s] = "write" PROVE ~HasSeeded(Key(Doc(s)), Doc(s).name)'
  <2>1. pc[s] = "write" /\ at'[s] = at[s]  BY <1>3
  <2>2. ~HasSeeded(Key(Doc(s)), Doc(s).name)  BY <1>0, <2>1 DEF IdemInv, LookedUp
  <2>3. Key(Doc(s))' = Key(Doc(s)) /\ Doc(s)' = Doc(s)
    BY <2>1 DEF Key, Doc, ResolveOwners
  <2> QED  BY <2>2, <2>3 DEF HasSeeded
<1> QED  BY <1>1, <1>2, <1>3 DEF LookedUp

LEMMA IdemStep == MarkInv /\ SeedInv /\ IdemInv /\ [Next]_vars => IdemInv'
<1> SUFFICES ASSUME MarkInv, SeedInv, IdemInv, [Next]_vars PROVE IdemInv'
  OBVIOUS
<1>1. ASSUME NEW r \in Runs, Seed(r) \/ Cleanup(r) PROVE IdemInv'
  <2>1. /\ \A s \in Runs : s # r => pc'[s] = pc[s] /\ at'[s] = at[s]
        /\ pc'[r] # "write" /\ overlapped' = (overlapped \/ Busy # {})
        /\ UNCHANGED <<ownerIds, plans>>
    BY <1>1 DEF Seed, Cleanup, Begin, Goto, SeedInv
  <2> QED  BY <2>1, IdemByRun
<1>2. ASSUME NEW r \in Runs, FetchBytes(r) PROVE IdemInv'
  <2>1. r \in Busy /\ UNCHANGED <<ownerIds, plans, overlapped>>
    BY <1>2 DEF FetchBytes, Busy
  <2>2. /\ \A s \in Runs : s # r => pc'[s] = pc[s] /\ at'[s] = at[s]
        /\ pc'[r] # "write"
    <3>1. CASE Goto(r, "find") /\ UNCHANGED at  BY <3>1 DEF Goto, SeedInv
    <3> QED  BY <1>2, <3>1, ContinueGoes DEF FetchBytes
  <2> QED  BY <2>1, <2>2, IdemByRun
<1>3. ASSUME NEW r \in Runs, FindOne(r) PROVE IdemInv'
  <2>1. r \in Busy /\ UNCHANGED <<ownerIds, plans, overlapped>>
    BY <1>3 DEF FindOne, Busy
  <2>2. CASE Continue(r, fetched[r])
    <3>1. /\ \A s \in Runs : s # r => pc'[s] = pc[s] /\ at'[s] = at[s]
          /\ pc'[r] # "write"
      BY <2>2, ContinueGoes
    <3> QED  BY <2>1, <3>1, IdemByRun
  <2>3. CASE ~HasFile(Key(Doc(r)), Doc(r).name) /\ Goto(r, "write") /\ UNCHANGED at
    <3>1. \A s \in Runs : s # r => pc'[s] = pc[s] /\ at'[s] = at[s]
      BY <2>3 DEF Goto, SeedInv
    <3>2. ~HasSeeded(Key(Doc(r)), Doc(r).name)  BY <2>3 DEF HasFile, HasSeeded
    <3>3. Key(Doc(r))' = Key(Doc(r)) /\ Doc(r)' = Doc(r)
      BY <2>1, <2>3 DEF Key, Doc, ResolveOwners
    <3>4. ~HasSeeded(Key(Doc(r)), Doc(r).name)'  BY <2>1, <3>2, <3>3 DEF HasSeeded
    <3> QED  BY <2>1, <3>1, <3>4, IdemByRun
  <2> QED  BY <1>3, <2>2, <2>3 DEF FindOne
<1>4. ASSUME NEW r \in Runs, Write(r) PROVE IdemInv'
  <2>0. /\ pc[r] = "write" /\ Continue(r, fetched[r]) /\ UNCHANGED <<ownerIds, overlapped>>
    BY <1>4 DEF Write
  <2> SUFFICES ASSUME ~overlapped PROVE OneRun' /\ LookedUp' /\ \A k \in DOMAIN plans' : NoTwins(plans'[k].attachments)
    BY <2>0 DEF IdemInv
  <2>1. \A s \in Runs : pc[s] \notin {"idle", "over"} => s = r
    BY <2>0 DEF IdemInv, OneRun, Busy
  <2>2. OneRun' /\ LookedUp'
    <3>1. pc'[r] # "write" /\ \A s \in Runs : s # r => pc'[s] \in {"idle", "over"}
      BY <2>0, <2>1, ContinueGoes
    <3> QED  BY <3>1 DEF OneRun, LookedUp, Busy
  <2>3. PICK k : k = Key(Doc(r))  OBVIOUS
  <2>4. PICK f : f = SeedFile(Doc(r))  OBVIOUS
  <2>5. f \in File /\ f.name = Doc(r).name
    BY <2>0, <2>4 DEF SeedFile, File, ToSet, Doc, SeedInv
  <2>6. ~HasSeeded(k, f.name)  BY <2>0, <2>3, <2>5 DEF IdemInv, LookedUp
  <2>7. Appends(k, f) \/ Creates(k, TRUE, <<f>>)  BY <1>4, <2>3, <2>4, WriteEffect
  <2>8. \A j \in DOMAIN plans : NoTwins(plans[j].attachments)  BY DEF IdemInv
  <2>9. \A j \in DOMAIN plans' : NoTwins(plans'[j].attachments)
    BY <2>5, <2>6, <2>7, <2>8, TwinsByWrite
  <2> QED  BY <2>2, <2>9
<1>5. ASSUME NEW r \in Runs, Kill(r) \/ DeleteMany(r) PROVE IdemInv'
  <2>1. /\ \A s \in Runs : s # r => pc'[s] = pc[s] /\ at'[s] = at[s]
        /\ pc'[r] # "write" /\ r \in Busy /\ UNCHANGED <<ownerIds, overlapped>>
    BY <1>5 DEF Kill, DeleteMany, Goto, SeedInv, Busy
  <2>2. \A k \in DOMAIN plans' : k \in DOMAIN plans /\ plans'[k] = plans[k]
    BY <1>5 DEF Kill, DeleteMany, Without
  <2> QED  BY <2>1, <2>2, IdemByRun
<1>6. ASSUME NEW k \in UserPlans, CreatePlan(k) PROVE IdemInv'
  <2>1. UNCHANGED <<ownerIds, run, overlapped>>  BY <1>6 DEF CreatePlan, history
  <2> QED  BY <1>6, <2>1, CreateEffect, IdemByUser
<1>7. ASSUME NEW k \in DOMAIN plans, NEW name \in UserFiles, Upload(k, name) PROVE IdemInv'
  <2>1. PICK f : f = [name |-> name, seedSource |-> FALSE, analyzed |-> FALSE]  OBVIOUS
  <2>2. f \in File /\ ~f.seedSource  BY <2>1 DEF File
  <2>3. Appends(k, f)  BY <1>7, <2>1, UploadEffect
  <2>4. UNCHANGED <<ownerIds, run, overlapped>>  BY <1>7 DEF Upload
  <2> QED  BY <2>2, <2>3, <2>4, IdemByUser
<1>8. ASSUME NEW k \in DOMAIN plans, NEW i \in DOMAIN plans[k].attachments, Analyze(k, i)
      PROVE  IdemInv'
  <2>1. UNCHANGED <<ownerIds, run, overlapped>>  BY <1>8 DEF Analyze
  <2> QED  BY <1>8, <2>1, AnalyzeEffect, IdemByUser
<1>9. CASE UNCHANGED vars
  BY <1>9, IdemByUser DEF vars, history
<1> QED  BY <1>1, <1>2, <1>3, <1>4, <1>5, <1>6, <1>7, <1>8, <1>9 DEF Next

(* However often the seeder is killed and started again, no plan gets the   *)
(* same seeded file twice, unless two runs overlap.                         *)
THEOREM IdempotentTheorem == Spec => []SeedIdempotent
<1>1. IdemInv => SeedIdempotent
  BY DEF IdemInv, NoTwins, SeedIdempotent
<1> QED  BY <1>1, MarkInit, MarkStep, SeedInit, SeedStep, IdemInit, IdemStep, PTL DEF Spec

-----------------------------------------------------------------------------
(* What a finished seeding leaves.                                          *)

(* Seeded plans have files, all of them as verify wants them until a user   *)
(* comes by.                                                                *)
FilesInv ==
    /\ IsFiniteSet(DOMAIN plans)
    /\ \A k \in DOMAIN plans : plans[k].seedSource =>
          /\ 1 \in DOMAIN plans[k].attachments
          /\ ~touched => \A i \in DOMAIN plans[k].attachments : VerifyFile(plans[k].attachments[i])

LEMMA FilesInit == Init => FilesInv
<1> SUFFICES ASSUME Init PROVE FilesInv
  OBVIOUS
<1>1. DOMAIN plans = {}  BY DEF Init
<1> QED  BY <1>1, FS_EmptySet DEF FilesInv

LEMMA AppendOnly ==
  ASSUME NEW files \in Seq(File), NEW f \in File
  PROVE  /\ DOMAIN Append(files, f) = DOMAIN files \cup {Len(files) + 1}
         /\ \A i \in DOMAIN files : Append(files, f)[i] = files[i]
         /\ Append(files, f)[Len(files) + 1] = f
         /\ 1 \in DOMAIN Append(files, f)
OBVIOUS

LEMMA FilesStep == MarkInv /\ SeedInv /\ FilesInv /\ [Next]_vars => FilesInv'
<1> SUFFICES ASSUME MarkInv, SeedInv, FilesInv, [Next]_vars PROVE FilesInv'
  OBVIOUS
<1>1. CASE UNCHANGED <<plans, touched>>
  BY <1>1 DEF FilesInv, VerifyFile
<1>2. ASSUME NEW r \in Runs, Write(r) PROVE FilesInv'
  <2>1. PICK k : k = Key(Doc(r))  OBVIOUS
  <2>2. PICK f : f = SeedFile(Doc(r))  OBVIOUS
  <2>3. f \in File /\ VerifyFile(f) /\ UNCHANGED touched
    BY <1>2, <2>2 DEF Write, SeedFile, File, ToSet, Doc, SeedInv, VerifyFile
  <2>4. CASE Appends(k, f)
    <3>1. plans[k].attachments \in Seq(File)  BY <2>4 DEF SeedInv, Appends
    <3>2. plans'[k].attachments = Append(plans[k].attachments, f)  BY <2>4 DEF Appends
    <3>3. plans[k].seedSource => /\ 1 \in DOMAIN plans'[k].attachments
                                 /\ ~touched => \A i \in DOMAIN plans'[k].attachments :
                                                   VerifyFile(plans'[k].attachments[i])
      <4>1. \A i \in DOMAIN plans'[k].attachments :
               \/ i \in DOMAIN plans[k].attachments /\ plans'[k].attachments[i] = plans[k].attachments[i]
               \/ plans'[k].attachments[i] = f
        BY <2>3, <3>1, <3>2, AppendOnly
      <4>2. 1 \in DOMAIN plans'[k].attachments  BY <2>3, <3>1, <3>2, AppendOnly
      <4> QED  BY <2>3, <2>4, <4>1, <4>2, Zenon DEF FilesInv, Appends
    <3> QED  BY <2>3, <2>4, <3>3, Zenon DEF FilesInv, Appends, Elsewhere, VerifyFile
  <2>5. CASE Creates(k, TRUE, <<f>>)
    <3>1. plans'[k].attachments = <<f>>  BY <2>5 DEF Creates
    <3>2. 1 \in DOMAIN plans'[k].attachments /\
          \A i \in DOMAIN plans'[k].attachments : VerifyFile(plans'[k].attachments[i])
      BY <2>3, <3>1
    <3>3. IsFiniteSet(DOMAIN plans')  BY <2>5, FS_AddElement DEF Creates, FilesInv
    <3> QED  BY <2>3, <2>5, <3>2, <3>3, Zenon DEF FilesInv, Creates, Elsewhere, VerifyFile
  <2> QED  BY <1>2, <2>1, <2>2, <2>4, <2>5, WriteEffect
<1>3. ASSUME NEW r \in Runs, DeleteMany(r) PROVE FilesInv'
  <2>1. /\ DOMAIN plans' \subseteq DOMAIN plans /\ UNCHANGED touched
        /\ \A k \in DOMAIN plans' : plans'[k] = plans[k]
    BY <1>3 DEF DeleteMany, Without
  <2>2. IsFiniteSet(DOMAIN plans')  BY <2>1, FS_Subset DEF FilesInv
  <2> QED  BY <2>1, <2>2 DEF FilesInv, VerifyFile
<1>4. ASSUME NEW k \in UserPlans, CreatePlan(k) PROVE FilesInv'
  <2>1. Creates(k, FALSE, <<>>) /\ UNCHANGED touched
    BY <1>4, CreateEffect DEF CreatePlan, history
  <2>2. IsFiniteSet(DOMAIN plans')  BY <2>1, FS_AddElement DEF Creates, FilesInv
  <2>3. ~plans'[k].seedSource  BY <2>1 DEF Creates
  <2> QED  BY <2>1, <2>2, <2>3 DEF FilesInv, Creates, Elsewhere, VerifyFile
<1>5. ASSUME NEW k \in DOMAIN plans, NEW name \in UserFiles, Upload(k, name) PROVE FilesInv'
  <2>1. PICK f : f = [name |-> name, seedSource |-> FALSE, analyzed |-> FALSE]  OBVIOUS
  <2>2. f \in File  BY <2>1 DEF File
  <2>3. Appends(k, f)  BY <1>5, <2>1, UploadEffect
  <2>4. touched' = (touched \/ plans[k].seedSource)  BY <1>5 DEF Upload
  <2>5. plans[k].attachments \in Seq(File)  BY DEF SeedInv
  <2>6. 1 \in DOMAIN plans'[k].attachments  BY <2>2, <2>3, <2>5, AppendOnly DEF Appends
  <2> QED  BY <2>3, <2>4, <2>6 DEF FilesInv, Appends, Elsewhere, VerifyFile
<1>6. ASSUME NEW k \in DOMAIN plans, NEW i \in DOMAIN plans[k].attachments, Analyze(k, i)
      PROVE  FilesInv'
  <2>1. Judges(k)  BY <1>6, AnalyzeEffect
  <2>2. touched' = (touched \/ plans[k].seedSource)  BY <1>6 DEF Analyze
  <2> QED  BY <2>1, <2>2 DEF FilesInv, Judges, Elsewhere, VerifyFile
<1>7. CASE UNCHANGED vars  BY <1>1, <1>7 DEF vars, history
<1> QED  BY <1>1, <1>2, <1>3, <1>4, <1>5, <1>6, <1>7, QuietRuns DEF Next

(* A run that is not dry has dealt with what it has fetched, except the     *)
(* document at hand, unless another one cleans up behind it; after a        *)
(* finished seeding every document is there.                                *)
Dealt(r) ==
    /\ pc[r] = "idle" => fetched[r] = {}
    /\ ~overlapped /\ r \notin dry =>
         /\ pc[r] = "fetch" => fetched[r] \subseteq done[r]
         /\ pc[r] \in {"find", "write"} => fetched[r] \subseteq done[r] \cup {at[r]}

AllThere == \A i \in DOMAIN Manifest : HasFile(Key(Manifest[i]), Manifest[i].name)

DealtInv ==
    /\ fetched \in [Runs -> SUBSET Nat]
    /\ \A r \in Runs : Dealt(r)
    /\ seeded /\ ~overlapped => AllThere

LEMMA DealtInit == Init => DealtInv
<1> SUFFICES ASSUME Init PROVE DealtInv
  OBVIOUS
<1>1. /\ pc = [r \in Runs |-> "idle"] /\ fetched = [r \in Runs |-> {}] /\ ~seeded
  BY DEF Init
<1> QED  BY <1>1 DEF DealtInv, Dealt

LEMMA StaysThere == Kept /\ UNCHANGED ownerIds /\ AllThere => AllThere'
<1> SUFFICES ASSUME Kept, UNCHANGED ownerIds, AllThere PROVE AllThere'
  OBVIOUS
<1>1. \A d : Key(d)' = Key(d)  BY DEF Key, ResolveOwners
<1> QED  BY <1>1 DEF AllThere, Kept

(* A run that goes on has dealt with what it fetched: if it ends, and the   *)
(* seeding counts, every document is there.                                 *)
LEMMA DealtByContinue ==
  ASSUME SeedInv, SeedInv', DealtInv, Kept, UNCHANGED <<ownerIds, dry, overlapped>>,
         NEW r \in Runs, NEW got, Continue(r, got), fetched' \in [Runs -> SUBSET Nat],
         got = fetched'[r],
         ~overlapped /\ r \notin dry => got \subseteq done'[r],
         \A s \in Runs : s # r => fetched'[s] = fetched[s] /\ done[s] \subseteq done'[s]
  PROVE  DealtInv'
<1>1. /\ pc'[r] \in {"fetch", "over"}
      /\ \A s \in Runs : s # r => pc'[s] = pc[s] /\ at'[s] = at[s]
  BY ContinueGoes
<1>2. ASSUME NEW s \in Runs PROVE Dealt(s)'
  <2>1. CASE s # r
    <3>1. Dealt(s)  BY DEF DealtInv
    <3> QED  BY <1>1, <2>1, <3>1 DEF Dealt
  <2>2. CASE s = r
    BY <1>1, <2>2 DEF Dealt
  <2> QED  BY <2>1, <2>2
<1>3. ASSUME seeded', ~overlapped PROVE AllThere'
  <2>1. CASE seeded  BY <1>3, <2>1, StaysThere DEF DealtInv
  <2>2. CASE ~seeded
    <3>1. r \notin dry /\ got = DOMAIN Manifest  BY <1>3, <2>2 DEF Continue
    <3>2. DOMAIN Manifest \subseteq done'[r]  BY <1>3, <3>1
    <3>3. \A i \in done'[r] : HasFile(Key(Manifest[i]), Manifest[i].name)'
      BY DEF SeedInv, SeededIsThere
    <3> QED  BY <3>2, <3>3 DEF AllThere
  <2> QED  BY <2>1, <2>2
<1> QED  BY <1>2, <1>3 DEF DealtInv

(* Any other step of a run, which takes nothing away.                       *)
LEMMA DealtByMove ==
  ASSUME DealtInv, Kept, UNCHANGED <<ownerIds, done>>, NEW r \in Runs,
         \A s \in Runs : s # r => /\ pc'[s] = pc[s] /\ at'[s] = at[s]
                                  /\ fetched'[s] = fetched[s]
                                  /\ s \in dry' <=> s \in dry,
         overlapped => overlapped', seeded' => seeded,
         fetched' \in [Runs -> SUBSET Nat], Dealt(r)'
  PROVE  DealtInv'
<1>1. ASSUME NEW s \in Runs, s # r PROVE Dealt(s)'
  <2>1. Dealt(s)  BY DEF DealtInv
  <2> QED  BY <1>1, <2>1 DEF Dealt
<1>2. seeded' /\ ~overlapped' => AllThere'  BY StaysThere DEF DealtInv
<1> QED  BY <1>1, <1>2 DEF DealtInv

LEMMA DealtByUser ==
  ASSUME DealtInv, Kept, UNCHANGED <<ownerIds, run, overlapped, seeded>>
  PROVE  DealtInv'
<1>1. seeded' /\ ~overlapped' => AllThere'  BY StaysThere DEF DealtInv
<1>2. ASSUME NEW s \in Runs PROVE Dealt(s)'
  <2>1. Dealt(s)  BY DEF DealtInv
  <2> QED  BY <2>1 DEF Dealt, run
<1> QED  BY <1>1, <1>2 DEF DealtInv, run

(* A run that adds to the plans keeps what is there.                        *)
LEMMA KeptByEffect ==
  ASSUME SeedInv, NEW k,
         \/ \E f \in File : Appends(k, f)
         \/ \E f \in File : Creates(k, TRUE, <<f>>)
         \/ Creates(k, FALSE, <<>>)
         \/ Judges(k)
  PROVE  Kept
<1> SUFFICES ASSUME NEW j, NEW name, HasFile(j, name) PROVE HasFile(j, name)'
  BY DEF Kept
<1>1. CASE j # k  BY <1>1 DEF HasFile, Appends, Creates, Judges, Elsewhere
<1>2. CASE j = k
  <2>1. k \in DOMAIN plans  BY <1>2 DEF HasFile
  <2>2. ASSUME NEW f \in File, Appends(k, f) PROVE HasFile(j, name)'
    <3>1. plans[k].attachments \in Seq(File)  BY <2>1 DEF SeedInv
    <3>2. plans'[k].attachments = Append(plans[k].attachments, f)  BY <2>2 DEF Appends
    <3>3. PICK i \in DOMAIN plans[k].attachments : plans[k].attachments[i].name = name
      BY <1>2 DEF HasFile
    <3>4. i \in DOMAIN plans'[k].attachments /\ plans'[k].attachments[i].name = name
      BY <3>1, <3>2, <3>3, AppendOnly
    <3> QED  BY <1>2, <2>2, <3>4 DEF HasFile, Appends
  <2>3. CASE Judges(k)  BY <1>2, <2>3 DEF Judges, HasFile
  <2> QED  BY <2>1, <2>2, <2>3 DEF Creates
<1> QED  BY <1>1, <1>2

LEMMA OthersStayDry ==
  ASSUME NEW r \in Runs, dry' \in {dry, dry \cup {r}}
  PROVE  \A s \in Runs : s # r => (s \in dry' <=> s \in dry)
<1>1. CASE dry' = dry  BY <1>1
<1>2. CASE dry' = dry \cup {r}  BY <1>2
<1> QED  BY <1>1, <1>2

LEMMA DealtStep ==
  MarkInv /\ SeedInv /\ SeedInv' /\ IdemInv /\ DealtInv /\ [Next]_vars => DealtInv'
<1> SUFFICES ASSUME MarkInv, SeedInv, SeedInv', IdemInv, DealtInv, [Next]_vars PROVE DealtInv'
  OBVIOUS
<1>0. UNCHANGED plans => Kept  BY SameFiles
<1>1. ASSUME NEW r \in Runs, Seed(r) PROVE DealtInv'
  <2>1. /\ pc[r] = "idle" /\ pc' = [pc EXCEPT ![r] = "fetch"] /\ at' = [at EXCEPT ![r] = 1]
        /\ UNCHANGED <<ownerIds, plans, fetched, done, seeded>>
        /\ overlapped => overlapped'
        /\ dry' \in {dry, dry \cup {r}}
    BY <1>1 DEF Seed, Begin, Goto
  <2>2. fetched[r] = {}  BY <2>1 DEF DealtInv, Dealt
  <2>3. Dealt(r)'  BY <2>1, <2>2 DEF Dealt, SeedInv
  <2>4. \A s \in Runs : s # r => /\ pc'[s] = pc[s] /\ at'[s] = at[s]
                                 /\ s \in dry' <=> s \in dry
    <3>1. \A s \in Runs : s # r => pc'[s] = pc[s] /\ at'[s] = at[s]  BY <2>1 DEF SeedInv
    <3>2. \A s \in Runs : s # r => (s \in dry' <=> s \in dry)  BY <2>1, OthersStayDry
    <3> QED  BY <3>1, <3>2
  <2>5. fetched' \in [Runs -> SUBSET Nat]  BY <2>1 DEF DealtInv
  <2> QED  BY <1>0, <2>1, <2>3, <2>4, <2>5, DealtByMove
<1>2. ASSUME NEW r \in Runs, FetchBytes(r) PROVE DealtInv'
  <2>1. /\ pc[r] = "fetch" /\ UNCHANGED <<ownerIds, plans, dry, done, overlapped>>
    BY <1>2 DEF FetchBytes
  <2>2. ~overlapped /\ r \notin dry => fetched[r] \subseteq done[r]
    BY <2>1 DEF DealtInv, Dealt
  <2>3. CASE UNCHANGED fetched /\ Continue(r, fetched[r])
    <3>1. fetched' \in [Runs -> SUBSET Nat]  BY <2>3 DEF DealtInv
    <3> QED  BY <1>0, <2>1, <2>2, <2>3, <3>1, DealtByContinue
  <2>4. CASE fetched' = [fetched EXCEPT ![r] = @ \cup {at[r]}]
    <3>1. /\ fetched' \in [Runs -> SUBSET Nat] /\ fetched'[r] = fetched[r] \cup {at[r]}
          /\ \A s \in Runs : s # r => fetched'[s] = fetched[s]
      BY <2>4 DEF DealtInv, SeedInv
    <3>2. CASE r \in dry /\ Continue(r, fetched'[r])
      BY <1>0, <2>1, <3>1, <3>2, DealtByContinue
    <3>3. CASE Goto(r, "find") /\ UNCHANGED <<at, seeded>>
      <4>1. /\ pc'[r] = "find" /\ at'[r] = at[r]
            /\ \A s \in Runs : s # r => pc'[s] = pc[s] /\ at'[s] = at[s]
        BY <3>3 DEF Goto, SeedInv
      <4>2. Dealt(r)'  BY <2>1, <2>2, <3>1, <4>1 DEF Dealt
      <4> QED  BY <1>0, <2>1, <3>1, <3>3, <4>1, <4>2, DealtByMove
    <3> QED  BY <1>2, <2>4, <3>2, <3>3, <2>3 DEF FetchBytes
  <2> QED  BY <1>2, <2>3, <2>4 DEF FetchBytes
<1>3. ASSUME NEW r \in Runs, FindOne(r) PROVE DealtInv'
  <2>1. /\ pc[r] = "find" /\ UNCHANGED <<ownerIds, plans, dry, fetched, overlapped>>
    BY <1>3 DEF FindOne
  <2>2. ~overlapped /\ r \notin dry => fetched[r] \subseteq done[r] \cup {at[r]}
    BY <2>1 DEF DealtInv, Dealt
  <2>3. CASE done' = [done EXCEPT ![r] = @ \cup {at[r]}] /\ Continue(r, fetched[r])
    <3>1. /\ done'[r] = done[r] \cup {at[r]} /\ \A s \in Runs : s # r => done'[s] = done[s]
      BY <2>3 DEF SeedInv
    <3>2. fetched' \in [Runs -> SUBSET Nat]  BY <2>1 DEF DealtInv
    <3> QED  BY <1>0, <2>1, <2>2, <2>3, <3>1, <3>2, DealtByContinue
  <2>4. CASE Goto(r, "write") /\ UNCHANGED <<at, done, seeded>>
    <3>1. /\ pc'[r] = "write" /\ at'[r] = at[r]
          /\ \A s \in Runs : s # r => pc'[s] = pc[s] /\ at'[s] = at[s]
      BY <2>4 DEF Goto, SeedInv
    <3>2. Dealt(r)'  BY <2>1, <2>2, <2>4, <3>1 DEF Dealt
    <3>3. fetched' \in [Runs -> SUBSET Nat]  BY <2>1 DEF DealtInv
    <3> QED  BY <1>0, <2>1, <2>4, <3>1, <3>2, <3>3, DealtByMove
  <2> QED  BY <1>3, <2>3, <2>4 DEF FindOne
<1>4. ASSUME NEW r \in Runs, Write(r) PROVE DealtInv'
  <2>1. /\ pc[r] = "write" /\ UNCHANGED <<ownerIds, dry, fetched, overlapped>>
        /\ done' = [done EXCEPT ![r] = @ \cup {at[r]}] /\ Continue(r, fetched[r])
    BY <1>4 DEF Write
  <2>2. ~overlapped /\ r \notin dry => fetched[r] \subseteq done[r] \cup {at[r]}
    BY <2>1 DEF DealtInv, Dealt
  <2>3. /\ done'[r] = done[r] \cup {at[r]} /\ \A s \in Runs : s # r => done'[s] = done[s]
    BY <2>1 DEF SeedInv
  <2>4. Kept
    <3>1. PICK k : k = Key(Doc(r))  OBVIOUS
    <3>2. PICK f : f = SeedFile(Doc(r))  OBVIOUS
    <3>3. f \in File  BY <2>1, <3>2 DEF SeedFile, File, ToSet, Doc, SeedInv
    <3> QED  BY <1>4, <3>1, <3>2, <3>3, WriteEffect, KeptByEffect
  <2>5. fetched' \in [Runs -> SUBSET Nat]  BY <2>1 DEF DealtInv
  <2> QED  BY <2>1, <2>2, <2>3, <2>4, <2>5, DealtByContinue
<1>5. ASSUME NEW r \in Runs, Kill(r) PROVE DealtInv'
  <2>1. /\ pc' = [pc EXCEPT ![r] = "over"] /\ ~seeded'
        /\ UNCHANGED <<ownerIds, plans, dry, at, fetched, done, overlapped>>
    BY <1>5 DEF Kill, Goto
  <2>2. pc'[r] = "over" /\ \A s \in Runs : s # r => pc'[s] = pc[s]  BY <2>1 DEF SeedInv
  <2>3. Dealt(r)'  BY <2>2 DEF Dealt
  <2>4. fetched' \in [Runs -> SUBSET Nat]  BY <2>1 DEF DealtInv
  <2> QED  BY <1>0, <2>1, <2>2, <2>3, <2>4, DealtByMove
<1>6. ASSUME NEW r \in Runs, Cleanup(r) PROVE DealtInv'
  <2>1. /\ Goto(r, "over") \/ Goto(r, "delete")
        /\ UNCHANGED <<ownerIds, plans, at, fetched, done, seeded>>
        /\ overlapped => overlapped'
        /\ dry' \in {dry, dry \cup {r}}
    BY <1>6 DEF Cleanup, Begin
  <2>2. pc'[r] \in {"over", "delete"} /\ \A s \in Runs : s # r => pc'[s] = pc[s]
    BY <2>1 DEF SeedInv, Goto
  <2>3. Dealt(r)'  BY <2>2 DEF Dealt
  <2>4. fetched' \in [Runs -> SUBSET Nat]  BY <2>1 DEF DealtInv
  <2>5. \A s \in Runs : s # r => (s \in dry' <=> s \in dry)  BY <2>1, OthersStayDry
  <2> QED  BY <1>0, <2>1, <2>2, <2>3, <2>4, <2>5, DealtByMove
<1>7. ASSUME NEW r \in Runs, DeleteMany(r) PROVE DealtInv'
  <2>1. /\ pc[r] = "delete" /\ pc' = [pc EXCEPT ![r] = "over"]
        /\ UNCHANGED <<ownerIds, dry, at, fetched, overlapped>>
    BY <1>7 DEF DeleteMany, Goto
  <2>2. pc'[r] = "over" /\ \A s \in Runs : s # r => pc'[s] = pc[s]  BY <2>1 DEF SeedInv
  <2>3. Dealt(r)'  BY <2>2 DEF Dealt
  <2>4. fetched' \in [Runs -> SUBSET Nat]  BY <2>1 DEF DealtInv
  <2>5. CASE UNCHANGED <<plans, seeded, done>>
    BY <1>0, <2>1, <2>2, <2>3, <2>4, <2>5, DealtByMove
  <2>6. CASE ~seeded'
    <3>1. ASSUME NEW s \in Runs, s # r PROVE Dealt(s)'
      <4>1. Dealt(s) /\ pc'[s] = pc[s]  BY <2>2, <3>1 DEF DealtInv
      <4>2. ~overlapped => pc[s] \in {"idle", "over"}
        BY <2>1, <3>1 DEF IdemInv, OneRun, Busy
      <4> QED  BY <2>1, <4>1, <4>2 DEF Dealt
    <3> QED  BY <2>3, <2>4, <2>6, <3>1 DEF DealtInv
  <2> QED  BY <1>7, <2>5, <2>6 DEF DeleteMany
<1>8. ASSUME NEW k \in UserPlans, CreatePlan(k) PROVE DealtInv'
  <2>1. UNCHANGED <<ownerIds, run, overlapped, seeded>>  BY <1>8 DEF CreatePlan, history
  <2> QED  BY <1>8, <2>1, CreateEffect, KeptByEffect, DealtByUser
<1>9. ASSUME NEW k \in DOMAIN plans, NEW name \in UserFiles, Upload(k, name) PROVE DealtInv'
  <2>1. PICK f : f = [name |-> name, seedSource |-> FALSE, analyzed |-> FALSE]  OBVIOUS
  <2>2. f \in File  BY <2>1 DEF File
  <2>3. Appends(k, f)  BY <1>9, <2>1, UploadEffect
  <2>4. UNCHANGED <<ownerIds, run, overlapped, seeded>>  BY <1>9 DEF Upload
  <2> QED  BY <2>2, <2>3, <2>4, KeptByEffect, DealtByUser
<1>10. ASSUME NEW k \in DOMAIN plans, NEW i \in DOMAIN plans[k].attachments, Analyze(k, i)
       PROVE  DealtInv'
  <2>1. UNCHANGED <<ownerIds, run, overlapped, seeded>>  BY <1>10 DEF Analyze
  <2> QED  BY <1>10, <2>1, AnalyzeEffect, KeptByEffect, DealtByUser
<1>11. CASE UNCHANGED vars
  BY <1>0, <1>11, DealtByUser DEF vars, history
<1> QED
  BY <1>1, <1>2, <1>3, <1>4, <1>5, <1>6, <1>7, <1>8, <1>9, <1>10, <1>11 DEF Next

-----------------------------------------------------------------------------
(* Verify.                                                                  *)

LEMMA TwoOwners ==
  ASSUME NEW S, IsFiniteSet(S), NEW a \in S, NEW b \in S, a # b
  PROVE  Cardinality(S) >= 2
<1>1. IsFiniteSet({a}) /\ Cardinality({a}) = 1  BY FS_Singleton
<1>2. IsFiniteSet({a} \cup {b}) /\ Cardinality({a} \cup {b}) = 2
  <2>1. b \notin {a}  OBVIOUS
  <2>2. IsFiniteSet({a} \cup {b})  BY <1>1, FS_AddElement
  <2>3. Cardinality({a} \cup {b}) = IF b \in {a} THEN Cardinality({a}) ELSE Cardinality({a}) + 1
    BY <1>1, FS_AddElement
  <2> QED  BY <1>1, <2>1, <2>2, <2>3
<1>3. ({a} \cup {b}) \in SUBSET S  OBVIOUS
<1>4. Cardinality({a} \cup {b}) <= Cardinality(S)  BY <1>3, FS_Subset
<1>5. Cardinality(S) \in Nat  BY FS_CardinalityType
<1> QED  BY <1>2, <1>4, <1>5

(* The names of a seeded plan's files differ if all of them are seeded.     *)
LEMMA NamesDiffer ==
  ASSUME NEW files, NoTwins(files), \A i \in DOMAIN files : files[i].seedSource
  PROVE  IsInjective([i \in DOMAIN files |-> files[i].name])
  BY DEF NoTwins, IsInjective

LEMMA VerifyPasses ==
  ASSUME MarkInv, SeedInv, IdemInv, FilesInv, DealtInv,
         seeded, ~overlapped, ~touched, ResolveOwners.A # ResolveOwners.B,
         \A t \in {"A", "B"} : \E d \in ToSet(Manifest) : d.tenant = t /\ Key(d) \notin created
  PROVE  Verify
<1>1. ASSUME NEW d \in ToSet(Manifest), Key(d) \notin created
      PROVE  Key(d) \in Marked
  <2>1. PICK i \in DOMAIN Manifest : d = Manifest[i]  BY DEF ToSet
  <2>2. Key(d) \in DOMAIN plans  BY <2>1 DEF DealtInv, AllThere, HasFile
  <2> QED  BY <1>1, <2>2 DEF MarkInv, Marked
<1>2. PICK a \in ToSet(Manifest) : a.tenant = "A" /\ Key(a) \notin created  OBVIOUS
<1>3. PICK b \in ToSet(Manifest) : b.tenant = "B" /\ Key(b) \notin created  OBVIOUS
<1>4. Key(a) \in Marked /\ Key(b) \in Marked  BY <1>1, <1>2, <1>3
<1>5. Key(a)[1] # Key(b)[1]  BY <1>2, <1>3 DEF Key
<1> DEFINE owners == {k[1] : k \in Marked}
<1>6. IsFiniteSet(owners)
  <2>1. Marked \in SUBSET DOMAIN plans  BY DEF Marked
  <2>2. IsFiniteSet(Marked)  BY <2>1, FS_Subset DEF FilesInv
  <2> DEFINE first == [k \in Marked |-> k[1]]
  <2>3. first \in Surjection(Marked, owners)  BY DEF Surjection
  <2> HIDE DEF first, owners
  <2> QED  BY <2>2, <2>3, FS_Surjection
<1>7. Cardinality(owners) >= 2
  <2>1. Key(a)[1] \in owners /\ Key(b)[1] \in owners  BY <1>4
  <2> HIDE DEF owners
  <2> QED  BY <1>5, <1>6, <2>1, TwoOwners
<1>8. ASSUME NEW k \in Marked
      PROVE  /\ \A f \in ToSet(plans[k].attachments) : VerifyFile(f)
             /\ IsInjective([i \in DOMAIN plans[k].attachments |-> plans[k].attachments[i].name])
             /\ ToSet(plans[k].attachments) # {}
  <2>1. k \in DOMAIN plans /\ plans[k].seedSource  BY DEF Marked
  <2>2. /\ 1 \in DOMAIN plans[k].attachments
        /\ \A i \in DOMAIN plans[k].attachments : VerifyFile(plans[k].attachments[i])
    BY <2>1 DEF FilesInv
  <2>3. NoTwins(plans[k].attachments)  BY <2>1 DEF IdemInv
  <2>4. IsInjective([i \in DOMAIN plans[k].attachments |-> plans[k].attachments[i].name])
    BY <2>2, <2>3, NamesDiffer DEF VerifyFile
  <2> QED  BY <2>2, <2>4 DEF ToSet
<1>9. ASSUME NEW o \in owners
      PROVE  UNION {ToSet(plans[k].attachments) : k \in {k \in Marked : k[1] = o}} # {}
  <2>1. PICK k \in Marked : k[1] = o  OBVIOUS
  <2>2. PICK f : f \in ToSet(plans[k].attachments)  BY <1>8
  <2> QED  BY <2>1, <2>2
<1>10. Marked # {}  BY <1>4
<1> HIDE DEF owners
<1> QED  BY <1>7, <1>8, <1>9, <1>10 DEF Verify, owners

(* After an undisturbed seeding of every document for two different owners  *)
(* verify passes, whatever the manifest and whatever runs came before.      *)
THEOREM FreshTheorem == Spec => []FreshSeedVerifies
<1>1. MarkInv /\ SeedInv /\ IdemInv /\ FilesInv /\ DealtInv => FreshSeedVerifies
  BY VerifyPasses DEF FreshSeedVerifies
<1> QED
  BY <1>1, MarkInit, MarkStep, SeedInit, SeedStep, IdemInit, IdemStep, FilesInit, FilesStep,
     DealtInit, DealtStep, PTL DEF Spec

=============================================================================
