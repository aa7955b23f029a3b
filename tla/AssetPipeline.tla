---------------------------- MODULE AssetPipeline ----------------------------
(***************************************************************************)
(* pipeline/scripts, logs/tripo_image2model.py and scripts/assets: batch   *)
(* programs that buy models from the Tripo service, download them to       *)
(* pipeline/inbox, have Blender export their levels of detail and copy     *)
(* these to assets/.  What passes from one program, or from one execution, *)
(* to the next is on the disk: the programs skip what they find there.     *)
(*                                                                         *)
(* The programs: "slice" (batch_vertical_slice.py), "wave"                 *)
(* (run_phase0_noon_wave.py), "daemon" (run_batch_daemon.sh), "images"     *)
(* (tripo_image2model.py) and "reprocess" (reprocess_keep_pbr.py).  The    *)
(* scripts they call, generate_tripo.py and process_asset.py, are steps of *)
(* the caller: an action is what one of them does up to its next request,  *)
(* file or subprocess.  A run may be killed between any two actions.       *)
(***************************************************************************)
EXTENDS Integers, Sequences, FiniteSets

CONSTANTS
  Names,      \* assets of the briefs
  Lods,       \* levels of detail, "lod0" among them
  Runners,    \* programs that may run at the same time
  Plans,      \* the scenarios
  Floor,      \* per program: the balance below which it stops
  Guard,      \* --min-balance of generate_tripo.py
  Cost,       \* of one task
  MaxStarts,  \* bound: executions
  MaxFaults   \* bound: kills, failed requests, crashes of Blender

Programs == {"slice", "wave", "daemon", "images", "reprocess"}

ASSUME NamesAssumption == "lod0" \in Lods /\ "" \notin Names /\ IsFiniteSet(Runners)
ASSUME CostAssumption == Cost \in Nat \ {0} /\ Guard \in Nat /\ Cost <= Guard
ASSUME FloorAssumption == Floor \in [Programs -> Nat]
ASSUME BoundAssumption == MaxStarts \in Nat /\ MaxFaults \in Nat
ASSUME PlanAssumption ==
  \A s \in Plans :
    /\ s.programs \subseteq Programs /\ s.runners \subseteq Runners /\ s.names \subseteq Names
    /\ s.props \subseteq Names /\ s.credits \in Nat /\ s.starts \in 0..MaxStarts /\ s.faults \in 0..MaxFaults
    /\ s.harvest \in BOOLEAN

(* A scenario: which programs run, on which runners (one: one program after *)
(* the other), for which names, which of them have the category "props" in  *)
(* their brief, with how many credits, how many times and with how many     *)
(* faults, and whether the harvest runs.                                    *)
Alone(s) == Cardinality(s.runners) <= 1

(* Directories of assets/: "props", the category that process_asset.py uses *)
(* when it is given none, and another one.                                  *)
Cats == {"own", "props"}

VARIABLES
  plan,      \* the scenario
  balance,   \* credits of the account
  tasks,     \* states of the tasks at the service
  inbox,     \* per name: pipeline/inbox/<name>/model.glb
  meta,      \* per name: pipeline/inbox/<name>/meta.json
  exported,  \* per name: pipeline/processed/<name>
  assets,    \* per category and name: assets/<category>/<name>
  tripo,     \* per name: the copy in the bucket
  run,       \* per runner: the program it executes and where it is
  starts,    \* executions so far
  faults     \* faults so far

service == <<balance, tasks>>
disk    == <<inbox, meta, exported, assets>>
vars    == <<plan, service, disk, tripo, run, starts, faults>>

(* A file holds the product of task `by' (0: there is no file), perhaps not *)
(* all of it; keep: it was exported with --keep-materials.                  *)
Tasks == Nat
File(t, whole, keep) == [by |-> t, whole |-> whole, keep |-> keep]
NoFile == File(0, FALSE, FALSE)
Files  == [by : Tasks, whole : BOOLEAN, keep : BOOLEAN]

Dir(fs, m) == [files |-> fs, manifest |-> m]
Empty == Dir([l \in Lods |-> NoFile], 0)
Dirs  == [files : [Lods -> Files], manifest : Tasks]
IsThere(d) == \E l \in Lods : d.files[l].by # 0

Meta(t, s) == [task |-> t, status |-> s]
NoMeta == Meta(0, "none")

Places == {"off", "item", "balance", "generate", "create", "poll", "download", "write",
           "meta", "process", "export", "copy"}
Off == [prog |-> "none", at |-> "off", todo |-> {}, name |-> "", task |-> 0,
        left |-> {}, cat |-> "own", again |-> FALSE]

Init ==
  /\ plan \in Plans
  /\ balance = plan.credits /\ tasks = <<>>
  /\ inbox = [n \in Names |-> NoFile] /\ meta = [n \in Names |-> NoMeta]
  /\ exported = [n \in Names |-> Empty] /\ assets = [c \in Cats |-> [n \in Names |-> Empty]]
  /\ tripo = [n \in Names |-> NoFile]
  /\ run = [r \in Runners |-> Off] /\ starts = 0 /\ faults = 0

At(r, place) == run[r].at = place
Is(r, progs) == run[r].prog \in progs
Name(r) == run[r].name
Goto(r, place) == run' = [run EXCEPT ![r].at = place]
NextName(r)    == Goto(r, "item")     \* the name is done, or has failed
Stop(r)        == run' = [run EXCEPT ![r] = Off]

\* Something of the environment goes wrong.
Fault == faults < plan.faults /\ faults' = faults + 1
NoFault == UNCHANGED faults

\* The category of a brief.
Home(n) == IF n \in plan.props THEN "props" ELSE "own"

--------------------------------------------------------------------------------
(* The loops over the briefs. *)

Start(r, prog) ==
  /\ At(r, "off") /\ r \in plan.runners /\ prog \in plan.programs /\ starts < plan.starts
  /\ starts' = starts + 1
  /\ run' = [run EXCEPT ![r] = [Off EXCEPT
       !.prog = prog, !.at = "item",
       !.todo = IF prog = "reprocess" THEN {n \in plan.names : inbox[n].by # 0} ELSE plan.names]]
  /\ UNCHANGED <<plan, service, disk, tripo, faults>>

\* What a program takes for a finished asset.
HasManifest(n)  == assets[Home(n)][n].manifest # 0
HasModel(n)     == assets[Home(n)][n].files["lod0"].by # 0
Textured(n, c)  == assets[c][n].files["lod0"].keep
AlreadyHas(n)   == inbox[n].by # 0 \/ \E c \in Cats : assets[c][n].manifest # 0

Skips(prog, n, c) ==
  CASE prog \in {"slice", "daemon"} -> HasManifest(n)
    [] prog = "wave"      -> HasManifest(n) \/ HasModel(n)
    [] prog = "images"    -> AlreadyHas(n)
    [] prog = "reprocess" -> Textured(n, c)

\* Where a program puts an asset.  reprocess has no briefs: it looks for a
\* manifest, and goes by the name if there is none.
CatsOf(prog, n) ==
  LET found == {c \in Cats : assets[c][n].manifest # 0}
  IN  IF prog # "reprocess" THEN {Home(n)} ELSE IF found # {} THEN found ELSE Cats

\* reprocess reads the materials in the file: one that is not whole may
\* raise an exception, which ends the program, or seem to have none.
Unreadable(r, as, n, c) ==
  LET f == as[c][n].files["lod0"] IN Is(r, {"reprocess"}) /\ f.by # 0 /\ ~f.whole

Takes(r, n, c, place) ==
  run' = [run EXCEPT ![r].todo = @ \ {n}, ![r].name = n, ![r].task = 0,
                     ![r].cat = c, ![r].again = FALSE, ![r].at = place]

Item(r) ==
  /\ At(r, "item")
  /\ \/ run[r].todo = {} /\ Stop(r)
     \/ \E n \in run[r].todo : \E c \in CatsOf(run[r].prog, n) :
          \/ Skips(run[r].prog, n, c) /\ Takes(r, n, c, "item")
          \/ /\ ~Skips(run[r].prog, n, c)
             /\ Takes(r, n, c, IF Is(r, {"reprocess"}) THEN "process" ELSE "balance")
          \/ Unreadable(r, assets, n, c) /\ (Stop(r) \/ Takes(r, n, c, "process"))
  /\ UNCHANGED <<plan, service, disk, tripo, starts, faults>>

\* A failed request for the balance ends the program, as a low balance does.
Balance(r) ==
  /\ At(r, "balance")
  /\ \/ Fault /\ Stop(r)
     \/ /\ NoFault
        /\ IF balance < Floor[run[r].prog] THEN Stop(r)
           ELSE Goto(r, IF Is(r, {"images"}) THEN "create"
                        ELSE IF Is(r, {"daemon"}) /\ inbox[Name(r)].by # 0 THEN "process"
                        ELSE "generate")
  /\ UNCHANGED <<plan, service, disk, tripo, starts>>

--------------------------------------------------------------------------------
(* generate_tripo.py, and the same steps of tripo_image2model.py. *)

\* Mutated: as if always called with --force.
GenerateForced(r) ==
  /\ At(r, "generate")
  /\ \/ Fault /\ Goto(r, "create")
     \/ NoFault /\ IF balance < Guard THEN NextName(r) ELSE Goto(r, "create")
  /\ UNCHANGED <<plan, service, disk, tripo, starts>>

\* main() up to the task.  Without an answer the balance is not checked.
Generate(r) ==
  /\ At(r, "generate")
  /\ IF inbox[Name(r)].by # 0 THEN NoFault /\ NextName(r)
     ELSE \/ Fault /\ Goto(r, "create")
          \/ NoFault /\ IF balance < Guard THEN NextName(r) ELSE Goto(r, "create")
  /\ UNCHANGED <<plan, service, disk, tripo, starts>>

\* The service takes the credits and starts the task.
Accept == /\ balance >= Cost
          /\ balance' = balance - Cost
          /\ tasks' = Append(tasks, "running")

\* create_text_task() and create_image_task(), with their retries.  A
\* request may fail before the service has it, or its answer may be lost.
Create(r) ==
  /\ At(r, "create")
  /\ \/ /\ Accept /\ NoFault
        /\ run' = [run EXCEPT ![r].at = "poll", ![r].task = Len(tasks) + 1]
     \/ Accept /\ Fault /\ NextName(r)
     \/ Fault /\ NextName(r) /\ UNCHANGED service
     \/ balance < Cost /\ NoFault /\ NextName(r) /\ UNCHANGED service
  /\ UNCHANGED <<plan, disk, tripo, starts>>

\* poll_task(): the task succeeds or fails, a request fails, or the time
\* is over.
PollEnds(r) == NextName(r)

Poll(r) ==
  /\ At(r, "poll")
  /\ \/ /\ NoFault
        /\ IF tasks[run[r].task] = "success" THEN Goto(r, "download") ELSE PollEnds(r)
     \/ Fault /\ NextName(r)
  /\ UNCHANGED <<plan, service, disk, tripo, starts>>

\* download_model(), up to the opening of the file.
Download(r) ==
  /\ At(r, "download")
  /\ \/ NoFault /\ Goto(r, "write")
        /\ inbox' = [inbox EXCEPT ![Name(r)] = File(run[r].task, FALSE, FALSE)]
        /\ UNCHANGED meta
     \/ Fault /\ NextName(r) /\ UNCHANGED <<inbox, meta>>   \* the request fails
     \/ /\ Fault                                            \* there is no address
        /\ UNCHANGED inbox
        /\ IF Is(r, {"images"}) THEN UNCHANGED meta
           ELSE meta' = [meta EXCEPT ![Name(r)] = Meta(run[r].task, "success_no_file")]
        /\ Goto(r, IF Is(r, {"images"}) \/ inbox[Name(r)].by = 0 THEN "item" ELSE "process")
  /\ UNCHANGED <<plan, service, exported, assets, tripo, starts>>

\* Mutated: an interrupted transfer counts as a model.
WriteUnchecked(r) ==
  /\ At(r, "write")
  /\ \/ /\ NoFault /\ Goto(r, "meta")
        /\ inbox' = [inbox EXCEPT ![Name(r)].whole =
             /\ inbox[Name(r)].by = run[r].task
             /\ \A o \in Runners \ {r} : ~(At(o, "write") /\ Name(o) = Name(r))]
     \/ Fault /\ Goto(r, "meta") /\ UNCHANGED inbox
  /\ UNCHANGED <<plan, service, meta, exported, assets, tripo, starts>>

\* The chunks.  What two writers leave of one file is not whole.
Write(r) ==
  /\ At(r, "write")
  /\ \/ /\ NoFault /\ Goto(r, "meta")
        /\ inbox' = [inbox EXCEPT ![Name(r)].whole =
             /\ inbox[Name(r)].by = run[r].task
             /\ \A o \in Runners \ {r} : ~(At(o, "write") /\ Name(o) = Name(r))]
     \/ Fault /\ NextName(r) /\ UNCHANGED inbox
  /\ UNCHANGED <<plan, service, meta, exported, assets, tripo, starts>>

WriteMeta(r) ==
  /\ At(r, "meta")
  /\ meta' = [meta EXCEPT ![Name(r)] = Meta(run[r].task, "success")]
  /\ Goto(r, IF Is(r, {"images"}) THEN "item" ELSE "process")
  /\ UNCHANGED <<plan, service, inbox, exported, assets, tripo, starts, faults>>

--------------------------------------------------------------------------------
(* process_asset.py and what its callers make of it. *)

Keeps(r) == Is(r, {"wave", "reprocess"}) /\ ~run[r].again

\* The daemon looks for the manifest in the category of the brief, unless
\* process_asset.py failed, and then in the default one.
Moves(r, rc, as) ==
  LET n == Name(r)
  IN  /\ Is(r, {"daemon"})
      /\ rc # 0 \/ as[Home(n)][n].manifest = 0
      /\ Home(n) # "props" /\ as["props"][n].manifest # 0

\* After process_asset.py, which returned rc and left as: the daemon moves
\* an asset to its category; into the directory there if one exists, perhaps
\* without a file in it, and then nobody finds it again.
Ends(r, rc, as) ==
  LET n == Name(r)  own == as["own"][n] IN
  /\ \/ ~Moves(r, rc, as) /\ assets' = as
     \/ /\ Moves(r, rc, as)
        /\ \E d \in IF IsThere(own) THEN {own} ELSE {own, as["props"][n]} :
             assets' = [as EXCEPT !["own"][n] = d, !["props"][n] = Empty]
  /\ \/ NextName(r)
     \/ Unreadable(r, as, n, run[r].cat) /\ Stop(r)

Accepted(r, as) == Ends(r, 0, as)

\* After a process_asset.py that failed the wave tries once more, without
\* the category and the materials.
Rejected(r, as) ==
  IF Is(r, {"wave"}) /\ ~run[r].again
  THEN /\ run' = [run EXCEPT ![r].at = "process", ![r].cat = "props", ![r].again = TRUE]
       /\ assets' = as
  ELSE Ends(r, 1, as)

\* What an interrupted export or copy leaves: of the file that was being
\* written a part, or nothing.
CutExports(r) ==
  {exported} \cup {[exported EXCEPT ![Name(r)].files[l] = File(run[r].task, FALSE, Keeps(r))] :
                     l \in run[r].left}
CutCopies(r) ==
  {assets} \cup {[assets EXCEPT ![run[r].cat][Name(r)].files[l] =
                     [exported[Name(r)].files[l] EXCEPT !.whole = FALSE]] : l \in run[r].left}

\* Blender may crash, at any time up to its end; of an exception of the
\* script it runs it reports nothing, and process_asset.py returns 0.
Broken(r, as) == Fault /\ (Rejected(r, as) \/ Accepted(r, as))

\* Blender imports the model; if it is not whole that raises an exception.
Process(r) ==
  /\ At(r, "process")
  /\ \/ /\ NoFault
        /\ IF inbox[Name(r)].whole
           THEN /\ run' = [run EXCEPT ![r].at = "export", ![r].left = Lods,
                                      ![r].task = inbox[Name(r)].by]
                /\ UNCHANGED assets
           ELSE Accepted(r, assets)
     \/ Broken(r, assets)
  /\ UNCHANGED <<plan, service, inbox, meta, exported, tripo, starts>>

\* run_inside_blender(): the levels of detail, then the manifest.
Export(r) ==
  /\ At(r, "export")
  /\ \/ \E l \in run[r].left :
          /\ exported' = [exported EXCEPT ![Name(r)].files[l] = File(run[r].task, TRUE, Keeps(r))]
          /\ run' = [run EXCEPT ![r].left = @ \ {l}]
          /\ NoFault /\ UNCHANGED assets
     \/ /\ run[r].left = {}
        /\ exported' = [exported EXCEPT ![Name(r)].manifest = run[r].task]
        /\ run' = [run EXCEPT ![r].at = "copy", ![r].left = Lods]
        /\ NoFault /\ UNCHANGED assets
     \/ exported' \in CutExports(r) /\ Broken(r, assets)
  /\ UNCHANGED <<plan, service, inbox, meta, tripo, starts>>

\* copy_to_assets(), which also runs in Blender: the models, in the order of
\* the directory, then the manifest.
CopyModel(r, l) ==
  /\ assets' = [assets EXCEPT ![run[r].cat][Name(r)].files[l] = exported[Name(r)].files[l]]
  /\ run' = [run EXCEPT ![r].left = @ \ {l}]

WithManifest(r) == [assets EXCEPT ![run[r].cat][Name(r)].manifest = exported[Name(r)].manifest]

Copy(r) ==
  /\ At(r, "copy")
  /\ \/ NoFault /\ \E l \in run[r].left : CopyModel(r, l)
     \/ run[r].left = {} /\ (Broken(r, WithManifest(r)) \/ (NoFault /\ Accepted(r, WithManifest(r))))
     \/ \E as \in CutCopies(r) : Broken(r, as)
  /\ UNCHANGED <<plan, service, inbox, meta, exported, tripo, starts>>

--------------------------------------------------------------------------------
(* The machine, the service and the harvest. *)

\* A program and its children end where they are.  (A child that survived
\* its parent would be one more program at the same time.)
Kill(r) ==
  /\ ~At(r, "off") /\ Fault /\ Stop(r)
  /\ exported' \in IF At(r, "export") THEN CutExports(r) ELSE {exported}
  /\ assets' \in IF At(r, "copy") THEN CutCopies(r) ELSE {assets}
  /\ UNCHANGED <<plan, service, inbox, meta, tripo, starts>>

Finish(t) ==
  /\ tasks[t] = "running"
  /\ \E s \in {"success", "failed"} : tasks' = [tasks EXCEPT ![t] = s]
  /\ UNCHANGED <<plan, balance, disk, tripo, run, starts, faults>>

\* Mutated: a model is harvested once.
HarvestOnce(n) ==
  /\ plan.harvest /\ inbox[n].by # 0 /\ tripo[n].by = 0
  /\ tripo' = [tripo EXCEPT ![n] = inbox[n]]
  /\ UNCHANGED <<plan, service, disk, run, starts, faults>>

\* harvest_tripo_inbox.sh --watch copies whatever model it finds.
Harvest(n) ==
  /\ plan.harvest /\ inbox[n].by # 0
  /\ tripo' = [tripo EXCEPT ![n] = inbox[n]]
  /\ UNCHANGED <<plan, service, disk, run, starts, faults>>

Step(r) ==
  \/ Item(r) \/ Balance(r) \/ Generate(r) \/ Create(r) \/ Poll(r) \/ Download(r)
  \/ Write(r) \/ WriteMeta(r) \/ Process(r) \/ Export(r) \/ Copy(r)

Next ==
  \/ \E r \in Runners : Step(r) \/ Kill(r) \/ \E prog \in Programs : Start(r, prog)
  \/ \E t \in DOMAIN tasks : Finish(t)
  \/ \E n \in Names : Harvest(n)

(* A program runs and the harvest passes until somebody stops them; nobody  *)
(* has to start a program, and the service may never finish a task.         *)
Fairness == /\ \A r \in Runners : WF_vars(Step(r))
            /\ \A n \in Names : WF_vars(Harvest(n))

Spec == Init /\ [][Next]_vars /\ Fairness

--------------------------------------------------------------------------------
Runs == [prog : Programs \cup {"none"}, at : Places, todo : SUBSET Names,
         name : Names \cup {""}, task : Tasks, left : SUBSET Lods,
         cat : Cats, again : BOOLEAN]

TypeOK ==
  /\ plan \in Plans /\ balance \in Nat /\ starts \in 0..MaxStarts /\ faults \in 0..MaxFaults
  /\ tasks \in Seq({"running", "success", "failed"})
  /\ inbox \in [Names -> Files] /\ tripo \in [Names -> Files]
  /\ meta \in [Names -> [task : Tasks, status : {"none", "success", "success_no_file"}]]
  /\ exported \in [Names -> Dirs] /\ assets \in [Cats -> [Names -> Dirs]]
  /\ run \in [Runners -> Runs]
  /\ \A r \in Runners : At(r, "poll") => run[r].task \in 1..Len(tasks)

(* Assets that a program may write over: reprocess does so on purpose; the  *)
(* wave when Blender crashes after the copy and the category of the brief   *)
(* is the one in which it tries again.                                      *)
WrittenOver(n) == \/ "reprocess" \in plan.programs
                  \/ "wave" \in plan.programs /\ n \in plan.props

(* The manifest of an asset stands for all its files: wherever one is, the  *)
(* levels of detail of the same model are there, and whole unless a later   *)
(* processing wrote over them.  Kills, crashes and exceptions of Blender    *)
(* and repeated executions included, for one program after the other;       *)
(* programs at the same time may buy two models for one name.  (The game    *)
(* and the skips of the programs trust the manifest; process_asset.py:319   *)
(* copies it last.)                                                         *)
ManifestMeansWhole ==
  Alone(plan) =>
    \A c \in Cats, n \in Names : assets[c][n].manifest # 0 =>
      \A l \in Lods : /\ assets[c][n].files[l].by = assets[c][n].manifest
                      /\ WrittenOver(n) \/ assets[c][n].files[l].whole

(* A meta.json that reports success describes the model beside it, and that *)
(* model is whole, whatever was killed or failed before and whichever       *)
(* program wrote it, for one program after the other.                       *)
MetaMatchesModel ==
  Alone(plan) =>
    \A n \in Names : meta[n].status = "success" => inbox[n] = File(meta[n].task, TRUE, FALSE)

(* The reserve: every program looks at the balance before it buys, so that  *)
(* programs at the same time take it below the smallest of their floors by  *)
(* one task each at most, even when a request of generate_tripo.py for the  *)
(* balance fails, which makes it buy unseen.                                *)
ReserveKept ==
  LET buyers == plan.programs \ {"reprocess"}
  IN  \A prog \in buyers :
        (\A o \in buyers : Floor[prog] <= Floor[o]) =>
           balance + Cost * Cardinality(plan.runners) >= Floor[prog] \/ balance = plan.credits

(* One program after the other: a model in the inbox, partial or whole, is  *)
(* never replaced by another one, and without --force nothing buys a model  *)
(* for a name that has one there, whatever the processing of the first did. *)
(* (What was paid for and never reached the inbox, as an answer, a poll or  *)
(* a download failed, is bought again; and programs at the same time        *)
(* replace each other's models.)                                            *)
PaidModelKept ==
  [][Alone(plan) =>
       /\ \A n \in Names : inbox[n].by # 0 => inbox'[n].by = inbox[n].by
       /\ Len(tasks') > Len(tasks) => \A r \in Runners : At(r, "create") => inbox[Name(r)].by = 0]_vars

(* A batch ends, though the service may never finish a task.                *)
BatchEnds == \A r \in Runners : ~At(r, "off") ~> At(r, "off")

(* A watching harvest, which also copies models that are being written,     *)
(* ends with what is in the inbox.                                          *)
Harvested == plan.harvest => \A n \in Names : <>[](tripo[n] = inbox[n])

(* What lies on the disk is what its metadata says, for one program after   *)
(* the other.                                                               *)
DiskIsTold == TypeOK /\ ManifestMeansWhole /\ MetaMatchesModel

(* Money: the reserve is kept, and nothing is bought for a name that has a  *)
(* model, by one program after the other.                                   *)
SpendsOnce == []ReserveKept /\ PaidModelKept

(* Batches end, and a watching harvest catches up.                          *)
PassesEnd == BatchEnds /\ Harvested
================================================================================
