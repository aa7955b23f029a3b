-------------------------- MODULE AssetPipelineProofs --------------------------
(***************************************************************************)
(* DiskIsTold and SpendsOnce for every set of names, levels of detail,     *)
(* programs, floors and prices.  The invariant follows a name from the     *)
(* first credit to the manifest in assets/.                                *)
(***************************************************************************)
EXTENDS AssetPipeline, FiniteSetTheorems, TLAPS

\* A runner executes a program of the scenario, and where it may be in it.
Live(r, p) ==
  /\ p.at # "off" => r \in plan.runners /\ p.prog \in plan.programs
  /\ p.at \notin {"off", "item"} => p.name \in Names
  /\ p.at \in {"balance", "generate", "create", "poll", "download", "write", "meta"}
       => p.prog # "reprocess"
  /\ p.at \in {"process", "export", "copy"} => p.prog # "images"

Typed == TypeOK /\ \A r \in Runners : Live(r, run[r])

\* Who has looked at the balance and not bought yet: while somebody has, or
\* after a purchase, the balance is above a floor that all buyers respect by
\* what the others may take of it at once.
Buyers  == plan.programs \ {"reprocess"}
Pending == {r \in plan.runners : run[r].at \in {"generate", "create"}}
Reserve ==
  \A f \in Nat :
    /\ \A o \in Buyers : f <= Floor[o]
    /\ Pending # {} \/ balance # plan.credits
    => balance + Cost * Cardinality(plan.runners) >= f + Cost * Cardinality(Pending)

--------------------------------------------------------------------------------
(* Types. *)

LEMMA PlanFacts ==
  ASSUME TypeOK
  PROVE  /\ plan.programs \subseteq Programs /\ plan.runners \subseteq Runners
         /\ plan.names \subseteq Names /\ plan.credits \in Nat
         /\ plan.starts \in 0..MaxStarts /\ plan.faults \in 0..MaxFaults
BY PlanAssumption DEF TypeOK

LEMMA OffTyped == Off \in Runs /\ Off.at = "off" /\ \A r : Live(r, Off)
BY DEF Off, Runs, Places, Cats, Tasks, Live

LEMMA FileTyped ==
  ASSUME NEW t \in Tasks, NEW w \in BOOLEAN, NEW k \in BOOLEAN
  PROVE  /\ File(t, w, k) \in Files
         /\ File(t, w, k).by = t /\ File(t, w, k).whole = w /\ File(t, w, k).keep = k
BY DEF File, Files

LEMMA EmptyTyped ==
  /\ Empty \in Dirs /\ Empty.manifest = 0
  /\ \A l \in Lods : Empty.files[l] = NoFile
  /\ NoFile \in Files /\ NoFile.by = 0 /\ NoFile.whole = FALSE
<1>1. NoFile \in Files /\ NoFile.by = 0 /\ NoFile.whole = FALSE
  BY FileTyped DEF NoFile, Tasks
<1> DEFINE bare == [l \in Lods |-> NoFile]
<1>2. bare \in [Lods -> Files] /\ \A l \in Lods : bare[l] = NoFile
  BY <1>1
<1>3. Empty = [files |-> bare, manifest |-> 0]
  BY DEF Empty, Dir
<1> HIDE DEF bare
<1> QED
  BY <1>1, <1>2, <1>3 DEF Dirs, Tasks

LEMMA InitTyped == Init => Typed
<1> SUFFICES ASSUME Init PROVE Typed
  OBVIOUS
<1>1. run \in [Runners -> Runs] /\ \A r \in Runners : run[r] = Off
  BY OffTyped DEF Init
<1>2. inbox \in [Names -> Files] /\ tripo \in [Names -> Files]
  BY EmptyTyped DEF Init
<1>3. exported \in [Names -> Dirs] /\ assets \in [Cats -> [Names -> Dirs]]
  BY EmptyTyped DEF Init
<1>4. meta \in [Names -> [task : Tasks, status : {"none", "success", "success_no_file"}]]
  BY DEF Init, NoMeta, Meta, Tasks
<1>5. plan \in Plans /\ balance \in Nat /\ starts \in 0..MaxStarts /\ faults \in 0..MaxFaults
  BY PlanAssumption, BoundAssumption DEF Init
<1>6. tasks = <<>> /\ tasks \in Seq({"running", "success", "failed"})
  BY DEF Init
<1>7. \A r \in Runners : ~At(r, "poll") /\ Live(r, run[r])
  BY <1>1, OffTyped DEF At
<1> QED
  BY <1>1, <1>2, <1>3, <1>4, <1>5, <1>6, <1>7 DEF Typed, TypeOK

LEMMA FaultTyped ==
  ASSUME TypeOK, Fault \/ NoFault
  PROVE  faults' \in 0..MaxFaults
<1>1. faults \in 0..MaxFaults /\ plan.faults \in 0..MaxFaults /\ MaxFaults \in Nat
  BY PlanFacts, BoundAssumption DEF TypeOK
<1> QED
  BY <1>1 DEF Fault, NoFault

\* A step of runner r, to the record d.
LEMMA RunTyped ==
  ASSUME Typed, NEW r \in Runners, NEW d \in Runs, run' = [run EXCEPT ![r] = d],
         UNCHANGED <<plan, tasks>>, Live(r, d), d.at = "poll" => d.task \in 1..Len(tasks)
  PROVE  /\ run' \in [Runners -> Runs]
         /\ \A o \in Runners : At(o, "poll")' => run'[o].task \in 1..Len(tasks')
         /\ \A o \in Runners : Live(o, run[o])'
<1>1. run \in [Runners -> Runs]
  BY DEF Typed, TypeOK
<1>2. \A o \in Runners : run'[o] = IF o = r THEN d ELSE run[o]
  BY <1>1
<1>3. \A o \in Runners : (At(o, "poll") => run[o].task \in 1..Len(tasks)) /\ Live(o, run[o])
  BY DEF Typed, TypeOK
<1>4. \A o, p : Live(o, p)' <=> Live(o, p)
  BY DEF Live
<1> QED
  BY <1>1, <1>2, <1>3, <1>4 DEF At

\* The record of a runner that goes to another place.
LEMMA GotoTyped ==
  ASSUME Typed, NEW r \in Runners, NEW place \in Places
  PROVE  LET d == [run[r] EXCEPT !.at = place] IN
         /\ d \in Runs /\ d.at = place /\ d.prog = run[r].prog /\ d.name = run[r].name
         /\ d.task = run[r].task /\ d.cat = run[r].cat /\ d.again = run[r].again
         /\ d.left = run[r].left
         /\ (Goto(r, place) <=> run' = [run EXCEPT ![r] = d])
<1>1. run \in [Runners -> Runs]
  BY DEF Typed, TypeOK
<1>2. run[r] \in Runs
  BY <1>1
<1> QED
  BY <1>1, <1>2 DEF Goto, Runs

LEMMA TypedStep ==
  ASSUME Typed, NEW r \in Runners, NEW d \in Runs, run' = [run EXCEPT ![r] = d],
         UNCHANGED <<plan, service>>, Live(r, d), d.at = "poll" => d.task \in 1..Len(tasks),
         starts' \in 0..MaxStarts, faults' \in 0..MaxFaults,
         inbox' \in [Names -> Files], tripo' \in [Names -> Files],
         meta' \in [Names -> [task : Tasks, status : {"none", "success", "success_no_file"}]],
         exported' \in [Names -> Dirs], assets' \in [Cats -> [Names -> Dirs]]
  PROVE  Typed'
<1>1. UNCHANGED <<plan, balance, tasks>>
  BY DEF service
<1>2. /\ run' \in [Runners -> Runs]
      /\ \A o \in Runners : At(o, "poll")' => run'[o].task \in 1..Len(tasks')
      /\ \A o \in Runners : Live(o, run[o])'
  BY <1>1, RunTyped
<1> QED
  BY <1>1, <1>2 DEF Typed, TypeOK

LEMMA HomeCat == \A n : Home(n) \in Cats
BY DEF Home, Cats

\* Where the loop takes the next name, if it does not end the program.
Taken(r, n, c, place) ==
  [run[r] EXCEPT !.todo = @ \ {n}, !.name = n, !.task = 0, !.cat = c, !.again = FALSE, !.at = place]

LEMMA ItemTyped ==
  ASSUME Typed, NEW r \in Runners, Item(r), ~Stop(r)
  PROVE  \E n \in Names, c \in Cats, place \in {"item", "process", "balance"} :
           LET d == Taken(r, n, c, place)
           IN  /\ d \in Runs /\ run' = [run EXCEPT ![r] = d] /\ Live(r, d)
               /\ place = "balance" => ~Skips(run[r].prog, n, c) /\ run[r].prog # "reprocess"
               /\ place = "process" => run[r].prog = "reprocess"
               /\ c \in CatsOf(run[r].prog, n)
               /\ d.at = place /\ d.name = n /\ d.prog = run[r].prog /\ d.cat = c
               /\ d.again = FALSE
<1>1. run[r] \in Runs /\ run \in [Runners -> Runs] /\ Live(r, run[r]) /\ run[r].at = "item"
  BY DEF Typed, TypeOK, Item, At
<1>2. \A n : CatsOf(run[r].prog, n) \subseteq Cats
  BY HomeCat DEF CatsOf
<1>3. PICK n \in run[r].todo, c \in Cats, place \in {"item", "process", "balance"} :
        /\ Takes(r, n, c, place) /\ c \in CatsOf(run[r].prog, n)
        /\ place = "balance" => ~Skips(run[r].prog, n, c) /\ run[r].prog # "reprocess"
        /\ place = "process" => run[r].prog = "reprocess"
  BY <1>2, ZenonT(60) DEF Item, Unreadable, Is
<1> DEFINE d == Taken(r, n, c, place)
<1>4. run' = [run EXCEPT ![r] = d]
  BY <1>1, <1>3 DEF Takes, Taken
<1>5. n \in Names /\ c \in Cats
  BY <1>1 DEF Runs
<1>6. d \in Runs
  BY <1>1, <1>3, <1>5 DEF Runs, Places, Tasks, Taken
<1>7. d.at = place /\ d.name = n /\ d.prog = run[r].prog /\ d.cat = c /\ d.again = FALSE
  BY <1>1 DEF Runs, Taken
<1> HIDE DEF d
<1>8. Live(r, d)
  BY <1>1, <1>3, <1>5, <1>7 DEF Live
<1> QED
  BY <1>3, <1>4, <1>5, <1>6, <1>7, <1>8 DEF d

LEMMA UnchangedDisk ==
  ASSUME Typed, UNCHANGED disk
  PROVE  /\ inbox' \in [Names -> Files]
         /\ meta' \in [Names -> [task : Tasks, status : {"none", "success", "success_no_file"}]]
         /\ exported' \in [Names -> Dirs] /\ assets' \in [Cats -> [Names -> Dirs]]
BY DEF Typed, TypeOK, disk

\* A step that goes to another place, or stops, and writes nothing.
LEMMA GoesTyped ==
  ASSUME Typed, NEW r \in Runners, NEW place \in Places, Goto(r, place),
         UNCHANGED <<plan, service, disk, tripo, starts>>, faults' \in 0..MaxFaults,
         Live(r, [run[r] EXCEPT !.at = place]),
         place = "poll" => run[r].task \in 1..Len(tasks)
  PROVE  Typed'
<1> DEFINE d == [run[r] EXCEPT !.at = place]
<1>1. d \in Runs /\ d.at = place /\ d.task = run[r].task /\ run' = [run EXCEPT ![r] = d]
  BY GotoTyped
<1>2. Live(r, d) /\ (d.at = "poll" => d.task \in 1..Len(tasks))
  BY <1>1
<1>3. starts' \in 0..MaxStarts /\ tripo' \in [Names -> Files]
  BY DEF Typed, TypeOK
<1> HIDE DEF d
<1> QED
  BY <1>1, <1>2, <1>3, UnchangedDisk, TypedStep

LEMMA StopsTyped ==
  ASSUME Typed, NEW r \in Runners, Stop(r),
         UNCHANGED <<plan, service, disk, tripo, starts>>, faults' \in 0..MaxFaults
  PROVE  Typed'
<1>1. run' = [run EXCEPT ![r] = Off] /\ starts' \in 0..MaxStarts /\ tripo' \in [Names -> Files]
  BY DEF Stop, Typed, TypeOK
<1> QED
  BY <1>1, OffTyped, UnchangedDisk, TypedStep

LEMMA LiveGoto ==
  ASSUME Typed, NEW r \in Runners, run[r].at \notin {"off", "item"}, NEW place \in Places,
         place \in {"balance", "generate", "create", "poll", "download", "write", "meta"}
           => run[r].prog # "reprocess",
         place \in {"process", "export", "copy"} => run[r].prog # "images"
  PROVE  Live(r, [run[r] EXCEPT !.at = place])
<1> DEFINE d == [run[r] EXCEPT !.at = place]
<1>1. d.at = place /\ d.prog = run[r].prog /\ d.name = run[r].name
  BY GotoTyped
<1>2. Live(r, run[r])
  BY DEF Typed
<1> HIDE DEF d
<1> QED
  BY <1>1, <1>2 DEF Live

LEMMA AskTyped ==
  ASSUME Typed, NEW r \in Runners, Balance(r) \/ Generate(r) \/ Poll(r)
  PROVE  Typed'
<1>1. UNCHANGED <<plan, service, disk, tripo, starts>> /\ faults' \in 0..MaxFaults
  BY FaultTyped DEF Balance, Generate, Poll, Typed
<1>2. run[r].at \in {"balance", "generate", "poll"} /\ Live(r, run[r])
  BY DEF Balance, Generate, Poll, At, Typed
<1>3. run[r].prog # "reprocess"
  BY <1>2 DEF Live
<1>4. \/ Stop(r)
      \/ \E place \in {"item", "generate", "create", "download"} : Goto(r, place)
      \/ run[r].prog = "daemon" /\ Goto(r, "process")
  BY DEF Balance, Generate, Poll, PollEnds, NextName, Is
<1>5. CASE Stop(r)
  BY <1>1, <1>5, StopsTyped
<1>6. ASSUME NEW place \in {"item", "generate", "create", "download"}, Goto(r, place)
      PROVE  Typed'
  <2>1. place \in Places
    BY DEF Places
  <2>2. Live(r, [run[r] EXCEPT !.at = place])
    BY <1>2, <1>3, <2>1, LiveGoto
  <2> QED
    BY <1>1, <1>6, <2>1, <2>2, GoesTyped
<1>7. CASE run[r].prog = "daemon" /\ Goto(r, "process")
  <2>1. "process" \in Places
    BY DEF Places
  <2>2. Live(r, [run[r] EXCEPT !.at = "process"])
    BY <1>2, <1>7, <2>1, LiveGoto
  <2> QED
    BY <1>1, <1>7, <2>1, <2>2, GoesTyped
<1> QED
  BY <1>4, <1>5, <1>6, <1>7

LEMMA StartTyped ==
  ASSUME Typed, NEW r \in Runners, NEW prog \in Programs, Start(r, prog)
  PROVE  /\ Typed'
         /\ r \in plan.runners /\ prog \in plan.programs
         /\ \E d : run' = [run EXCEPT ![r] = d] /\ d.at = "item"
<1>1. /\ starts' = starts + 1 /\ starts < plan.starts
      /\ r \in plan.runners /\ prog \in plan.programs
      /\ UNCHANGED <<plan, service, disk, tripo, faults>>
  BY DEF Start
<1> DEFINE todo == IF prog = "reprocess" THEN {n \in plan.names : inbox[n].by # 0} ELSE plan.names
           d == [Off EXCEPT !.prog = prog, !.at = "item", !.todo = todo]
<1>2. run' = [run EXCEPT ![r] = d]
  BY DEF Start
<1>3. todo \subseteq Names
  BY PlanFacts DEF Typed
<1> HIDE DEF todo
<1>4. d \in Runs /\ d.at = "item" /\ d.prog = prog
  BY <1>3, OffTyped DEF Runs, Places, Off
<1> HIDE DEF d
<1>5. Live(r, d)
  BY <1>1, <1>4 DEF Live
<1>6. starts' \in 0..MaxStarts /\ faults' \in 0..MaxFaults /\ tripo' \in [Names -> Files]
  BY <1>1, PlanFacts, BoundAssumption DEF Typed, TypeOK
<1> QED
  BY <1>1, <1>2, <1>4, <1>5, <1>6, UnchangedDisk, TypedStep

LEMMA ItemsTyped ==
  ASSUME Typed, NEW r \in Runners, Item(r)
  PROVE  Typed'
<1>1. UNCHANGED <<plan, service, disk, tripo, starts, faults>>
  BY DEF Item
<1>2. faults' \in 0..MaxFaults /\ starts' \in 0..MaxStarts /\ tripo' \in [Names -> Files]
  BY <1>1 DEF Typed, TypeOK
<1>3. CASE Stop(r)
  BY <1>1, <1>2, <1>3, StopsTyped
<1>4. CASE ~Stop(r)
  <2>1. PICK n \in Names, c \in Cats, place \in {"item", "process", "balance"} :
          LET d == Taken(r, n, c, place)
          IN  /\ d \in Runs /\ run' = [run EXCEPT ![r] = d] /\ Live(r, d)
              /\ place = "balance" => ~Skips(run[r].prog, n, c) /\ run[r].prog # "reprocess"
              /\ place = "process" => run[r].prog = "reprocess"
              /\ c \in CatsOf(run[r].prog, n)
              /\ d.at = place /\ d.name = n /\ d.prog = run[r].prog /\ d.cat = c
              /\ d.again = FALSE
    BY <1>4, ItemTyped
  <2> QED
    BY <1>1, <1>2, <2>1, UnchangedDisk, TypedStep
<1> QED
  BY <1>3, <1>4

LEMMA CreateTyped ==
  ASSUME Typed, NEW r \in Runners, Create(r)
  PROVE  Typed'
<1>1. UNCHANGED <<plan, disk, tripo, starts>> /\ faults' \in 0..MaxFaults
  BY FaultTyped DEF Create, Typed
<1>2. /\ run[r] \in Runs /\ run \in [Runners -> Runs] /\ Live(r, run[r]) /\ run[r].at = "create"
      /\ balance \in Nat /\ tasks \in Seq({"running", "success", "failed"})
      /\ Cost \in Nat \ {0}
  BY CostAssumption DEF Typed, TypeOK, Create, At
<1>3. ASSUME NEW o \in Runners, At(o, "poll") PROVE run[o].task \in 1..Len(tasks)
  BY <1>3 DEF Typed, TypeOK
<1>4. CASE Accept
  <2>1. /\ balance' \in Nat /\ tasks' \in Seq({"running", "success", "failed"})
        /\ Len(tasks') = Len(tasks) + 1 /\ Len(tasks) \in Nat
    BY <1>2, <1>4 DEF Accept
  <2>2. CASE run' = [run EXCEPT ![r].at = "poll", ![r].task = Len(tasks) + 1]
    <3> DEFINE t == Len(tasks) + 1
               d == [run[r] EXCEPT !.at = "poll", !.task = t]
    <3>0. t \in Tasks /\ t \in 1..Len(tasks')
      BY <2>1 DEF Tasks
    <3>1. run' = [run EXCEPT ![r] = d]
      BY <1>2, <2>2
    <3> HIDE DEF t
    <3>2. /\ d \in Runs /\ d.at = "poll" /\ d.task = t
          /\ d.prog = run[r].prog /\ d.name = run[r].name
      BY <1>2, <3>0 DEF Runs, Places
    <3> HIDE DEF d
    <3>3. run' \in [Runners -> Runs]
      BY <1>2, <3>1, <3>2
    <3>4. ASSUME NEW o \in Runners, run'[o].at = "poll" PROVE run'[o].task \in 1..Len(tasks')
      BY <1>2, <1>3, <2>1, <3>0, <3>1, <3>2, <3>4 DEF At
    <3>5. ASSUME NEW o \in Runners PROVE Live(o, run[o])'
      BY <1>1, <1>2, <3>1, <3>2 DEF Live, Typed
    <3> QED
      BY <1>1, <2>1, <3>3, <3>4, <3>5, UnchangedDisk DEF Typed, TypeOK, At
  <2>3. CASE NextName(r)
    <3> DEFINE d == [run[r] EXCEPT !.at = "item"]
    <3>1. /\ d \in Runs /\ d.at = "item" /\ d.prog = run[r].prog
          /\ run' = [run EXCEPT ![r] = d]
      BY <2>3, GotoTyped, ZenonT(60) DEF NextName, Places
    <3> HIDE DEF d
    <3>3. run' \in [Runners -> Runs]
      BY <1>2, <3>1
    <3>4. ASSUME NEW o \in Runners, run'[o].at = "poll" PROVE run'[o].task \in 1..Len(tasks')
      BY <1>2, <1>3, <2>1, <3>1, <3>4 DEF At
    <3>5. ASSUME NEW o \in Runners PROVE Live(o, run[o])'
      BY <1>1, <1>2, <3>1 DEF Live, Typed
    <3> QED
      BY <1>1, <2>1, <3>3, <3>4, <3>5, UnchangedDisk DEF Typed, TypeOK, At
  <2> QED
    BY <1>4, <2>2, <2>3, <1>2 DEF Create, Accept, service
<1>5. CASE NextName(r) /\ UNCHANGED service
  <2>1. "item" \in Places /\ Goto(r, "item")
    BY <1>5 DEF Places, NextName
  <2>2. Live(r, [run[r] EXCEPT !.at = "item"])
    BY <1>2, <2>1, LiveGoto
  <2> QED
    BY <1>1, <1>5, <2>1, <2>2, GoesTyped
<1> QED
  BY <1>4, <1>5 DEF Create

\* A step that goes to another place and writes.
LEMMA WritesTyped ==
  ASSUME Typed, NEW r \in Runners, NEW place \in Places, Goto(r, place), place # "poll",
         UNCHANGED <<plan, service, tripo, starts>>, faults' \in 0..MaxFaults,
         Live(r, [run[r] EXCEPT !.at = place]),
         inbox' \in [Names -> Files],
         meta' \in [Names -> [task : Tasks, status : {"none", "success", "success_no_file"}]],
         exported' \in [Names -> Dirs], assets' \in [Cats -> [Names -> Dirs]]
  PROVE  Typed'
<1> DEFINE d == [run[r] EXCEPT !.at = place]
<1>1. d \in Runs /\ d.at = place /\ run' = [run EXCEPT ![r] = d]
  BY GotoTyped
<1>2. starts' \in 0..MaxStarts /\ tripo' \in [Names -> Files]
  BY DEF Typed, TypeOK
<1>3. Live(r, d)
  OBVIOUS
<1> HIDE DEF d
<1> QED
  BY <1>1, <1>2, <1>3, TypedStep

Metas == [task : Tasks, status : {"none", "success", "success_no_file"}]

LEMMA RunFacts ==
  ASSUME Typed, NEW r \in Runners
  PROVE  /\ run[r] \in Runs /\ Live(r, run[r]) /\ run[r].task \in Tasks
         /\ run \in [Runners -> Runs] /\ inbox \in [Names -> Files] /\ meta \in [Names -> Metas]
         /\ exported \in [Names -> Dirs] /\ assets \in [Cats -> [Names -> Dirs]]
         /\ run[r].at \notin {"off", "item"} => Name(r) \in Names
         /\ run[r].cat \in Cats /\ run[r].left \subseteq Lods
<1>1. run[r] \in Runs /\ Live(r, run[r]) /\ run \in [Runners -> Runs]
  BY DEF Typed, TypeOK
<1>2. run[r].task \in Tasks /\ run[r].cat \in Cats /\ run[r].left \subseteq Lods
  BY <1>1 DEF Runs
<1>3. run[r].at \notin {"off", "item"} => Name(r) \in Names
  BY <1>1 DEF Live, Name
<1> QED
  BY <1>1, <1>2, <1>3 DEF Typed, TypeOK, Metas

LEMMA DownloadTyped ==
  ASSUME Typed, NEW r \in Runners, Download(r)
  PROVE  Typed'
<1>1. UNCHANGED <<plan, service, exported, assets, tripo, starts>> /\ faults' \in 0..MaxFaults
  BY FaultTyped DEF Download, Typed
<1>2. run[r].at = "download"
  BY DEF Download, At
<1>3. run[r].prog # "reprocess" /\ Name(r) \in Names
  BY <1>2, RunFacts DEF Live
<1>4. inbox' \in [Names -> Files]
  <2>1. File(run[r].task, FALSE, FALSE) \in Files
    BY RunFacts, FileTyped
  <2> QED
    BY <2>1, RunFacts DEF Download
<1>5. meta' \in [Names -> Metas]
  <2>1. Meta(run[r].task, "success_no_file") \in Metas
    BY RunFacts DEF Meta, Metas
  <2> QED
    BY <2>1, RunFacts DEF Download
<1>6. exported' \in [Names -> Dirs] /\ assets' \in [Cats -> [Names -> Dirs]]
  BY <1>1, RunFacts
<1>7. \/ \E place \in {"write", "item"} : Goto(r, place)
      \/ run[r].prog # "images" /\ Goto(r, "process")
  BY DEF Download, NextName, Is
<1>8. {"write", "item", "process"} \subseteq Places
  BY DEF Places
<1>9. ASSUME NEW place \in {"write", "item", "process"}, Goto(r, place),
             place = "process" => run[r].prog # "images"
      PROVE  Typed'
  <2>1. Live(r, [run[r] EXCEPT !.at = place])
    BY <1>2, <1>3, <1>8, <1>9, LiveGoto
  <2> QED
    BY <1>1, <1>4, <1>5, <1>6, <1>8, <1>9, <2>1, WritesTyped DEF Metas
<1> QED
  BY <1>7, <1>9

LEMMA WriteTyped ==
  ASSUME Typed, NEW r \in Runners, Write(r)
  PROVE  Typed'
<1>1. UNCHANGED <<plan, service, meta, exported, assets, tripo, starts>> /\ faults' \in 0..MaxFaults
  BY FaultTyped DEF Write, Typed
<1>2. run[r].at = "write"
  BY DEF Write, At
<1>3. run[r].prog # "reprocess" /\ Name(r) \in Names
  BY <1>2, RunFacts DEF Live
<1>4. inbox' \in [Names -> Files]
  <2>1. ASSUME NEW w \in BOOLEAN PROVE [inbox[Name(r)] EXCEPT !.whole = w] \in Files
    BY <1>3, RunFacts DEF Files
  <2> DEFINE w == /\ inbox[Name(r)].by = run[r].task
                  /\ \A o \in Runners \ {r} : ~(At(o, "write") /\ Name(o) = Name(r))
  <2>2. w \in BOOLEAN
    OBVIOUS
  <2>3. UNCHANGED inbox \/ inbox' = [inbox EXCEPT ![Name(r)].whole = w]
    BY DEF Write
  <2> HIDE DEF w
  <2> QED
    BY <1>3, <2>1, <2>2, <2>3, RunFacts
<1>5. meta' \in [Names -> Metas] /\ exported' \in [Names -> Dirs] /\ assets' \in [Cats -> [Names -> Dirs]]
  BY <1>1, RunFacts
<1>6. PICK place \in {"meta", "item"} : Goto(r, place)
  BY DEF Write, NextName
<1>7. place \in Places /\ place # "poll"
  BY DEF Places
<1>8. Live(r, [run[r] EXCEPT !.at = place])
  BY <1>2, <1>3, <1>7, LiveGoto
<1> QED
  BY <1>1, <1>4, <1>5, <1>6, <1>7, <1>8, WritesTyped DEF Metas

LEMMA WriteMetaTyped ==
  ASSUME Typed, NEW r \in Runners, WriteMeta(r)
  PROVE  Typed'
<1>1. UNCHANGED <<plan, service, inbox, exported, assets, tripo, starts>> /\ faults' \in 0..MaxFaults
  BY DEF WriteMeta, Typed, TypeOK
<1>2. run[r].at = "meta"
  BY DEF WriteMeta, At
<1>3. run[r].prog # "reprocess" /\ Name(r) \in Names
  BY <1>2, RunFacts DEF Live
<1>4. meta' \in [Names -> Metas]
  <2>1. Meta(run[r].task, "success") \in Metas
    BY RunFacts DEF Meta, Metas
  <2> QED
    BY <2>1, RunFacts DEF WriteMeta
<1>5. inbox' \in [Names -> Files] /\ exported' \in [Names -> Dirs] /\ assets' \in [Cats -> [Names -> Dirs]]
  BY <1>1, RunFacts
<1>6. PICK place \in {"process", "item"} : Goto(r, place) /\ (place = "process" => run[r].prog # "images")
  BY DEF WriteMeta, Is
<1>7. place \in Places /\ place # "poll"
  BY DEF Places
<1>8. Live(r, [run[r] EXCEPT !.at = place])
  BY <1>2, <1>3, <1>6, <1>7, LiveGoto
<1> QED
  BY <1>1, <1>4, <1>5, <1>6, <1>7, <1>8, WritesTyped DEF Metas


\* One file, or the manifest, of a directory.
LEMMA DirTyped ==
  ASSUME NEW d \in Dirs
  PROVE  /\ \A l \in Lods, f \in Files : [d EXCEPT !.files[l] = f] \in Dirs
         /\ \A t \in Tasks : [d EXCEPT !.manifest = t] \in Dirs
         /\ \A l \in Lods : d.files[l] \in Files
         /\ d.manifest \in Tasks
<1>1. d.files \in [Lods -> Files] /\ d.manifest \in Tasks
  BY DEF Dirs
<1>2. ASSUME NEW l \in Lods, NEW f \in Files PROVE [d EXCEPT !.files[l] = f] \in Dirs
  <2>1. [d.files EXCEPT ![l] = f] \in [Lods -> Files]
    BY <1>1
  <2>2. [d EXCEPT !.files[l] = f] = [d EXCEPT !.files = [d.files EXCEPT ![l] = f]]
    BY DEF Dirs
  <2> QED
    BY <2>1, <2>2 DEF Dirs
<1>3. ASSUME NEW t \in Tasks PROVE [d EXCEPT !.manifest = t] \in Dirs
  BY <1>3 DEF Dirs
<1> QED
  BY <1>1, <1>2, <1>3

\* One directory of assets/.
LEMMA AssetsTyped ==
  ASSUME NEW as \in [Cats -> [Names -> Dirs]], NEW c \in Cats, NEW n \in Names, NEW d \in Dirs,
         NEW new, new = [as EXCEPT ![c][n] = d]
  PROVE  /\ new \in [Cats -> [Names -> Dirs]]
         /\ \A b \in Cats, o \in Names : new[b][o] = IF b = c /\ o = n THEN d ELSE as[b][o]
<1>1. [as[c] EXCEPT ![n] = d] \in [Names -> Dirs]
  OBVIOUS
<1>2. new = [as EXCEPT ![c] = [as[c] EXCEPT ![n] = d]]
  OBVIOUS
<1> QED
  BY <1>1, <1>2

\* What the caller of process_asset.py makes of the directories, spelled out.
LEMMA EndsTyped ==
  ASSUME NEW r, Name(r) \in Names, NEW as \in [Cats -> [Names -> Dirs]], NEW rc, Ends(r, rc, as)
  PROVE  /\ NextName(r) \/ Stop(r)
         /\ assets' \in [Cats -> [Names -> Dirs]]
         /\ ~Moves(r, rc, as) => assets' = as
         /\ Moves(r, rc, as) =>
              \A c \in Cats, n \in Names :
                IF n # Name(r) THEN assets'[c][n] = as[c][n]
                ELSE assets'[c][n] \in {Empty, as["own"][n], as["props"][n]}
<1>1. (NextName(r) \/ Stop(r)) /\ (~Moves(r, rc, as) => assets' = as)
  BY DEF Ends
<1>2. CASE ~Moves(r, rc, as)
  BY <1>1, <1>2
<1>3. CASE Moves(r, rc, as)
  <2> DEFINE n == Name(r)
  <2>1. PICK own : /\ own = as["own"][n] \/ own = as["props"][n]
                   /\ assets' = [as EXCEPT !["own"][n] = own, !["props"][n] = Empty]
    BY <1>3 DEF Ends
  <2>2. "own" \in Cats /\ "props" \in Cats /\ own \in Dirs /\ Empty \in Dirs /\ n \in Names
    BY <2>1, EmptyTyped DEF Cats
  <2> DEFINE as1 == [as EXCEPT !["own"][n] = own]
             as2 == [as1 EXCEPT !["props"][n] = Empty]
  <2>3. assets' = as2
    BY <2>1, <2>2
  <2>4. own = as["own"][n] \/ own = as["props"][n]
    BY <2>1
  <2> HIDE DEF n
  <2>5. as1 = [as EXCEPT !["own"][n] = own] /\ as2 = [as1 EXCEPT !["props"][n] = Empty]
    OBVIOUS
  <2> HIDE DEF as1, as2
  <2>6. \A new, c \in Cats, d \in Dirs, bs \in [Cats -> [Names -> Dirs]] :
          new = [bs EXCEPT ![c][n] = d] =>
            /\ new \in [Cats -> [Names -> Dirs]]
            /\ \A b \in Cats, o \in Names : new[b][o] = IF b = c /\ o = n THEN d ELSE bs[b][o]
    BY <2>2, AssetsTyped
  <2>7. as1 \in [Cats -> [Names -> Dirs]]
        /\ \A c \in Cats, o \in Names : as1[c][o] = IF c = "own" /\ o = n THEN own ELSE as[c][o]
    BY <2>2, <2>5, <2>6, ZenonT(60)
  <2>8. as2 \in [Cats -> [Names -> Dirs]]
        /\ \A c \in Cats, o \in Names : as2[c][o] = IF c = "props" /\ o = n THEN Empty ELSE as1[c][o]
    BY <2>2, <2>5, <2>6, <2>7, ZenonT(60)
  <2>9. \A c \in Cats, o \in Names :
          IF o # n THEN assets'[c][o] = as[c][o]
          ELSE assets'[c][o] \in {Empty, as["own"][o], as["props"][o]}
    <3> SUFFICES ASSUME NEW c \in Cats, NEW o \in Names
                 PROVE  IF o # n THEN assets'[c][o] = as[c][o]
                        ELSE assets'[c][o] \in {Empty, as["own"][o], as["props"][o]}
      OBVIOUS
    <3>1. /\ as2[c][o] = IF c = "props" /\ o = n THEN Empty ELSE as1[c][o]
          /\ as1[c][o] = IF c = "own" /\ o = n THEN own ELSE as[c][o]
      BY <2>7, <2>8
    <3>2. c = "own" \/ c = "props"
      BY DEF Cats
    <3> QED
      BY <2>3, <2>4, <3>1, <3>2
  <2> QED
    BY <1>1, <1>3, <2>3, <2>8, <2>9 DEF n
<1> QED
  BY <1>2, <1>3

\* The record of a runner whose process_asset.py failed.
Again(r) == [run[r] EXCEPT !.at = "process", !.cat = "props", !.again = TRUE]

LEMMA RejectedTyped ==
  ASSUME Typed, NEW r \in Runners, NEW as, Rejected(r, as),
         run[r].at \in {"process", "export", "copy"}
  PROVE  \/ /\ run[r].prog = "wave" /\ run[r].again = FALSE /\ assets' = as
            /\ run' = [run EXCEPT ![r] = Again(r)]
            /\ Again(r) \in Runs /\ Live(r, Again(r)) /\ Again(r).at = "process"
            /\ Again(r).prog = "wave" /\ Again(r).cat = "props" /\ Again(r).again = TRUE
            /\ Again(r).name = run[r].name /\ Again(r).task = run[r].task
         \/ Ends(r, 1, as)
<1>1. run[r] \in Runs /\ Live(r, run[r]) /\ run \in [Runners -> Runs]
  BY RunFacts
<1>2. CASE Is(r, {"wave"}) /\ ~run[r].again
  <2>1. run[r].prog = "wave" /\ run[r].again = FALSE /\ assets' = as
    BY <1>1, <1>2 DEF Is, Rejected, Runs
  <2>2. run' = [run EXCEPT ![r] = Again(r)]
    BY <1>1, <1>2 DEF Again, Rejected
  <2>3. /\ Again(r) \in Runs /\ Again(r).at = "process"
        /\ Again(r).prog = run[r].prog /\ Again(r).cat = "props" /\ Again(r).again = TRUE
        /\ Again(r).name = run[r].name /\ Again(r).task = run[r].task
    BY <1>1 DEF Again, Runs, Places, Cats
  <2>4. Live(r, Again(r))
    BY <1>1, <2>1, <2>3 DEF Live
  <2> QED
    BY <2>1, <2>2, <2>3, <2>4
<1> QED
  BY <1>2 DEF Rejected

\* One file, or the manifest, of a directory below processed/ or assets/.
LEMMA WrittenDir ==
  ASSUME NEW es \in [Names -> Dirs], NEW n \in Names, NEW l \in Lods, NEW f \in Files, NEW t \in Tasks
  PROVE  /\ [es EXCEPT ![n].files[l] = f] = [es EXCEPT ![n] = [es[n] EXCEPT !.files[l] = f]]
         /\ [es EXCEPT ![n].manifest = t] = [es EXCEPT ![n] = [es[n] EXCEPT !.manifest = t]]
         /\ [es EXCEPT ![n].files[l] = f] \in [Names -> Dirs]
         /\ [es EXCEPT ![n].manifest = t] \in [Names -> Dirs]
<1>1. [es[n] EXCEPT !.files[l] = f] \in Dirs /\ [es[n] EXCEPT !.manifest = t] \in Dirs
  BY DirTyped
<1>2. /\ [es EXCEPT ![n].files[l] = f] = [es EXCEPT ![n] = [es[n] EXCEPT !.files[l] = f]]
      /\ [es EXCEPT ![n].manifest = t] = [es EXCEPT ![n] = [es[n] EXCEPT !.manifest = t]]
  OBVIOUS
<1> QED
  BY <1>1, <1>2

LEMMA WrittenAssets ==
  ASSUME NEW as \in [Cats -> [Names -> Dirs]], NEW c \in Cats, NEW n \in Names,
         NEW l \in Lods, NEW f \in Files, NEW t \in Tasks
  PROVE  /\ [as EXCEPT ![c][n].files[l] = f] = [as EXCEPT ![c][n] = [as[c][n] EXCEPT !.files[l] = f]]
         /\ [as EXCEPT ![c][n].manifest = t] = [as EXCEPT ![c][n] = [as[c][n] EXCEPT !.manifest = t]]
         /\ [as EXCEPT ![c][n].files[l] = f] \in [Cats -> [Names -> Dirs]]
         /\ [as EXCEPT ![c][n].manifest = t] \in [Cats -> [Names -> Dirs]]
<1>1. as[c][n] \in Dirs /\ as[c] \in [Names -> Dirs]
  OBVIOUS
<1>2. [as[c][n] EXCEPT !.files[l] = f] \in Dirs /\ [as[c][n] EXCEPT !.manifest = t] \in Dirs
  BY <1>1, DirTyped
<1>3. /\ [as EXCEPT ![c][n].files[l] = f] = [as EXCEPT ![c][n] = [as[c][n] EXCEPT !.files[l] = f]]
      /\ [as EXCEPT ![c][n].manifest = t] = [as EXCEPT ![c][n] = [as[c][n] EXCEPT !.manifest = t]]
  OBVIOUS
<1>4. \A d \in Dirs : [as EXCEPT ![c][n] = d] \in [Cats -> [Names -> Dirs]]
  BY AssetsTyped
<1> QED
  BY <1>2, <1>3, <1>4

\* A step of process_asset.py or of its caller: how it leaves the runner.
LEMMA EndsStep ==
  ASSUME Typed, NEW r \in Runners, NEW as \in [Cats -> [Names -> Dirs]], NEW rc, Ends(r, rc, as),
         run[r].at \in {"process", "export", "copy"},
         UNCHANGED <<plan, service, inbox, meta, tripo, starts>>, faults' \in 0..MaxFaults,
         exported' \in [Names -> Dirs]
  PROVE  Typed'
<1>1. Name(r) \in Names /\ inbox' \in [Names -> Files] /\ meta' \in [Names -> Metas]
      /\ starts' \in 0..MaxStarts /\ tripo' \in [Names -> Files]
  BY RunFacts DEF Typed, TypeOK
<1>2. (Goto(r, "item") \/ Stop(r)) /\ assets' \in [Cats -> [Names -> Dirs]]
  BY <1>1, EndsTyped DEF NextName
<1>3. CASE Goto(r, "item")
  <2>1. "item" \in Places /\ Live(r, [run[r] EXCEPT !.at = "item"])
    BY LiveGoto DEF Places
  <2> QED
    BY <1>1, <1>2, <1>3, <2>1, WritesTyped DEF Metas
<1>4. CASE Stop(r)
  <2>1. run' = [run EXCEPT ![r] = Off] /\ UNCHANGED <<plan, service>>
    BY <1>4 DEF Stop
  <2> QED
    BY <1>1, <1>2, <2>1, OffTyped, TypedStep DEF Metas
<1> QED
  BY <1>2, <1>3, <1>4

LEMMA RejectedStep ==
  ASSUME Typed, NEW r \in Runners, NEW as \in [Cats -> [Names -> Dirs]], Rejected(r, as),
         run[r].at \in {"process", "export", "copy"},
         UNCHANGED <<plan, service, inbox, meta, tripo, starts>>, faults' \in 0..MaxFaults,
         exported' \in [Names -> Dirs]
  PROVE  Typed'
<1>1. /\ inbox' \in [Names -> Files] /\ meta' \in [Names -> Metas]
      /\ starts' \in 0..MaxStarts /\ tripo' \in [Names -> Files]
  BY RunFacts DEF Typed, TypeOK
<1>2. CASE Ends(r, 1, as)
  BY <1>1, <1>2, EndsStep
<1>3. CASE ~Ends(r, 1, as)
  <2>1. /\ run' = [run EXCEPT ![r] = Again(r)] /\ assets' = as
        /\ Again(r) \in Runs /\ Live(r, Again(r)) /\ Again(r).at = "process"
    BY <1>3, RejectedTyped
  <2>2. assets' \in [Cats -> [Names -> Dirs]]
    BY <2>1
  <2>3. UNCHANGED <<plan, service>>
    OBVIOUS
  <2> HIDE DEF Again
  <2> QED
    BY <1>1, <2>1, <2>2, <2>3, TypedStep DEF Metas
<1> QED
  BY <1>2, <1>3

LEMMA BrokenStep ==
  ASSUME Typed, NEW r \in Runners, NEW as \in [Cats -> [Names -> Dirs]], Broken(r, as),
         run[r].at \in {"process", "export", "copy"},
         UNCHANGED <<plan, service, inbox, meta, tripo, starts>>, exported' \in [Names -> Dirs]
  PROVE  Typed'
<1>1. faults' \in 0..MaxFaults
  BY FaultTyped DEF Broken, Typed
<1> QED
  BY <1>1, EndsStep, RejectedStep DEF Broken, Accepted

\* What an interrupted export or copy leaves.
LEMMA CutTyped ==
  ASSUME Typed, NEW r \in Runners
  PROVE  /\ At(r, "export") => CutExports(r) \subseteq [Names -> Dirs]
         /\ At(r, "copy") => CutCopies(r) \subseteq [Cats -> [Names -> Dirs]]
<1>1. /\ assets \in [Cats -> [Names -> Dirs]] /\ exported \in [Names -> Dirs]
      /\ run[r].cat \in Cats /\ run[r].left \subseteq Lods /\ run[r].task \in Tasks
      /\ At(r, "export") \/ At(r, "copy") => Name(r) \in Names
  BY RunFacts DEF At
<1>2. ASSUME NEW l \in run[r].left, At(r, "export")
      PROVE  [exported EXCEPT ![Name(r)].files[l] = File(run[r].task, FALSE, Keeps(r))] \in [Names -> Dirs]
  <2>1. File(run[r].task, FALSE, Keeps(r)) \in Files /\ \E t : t \in Tasks
    BY <1>1, FileTyped DEF Keeps, Is
  <2> QED
    BY <1>1, <1>2, <2>1, WrittenDir
<1>3. ASSUME NEW l \in run[r].left, At(r, "copy")
      PROVE  [assets EXCEPT ![run[r].cat][Name(r)].files[l] =
                [exported[Name(r)].files[l] EXCEPT !.whole = FALSE]] \in [Cats -> [Names -> Dirs]]
  <2>1. exported[Name(r)].files[l] \in Files /\ \E t : t \in Tasks
    BY <1>1, <1>3, DirTyped
  <2>2. [exported[Name(r)].files[l] EXCEPT !.whole = FALSE] \in Files
    BY <2>1 DEF Files
  <2> QED
    BY <1>1, <1>3, <2>1, <2>2, WrittenAssets, ZenonT(60)
<1> QED
  BY <1>1, <1>2, <1>3, ZenonT(60) DEF CutExports, CutCopies

LEMMA ProcessTyped ==
  ASSUME Typed, NEW r \in Runners, Process(r)
  PROVE  Typed'
<1>1. UNCHANGED <<plan, service, inbox, meta, exported, tripo, starts>> /\ faults' \in 0..MaxFaults
  BY FaultTyped DEF Process, Broken, Typed
<1>2. run[r].at = "process" /\ Name(r) \in Names /\ run[r] \in Runs /\ Live(r, run[r])
  BY RunFacts DEF Process, At
<1>3. /\ inbox' \in [Names -> Files] /\ meta' \in [Names -> Metas] /\ exported' \in [Names -> Dirs]
      /\ assets \in [Cats -> [Names -> Dirs]] /\ inbox[Name(r)] \in Files
      /\ starts' \in 0..MaxStarts /\ tripo' \in [Names -> Files]
  BY <1>1, <1>2, RunFacts DEF Typed, TypeOK
<1>4. CASE Broken(r, assets)
  BY <1>1, <1>2, <1>3, <1>4, BrokenStep
<1>5. CASE Accepted(r, assets)
  BY <1>1, <1>2, <1>3, <1>5, EndsStep DEF Accepted
<1>6. CASE /\ run' = [run EXCEPT ![r].at = "export", ![r].left = Lods, ![r].task = inbox[Name(r)].by]
           /\ UNCHANGED assets
  <2> DEFINE t == inbox[Name(r)].by
             d == [run[r] EXCEPT !.at = "export", !.left = Lods, !.task = t]
  <2>1. run \in [Runners -> Runs] /\ t \in Tasks
    BY <1>3, RunFacts DEF Files
  <2>2. run' = [run EXCEPT ![r] = d]
    BY <1>6, <2>1
  <2> HIDE DEF t
  <2>3. d \in Runs /\ d.at = "export" /\ d.prog = run[r].prog /\ d.name = run[r].name
    BY <1>2, <2>1 DEF Runs, Places
  <2> HIDE DEF d
  <2>4. Live(r, d)
    BY <1>2, <2>3 DEF Live
  <2>5. assets' \in [Cats -> [Names -> Dirs]] /\ UNCHANGED <<plan, service>>
    BY <1>1, <1>3, <1>6
  <2> QED
    BY <1>3, <1>1, <2>2, <2>3, <2>4, <2>5, TypedStep DEF Metas
<1> QED
  BY <1>4, <1>5, <1>6 DEF Process

LEMMA ExportTyped ==
  ASSUME Typed, NEW r \in Runners, Export(r)
  PROVE  Typed'
<1>1. UNCHANGED <<plan, service, inbox, meta, tripo, starts>> /\ faults' \in 0..MaxFaults
  BY FaultTyped DEF Export, Broken, Typed
<1>2. run[r].at = "export" /\ Name(r) \in Names /\ run[r] \in Runs /\ Live(r, run[r])
  BY RunFacts DEF Export, At
<1>3. /\ inbox' \in [Names -> Files] /\ meta' \in [Names -> Metas]
      /\ assets \in [Cats -> [Names -> Dirs]] /\ exported \in [Names -> Dirs]
      /\ run \in [Runners -> Runs] /\ run[r].left \subseteq Lods /\ run[r].task \in Tasks
      /\ starts' \in 0..MaxStarts /\ tripo' \in [Names -> Files]
  BY <1>1, RunFacts DEF Typed, TypeOK
<1>4. CASE exported' \in CutExports(r) /\ Broken(r, assets)
  <2>1. exported' \in [Names -> Dirs]
    BY <1>2, <1>4, CutTyped DEF At
  <2> QED
    BY <1>1, <1>2, <1>3, <1>4, <2>1, BrokenStep
<1>5. ASSUME NEW l \in run[r].left, UNCHANGED assets,
             exported' = [exported EXCEPT ![Name(r)].files[l] = File(run[r].task, TRUE, Keeps(r))],
             run' = [run EXCEPT ![r].left = @ \ {l}]
      PROVE  Typed'
  <2>1. File(run[r].task, TRUE, Keeps(r)) \in Files
    BY <1>3, FileTyped DEF Keeps, Is
  <2>2. exported' \in [Names -> Dirs]
    BY <1>2, <1>3, <1>5, <2>1, WrittenDir
  <2> DEFINE d == [run[r] EXCEPT !.left = @ \ {l}]
  <2>3. run' = [run EXCEPT ![r] = d]
    BY <1>3, <1>5
  <2>4. d \in Runs /\ d.at = "export" /\ d.prog = run[r].prog /\ d.name = run[r].name
    BY <1>2 DEF Runs
  <2> HIDE DEF d
  <2>5. Live(r, d) /\ assets' \in [Cats -> [Names -> Dirs]]
    BY <1>2, <1>3, <1>5, <2>4 DEF Live
  <2>6. UNCHANGED <<plan, service>>
    BY <1>1
  <2> QED
    BY <1>3, <1>1, <2>2, <2>3, <2>4, <2>5, <2>6, TypedStep DEF Metas
<1>6. CASE /\ exported' = [exported EXCEPT ![Name(r)].manifest = run[r].task]
           /\ run' = [run EXCEPT ![r].at = "copy", ![r].left = Lods]
           /\ UNCHANGED assets
  <2>1. \E l : l \in Lods
    BY NamesAssumption
  <2>2. exported' \in [Names -> Dirs]
    BY <1>2, <1>3, <1>6, <2>1, WrittenDir, EmptyTyped
  <2> DEFINE d == [run[r] EXCEPT !.at = "copy", !.left = Lods]
  <2>3. run' = [run EXCEPT ![r] = d]
    BY <1>3, <1>6
  <2>4. d \in Runs /\ d.at = "copy" /\ d.prog = run[r].prog /\ d.name = run[r].name
    BY <1>2 DEF Runs, Places
  <2> HIDE DEF d
  <2>5. Live(r, d) /\ assets' \in [Cats -> [Names -> Dirs]]
    BY <1>2, <1>3, <1>6, <2>4 DEF Live
  <2>6. UNCHANGED <<plan, service>>
    BY <1>1
  <2> QED
    BY <1>3, <1>1, <2>2, <2>3, <2>4, <2>5, <2>6, TypedStep DEF Metas
<1> QED
  BY <1>4, <1>5, <1>6 DEF Export

LEMMA CopyTyped ==
  ASSUME Typed, NEW r \in Runners, Copy(r)
  PROVE  Typed'
<1>1. UNCHANGED <<plan, service, inbox, meta, exported, tripo, starts>> /\ faults' \in 0..MaxFaults
  BY FaultTyped DEF Copy, Broken, Typed
<1>2. run[r].at = "copy" /\ Name(r) \in Names /\ run[r] \in Runs /\ Live(r, run[r])
  BY RunFacts DEF Copy, At
<1>3. /\ inbox' \in [Names -> Files] /\ meta' \in [Names -> Metas] /\ exported' \in [Names -> Dirs]
      /\ assets \in [Cats -> [Names -> Dirs]] /\ exported[Name(r)] \in Dirs
      /\ run \in [Runners -> Runs] /\ run[r].left \subseteq Lods /\ run[r].cat \in Cats
      /\ starts' \in 0..MaxStarts /\ tripo' \in [Names -> Files]
  BY <1>1, <1>2, RunFacts DEF Typed, TypeOK
<1>4. WithManifest(r) \in [Cats -> [Names -> Dirs]]
  <2>1. exported[Name(r)].manifest \in Tasks /\ \E l : l \in Lods
    BY <1>3, DirTyped, NamesAssumption
  <2> QED
    BY <1>2, <1>3, <2>1, WrittenAssets, EmptyTyped DEF WithManifest
<1>6. CASE Accepted(r, WithManifest(r))
  BY <1>1, <1>2, <1>3, <1>4, <1>6, EndsStep DEF Accepted
<1>7. CASE Broken(r, WithManifest(r))
  BY <1>1, <1>2, <1>3, <1>4, <1>7, BrokenStep
<1>8. ASSUME NEW as \in CutCopies(r), Broken(r, as)
      PROVE  Typed'
  <2>1. as \in [Cats -> [Names -> Dirs]]
    BY <1>2, CutTyped DEF At
  <2> QED
    BY <1>1, <1>2, <1>3, <1>8, <2>1, BrokenStep
<1>5. ASSUME NEW l \in run[r].left, CopyModel(r, l)
      PROVE  Typed'
  <2>1. exported[Name(r)].files[l] \in Files
    BY <1>3, DirTyped
  <2>2. assets' \in [Cats -> [Names -> Dirs]]
    <3>1. \E t : t \in Tasks
      BY DEF Tasks
    <3> QED
      BY <1>2, <1>3, <1>5, <2>1, <3>1, WrittenAssets, ZenonT(60) DEF CopyModel
  <2> DEFINE d == [run[r] EXCEPT !.left = @ \ {l}]
  <2>3. run' = [run EXCEPT ![r] = d]
    BY <1>3, <1>5 DEF CopyModel
  <2>4. d \in Runs /\ d.at = "copy" /\ d.prog = run[r].prog /\ d.name = run[r].name
    BY <1>2 DEF Runs
  <2> HIDE DEF d
  <2>5. Live(r, d)
    BY <1>2, <2>4 DEF Live
  <2>6. UNCHANGED <<plan, service>>
    BY <1>1
  <2> QED
    BY <1>3, <1>1, <2>2, <2>3, <2>4, <2>5, <2>6, TypedStep DEF Metas
<1> QED
  BY <1>5, <1>6, <1>7, <1>8 DEF Copy

LEMMA KillTyped ==
  ASSUME Typed, NEW r \in Runners, Kill(r)
  PROVE  Typed'
<1>1. UNCHANGED <<plan, service, inbox, meta, tripo, starts>> /\ faults' \in 0..MaxFaults
  BY FaultTyped DEF Kill, Typed
<1>2. run' = [run EXCEPT ![r] = Off] /\ ~At(r, "off")
  BY DEF Kill, Stop
<1>3. /\ inbox' \in [Names -> Files] /\ meta' \in [Names -> Metas]
      /\ assets \in [Cats -> [Names -> Dirs]] /\ exported \in [Names -> Dirs]
      /\ starts' \in 0..MaxStarts /\ tripo' \in [Names -> Files]
  BY <1>1, RunFacts DEF Typed, TypeOK
<1>4. exported' \in [Names -> Dirs] /\ assets' \in [Cats -> [Names -> Dirs]]
  BY <1>3, CutTyped DEF Kill
<1>5. Live(r, Off) /\ Off \in Runs /\ (Off.at = "poll" => Off.task \in 1..Len(tasks))
      /\ UNCHANGED <<plan, service>>
  BY <1>1, OffTyped
<1> QED
  BY <1>1, <1>2, <1>3, <1>4, <1>5, TypedStep DEF Metas

LEMMA FinishTyped ==
  ASSUME Typed, NEW t \in DOMAIN tasks, Finish(t)
  PROVE  Typed'
<1>1. UNCHANGED <<plan, balance, disk, tripo, run, starts, faults>>
  BY DEF Finish
<1>2. tasks' \in Seq({"running", "success", "failed"}) /\ Len(tasks') = Len(tasks)
  BY DEF Finish, Typed, TypeOK
<1>3. \A r \in Runners : Live(r, run[r])'
  BY <1>1 DEF Typed, Live
<1> QED
  BY <1>1, <1>2, <1>3, UnchangedDisk DEF Typed, TypeOK, At

LEMMA HarvestTyped ==
  ASSUME Typed, NEW n \in Names, Harvest(n)
  PROVE  Typed'
<1>1. UNCHANGED <<plan, service, disk, run, starts, faults>>
  BY DEF Harvest
<1>2. tripo' \in [Names -> Files]
  BY DEF Harvest, Typed, TypeOK
<1>3. \A r \in Runners : Live(r, run[r])'
  BY <1>1 DEF Typed, Live
<1> QED
  BY <1>1, <1>2, <1>3, UnchangedDisk DEF Typed, TypeOK, At, service

LEMMA TypedNext ==
  ASSUME Typed, [Next]_vars
  PROVE  Typed'
<1>1. ASSUME NEW r \in Runners, Step(r) PROVE Typed'
  BY <1>1, ItemsTyped, AskTyped, CreateTyped, DownloadTyped, WriteTyped, WriteMetaTyped,
     ProcessTyped, ExportTyped, CopyTyped DEF Step
<1>2. ASSUME NEW r \in Runners, NEW prog \in Programs, Start(r, prog) PROVE Typed'
  BY <1>2, StartTyped
<1>3. CASE UNCHANGED vars
  <2>1. UNCHANGED <<plan, service, disk, tripo, run, starts, faults>>
    BY <1>3 DEF vars
  <2>2. \A r \in Runners : Live(r, run[r])'
    BY <2>1 DEF Typed, Live
  <2> QED
    BY <2>1, <2>2, UnchangedDisk DEF Typed, TypeOK, At, service
<1> QED
  BY <1>1, <1>2, <1>3, KillTyped, FinishTyped, HarvestTyped DEF Next

--------------------------------------------------------------------------------
(* The reserve. *)

Asked == {"generate", "create"}

LEMMA PendingFacts ==
  ASSUME Typed
  PROVE  /\ IsFiniteSet(plan.runners) /\ IsFiniteSet(Pending)
         /\ Cardinality(plan.runners) \in Nat /\ Cardinality(Pending) \in Nat
         /\ Cardinality(Pending) <= Cardinality(plan.runners)
<1>1. Pending \subseteq plan.runners /\ plan.runners \subseteq Runners
  BY PlanFacts DEF Pending, Typed
<1> QED
  BY <1>1, NamesAssumption, FS_Subset, FS_CardinalityType

LEMMA PendingNext ==
  ASSUME Typed, Typed', UNCHANGED plan
  PROVE  /\ IsFiniteSet(Pending') /\ Cardinality(Pending') \in Nat
         /\ Cardinality(Pending') <= Cardinality(plan.runners)
<1>1. Pending' \subseteq plan.runners
  BY DEF Pending
<1> QED
  BY <1>1, PendingFacts, FS_Subset, FS_CardinalityType

LEMMA CostTimes ==
  /\ \A a, b \in Nat : a <= b => Cost * a <= Cost * b
  /\ \A a \in Nat : Cost * a \in Nat /\ Cost * (a + 1) = Cost * a + Cost
<1>1. Cost \in Nat /\ Cost > 0
  BY CostAssumption
<1> QED
  BY <1>1, SMTT(30)

LEMMA FewerPending ==
  ASSUME Typed, Typed', Reserve, UNCHANGED <<plan, balance>>, Pending' \subseteq Pending
  PROVE  Reserve'
<1>1. /\ IsFiniteSet(Pending) /\ Cardinality(Pending) \in Nat /\ Cardinality(Pending') \in Nat
      /\ Cardinality(plan.runners) \in Nat /\ balance \in Nat
  BY PendingFacts, PendingNext DEF Typed, TypeOK
<1>2. Cardinality(Pending') <= Cardinality(Pending)
  BY <1>1, FS_Subset
<1>3. Cost * Cardinality(Pending') <= Cost * Cardinality(Pending)
      /\ Cost * Cardinality(Pending') \in Nat /\ Cost * Cardinality(Pending) \in Nat
      /\ Cost * Cardinality(plan.runners) \in Nat
  BY <1>1, <1>2, CostTimes
<1>4. Buyers' = Buyers
  BY DEF Buyers
<1> SUFFICES ASSUME NEW f \in Nat, \A o \in Buyers : f <= Floor[o],
                    Pending' # {} \/ balance # plan.credits
             PROVE  balance + Cost * Cardinality(plan.runners) >= f + Cost * Cardinality(Pending')
  BY <1>4 DEF Reserve
<1>5. Pending # {} \/ balance # plan.credits
  OBVIOUS
<1>6. balance + Cost * Cardinality(plan.runners) >= f + Cost * Cardinality(Pending)
  BY <1>5 DEF Reserve
<1> QED
  BY <1>1, <1>3, <1>6

\* A step of runner r to the record d, which asks for nothing new.
LEMMA AsksNothing ==
  ASSUME Typed, NEW r \in Runners, NEW d, run' = [run EXCEPT ![r] = d], UNCHANGED plan,
         d.at \in Asked => run[r].at \in Asked
  PROVE  Pending' \subseteq Pending
BY PlanFacts DEF Pending, Asked, Typed, TypeOK

LEMMA BalanceReserves ==
  ASSUME Typed, Typed', Reserve, NEW r \in Runners, Balance(r)
  PROVE  Reserve'
<1>1. UNCHANGED <<plan, balance>> /\ run[r].at = "balance" /\ Live(r, run[r])
  BY DEF Balance, service, At, Typed
<1>2. CASE \E place \in Asked : Goto(r, place) /\ balance >= Floor[run[r].prog]
  <2>1. run[r].prog \in Buyers /\ run[r].prog \in Programs
    BY <1>1, PlanFacts DEF Live, Buyers, Typed
  <2>2. Floor[run[r].prog] \in Nat
    BY <2>1, FloorAssumption
  <2>3. /\ Cardinality(Pending') <= Cardinality(plan.runners) /\ Cardinality(Pending') \in Nat
        /\ Cardinality(plan.runners) \in Nat /\ balance \in Nat
    BY <1>1, PendingFacts, PendingNext DEF Typed, TypeOK
  <2>4. Cost * Cardinality(Pending') <= Cost * Cardinality(plan.runners)
        /\ Cost * Cardinality(Pending') \in Nat /\ Cost * Cardinality(plan.runners) \in Nat
    BY <2>3, CostTimes
  <2>5. Buyers' = Buyers
    BY <1>1 DEF Buyers
  <2> SUFFICES ASSUME NEW f \in Nat, \A o \in Buyers : f <= Floor[o]
               PROVE  balance + Cost * Cardinality(plan.runners) >= f + Cost * Cardinality(Pending')
    BY <1>1, <2>5 DEF Reserve
  <2>6. f <= Floor[run[r].prog]
    BY <2>1
  <2> QED
    BY <1>2, <2>2, <2>3, <2>4, <2>6
<1>3. CASE Stop(r) \/ Goto(r, "process")
  <2>1. PICK d : run' = [run EXCEPT ![r] = d] /\ d.at \notin Asked
    BY <1>3, GotoTyped, OffTyped, ZenonT(60) DEF Stop, Places, Asked
  <2> QED
    BY <1>1, <2>1, AsksNothing, FewerPending
<1>4. \/ Stop(r) \/ Goto(r, "process")
      \/ \E place \in Asked : Goto(r, place) /\ ~(balance < Floor[run[r].prog])
  BY DEF Balance, Is, Asked
<1>5. ~(balance < Floor[run[r].prog]) => balance >= Floor[run[r].prog]
  <2>1. run[r].prog \in Programs
    BY <1>1, PlanFacts DEF Live, Typed
  <2> QED
    BY <2>1, FloorAssumption DEF Typed, TypeOK
<1> QED
  BY <1>2, <1>3, <1>4, <1>5

LEMMA CreateReserves ==
  ASSUME Typed, Typed', Reserve, NEW r \in Runners, Create(r)
  PROVE  Reserve'
<1>1. UNCHANGED plan /\ run[r].at = "create" /\ Live(r, run[r]) /\ run \in [Runners -> Runs]
  BY DEF Create, At, Typed, TypeOK
<1>2. r \in Pending
  BY <1>1 DEF Pending, Live
<1>3. \E d : run' = [run EXCEPT ![r] = d] /\ d.at \notin Asked
  <2>1. CASE run' = [run EXCEPT ![r].at = "poll", ![r].task = Len(tasks) + 1]
    <3> DEFINE t == Len(tasks) + 1
               d == [run[r] EXCEPT !.at = "poll", !.task = t]
    <3>1. run' = [run EXCEPT ![r] = d]
      BY <1>1, <2>1
    <3> HIDE DEF t
    <3>2. d.at = "poll"
      BY <1>1 DEF Runs
    <3> HIDE DEF d
    <3> QED
      BY <3>1, <3>2 DEF Asked
  <2>2. CASE NextName(r)
    BY <2>2, GotoTyped DEF NextName, Places, Asked
  <2> QED
    BY <2>1, <2>2 DEF Create
<1>4. Pending' = Pending \ {r}
  BY <1>1, <1>3, PlanFacts DEF Pending, Asked, Typed
<1>5. CASE UNCHANGED service
  BY <1>1, <1>4, <1>5, FewerPending DEF service
<1>6. CASE Accept
  <2>1. /\ IsFiniteSet(Pending) /\ Cardinality(Pending) \in Nat /\ Cardinality(Pending') \in Nat
        /\ Cardinality(plan.runners) \in Nat /\ balance \in Nat /\ Cost \in Nat
        /\ balance' = balance - Cost
    BY <1>1, <1>6, PendingFacts, PendingNext, CostAssumption DEF Typed, TypeOK, Accept
  <2>2. Cardinality(Pending') = Cardinality(Pending) - 1
    BY <1>2, <1>4, <2>1, FS_RemoveElement
  <2>3. /\ Cost * Cardinality(Pending) = Cost * Cardinality(Pending') + Cost
        /\ Cost * Cardinality(Pending') \in Nat /\ Cost * Cardinality(plan.runners) \in Nat
    <3>1. Cardinality(Pending) = Cardinality(Pending') + 1
      BY <2>1, <2>2
    <3> QED
      BY <2>1, <3>1, CostTimes
  <2>4. Buyers' = Buyers
    BY <1>1 DEF Buyers
  <2> SUFFICES ASSUME NEW f \in Nat, \A o \in Buyers : f <= Floor[o]
               PROVE  balance' + Cost * Cardinality(plan.runners) >= f + Cost * Cardinality(Pending')
    BY <1>1, <2>4 DEF Reserve
  <2>5. balance + Cost * Cardinality(plan.runners) >= f + Cost * Cardinality(Pending)
    BY <1>2 DEF Reserve
  <2> QED
    BY <2>1, <2>3, <2>5
<1> QED
  BY <1>5, <1>6 DEF Create

\* The places from which one of the other actions starts, and where it ends.
LEMMA RunsOn ==
  ASSUME Typed, NEW r \in Runners,
         \/ Item(r) \/ Generate(r) \/ Poll(r) \/ Download(r) \/ Write(r) \/ WriteMeta(r)
         \/ Process(r) \/ Export(r) \/ Copy(r) \/ Kill(r) \/ \E prog \in Programs : Start(r, prog)
  PROVE  /\ UNCHANGED <<plan, service>>
         /\ \E d : /\ run' = [run EXCEPT ![r] = d]
                   /\ d.at \in Asked => run[r].at \in Asked
<1>1. UNCHANGED <<plan, service>>
  BY DEF Item, Generate, Poll, Download, Write, WriteMeta, Process, Export, Copy, Kill, Start
<1>2. run \in [Runners -> Runs] /\ run[r] \in Runs /\ {"item", "create"} \subseteq Places
  BY RunFacts DEF Places
<1>3. ASSUME NEW place \in Places, Goto(r, place), place \in Asked => run[r].at \in Asked
      PROVE  \E d : run' = [run EXCEPT ![r] = d] /\ (d.at \in Asked => run[r].at \in Asked)
  <2> DEFINE d == [run[r] EXCEPT !.at = place]
  <2>1. d.at = place /\ run' = [run EXCEPT ![r] = d]
    BY <1>3, GotoTyped
  <2> HIDE DEF d
  <2> QED
    BY <1>3, <2>1
<1>4. ASSUME Stop(r)
      PROVE  \E d : run' = [run EXCEPT ![r] = d] /\ (d.at \in Asked => run[r].at \in Asked)
  BY <1>4, OffTyped DEF Stop, Asked
<1>5. CASE Generate(r)
  BY <1>2, <1>3, <1>5 DEF Generate, NextName, At, Asked
<1>6. CASE Poll(r) \/ Download(r) \/ Write(r) \/ WriteMeta(r)
  <2>1. PICK place \in {"download", "item", "write", "process", "meta"} : Goto(r, place)
    BY <1>6 DEF Poll, PollEnds, Download, Write, WriteMeta, NextName
  <2>2. place \in Places /\ place \notin Asked
    BY DEF Places, Asked
  <2>3. \E d : run' = [run EXCEPT ![r] = d] /\ (d.at \in Asked => run[r].at \in Asked)
    BY <1>3, <2>1, <2>2
  <2> QED
    BY <1>1, <2>3
<1>7. CASE Item(r)
  <2>1. CASE Stop(r)
    BY <1>1, <1>4, <2>1
  <2>2. CASE ~Stop(r)
    <3>1. PICK n \in Names, c \in Cats, place \in {"item", "process", "balance"} :
            LET d == Taken(r, n, c, place)
            IN  /\ d \in Runs /\ run' = [run EXCEPT ![r] = d] /\ Live(r, d)
                /\ place = "balance" => ~Skips(run[r].prog, n, c) /\ run[r].prog # "reprocess"
                /\ place = "process" => run[r].prog = "reprocess"
                /\ c \in CatsOf(run[r].prog, n)
                /\ d.at = place /\ d.name = n /\ d.prog = run[r].prog /\ d.cat = c
                /\ d.again = FALSE
      BY <1>7, <2>2, ItemTyped
    <3> QED
      BY <1>1, <3>1 DEF Asked
  <2> QED
    BY <2>1, <2>2
<1>8. CASE Kill(r)
  BY <1>4, <1>8 DEF Kill
<1>9. CASE \E prog \in Programs : Start(r, prog)
  <2>1. PICK prog \in Programs : Start(r, prog)
    BY <1>9
  <2>2. \E d : run' = [run EXCEPT ![r] = d] /\ d.at = "item"
    BY <2>1, StartTyped
  <2> QED
    BY <1>1, <2>2 DEF Asked
<1>10. ASSUME NEW as, NEW rc, Ends(r, rc, as)
       PROVE  \E d : run' = [run EXCEPT ![r] = d] /\ (d.at \in Asked => run[r].at \in Asked)
  BY <1>2, <1>3, <1>4, <1>10 DEF Ends, NextName, Asked
<1>11. ASSUME NEW as, Broken(r, as), run[r].at \in {"process", "export", "copy"}
       PROVE  \E d : run' = [run EXCEPT ![r] = d] /\ (d.at \in Asked => run[r].at \in Asked)
  <2>1. \/ run' = [run EXCEPT ![r] = Again(r)] /\ Again(r).at = "process"
        \/ Ends(r, 1, as) \/ Ends(r, 0, as)
    BY <1>11, RejectedTyped DEF Broken, Accepted
  <2> HIDE DEF Again
  <2> QED
    BY <1>10, <2>1 DEF Asked
<1>12. CASE Process(r)
  <2>1. CASE run' = [run EXCEPT ![r].at = "export", ![r].left = Lods, ![r].task = inbox[Name(r)].by]
    <3> DEFINE t == inbox[Name(r)].by
               d == [run[r] EXCEPT !.at = "export", !.left = Lods, !.task = t]
    <3>1. run' = [run EXCEPT ![r] = d]
      BY <1>2, <2>1
    <3> HIDE DEF t
    <3>2. d.at = "export"
      BY <1>2 DEF Runs
    <3> HIDE DEF d
    <3> QED
      BY <1>1, <3>1, <3>2 DEF Asked
  <2>2. CASE \E as : Accepted(r, as)
    BY <1>1, <1>10, <2>2 DEF Accepted
  <2>3. CASE Broken(r, assets)
    BY <1>1, <1>11, <1>12, <2>3 DEF Process, At
  <2> QED
    BY <1>12, <2>1, <2>2, <2>3 DEF Process
<1>13. CASE Export(r)
  <2>1. ASSUME NEW l, run' = [run EXCEPT ![r].left = @ \ {l}]
        PROVE  \E d : run' = [run EXCEPT ![r] = d] /\ (d.at \in Asked => run[r].at \in Asked)
    <3> DEFINE d == [run[r] EXCEPT !.left = @ \ {l}]
    <3>1. run' = [run EXCEPT ![r] = d] /\ d.at = run[r].at
      BY <1>2, <2>1 DEF Runs
    <3> QED
      BY <3>1
  <2>2. CASE run' = [run EXCEPT ![r].at = "copy", ![r].left = Lods]
    <3> DEFINE d == [run[r] EXCEPT !.at = "copy", !.left = Lods]
    <3>1. run' = [run EXCEPT ![r] = d] /\ d.at = "copy"
      BY <1>2, <2>2 DEF Runs
    <3> HIDE DEF d
    <3> QED
      BY <1>1, <3>1 DEF Asked
  <2>3. CASE Broken(r, assets)
    BY <1>1, <1>11, <1>13, <2>3 DEF Export, At
  <2> QED
    BY <1>1, <1>13, <2>1, <2>2, <2>3 DEF Export
<1>14. CASE Copy(r)
  <2>1. ASSUME NEW l, run' = [run EXCEPT ![r].left = @ \ {l}]
        PROVE  \E d : run' = [run EXCEPT ![r] = d] /\ (d.at \in Asked => run[r].at \in Asked)
    <3> DEFINE d == [run[r] EXCEPT !.left = @ \ {l}]
    <3>1. run' = [run EXCEPT ![r] = d] /\ d.at = run[r].at
      BY <1>2, <2>1 DEF Runs
    <3> QED
      BY <3>1
  <2>2. ASSUME NEW as, Accepted(r, as)
        PROVE  \E d : run' = [run EXCEPT ![r] = d] /\ (d.at \in Asked => run[r].at \in Asked)
    BY <1>10, <2>2 DEF Accepted
  <2>3. ASSUME NEW as, Broken(r, as)
        PROVE  \E d : run' = [run EXCEPT ![r] = d] /\ (d.at \in Asked => run[r].at \in Asked)
    BY <1>11, <1>14, <2>3 DEF Copy, At
  <2> QED
    BY <1>1, <1>14, <2>1, <2>2, <2>3 DEF Copy, CopyModel
<1> QED
  BY <1>1, <1>5, <1>6, <1>7, <1>8, <1>9, <1>12, <1>13, <1>14

LEMMA ReserveNext ==
  ASSUME Typed, Typed', Reserve, [Next]_vars
  PROVE  Reserve'
<1>1. CASE \E r \in Runners : Balance(r)
  BY <1>1, BalanceReserves
<1>2. CASE \E r \in Runners : Create(r)
  BY <1>2, CreateReserves
<1>3. CASE UNCHANGED <<plan, balance, run>>
  <2>1. Pending' = Pending
    BY <1>3 DEF Pending
  <2> QED
    BY <1>3, <2>1, FewerPending
<1>4. ASSUME NEW r \in Runners,
             \/ Item(r) \/ Generate(r) \/ Poll(r) \/ Download(r) \/ Write(r) \/ WriteMeta(r)
             \/ Process(r) \/ Export(r) \/ Copy(r) \/ Kill(r) \/ \E prog \in Programs : Start(r, prog)
      PROVE  Reserve'
  <2>1. UNCHANGED <<plan, balance>> /\ Pending' \subseteq Pending
    <3>1. PICK d : run' = [run EXCEPT ![r] = d] /\ (d.at \in Asked => run[r].at \in Asked)
      BY <1>4, RunsOn
    <3>2. UNCHANGED <<plan, balance>>
      BY <1>4, RunsOn DEF service
    <3> QED
      BY <3>1, <3>2, AsksNothing
  <2> QED
    BY <2>1, FewerPending
<1>5. (\E t \in DOMAIN tasks : Finish(t)) \/ (\E n \in Names : Harvest(n)) \/ UNCHANGED vars
        => UNCHANGED <<plan, balance, run>>
  BY DEF Finish, Harvest, vars, service
<1> QED
  BY <1>1, <1>2, <1>3, <1>4, <1>5 DEF Next, Step

LEMMA InitReserve ==
  ASSUME Init
  PROVE  Reserve
<1>1. \A r \in Runners : run[r].at = "off"
  BY OffTyped DEF Init
<1>2. Pending = {} /\ balance = plan.credits
  BY <1>1, InitTyped, PlanFacts DEF Pending, Init, Typed
<1> QED
  BY <1>2 DEF Reserve

LEMMA ReserveIsKept ==
  ASSUME Typed, Reserve
  PROVE  ReserveKept
<1> SUFFICES ASSUME NEW prog \in Buyers, \A o \in Buyers : Floor[prog] <= Floor[o]
             PROVE  balance + Cost * Cardinality(plan.runners) >= Floor[prog] \/ balance = plan.credits
  BY DEF ReserveKept, Buyers
<1>1. Floor[prog] \in Nat
  BY PlanFacts, FloorAssumption DEF Buyers, Typed
<1>2. balance # plan.credits =>
        balance + Cost * Cardinality(plan.runners) >= Floor[prog] + Cost * Cardinality(Pending)
  BY <1>1 DEF Reserve
<1>3. Cost * Cardinality(Pending) \in Nat /\ Cost * Cardinality(plan.runners) \in Nat /\ balance \in Nat
  BY PendingFacts, CostTimes DEF Typed, TypeOK
<1> QED
  BY <1>1, <1>2, <1>3

--------------------------------------------------------------------------------
(* One program at a time: what is on the disk, and what the program knows   *)
(* of it.                                                                   *)

\* A directory whose files come from model b; sound: its manifest stands for
\* its files, whole ones if strict.
DirOk(dir, b, sound, strict) ==
  /\ dir.manifest \in {0, b}
  /\ \A l \in Lods : dir.files[l].by \in {0, b}
  /\ sound /\ dir.manifest # 0 =>
       \A l \in Lods : /\ dir.files[l].by = dir.manifest
                       /\ strict => dir.files[l].whole = TRUE

\* A model f and its metadata m.
ModelOk(f, m) ==
  /\ f.whole = TRUE => f.by # 0
  /\ m.status = "success" => f = File(m.task, TRUE, FALSE) /\ m.task # 0

Strict(n) == ~WrittenOver(n)

NameOk(n) ==
  /\ ModelOk(inbox[n], meta[n])
  /\ DirOk(exported[n], inbox[n].by, FALSE, Strict(n))
  /\ \A c \in Cats : DirOk(assets[c][n], inbox[n].by, TRUE, Strict(n))

\* Files that Blender wrote to the end from model t.
From(dir, t, ls) == \A l \in ls : dir.files[l].by = t /\ dir.files[l].whole = TRUE

\* A program p at work on a name with model f, metadata m, exports e and the
\* directories own and props of assets/.
ProgOk(p, f, m, e, own, props, strict) ==
  LET into == IF p.cat = "own" THEN own ELSE props
      bare == own.manifest = 0 /\ props.manifest = 0
  IN  /\ p.at = "balance" => /\ p.prog = "images" => f.by = 0
                             /\ p.prog = "daemon" => into.manifest = 0
      /\ p.at \in {"create", "poll", "download"} => f.by = 0
      /\ p.at \in {"poll", "download", "write", "meta"} => p.task # 0
      /\ p.at = "write" => f = File(p.task, FALSE, FALSE) /\ m.status # "success"
      /\ p.at = "meta"  => f = File(p.task, TRUE, FALSE)
      /\ p.at \in {"write", "meta"} => bare
      /\ strict /\ p.prog = "wave" /\ p.again = FALSE =>
           p.cat = "own" /\ (p.at \in {"process", "export", "copy"} => props.manifest = 0)
      /\ strict /\ p.at \in {"process", "export", "copy"} => into.manifest = 0
      /\ p.at \in {"export", "copy"} => p.task = f.by /\ p.task # 0
      /\ p.at = "export" => From(e, p.task, Lods \ p.left)
      /\ p.at = "copy" => /\ e.manifest = p.task /\ From(e, p.task, Lods)
                          /\ From(into, p.task, Lods \ p.left)

Prog(r) ==
  LET n == Name(r)
  IN  run[r].at \notin {"off", "item"} =>
        ProgOk(run[r], inbox[n], meta[n], exported[n], assets["own"][n], assets["props"][n], Strict(n))

Told == Alone(plan) => (\A n \in Names : NameOk(n)) /\ \A r \in Runners : Prog(r)

LEMMA OthersOff ==
  ASSUME Typed, Alone(plan), NEW r \in Runners, r \in plan.runners
  PROVE  \A o \in Runners \ {r} : run[o].at = "off"
<1> SUFFICES ASSUME NEW o \in Runners \ {r}, run[o].at # "off" PROVE FALSE
  OBVIOUS
<1>1. o \in plan.runners
  BY DEF Typed, Live
<1>2. IsFiniteSet(plan.runners) /\ Cardinality(plan.runners) <= 1
  BY PendingFacts DEF Alone
<1>3. IsFiniteSet({r}) /\ Cardinality({r}) = 1
  BY FS_Singleton
<1>4. IsFiniteSet({r} \cup {o}) /\ Cardinality({r} \cup {o}) = 2
  <2>1. o \notin {r}
    OBVIOUS
  <2>2. Cardinality({r} \cup {o}) = Cardinality({r}) + 1 /\ IsFiniteSet({r} \cup {o})
    BY <1>3, <2>1, FS_AddElement, Zenon
  <2> QED
    BY <1>3, <2>2
<1>5. {r} \cup {o} \subseteq plan.runners
  BY <1>1
<1> QED
  <2>1. Cardinality({r} \cup {o}) <= Cardinality(plan.runners) /\ Cardinality(plan.runners) \in Nat
    BY <1>2, <1>5, FS_Subset, FS_CardinalityType
  <2> QED
    BY <1>2, <1>4, <2>1

\* A step of runner r, the only one, to record d, on the name n.
LEMMA ToldStep ==
  ASSUME Typed, Told, Alone(plan), UNCHANGED plan,
         NEW r \in Runners, r \in plan.runners, NEW d, run' = [run EXCEPT ![r] = d],
         NEW n \in Names,
         \A k \in Names \ {n} :
           /\ inbox'[k] = inbox[k] /\ meta'[k] = meta[k] /\ exported'[k] = exported[k]
           /\ \A c \in Cats : assets'[c][k] = assets[c][k],
         ModelOk(inbox'[n], meta'[n]),
         DirOk(exported'[n], inbox'[n].by, FALSE, Strict(n)),
         \A c \in Cats : DirOk(assets'[c][n], inbox'[n].by, TRUE, Strict(n)),
         d.at \notin {"off", "item"} =>
           /\ d.name = n
           /\ ProgOk(d, inbox'[n], meta'[n], exported'[n], assets'["own"][n], assets'["props"][n], Strict(n))
  PROVE  Told'
<1>1. \A k : Strict(k)' = Strict(k)
  BY DEF Strict, WrittenOver
<1>2. ASSUME NEW k \in Names PROVE NameOk(k)'
  <2>1. CASE k = n
    BY <1>1, <2>1 DEF NameOk
  <2>2. CASE k # n
    <3>1. /\ ModelOk(inbox[k], meta[k]) /\ DirOk(exported[k], inbox[k].by, FALSE, Strict(k))
          /\ \A c \in Cats : DirOk(assets[c][k], inbox[k].by, TRUE, Strict(k))
      BY DEF Told, NameOk
    <3>2. /\ inbox'[k] = inbox[k] /\ meta'[k] = meta[k] /\ exported'[k] = exported[k]
          /\ \A c \in Cats : assets'[c][k] = assets[c][k]
      BY <2>2
    <3> QED
      BY <1>1, <3>1, <3>2 DEF NameOk
  <2> QED
    BY <2>1, <2>2
<1>3. ASSUME NEW o \in Runners PROVE Prog(o)'
  <2>1. run \in [Runners -> Runs]
    BY DEF Typed, TypeOK
  <2>2. CASE o = r
    <3>1. run'[o] = d
      BY <2>1, <2>2
    <3> QED
      BY <1>1, <3>1 DEF Prog, Name
  <2>3. CASE o # r
    <3>1. run'[o] = run[o] /\ run[o].at = "off"
      BY <2>1, <2>3, OthersOff
    <3> QED
      BY <3>1 DEF Prog
  <2> QED
    BY <2>2, <2>3
<1> QED
  BY <1>2, <1>3 DEF Told

LEMMA ToldStays ==
  ASSUME Typed, Told, UNCHANGED <<plan, disk, run>>
  PROVE  Told'
<1>0. UNCHANGED <<inbox, meta, exported, assets>> /\ \A k : Strict(k)' = Strict(k)
  BY DEF disk, Strict, WrittenOver
<1>1. ASSUME Alone(plan), NEW n \in Names PROVE NameOk(n)'
  BY <1>0, <1>1 DEF Told, NameOk
<1>2. ASSUME Alone(plan), NEW r \in Runners PROVE Prog(r)'
  BY <1>0, <1>2 DEF Told, Prog, Name
<1>3. Alone(plan)' = Alone(plan)
  BY DEF Alone
<1> QED
  BY <1>1, <1>2, <1>3 DEF Told

\* A step that changes nothing on the disk.
LEMMA ToldMoves ==
  ASSUME Typed, Told, Alone(plan), UNCHANGED <<plan, disk>>,
         NEW r \in Runners, r \in plan.runners, NEW d, run' = [run EXCEPT ![r] = d],
         d.at \notin {"off", "item"} =>
           /\ d.name \in Names
           /\ ProgOk(d, inbox[d.name], meta[d.name], exported[d.name],
                     assets["own"][d.name], assets["props"][d.name], Strict(d.name))
  PROVE  Told'
<1>1. ASSUME NEW n \in Names, d.at \notin {"off", "item"} => d.name = n
      PROVE  Told'
  <2>1. ModelOk(inbox[n], meta[n]) /\ DirOk(exported[n], inbox[n].by, FALSE, Strict(n))
        /\ \A c \in Cats : DirOk(assets[c][n], inbox[n].by, TRUE, Strict(n))
    BY DEF Told, NameOk
  <2>2. UNCHANGED <<inbox, meta, exported, assets>>
    BY DEF disk
  <2> QED
    BY <1>1, <2>1, <2>2, ToldStep
<1>2. CASE d.at \notin {"off", "item"}
  BY <1>1, <1>2
<1>3. CASE d.at \in {"off", "item"} /\ Names # {}
  BY <1>1, <1>3
<1>4. CASE d.at \in {"off", "item"} /\ Names = {}
  <2>1. run \in [Runners -> Runs] /\ Alone(plan)' = Alone(plan)
    BY DEF Typed, TypeOK, Alone
  <2>2. \A o \in Runners : run'[o].at \in {"off", "item"}
    BY <1>4, <2>1, OthersOff
  <2> QED
    BY <1>4, <2>2 DEF Told, Prog
<1> QED
  BY <1>2, <1>3, <1>4

\* What the program of runner r knows, at work.
LEMMA AtWork ==
  ASSUME Typed, Told, Alone(plan), NEW r \in Runners, run[r].at \notin {"off", "item"}
  PROVE  LET n == Name(r) IN
         /\ r \in plan.runners /\ n \in Names /\ run[r].name = n
         /\ ModelOk(inbox[n], meta[n]) /\ DirOk(exported[n], inbox[n].by, FALSE, Strict(n))
         /\ \A c \in Cats : DirOk(assets[c][n], inbox[n].by, TRUE, Strict(n))
         /\ ProgOk(run[r], inbox[n], meta[n], exported[n], assets["own"][n], assets["props"][n], Strict(n))
         /\ inbox[n] \in Files /\ meta[n] \in Metas /\ exported[n] \in Dirs
         /\ \A c \in Cats : assets[c][n] \in Dirs
<1>1. /\ r \in plan.runners /\ Name(r) \in Names /\ run[r].name = Name(r)
  BY DEF Typed, Live, Name
<1>2. NameOk(Name(r)) /\ Prog(r)
  BY <1>1 DEF Told
<1>3. /\ inbox[Name(r)] \in Files /\ meta[Name(r)] \in Metas /\ exported[Name(r)] \in Dirs
      /\ \A c \in Cats : assets[c][Name(r)] \in Dirs
  BY <1>1, RunFacts
<1> QED
  BY <1>1, <1>2, <1>3 DEF NameOk, Prog

\* The record of runner r, at another place.
Same(r, d, place) ==
  /\ d.at = place /\ d.prog = run[r].prog /\ d.name = run[r].name /\ d.task = run[r].task
  /\ d.cat = run[r].cat /\ d.left = run[r].left /\ d.again = run[r].again

\* A program at work goes to another place and writes nothing, or stops.
LEMMA ToldGoes ==
  ASSUME Typed, Told, Alone(plan), UNCHANGED <<plan, disk>>,
         NEW r \in Runners, run[r].at \notin {"off", "item"},
         NEW place \in Places, Goto(r, place),
         place # "item" =>
           \A d : Same(r, d, place) =>
                    ProgOk(d, inbox[Name(r)], meta[Name(r)], exported[Name(r)],
                           assets["own"][Name(r)], assets["props"][Name(r)], Strict(Name(r)))
  PROVE  Told'
<1> DEFINE d == [run[r] EXCEPT !.at = place]
<1>1. Same(r, d, place) /\ run' = [run EXCEPT ![r] = d]
  BY GotoTyped DEF Same
<1>2. r \in plan.runners /\ Name(r) \in Names /\ run[r].name = Name(r)
  BY AtWork
<1> HIDE DEF d
<1>3. place # "item" => ProgOk(d, inbox[Name(r)], meta[Name(r)], exported[Name(r)],
                              assets["own"][Name(r)], assets["props"][Name(r)], Strict(Name(r)))
  BY <1>1
<1>4. d.at = place /\ d.name = run[r].name
  BY <1>1 DEF Same
<1> QED
  BY <1>1, <1>2, <1>3, <1>4, ToldMoves

LEMMA ToldStops ==
  ASSUME Typed, Told, Alone(plan), UNCHANGED <<plan, disk>>,
         NEW r \in Runners, r \in plan.runners, Stop(r)
  PROVE  Told'
BY OffTyped, ToldMoves DEF Stop

LEMMA ToldItem ==
  ASSUME Typed, Told, Alone(plan), NEW r \in Runners, Item(r)
  PROVE  Told'
<1>1. UNCHANGED <<plan, disk>> /\ run[r].at = "item" /\ Live(r, run[r])
  BY DEF Item, At, Typed
<1>2. r \in plan.runners /\ run[r].prog \in plan.programs
  BY <1>1 DEF Live
<1>3. CASE Stop(r)
  BY <1>1, <1>2, <1>3, ToldStops
<1>4. CASE ~Stop(r)
  <2>1. PICK n, c, d :
          /\ n \in Names /\ c \in CatsOf(run[r].prog, n)
          /\ run' = [run EXCEPT ![r] = d]
          /\ d.at \in {"item", "process", "balance"} /\ d.name = n /\ d.prog = run[r].prog
          /\ d.cat = c /\ d.again = FALSE
          /\ d.at = "balance" => ~Skips(run[r].prog, n, c) /\ run[r].prog # "reprocess"
          /\ d.at = "process" => run[r].prog = "reprocess"
    <3>1. PICK n \in Names, c \in Cats, place \in {"item", "process", "balance"} :
            LET d == Taken(r, n, c, place)
            IN  /\ d \in Runs /\ run' = [run EXCEPT ![r] = d] /\ Live(r, d)
                /\ place = "balance" => ~Skips(run[r].prog, n, c) /\ run[r].prog # "reprocess"
                /\ place = "process" => run[r].prog = "reprocess"
                /\ c \in CatsOf(run[r].prog, n)
                /\ d.at = place /\ d.name = n /\ d.prog = run[r].prog /\ d.cat = c
                /\ d.again = FALSE
      BY <1>4, ItemTyped
    <3> QED
      BY <3>1
  <2>2. CASE d.at = "balance"
    <3>0. c = Home(n) /\ c \in Cats
      BY <2>1, <2>2, HomeCat DEF CatsOf
    <3>1. run[r].prog = "images" => inbox[n].by = 0
      BY <2>1, <2>2, SMTT(20) DEF Skips, AlreadyHas
    <3>2. run[r].prog = "daemon" => assets[c][n].manifest = 0
      BY <2>1, <2>2, <3>0 DEF Skips, HasManifest
    <3>3. run[r].prog = "wave" /\ Strict(n) => c = "own"
      BY <1>2, <3>0 DEF Strict, WrittenOver, Home
    <3>4. c = "own" \/ c = "props"
      BY <3>0 DEF Cats
    <3>5. ProgOk(d, inbox[n], meta[n], exported[n], assets["own"][n], assets["props"][n], Strict(n))
      BY <2>1, <2>2, <3>1, <3>2, <3>3, <3>4 DEF ProgOk
    <3> QED
      BY <1>1, <1>2, <2>1, <3>5, ToldMoves
  <2>3. CASE d.at = "process"
    <3>1. ~Strict(n)
      BY <1>2, <2>1, <2>3 DEF Strict, WrittenOver
    <3>2. ProgOk(d, inbox[n], meta[n], exported[n], assets["own"][n], assets["props"][n], Strict(n))
      BY <2>1, <2>3, <3>1 DEF ProgOk
    <3> QED
      BY <1>1, <1>2, <2>1, <3>2, ToldMoves
  <2>4. CASE d.at = "item"
    BY <1>1, <1>2, <2>1, <2>4, ToldMoves
  <2> QED
    BY <2>1, <2>2, <2>3, <2>4
<1> QED
  BY <1>3, <1>4

LEMMA ToldBalance ==
  ASSUME Typed, Told, Alone(plan), NEW r \in Runners, Balance(r)
  PROVE  Told'
<1>1. UNCHANGED <<plan, disk>> /\ run[r].at = "balance" /\ Live(r, run[r])
  BY DEF Balance, At, Typed
<1>2. /\ r \in plan.runners /\ run[r].name = Name(r)
      /\ ProgOk(run[r], inbox[Name(r)], meta[Name(r)], exported[Name(r)],
                assets["own"][Name(r)], assets["props"][Name(r)], Strict(Name(r)))
  BY <1>1, AtWork
<1>3. \/ Stop(r)
      \/ run[r].prog = "images" /\ Goto(r, "create")
      \/ run[r].prog # "images" /\ Goto(r, "generate")
      \/ run[r].prog = "daemon" /\ inbox[Name(r)].by # 0 /\ Goto(r, "process")
  BY DEF Balance, Is
<1>4. {"create", "generate", "process"} \subseteq Places
  BY DEF Places
<1>5. CASE Stop(r)
  BY <1>1, <1>2, <1>5, ToldStops
<1>6. CASE run[r].prog = "images" /\ Goto(r, "create")
  <2>1. \A d : Same(r, d, "create") =>
                 ProgOk(d, inbox[Name(r)], meta[Name(r)], exported[Name(r)],
                        assets["own"][Name(r)], assets["props"][Name(r)], Strict(Name(r)))
    BY <1>1, <1>2, <1>6 DEF ProgOk, Same
  <2> QED
    BY <1>1, <1>4, <1>6, <2>1, ToldGoes
<1>7. CASE Goto(r, "generate")
  <2>1. \A d : Same(r, d, "generate") =>
                 ProgOk(d, inbox[Name(r)], meta[Name(r)], exported[Name(r)],
                        assets["own"][Name(r)], assets["props"][Name(r)], Strict(Name(r)))
    BY <1>1, <1>2 DEF ProgOk, Same
  <2> QED
    BY <1>1, <1>4, <1>7, <2>1, ToldGoes
<1>8. CASE run[r].prog = "daemon" /\ Goto(r, "process")
  <2>1. \A d : Same(r, d, "process") =>
                 ProgOk(d, inbox[Name(r)], meta[Name(r)], exported[Name(r)],
                        assets["own"][Name(r)], assets["props"][Name(r)], Strict(Name(r)))
    BY <1>1, <1>2, <1>8 DEF ProgOk, Same
  <2> QED
    BY <1>1, <1>4, <1>8, <2>1, ToldGoes
<1> QED
  BY <1>3, <1>5, <1>6, <1>7, <1>8

LEMMA ToldGenerate ==
  ASSUME Typed, Told, Alone(plan), NEW r \in Runners, Generate(r)
  PROVE  Told'
<1>1. UNCHANGED <<plan, disk>> /\ run[r].at = "generate"
  BY DEF Generate, At
<1>2. /\ r \in plan.runners /\ run[r].name = Name(r)
      /\ ProgOk(run[r], inbox[Name(r)], meta[Name(r)], exported[Name(r)],
                assets["own"][Name(r)], assets["props"][Name(r)], Strict(Name(r)))
  BY <1>1, AtWork
<1>3. \/ Goto(r, "item")
      \/ inbox[Name(r)].by = 0 /\ Goto(r, "create")
  BY DEF Generate, NextName
<1>4. {"create", "item"} \subseteq Places
  BY DEF Places
<1>5. CASE Goto(r, "item")
  BY <1>1, <1>4, <1>5, ToldGoes
<1>6. CASE inbox[Name(r)].by = 0 /\ Goto(r, "create")
  <2>1. \A d : Same(r, d, "create") =>
                 ProgOk(d, inbox[Name(r)], meta[Name(r)], exported[Name(r)],
                        assets["own"][Name(r)], assets["props"][Name(r)], Strict(Name(r)))
    BY <1>1, <1>2, <1>6 DEF ProgOk, Same
  <2> QED
    BY <1>1, <1>4, <1>6, <2>1, ToldGoes
<1> QED
  BY <1>3, <1>5, <1>6

LEMMA ToldCreate ==
  ASSUME Typed, Told, Alone(plan), NEW r \in Runners, Create(r)
  PROVE  Told'
<1>1. UNCHANGED <<plan, disk>> /\ run[r].at = "create" /\ run \in [Runners -> Runs] /\ run[r] \in Runs
  BY RunFacts DEF Create, At
<1>2. /\ r \in plan.runners /\ run[r].name = Name(r) /\ Name(r) \in Names
      /\ ProgOk(run[r], inbox[Name(r)], meta[Name(r)], exported[Name(r)],
                assets["own"][Name(r)], assets["props"][Name(r)], Strict(Name(r)))
  BY <1>1, AtWork
<1>3. CASE run' = [run EXCEPT ![r].at = "poll", ![r].task = Len(tasks) + 1]
  <2> DEFINE t == Len(tasks) + 1
             d == [run[r] EXCEPT !.at = "poll", !.task = t]
  <2>0. t # 0
    BY DEF Typed, TypeOK
  <2>1. run' = [run EXCEPT ![r] = d]
    BY <1>1, <1>3
  <2> HIDE DEF t
  <2>2. /\ d.at = "poll" /\ d.task = t /\ d.cat = run[r].cat /\ d.name = Name(r)
        /\ d.prog = run[r].prog /\ d.again = run[r].again
    BY <1>1, <1>2 DEF Runs
  <2> HIDE DEF d
  <2>3. ProgOk(d, inbox[Name(r)], meta[Name(r)], exported[Name(r)],
               assets["own"][Name(r)], assets["props"][Name(r)], Strict(Name(r)))
    BY <1>1, <1>2, <2>0, <2>2 DEF ProgOk
  <2> QED
    BY <1>1, <1>2, <2>1, <2>2, <2>3, ToldMoves
<1>4. CASE NextName(r)
  BY <1>1, <1>4, ToldGoes DEF NextName, Places
<1> QED
  BY <1>3, <1>4 DEF Create

LEMMA ToldPoll ==
  ASSUME Typed, Told, Alone(plan), NEW r \in Runners, Poll(r)
  PROVE  Told'
<1>1. UNCHANGED <<plan, disk>> /\ run[r].at = "poll" /\ {"download", "item"} \subseteq Places
  BY DEF Poll, At, Places
<1>2. ProgOk(run[r], inbox[Name(r)], meta[Name(r)], exported[Name(r)],
             assets["own"][Name(r)], assets["props"][Name(r)], Strict(Name(r)))
  BY <1>1, AtWork
<1>3. CASE Goto(r, "item")
  BY <1>1, <1>3, ToldGoes
<1>4. CASE Goto(r, "download")
  <2>1. \A d : Same(r, d, "download") =>
                 ProgOk(d, inbox[Name(r)], meta[Name(r)], exported[Name(r)],
                        assets["own"][Name(r)], assets["props"][Name(r)], Strict(Name(r)))
    BY <1>1, <1>2 DEF ProgOk, Same
  <2> QED
    BY <1>1, <1>4, <2>1, ToldGoes
<1> QED
  BY <1>3, <1>4 DEF Poll, PollEnds, NextName

LEMMA ToldDownload ==
  ASSUME Typed, Told, Alone(plan), NEW r \in Runners, Download(r)
  PROVE  Told'
<1> DEFINE n == Name(r)
           t == run[r].task
           new == File(t, FALSE, FALSE)
<1>1. /\ UNCHANGED <<plan, exported, assets>> /\ run[r].at = "download" /\ t \in Tasks
      /\ inbox \in [Names -> Files] /\ meta \in [Names -> Metas]
      /\ {"write", "item"} \subseteq Places
  BY RunFacts DEF Download, At, Places
<1>2. /\ r \in plan.runners /\ run[r].name = n /\ n \in Names
      /\ ModelOk(inbox[n], meta[n]) /\ DirOk(exported[n], inbox[n].by, FALSE, Strict(n))
      /\ \A c \in Cats : DirOk(assets[c][n], inbox[n].by, TRUE, Strict(n))
      /\ ProgOk(run[r], inbox[n], meta[n], exported[n], assets["own"][n], assets["props"][n], Strict(n))
      /\ inbox[n] \in Files /\ meta[n] \in Metas
  BY <1>1, AtWork
<1>3. inbox[n].by = 0 /\ t # 0
  BY <1>1, <1>2 DEF ProgOk
<1>4. meta[n].status # "success" /\ "own" \in Cats /\ "props" \in Cats
  BY <1>2, <1>3, FileTyped DEF ModelOk, Metas, Cats
<1>5. \/ inbox' = [inbox EXCEPT ![n] = new] /\ UNCHANGED meta /\ Goto(r, "write")
      \/ UNCHANGED <<inbox, meta>> /\ Goto(r, "item")
      \/ UNCHANGED inbox /\ meta' = [meta EXCEPT ![n] = Meta(t, "success_no_file")] /\ Goto(r, "item")
  BY <1>3 DEF Download, NextName
<1>6. CASE inbox' = [inbox EXCEPT ![n] = new] /\ UNCHANGED meta /\ Goto(r, "write")
  <2> DEFINE d == [run[r] EXCEPT !.at = "write"]
  <2>1. /\ d.at = "write" /\ d.name = n /\ d.task = t /\ d.cat = run[r].cat
        /\ d.prog = run[r].prog /\ d.again = run[r].again
        /\ run' = [run EXCEPT ![r] = d]
    BY <1>1, <1>2, <1>3, <1>6, GotoTyped
  <2> HIDE DEF d, n, t
  <2>2. new.by = t /\ new.whole = FALSE
    BY <1>1, FileTyped
  <2> HIDE DEF new
  <2>3. inbox'[n] = new /\ meta'[n] = meta[n] /\ \A k \in Names \ {n} : inbox'[k] = inbox[k]
    BY <1>1, <1>2, <1>6
  <2>4. ModelOk(new, meta[n])
    BY <1>4, <2>2 DEF ModelOk
  <2>5. DirOk(exported[n], new.by, FALSE, Strict(n)) /\ \A c \in Cats : DirOk(assets[c][n], new.by, TRUE, Strict(n))
    BY <1>2, <1>3, <2>2 DEF DirOk
  <2>6. assets["own"][n].manifest = 0 /\ assets["props"][n].manifest = 0
    BY <1>2, <1>3, <1>4 DEF DirOk
  <2>7. ProgOk(d, new, meta[n], exported[n], assets["own"][n], assets["props"][n], Strict(n))
    BY <1>2, <1>3, <1>4, <2>1, <2>6 DEF ProgOk, new
  <2> QED
    BY <1>1, <1>2, <1>6, <2>1, <2>3, <2>4, <2>5, <2>7, ToldStep
<1>7. CASE UNCHANGED <<inbox, meta>> /\ Goto(r, "item")
  BY <1>1, <1>7, ToldGoes DEF disk
<1>8. CASE UNCHANGED inbox /\ meta' = [meta EXCEPT ![n] = Meta(t, "success_no_file")] /\ Goto(r, "item")
  <2> DEFINE d == [run[r] EXCEPT !.at = "item"]
  <2>1. d.at = "item" /\ run' = [run EXCEPT ![r] = d]
    BY <1>1, <1>8, GotoTyped
  <2> HIDE DEF d, n, t
  <2>2. meta'[n] = Meta(t, "success_no_file") /\ inbox'[n] = inbox[n] /\ \A k \in Names \ {n} : meta'[k] = meta[k]
    BY <1>1, <1>2, <1>8
  <2>3. ModelOk(inbox'[n], meta'[n])
    BY <1>2, <2>2 DEF ModelOk, Meta
  <2> QED
    BY <1>1, <1>2, <1>8, <2>1, <2>2, <2>3, ToldStep, ZenonT(60)
<1> QED
  BY <1>5, <1>6, <1>7, <1>8

LEMMA FileParts ==
  ASSUME NEW f \in Files
  PROVE  f = File(f.by, f.whole, f.keep)
BY DEF File, Files

LEMMA WrittenOut ==
  ASSUME NEW f \in Files, NEW t \in Tasks, f = File(t, FALSE, FALSE)
  PROVE  [f EXCEPT !.whole = TRUE] = File(t, TRUE, FALSE)
<1> DEFINE g == [f EXCEPT !.whole = TRUE]
<1>1. f.by = t /\ f.keep = FALSE
  BY DEF File
<1>2. g \in Files /\ g.by = t /\ g.whole = TRUE /\ g.keep = FALSE
  BY <1>1 DEF Files
<1> HIDE DEF g
<1>3. g = File(g.by, g.whole, g.keep)
  BY <1>2, FileParts
<1> QED
  BY <1>2, <1>3 DEF g

LEMMA ToldWrite ==
  ASSUME Typed, Told, Alone(plan), NEW r \in Runners, Write(r)
  PROVE  Told'
<1> DEFINE n == Name(r)
           t == run[r].task
           new == File(t, TRUE, FALSE)
<1>1. /\ UNCHANGED <<plan, meta, exported, assets>> /\ run[r].at = "write" /\ t \in Tasks
      /\ inbox \in [Names -> Files]
      /\ {"meta", "item"} \subseteq Places
  BY RunFacts DEF Write, At, Places
<1>2. /\ r \in plan.runners /\ run[r].name = n /\ n \in Names
      /\ ModelOk(inbox[n], meta[n]) /\ DirOk(exported[n], inbox[n].by, FALSE, Strict(n))
      /\ \A c \in Cats : DirOk(assets[c][n], inbox[n].by, TRUE, Strict(n))
      /\ ProgOk(run[r], inbox[n], meta[n], exported[n], assets["own"][n], assets["props"][n], Strict(n))
      /\ inbox[n] \in Files
  BY <1>1, AtWork
<1>3. /\ inbox[n] = File(t, FALSE, FALSE) /\ meta[n].status # "success" /\ t # 0
      /\ assets["own"][n].manifest = 0 /\ assets["props"][n].manifest = 0
  BY <1>1, <1>2 DEF ProgOk
<1>4. inbox[n].by = t
  BY <1>1, <1>3, FileTyped
<1>5. \A o \in Runners \ {r} : ~(At(o, "write") /\ Name(o) = Name(r))
  BY <1>2, OthersOff DEF At
<1>6. \/ inbox' = [inbox EXCEPT ![n].whole = TRUE] /\ Goto(r, "meta")
      \/ UNCHANGED inbox /\ Goto(r, "item")
  BY <1>4, <1>5 DEF Write, NextName
<1>7. CASE inbox' = [inbox EXCEPT ![n].whole = TRUE] /\ Goto(r, "meta")
  <2> DEFINE d == [run[r] EXCEPT !.at = "meta"]
  <2>1. /\ d.at = "meta" /\ d.name = n /\ d.task = t /\ d.cat = run[r].cat
        /\ d.prog = run[r].prog /\ d.again = run[r].again
        /\ run' = [run EXCEPT ![r] = d]
    BY <1>1, <1>2, <1>3, <1>7, GotoTyped
  <2> HIDE DEF d, n, t
  <2>2. [inbox[n] EXCEPT !.whole = TRUE] = new
    BY <1>1, <1>2, <1>3, WrittenOut DEF new
  <2>3. new.by = t /\ new.whole = TRUE
    BY <1>1, FileTyped
  <2>4. inbox'[n] = new /\ meta'[n] = meta[n] /\ \A k \in Names \ {n} : inbox'[k] = inbox[k]
    BY <1>1, <1>2, <1>7, <2>2
  <2> HIDE DEF new
  <2>5. ModelOk(new, meta[n])
    BY <1>3, <2>3 DEF ModelOk
  <2>6. DirOk(exported[n], new.by, FALSE, Strict(n)) /\ \A c \in Cats : DirOk(assets[c][n], new.by, TRUE, Strict(n))
    BY <1>2, <1>4, <2>3
  <2>7. ProgOk(d, new, meta[n], exported[n], assets["own"][n], assets["props"][n], Strict(n))
    BY <1>2, <1>3, <2>1 DEF ProgOk, new
  <2> QED
    BY <1>1, <1>2, <1>7, <2>1, <2>4, <2>5, <2>6, <2>7, ToldStep
<1>8. CASE UNCHANGED inbox /\ Goto(r, "item")
  BY <1>1, <1>8, ToldGoes DEF disk
<1> QED
  BY <1>6, <1>7, <1>8

LEMMA ToldWriteMeta ==
  ASSUME Typed, Told, Alone(plan), NEW r \in Runners, WriteMeta(r)
  PROVE  Told'
<1> DEFINE n == Name(r)
           t == run[r].task
           new == Meta(t, "success")
<1>1. /\ UNCHANGED <<plan, inbox, exported, assets>> /\ run[r].at = "meta" /\ t \in Tasks
      /\ meta \in [Names -> Metas] /\ run[r].cat \in Cats
      /\ {"process", "item"} \subseteq Places
  BY RunFacts DEF WriteMeta, At, Places
<1>2. /\ r \in plan.runners /\ run[r].name = n /\ n \in Names
      /\ ModelOk(inbox[n], meta[n]) /\ DirOk(exported[n], inbox[n].by, FALSE, Strict(n))
      /\ \A c \in Cats : DirOk(assets[c][n], inbox[n].by, TRUE, Strict(n))
      /\ ProgOk(run[r], inbox[n], meta[n], exported[n], assets["own"][n], assets["props"][n], Strict(n))
  BY <1>1, AtWork
<1>3. /\ inbox[n] = File(t, TRUE, FALSE) /\ t # 0
      /\ assets["own"][n].manifest = 0 /\ assets["props"][n].manifest = 0
  BY <1>1, <1>2 DEF ProgOk
<1>4. PICK place \in {"process", "item"} : Goto(r, place)
  BY DEF WriteMeta
<1> DEFINE d == [run[r] EXCEPT !.at = place]
<1>5. /\ d.at = place /\ d.name = n /\ d.task = t
      /\ d.cat = run[r].cat /\ d.prog = run[r].prog /\ d.again = run[r].again
      /\ run' = [run EXCEPT ![r] = d]
  BY <1>1, <1>2, <1>4, GotoTyped
<1> HIDE DEF d
<1>6. meta' = [meta EXCEPT ![n] = new]
  BY DEF WriteMeta
<1> HIDE DEF n, t
<1>7. new.task = t /\ new.status = "success"
  BY DEF Meta
<1>8. meta'[n] = new /\ inbox'[n] = inbox[n] /\ \A k \in Names \ {n} : meta'[k] = meta[k]
  BY <1>1, <1>2, <1>6
<1> HIDE DEF new
<1>9. ModelOk(inbox[n], new)
  BY <1>2, <1>3, <1>7 DEF ModelOk
<1>10. place # "item" =>
         ProgOk(d, inbox[n], new, exported[n], assets["own"][n], assets["props"][n], Strict(n))
  BY <1>1, <1>2, <1>3, <1>4, <1>5 DEF ProgOk
<1> QED
  BY <1>1, <1>2, <1>5, <1>8, <1>9, <1>10, ToldStep

\* The disk after process_asset.py ended.
LEMMA ToldEnds ==
  ASSUME Typed, Told, Alone(plan), NEW r \in Runners, run[r].at \notin {"off", "item"},
         UNCHANGED <<plan, inbox, meta>>,
         \A k \in Names \ {Name(r)} : exported'[k] = exported[k],
         DirOk(exported'[Name(r)], inbox[Name(r)].by, FALSE, Strict(Name(r))),
         NEW as \in [Cats -> [Names -> Dirs]], NEW rc, Ends(r, rc, as),
         \A c \in Cats, k \in Names \ {Name(r)} : as[c][k] = assets[c][k],
         \A c \in Cats : DirOk(as[c][Name(r)], inbox[Name(r)].by, TRUE, Strict(Name(r)))
  PROVE  Told'
<1> DEFINE n == Name(r)
<1>1. /\ r \in plan.runners /\ n \in Names
      /\ ModelOk(inbox[n], meta[n])
  BY AtWork
<1>2. /\ Goto(r, "item") \/ Stop(r)
      /\ ~Moves(r, rc, as) => assets' = as
      /\ Moves(r, rc, as) =>
              \A c \in Cats, k \in Names :
                IF k # n THEN assets'[c][k] = as[c][k]
                ELSE assets'[c][k] \in {Empty, as["own"][k], as["props"][k]}
  BY <1>1, EndsTyped DEF NextName
<1>3. PICK d : (d.at = "item" \/ d.at = "off") /\ run' = [run EXCEPT ![r] = d]
  <2>1. CASE Goto(r, "item")
    <3> DEFINE d == [run[r] EXCEPT !.at = "item"]
    <3>1. d.at = "item" /\ run' = [run EXCEPT ![r] = d]
      BY <2>1, GotoTyped DEF Places
    <3> HIDE DEF d
    <3> QED
      BY <3>1
  <2>2. CASE Stop(r)
    BY <2>2, OffTyped DEF Stop
  <2> QED
    BY <1>2, <2>1, <2>2
<1>4. DirOk(Empty, inbox[n].by, TRUE, Strict(n)) /\ "own" \in Cats /\ "props" \in Cats
  BY EmptyTyped DEF DirOk, Cats
<1>7. /\ \A k \in Names \ {n} : exported'[k] = exported[k]
      /\ DirOk(exported'[n], inbox[n].by, FALSE, Strict(n))
      /\ \A c \in Cats : DirOk(as[c][n], inbox[n].by, TRUE, Strict(n))
      /\ \A c \in Cats, k \in Names \ {n} : as[c][k] = assets[c][k]
  OBVIOUS
<1> HIDE DEF n
<1>5. \A c \in Cats : DirOk(assets'[c][n], inbox[n].by, TRUE, Strict(n))
  <2>2. CASE ~Moves(r, rc, as)
    BY <1>2, <1>7, <2>2
  <2>3. CASE Moves(r, rc, as)
    <3>1. \A c \in Cats : \/ assets'[c][n] = Empty \/ assets'[c][n] = as["own"][n]
                          \/ assets'[c][n] = as["props"][n]
      BY <1>1, <1>2, <2>3
    <3> QED
      BY <1>4, <1>7, <3>1
  <2> QED
    BY <2>2, <2>3
<1>6. \A k \in Names \ {n} : \A c \in Cats : assets'[c][k] = assets[c][k]
  BY <1>2, <1>7, ZenonT(60)
<1> QED
  BY <1>1, <1>3, <1>5, <1>6, <1>7, ToldStep

LEMMA ToldRejected ==
  ASSUME Typed, Told, Alone(plan), NEW r \in Runners, run[r].at \in {"process", "export", "copy"},
         UNCHANGED <<plan, inbox, meta>>,
         \A k \in Names \ {Name(r)} : exported'[k] = exported[k],
         DirOk(exported'[Name(r)], inbox[Name(r)].by, FALSE, Strict(Name(r))),
         NEW as \in [Cats -> [Names -> Dirs]], Rejected(r, as),
         \A c \in Cats, k \in Names \ {Name(r)} : as[c][k] = assets[c][k],
         \A c \in Cats : DirOk(as[c][Name(r)], inbox[Name(r)].by, TRUE, Strict(Name(r))),
         run[r].cat # "props" => as["props"][Name(r)].manifest = assets["props"][Name(r)].manifest
  PROVE  Told'
<1> DEFINE n == Name(r)
<1>1. /\ r \in plan.runners /\ run[r].name = n /\ n \in Names
      /\ ModelOk(inbox[n], meta[n])
      /\ ProgOk(run[r], inbox[n], meta[n], exported[n], assets["own"][n], assets["props"][n], Strict(n))
  BY AtWork, RunFacts
<1>2. CASE Ends(r, 1, as)
  BY <1>2, ToldEnds
<1>3. CASE ~Ends(r, 1, as)
  <2>1. /\ run[r].prog = "wave" /\ run[r].again = FALSE /\ assets' = as
        /\ run' = [run EXCEPT ![r] = Again(r)]
        /\ Again(r).at = "process" /\ Again(r).prog = "wave" /\ Again(r).cat = "props"
        /\ Again(r).again = TRUE /\ Again(r).name = n
    BY <1>1, <1>3, RejectedTyped
  <2> DEFINE d == Again(r)
  <2>2. Strict(n) => as["props"][n].manifest = 0
    BY <1>1, <2>1 DEF ProgOk
  <2>3. /\ \A k \in Names \ {n} : exported'[k] = exported[k] /\ \A c \in Cats : assets'[c][k] = assets[c][k]
        /\ DirOk(exported'[n], inbox[n].by, FALSE, Strict(n))
        /\ \A c \in Cats : DirOk(assets'[c][n], inbox[n].by, TRUE, Strict(n))
    BY <2>1
  <2> HIDE DEF Again, n
  <2>4. ProgOk(d, inbox'[n], meta'[n], exported'[n], assets'["own"][n], assets'["props"][n], Strict(n))
    BY <2>1, <2>2 DEF ProgOk
  <2> HIDE DEF d
  <2>5. run' = [run EXCEPT ![r] = d] /\ d.name = n
    BY <2>1 DEF d
  <2> QED
    BY <1>1, <2>3, <2>4, <2>5, ToldStep
<1> QED
  BY <1>2, <1>3

LEMMA ToldBroken ==
  ASSUME Typed, Told, Alone(plan), NEW r \in Runners, run[r].at \in {"process", "export", "copy"},
         UNCHANGED <<plan, inbox, meta>>,
         \A k \in Names \ {Name(r)} : exported'[k] = exported[k],
         DirOk(exported'[Name(r)], inbox[Name(r)].by, FALSE, Strict(Name(r))),
         NEW as \in [Cats -> [Names -> Dirs]], Broken(r, as),
         \A c \in Cats, k \in Names \ {Name(r)} : as[c][k] = assets[c][k],
         \A c \in Cats : DirOk(as[c][Name(r)], inbox[Name(r)].by, TRUE, Strict(Name(r))),
         run[r].cat # "props" => as["props"][Name(r)].manifest = assets["props"][Name(r)].manifest
  PROVE  Told'
<1>1. CASE Rejected(r, as)
  BY <1>1, ToldRejected
<1>2. CASE Ends(r, 0, as)
  BY <1>2, ToldEnds
<1> QED
  BY <1>1, <1>2 DEF Broken, Accepted

\* What an interrupted export leaves.
LEMMA CutExported ==
  ASSUME Typed, Told, Alone(plan), NEW r \in Runners, run[r].at = "export", NEW es \in CutExports(r)
  PROVE  /\ \A k \in Names \ {Name(r)} : es[k] = exported[k]
         /\ DirOk(es[Name(r)], inbox[Name(r)].by, FALSE, Strict(Name(r)))
<1> DEFINE n == Name(r)
           t == run[r].task
<1>1. /\ n \in Names /\ DirOk(exported[n], inbox[n].by, FALSE, Strict(n)) /\ t = inbox[n].by
      /\ t \in Tasks /\ run[r].left \subseteq Lods /\ exported \in [Names -> Dirs]
  BY AtWork, RunFacts DEF ProgOk
<1>2. CASE es = exported
  BY <1>1, <1>2
<1>3. ASSUME NEW l \in run[r].left,
             es = [exported EXCEPT ![n].files[l] = File(t, FALSE, Keeps(r))]
      PROVE  (\A k \in Names \ {n} : es[k] = exported[k]) /\ DirOk(es[n], inbox[n].by, FALSE, Strict(n))
  <2> DEFINE f == File(t, FALSE, Keeps(r))
             e == [exported[n] EXCEPT !.files[l] = f]
  <2>1. f.by = t /\ exported[n] \in Dirs /\ l \in Lods
    BY <1>1, FileTyped DEF Keeps, Is
  <2>2. es = [exported EXCEPT ![n].files[l] = f]
    BY <1>3
  <2> HIDE DEF f, n, t
  <2>3. e.manifest = exported[n].manifest
        /\ \A k \in Lods : e.files[k] = IF k = l THEN f ELSE exported[n].files[k]
    BY <2>1 DEF Dirs
  <2>4. es[n] = e /\ \A k \in Names \ {n} : es[k] = exported[k]
    BY <1>1, <2>2
  <2> HIDE DEF e
  <2>5. DirOk(e, inbox[n].by, FALSE, Strict(n))
    BY <1>1, <2>1, <2>3 DEF DirOk
  <2> QED
    BY <2>4, <2>5
<1> QED
  BY <1>2, <1>3 DEF CutExports

\* What an interrupted copy leaves.
LEMMA CutCopied ==
  ASSUME Typed, Told, Alone(plan), NEW r \in Runners, run[r].at = "copy", NEW as \in CutCopies(r)
  PROVE  /\ \A b \in Cats, k \in Names \ {Name(r)} : as[b][k] = assets[b][k]
         /\ \A b \in Cats : DirOk(as[b][Name(r)], inbox[Name(r)].by, TRUE, Strict(Name(r)))
         /\ \A b \in Cats : as[b][Name(r)].manifest = assets[b][Name(r)].manifest
<1> DEFINE n == Name(r)
           t == run[r].task
           c == run[r].cat
<1>1. /\ n \in Names /\ \A b \in Cats : DirOk(assets[b][n], inbox[n].by, TRUE, Strict(n))
      /\ t \in Tasks /\ run[r].left \subseteq Lods /\ c \in Cats
      /\ assets \in [Cats -> [Names -> Dirs]] /\ exported \in [Names -> Dirs]
      /\ t = inbox[n].by /\ From(exported[n], t, Lods)
      /\ Strict(n) => assets[c][n].manifest = 0
  <2>1. /\ n \in Names /\ \A b \in Cats : DirOk(assets[b][n], inbox[n].by, TRUE, Strict(n))
        /\ ProgOk(run[r], inbox[n], meta[n], exported[n], assets["own"][n], assets["props"][n], Strict(n))
    BY AtWork
  <2>2. /\ t \in Tasks /\ run[r].left \subseteq Lods /\ c \in Cats
        /\ assets \in [Cats -> [Names -> Dirs]] /\ exported \in [Names -> Dirs]
    BY RunFacts
  <2>3. c = "own" \/ c = "props"
    BY <2>2 DEF Cats
  <2>4. CASE c = "own"
    BY <2>1, <2>2, <2>4 DEF ProgOk
  <2>5. CASE c = "props"
    BY <2>1, <2>2, <2>5 DEF ProgOk
  <2> QED
    BY <2>3, <2>4, <2>5
<1>2. CASE as = assets
  BY <1>1, <1>2
<1>3. ASSUME NEW l \in run[r].left,
             as = [assets EXCEPT ![c][n].files[l] = [exported[n].files[l] EXCEPT !.whole = FALSE]]
      PROVE  /\ \A b \in Cats, k \in Names \ {n} : as[b][k] = assets[b][k]
             /\ \A b \in Cats : DirOk(as[b][n], inbox[n].by, TRUE, Strict(n))
             /\ \A b \in Cats : as[b][n].manifest = assets[b][n].manifest
  <2> DEFINE g   == exported[n].files[l]
             f   == [g EXCEPT !.whole = FALSE]
             dir == [assets[c][n] EXCEPT !.files[l] = f]
  <2>1. g \in Files /\ g.by = t /\ assets[c][n] \in Dirs /\ l \in Lods
    BY <1>1, DirTyped DEF From
  <2> HIDE DEF g
  <2>2. f \in Files /\ f.by = t
    BY <2>1 DEF Files
  <2>3. as = [assets EXCEPT ![c][n].files[l] = f]
    BY <1>3 DEF g
  <2> HIDE DEF f, n, t, c
  <2>4. dir.manifest = assets[c][n].manifest
        /\ \A k \in Lods : dir.files[k] = IF k = l THEN f ELSE assets[c][n].files[k]
    BY <2>1 DEF Dirs
  <2>5. dir \in Dirs
    BY <2>1, <2>2, DirTyped
  <2>8. as = [assets EXCEPT ![c][n] = dir]
    BY <1>1, <2>1, <2>2, <2>3, EmptyTyped, WrittenAssets
  <2> HIDE DEF dir
  <2>6. /\ as \in [Cats -> [Names -> Dirs]]
        /\ \A b \in Cats, o \in Names : as[b][o] = IF b = c /\ o = n THEN dir ELSE assets[b][o]
    <3>1. assets \in [Cats -> [Names -> Dirs]] /\ c \in Cats /\ n \in Names
      BY <1>1
    <3> QED
      BY ONLY <3>1, <2>5, <2>8, AssetsTyped, ZenonT(90)
  <2>7. DirOk(dir, inbox[n].by, TRUE, Strict(n))
    BY <1>1, <2>1, <2>2, <2>4 DEF DirOk
  <2> QED
    BY <1>1, <2>4, <2>6, <2>7
<1> QED
  BY <1>2, <1>3 DEF CutCopies

LEMMA ToldProcess ==
  ASSUME Typed, Told, Alone(plan), NEW r \in Runners, Process(r)
  PROVE  Told'
<1> DEFINE n == Name(r)
<1>1. /\ UNCHANGED <<plan, inbox, meta, exported>> /\ run[r].at = "process"
      /\ run \in [Runners -> Runs] /\ run[r] \in Runs /\ assets \in [Cats -> [Names -> Dirs]]
  BY RunFacts DEF Process, At
<1>2. /\ r \in plan.runners /\ run[r].name = n /\ n \in Names
      /\ ModelOk(inbox[n], meta[n]) /\ DirOk(exported[n], inbox[n].by, FALSE, Strict(n))
      /\ \A c \in Cats : DirOk(assets[c][n], inbox[n].by, TRUE, Strict(n))
      /\ ProgOk(run[r], inbox[n], meta[n], exported[n], assets["own"][n], assets["props"][n], Strict(n))
      /\ inbox[n] \in Files
  BY <1>1, AtWork
<1>3. CASE Broken(r, assets)
  BY <1>1, <1>2, <1>3, ToldBroken
<1>4. CASE Accepted(r, assets)
  BY <1>1, <1>2, <1>4, ToldEnds DEF Accepted
<1>5. CASE /\ inbox[n].whole /\ UNCHANGED assets
           /\ run' = [run EXCEPT ![r].at = "export", ![r].left = Lods, ![r].task = inbox[n].by]
  <2> DEFINE t == inbox[n].by
             d == [run[r] EXCEPT !.at = "export", !.left = Lods, !.task = t]
  <2>1. run' = [run EXCEPT ![r] = d]
    BY <1>1, <1>5
  <2>2. t # 0
    BY <1>2, <1>5 DEF ModelOk, Files
  <2> HIDE DEF t
  <2>3. /\ d.at = "export" /\ d.task = t /\ d.left = Lods /\ d.prog = run[r].prog
        /\ d.cat = run[r].cat /\ d.name = run[r].name /\ d.again = run[r].again
    BY <1>1 DEF Runs
  <2> HIDE DEF d, n
  <2>4. ProgOk(d, inbox[n], meta[n], exported[n], assets["own"][n], assets["props"][n], Strict(n))
    BY <1>1, <1>2, <2>2, <2>3 DEF ProgOk, From, t
  <2>5. UNCHANGED <<plan, disk>>
    BY <1>1, <1>5 DEF disk
  <2> QED
    BY <1>2, <2>1, <2>3, <2>4, <2>5, ToldMoves
<1> QED
  BY <1>3, <1>4, <1>5 DEF Process

\* A directory with the manifest of model t.
LEMMA ManifestLoose ==
  ASSUME NEW dir \in Dirs, NEW t \in Tasks,
         NEW strict \in BOOLEAN, DirOk(dir, t, FALSE, strict)
  PROVE  \A new : new = [dir EXCEPT !.manifest = t] =>
         /\ DirOk(new, t, FALSE, strict)
         /\ new.manifest = t
         /\ \A k \in Lods : new.files[k] = dir.files[k]
<1> TAKE new
<1> HAVE new = [dir EXCEPT !.manifest = t]
<1>1. new.manifest = t /\ new.files = dir.files
  BY DEF Dirs
<1>2. DirOk(new, t, FALSE, strict)
  BY <1>1 DEF DirOk, From
<1> QED
  BY <1>1, <1>2

LEMMA ManifestSound ==
  ASSUME NEW dir \in Dirs, NEW t \in Tasks,
         NEW strict \in BOOLEAN, DirOk(dir, t, TRUE, strict), From(dir, t, Lods)
  PROVE  \A new : new = [dir EXCEPT !.manifest = t] =>
         /\ DirOk(new, t, TRUE, strict)
         /\ new.manifest = t
         /\ \A k \in Lods : new.files[k] = dir.files[k]
<1> TAKE new
<1> HAVE new = [dir EXCEPT !.manifest = t]
<1>1. new.manifest = t /\ new.files = dir.files
  BY DEF Dirs
<1>2. DirOk(new, t, TRUE, strict)
  BY <1>1 DEF DirOk, From
<1> QED
  BY <1>1, <1>2

LEMMA ToldExport ==
  ASSUME Typed, Told, Alone(plan), NEW r \in Runners, Export(r)
  PROVE  Told'
<1> DEFINE n == Name(r)
           t == run[r].task
<1>1. /\ UNCHANGED <<plan, inbox, meta>> /\ run[r].at = "export" /\ t \in Tasks
      /\ run \in [Runners -> Runs] /\ run[r] \in Runs /\ run[r].left \subseteq Lods
      /\ exported \in [Names -> Dirs]
  BY RunFacts DEF Export, At
<1>2. /\ r \in plan.runners /\ run[r].name = n /\ n \in Names
      /\ ModelOk(inbox[n], meta[n]) /\ DirOk(exported[n], inbox[n].by, FALSE, Strict(n))
      /\ \A c \in Cats : DirOk(assets[c][n], inbox[n].by, TRUE, Strict(n))
      /\ ProgOk(run[r], inbox[n], meta[n], exported[n], assets["own"][n], assets["props"][n], Strict(n))
      /\ exported[n] \in Dirs
  BY <1>1, AtWork
<1>3. t = inbox[n].by /\ t # 0 /\ From(exported[n], t, Lods \ run[r].left)
  BY <1>1, <1>2 DEF ProgOk
<1>4. Strict(n) \in BOOLEAN
  BY DEF Strict
<1>5. CASE exported' \in CutExports(r) /\ Broken(r, assets)
  <2>1. assets \in [Cats -> [Names -> Dirs]]
    BY RunFacts
  <2> QED
    BY <1>1, <1>2, <1>5, <2>1, CutExported, ToldBroken
<1>6. ASSUME NEW l \in run[r].left, UNCHANGED assets,
             exported' = [exported EXCEPT ![n].files[l] = File(t, TRUE, Keeps(r))],
             run' = [run EXCEPT ![r].left = @ \ {l}]
      PROVE  Told'
  <2> DEFINE f == File(t, TRUE, Keeps(r))
             e == [exported[n] EXCEPT !.files[l] = f]
             d == [run[r] EXCEPT !.left = @ \ {l}]
  <2>1. f \in Files /\ f.by = t /\ f.whole = TRUE
    BY <1>1, FileTyped DEF Keeps, Is
  <2>2. run' = [run EXCEPT ![r] = d]
    BY <1>1, <1>6
  <2>3. /\ d.at = "export" /\ d.task = t /\ d.left = run[r].left \ {l} /\ d.prog = run[r].prog
        /\ d.cat = run[r].cat /\ d.name = n /\ d.again = run[r].again
    BY <1>1, <1>2 DEF Runs
  <2> HIDE DEF f, d, n, t
  <2>4. /\ DirOk(e, t, FALSE, Strict(n))
        /\ \A k \in Lods : e.files[k] = IF k = l THEN f ELSE exported[n].files[k]
    <3>1. DirOk(exported[n], t, FALSE, Strict(n)) /\ l \in Lods /\ exported[n] \in Dirs /\ t \in Tasks
      BY <1>1, <1>2, <1>3, <1>6
    <3>2. e = [exported[n] EXCEPT !.files[l] = f]
      OBVIOUS
    <3> HIDE DEF e
    <3>3. e.manifest = exported[n].manifest
          /\ \A k \in Lods : e.files[k] = IF k = l THEN f ELSE exported[n].files[k]
      BY <3>1, <3>2 DEF Dirs
    <3>4. DirOk(e, t, FALSE, Strict(n))
      BY <2>1, <3>1, <3>3 DEF DirOk
    <3> QED
      BY <3>3, <3>4
  <2>5. exported' = [exported EXCEPT ![n].files[l] = f]
    BY <1>6 DEF f, t
  <2>6. exported'[n] = e /\ \A k \in Names \ {n} : exported'[k] = exported[k]
    BY <1>1, <1>2, <2>5
  <2> HIDE DEF e
  <2>7. From(e, t, Lods \ d.left)
    BY <1>1, <1>3, <2>1, <2>3, <2>4 DEF From
  <2>8. ProgOk(d, inbox[n], meta[n], e, assets["own"][n], assets["props"][n], Strict(n))
    BY <1>1, <1>2, <1>3, <2>3, <2>7 DEF ProgOk
  <2> QED
    BY <1>1, <1>2, <1>3, <1>6, <2>2, <2>3, <2>4, <2>6, <2>8, ToldStep
<1>7. CASE /\ exported' = [exported EXCEPT ![n].manifest = t] /\ run[r].left = {}
           /\ run' = [run EXCEPT ![r].at = "copy", ![r].left = Lods]
           /\ UNCHANGED assets
  <2> DEFINE e == [exported[n] EXCEPT !.manifest = t]
             d == [run[r] EXCEPT !.at = "copy", !.left = Lods]
  <2>2. run' = [run EXCEPT ![r] = d]
    BY <1>1, <1>7
  <2>3. /\ d.at = "copy" /\ d.task = t /\ d.left = Lods /\ d.prog = run[r].prog
        /\ d.cat = run[r].cat /\ d.name = n /\ d.again = run[r].again
    BY <1>1, <1>2 DEF Runs
  <2> HIDE DEF d, n, t
  <2>4. /\ DirOk(e, t, FALSE, Strict(n)) /\ e.manifest = t
        /\ \A k \in Lods : e.files[k] = exported[n].files[k]
    <3>1. DirOk(exported[n], t, FALSE, Strict(n)) /\ exported[n] \in Dirs /\ t \in Tasks
      BY <1>1, <1>2, <1>3
    <3>2. e = [exported[n] EXCEPT !.manifest = t]
      OBVIOUS
    <3> HIDE DEF e
    <3>3. DirOk(e, t, FALSE, Strict(n))
      BY <1>4, <3>1, <3>2, ManifestLoose, ZenonT(60)
    <3>4. e.manifest = t
      BY <1>4, <3>1, <3>2, ManifestLoose
    <3>5. \A k \in Lods : e.files[k] = exported[n].files[k]
      BY <1>4, <3>1, <3>2, ManifestLoose
    <3> QED
      BY <3>3, <3>4, <3>5
  <2>5. exported'[n] = e /\ \A k \in Names \ {n} : exported'[k] = exported[k]
    BY <1>1, <1>2, <1>7
  <2> HIDE DEF e
  <2>6. From(e, t, Lods)
    BY <1>3, <1>7, <2>4 DEF From
  <2>7. \A a : From(a, t, Lods \ Lods)
    BY DEF From
  <2>8. ProgOk(d, inbox[n], meta[n], e, assets["own"][n], assets["props"][n], Strict(n))
    BY <1>1, <1>2, <1>3, <2>3, <2>4, <2>6, <2>7 DEF ProgOk
  <2> QED
    BY <1>1, <1>2, <1>3, <1>7, <2>2, <2>3, <2>4, <2>5, <2>8, ToldStep
<1> QED
  BY <1>5, <1>6, <1>7 DEF Export

LEMMA ToldCopy ==
  ASSUME Typed, Told, Alone(plan), NEW r \in Runners, Copy(r)
  PROVE  Told'
<1> DEFINE n == Name(r)
           t == run[r].task
           c == run[r].cat
<1>1. /\ UNCHANGED <<plan, inbox, meta, exported>> /\ run[r].at = "copy" /\ t \in Tasks
      /\ run \in [Runners -> Runs] /\ run[r] \in Runs /\ run[r].left \subseteq Lods /\ c \in Cats
      /\ assets \in [Cats -> [Names -> Dirs]]
  BY RunFacts DEF Copy, At
<1>2. /\ r \in plan.runners /\ run[r].name = n /\ n \in Names
      /\ ModelOk(inbox[n], meta[n]) /\ DirOk(exported[n], inbox[n].by, FALSE, Strict(n))
      /\ \A b \in Cats : DirOk(assets[b][n], inbox[n].by, TRUE, Strict(n))
      /\ ProgOk(run[r], inbox[n], meta[n], exported[n], assets["own"][n], assets["props"][n], Strict(n))
      /\ exported[n] \in Dirs /\ \A b \in Cats : assets[b][n] \in Dirs
  BY <1>1, AtWork
<1>3. /\ t = inbox[n].by /\ t # 0 /\ exported[n].manifest = t /\ From(exported[n], t, Lods)
      /\ From(assets[c][n], t, Lods \ run[r].left)
      /\ Strict(n) => assets[c][n].manifest = 0
  <2>1. c = "own" \/ c = "props"
    BY <1>1 DEF Cats
  <2>2. CASE c = "own"
    BY <1>1, <1>2, <2>2 DEF ProgOk
  <2>3. CASE c = "props"
    BY <1>1, <1>2, <2>3 DEF ProgOk
  <2> QED
    BY <2>1, <2>2, <2>3
<1>4. Strict(n) \in BOOLEAN
  BY DEF Strict
<1>5. ASSUME run[r].left = {}
      PROVE  LET as == WithManifest(r) IN
             /\ as \in [Cats -> [Names -> Dirs]]
             /\ \A b \in Cats, k \in Names : b # c \/ k # n => as[b][k] = assets[b][k]
             /\ \A b \in Cats : DirOk(as[b][n], inbox[n].by, TRUE, Strict(n))
  <2> DEFINE dir == [assets[c][n] EXCEPT !.manifest = t]
             as  == [assets EXCEPT ![c][n] = dir]
  <2>2. WithManifest(r) = as /\ as \in [Cats -> [Names -> Dirs]]
    BY <1>1, <1>2, <1>3, NamesAssumption, EmptyTyped, WrittenAssets DEF WithManifest
  <2>3. From(assets[c][n], t, Lods)
    BY <1>3, <1>5 DEF From
  <2> HIDE DEF n, t, c
  <2>4. DirOk(dir, t, TRUE, Strict(n))
    <3>1. DirOk(assets[c][n], t, TRUE, Strict(n)) /\ assets[c][n] \in Dirs
      BY <1>1, <1>2, <1>3
    <3>2. dir = [assets[c][n] EXCEPT !.manifest = t]
      OBVIOUS
    <3> HIDE DEF dir
    <3> QED
      BY <1>1, <1>4, <2>3, <3>1, <3>2, ManifestSound, ZenonT(60)
  <2>5. dir \in Dirs
    BY <1>1, <1>2, DirTyped
  <2>6. \A b \in Cats, k \in Names : as[b][k] = IF b = c /\ k = n THEN dir ELSE assets[b][k]
    BY <1>1, <1>2, <2>5, AssetsTyped
  <2> HIDE DEF dir, as
  <2>7. \A b \in Cats : DirOk(as[b][n], inbox[n].by, TRUE, Strict(n))
    BY <1>2, <1>3, <2>4, <2>6
  <2> QED
    BY <2>2, <2>6, <2>7
<1>7. CASE run[r].left = {} /\ Accepted(r, WithManifest(r))
  BY <1>1, <1>2, <1>5, <1>7, ToldEnds DEF Accepted
<1>8. CASE run[r].left = {} /\ Broken(r, WithManifest(r))
  <2>1. /\ WithManifest(r) \in [Cats -> [Names -> Dirs]]
        /\ \A b \in Cats, k \in Names : b # c \/ k # n => WithManifest(r)[b][k] = assets[b][k]
        /\ \A b \in Cats : DirOk(WithManifest(r)[b][n], inbox[n].by, TRUE, Strict(n))
    BY <1>5, <1>8
  <2>2. c # "props" => WithManifest(r)["props"][n].manifest = assets["props"][n].manifest
    BY <1>2, <2>1 DEF Cats
  <2>3. \A b \in Cats, k \in Names \ {n} : WithManifest(r)[b][k] = assets[b][k]
    BY <2>1
  <2> HIDE DEF WithManifest
  <2> QED
    BY <1>1, <1>2, <1>8, <2>1, <2>2, <2>3, ToldBroken
<1>9. ASSUME NEW as \in CutCopies(r), Broken(r, as)
      PROVE  Told'
  <2>1. as \in [Cats -> [Names -> Dirs]] /\ "props" \in Cats
    BY <1>1, CutTyped DEF At, Cats
  <2> QED
    BY <1>1, <1>2, <1>9, <2>1, CutCopied, ToldBroken
<1>6. ASSUME NEW l \in run[r].left, CopyModel(r, l)
      PROVE  Told'
  <2> DEFINE f   == exported[n].files[l]
             dir == [assets[c][n] EXCEPT !.files[l] = f]
             d   == [run[r] EXCEPT !.left = @ \ {l}]
  <2>1. f \in Files /\ f.by = t /\ f.whole = TRUE /\ l \in Lods
    BY <1>1, <1>2, <1>3, DirTyped DEF From
  <2>2. run' = [run EXCEPT ![r] = d]
    BY <1>1, <1>6 DEF CopyModel
  <2>3. /\ d.at = "copy" /\ d.task = t /\ d.left = run[r].left \ {l} /\ d.prog = run[r].prog
        /\ d.cat = c /\ d.name = n /\ d.again = run[r].again
    BY <1>1, <1>2 DEF Runs
  <2>4. assets' = [assets EXCEPT ![c][n].files[l] = f]
    BY <1>6 DEF CopyModel
  <2> HIDE DEF f, d, n, t, c
  <2>5. /\ DirOk(dir, t, TRUE, Strict(n)) /\ dir.manifest = assets[c][n].manifest
        /\ \A k \in Lods : dir.files[k] = IF k = l THEN f ELSE assets[c][n].files[k]
    <3>1. DirOk(assets[c][n], t, TRUE, Strict(n)) /\ assets[c][n] \in Dirs /\ t \in Tasks
      BY <1>1, <1>2, <1>3
    <3>2. dir = [assets[c][n] EXCEPT !.files[l] = f]
      OBVIOUS
    <3> HIDE DEF dir
    <3>3. dir.manifest = assets[c][n].manifest
          /\ \A k \in Lods : dir.files[k] = IF k = l THEN f ELSE assets[c][n].files[k]
      BY <3>1, <3>2 DEF Dirs
    <3>4. DirOk(dir, t, TRUE, Strict(n))
      BY <2>1, <3>1, <3>3 DEF DirOk
    <3> QED
      BY <3>3, <3>4
  <2>6. dir \in Dirs /\ assets' = [assets EXCEPT ![c][n] = dir]
    BY <1>1, <1>2, <2>1, <2>4, DirTyped
  <2>7. \A b \in Cats, k \in Names : assets'[b][k] = IF b = c /\ k = n THEN dir ELSE assets[b][k]
    BY <1>1, <1>2, <2>6, AssetsTyped
  <2> HIDE DEF dir
  <2>8. From(dir, t, Lods \ d.left)
    BY <1>1, <1>3, <2>1, <2>3, <2>5 DEF From
  <2>9. ProgOk(d, inbox[n], meta[n], exported[n], assets'["own"][n], assets'["props"][n], Strict(n))
    <3>1. "own" \in Cats /\ "props" \in Cats /\ (c = "own" \/ c = "props")
      BY <1>1 DEF Cats
    <3>2. \A b \in Cats : assets'[b][n].manifest = assets[b][n].manifest
      BY <1>2, <2>5, <2>7
    <3>3. From(assets'[c][n], t, Lods \ d.left)
      BY <1>1, <1>2, <2>7, <2>8
    <3>4. CASE c = "own"
      BY <1>1, <1>2, <1>3, <2>3, <3>1, <3>2, <3>3, <3>4 DEF ProgOk, c
    <3>5. CASE c = "props"
      BY <1>1, <1>2, <1>3, <2>3, <3>1, <3>2, <3>3, <3>5 DEF ProgOk, c
    <3> QED
      BY <3>1, <3>4, <3>5
  <2>10. \A b \in Cats : DirOk(assets'[b][n], inbox[n].by, TRUE, Strict(n))
    BY <1>2, <1>3, <2>5, <2>7
  <2>11. \A k \in Names \ {n}, b \in Cats : assets'[b][k] = assets[b][k]
    BY <2>7
  <2> QED
    BY <1>1, <1>2, <2>2, <2>3, <2>9, <2>10, <2>11, ToldStep
<1> QED
  BY <1>6, <1>7, <1>8, <1>9 DEF Copy

LEMMA ToldKill ==
  ASSUME Typed, Told, Alone(plan), NEW r \in Runners, Kill(r)
  PROVE  Told'
<1> DEFINE n == Name(r)
<1>1. /\ UNCHANGED <<plan, inbox, meta>> /\ run[r].at # "off" /\ Live(r, run[r])
      /\ run' = [run EXCEPT ![r] = Off] /\ Off.at = "off"
  BY OffTyped, RunFacts DEF Kill, Stop, At
<1>2. r \in plan.runners
  BY <1>1 DEF Live
<1>3. CASE UNCHANGED <<exported, assets>>
  BY <1>1, <1>2, <1>3, ToldMoves DEF disk
<1>4. CASE run[r].at = "export"
  <2>1. exported' \in CutExports(r) /\ UNCHANGED assets
    BY <1>4 DEF Kill, At
  <2>2. /\ n \in Names /\ ModelOk(inbox[n], meta[n])
        /\ \A b \in Cats : DirOk(assets[b][n], inbox[n].by, TRUE, Strict(n))
    BY <1>4, AtWork
  <2>3. /\ \A k \in Names \ {n} : exported'[k] = exported[k]
        /\ DirOk(exported'[n], inbox[n].by, FALSE, Strict(n))
    BY <1>4, <2>1, CutExported
  <2> HIDE DEF n
  <2> QED
    BY <1>1, <1>2, <2>1, <2>2, <2>3, ToldStep
<1>5. CASE run[r].at = "copy"
  <2>1. assets' \in CutCopies(r) /\ UNCHANGED exported
    BY <1>5 DEF Kill, At
  <2>2. /\ n \in Names /\ ModelOk(inbox[n], meta[n]) /\ DirOk(exported[n], inbox[n].by, FALSE, Strict(n))
    BY <1>5, AtWork
  <2>3. /\ \A b \in Cats, k \in Names \ {n} : assets'[b][k] = assets[b][k]
        /\ \A b \in Cats : DirOk(assets'[b][n], inbox[n].by, TRUE, Strict(n))
    BY <1>5, <2>1, CutCopied
  <2> HIDE DEF n
  <2> QED
    BY <1>1, <1>2, <2>1, <2>2, <2>3, ToldStep
<1> QED
  BY <1>3, <1>4, <1>5 DEF Kill, At

LEMMA ToldStart ==
  ASSUME Typed, Told, Alone(plan), NEW r \in Runners, NEW prog \in Programs, Start(r, prog)
  PROVE  Told'
<1>1. PICK d : run' = [run EXCEPT ![r] = d] /\ d.at = "item"
  BY StartTyped
<1>2. r \in plan.runners /\ UNCHANGED <<plan, disk>>
  BY DEF Start
<1> QED
  BY <1>1, <1>2, ToldMoves

LEMMA ToldNext ==
  ASSUME Typed, Told, [Next]_vars
  PROVE  Told'
<1>1. plan' = plan
  BY ZenonT(60) DEF Next, Step, Item, Balance, Generate, Create, Poll, Download, Write, WriteMeta, Process, Export,
         Copy, Kill, Start, Finish, Harvest, vars
<1>2. CASE ~Alone(plan)
  BY <1>1, <1>2 DEF Told, Alone
<1>3. CASE Alone(plan)
  <2>1. ASSUME NEW r \in Runners, Step(r) PROVE Told'
    BY <1>3, <2>1, ToldItem, ToldBalance, ToldGenerate, ToldCreate, ToldPoll, ToldDownload, ToldWrite,
       ToldWriteMeta, ToldProcess, ToldExport, ToldCopy DEF Step
  <2>2. (\E t \in DOMAIN tasks : Finish(t)) \/ (\E n \in Names : Harvest(n)) \/ UNCHANGED vars
          => UNCHANGED <<plan, disk, run>>
    BY DEF Finish, Harvest, vars
  <2> QED
    BY <1>3, <2>1, <2>2, ToldKill, ToldStart, ToldStays DEF Next
<1> QED
  BY <1>2, <1>3

LEMMA InitTold ==
  ASSUME Init
  PROVE  Told
<1>1. \A r \in Runners : run[r].at = "off"
  BY OffTyped DEF Init
<1>2. ASSUME NEW n \in Names PROVE NameOk(n)
  <2>1. /\ inbox[n] = NoFile /\ meta[n] = NoMeta /\ exported[n] = Empty
        /\ \A c \in Cats : assets[c][n] = Empty
    BY DEF Init
  <2>2. ModelOk(NoFile, NoMeta)
    BY EmptyTyped DEF ModelOk, NoMeta, Meta
  <2>3. \A sound \in BOOLEAN : DirOk(Empty, NoFile.by, sound, Strict(n))
    BY EmptyTyped DEF DirOk
  <2> QED
    BY <2>1, <2>2, <2>3 DEF NameOk
<1> QED
  BY <1>1, <1>2 DEF Told, Prog

LEMMA ToldDisk ==
  ASSUME Typed, Told
  PROVE  DiskIsTold
<1>1. TypeOK
  BY DEF Typed
<1>2. ManifestMeansWhole
  <2> SUFFICES ASSUME Alone(plan), NEW c \in Cats, NEW n \in Names, assets[c][n].manifest # 0, NEW l \in Lods
               PROVE  /\ assets[c][n].files[l].by = assets[c][n].manifest
                      /\ WrittenOver(n) \/ assets[c][n].files[l].whole
    BY DEF ManifestMeansWhole
  <2>1. DirOk(assets[c][n], inbox[n].by, TRUE, Strict(n))
    BY DEF Told, NameOk
  <2> QED
    BY <2>1 DEF DirOk, Strict
<1>3. MetaMatchesModel
  BY DEF MetaMatchesModel, Told, NameOk, ModelOk
<1> QED
  BY <1>1, <1>2, <1>3 DEF DiskIsTold

\* Who buys has found no model.
LEMMA ToldBuys ==
  ASSUME Typed, Told, Alone(plan), NEW r \in Runners, At(r, "create")
  PROVE  inbox[Name(r)].by = 0
<1>1. run[r].at = "create"
  BY DEF At
<1> QED
  BY <1>1, AtWork DEF ProgOk

LEMMA ToldPaid ==
  ASSUME Typed, Told, Next, Alone(plan), NEW n \in Names, inbox[n].by # 0
  PROVE  inbox'[n].by = inbox[n].by
<1>1. CASE \E r \in Runners : Download(r)
  <2>1. PICK r \in Runners : Download(r)
    BY <1>1
  <2>2. run[r].at = "download"
    BY <2>1 DEF Download, At
  <2>3. inbox[Name(r)].by = 0
    <3>1. ProgOk(run[r], inbox[Name(r)], meta[Name(r)], exported[Name(r)],
                 assets["own"][Name(r)], assets["props"][Name(r)], Strict(Name(r)))
      BY <2>2, AtWork
    <3> QED
      BY <2>2, <3>1 DEF ProgOk
  <2>4. inbox' = inbox \/ inbox' = [inbox EXCEPT ![Name(r)] = File(run[r].task, FALSE, FALSE)]
    BY <2>1 DEF Download
  <2>5. inbox \in [Names -> Files] /\ Name(r) # n
    BY <2>3 DEF Typed, TypeOK
  <2> QED
    BY <2>4, <2>5
<1>2. CASE \E r \in Runners : Write(r)
  <2>1. PICK r \in Runners, w \in BOOLEAN :
          inbox' = inbox \/ inbox' = [inbox EXCEPT ![Name(r)].whole = w]
    BY <1>2 DEF Write
  <2>2. inbox \in [Names -> Files] /\ inbox[n] \in Files
    BY DEF Typed, TypeOK
  <2>3. \A f \in Files : [f EXCEPT !.whole = w].by = f.by
    BY DEF Files
  <2>4. inbox' = [inbox EXCEPT ![Name(r)].whole = w]
          => inbox'[n] = inbox[n] \/ inbox'[n] = [inbox[n] EXCEPT !.whole = w]
    BY <2>2
  <2> QED
    BY <2>1, <2>2, <2>3, <2>4
<1>3. CASE UNCHANGED inbox
  BY <1>3
<1> QED
  BY <1>1, <1>2, <1>3, ZenonT(60) DEF Next, Step, Item, Balance, Generate, Create, Poll, WriteMeta, Process, Export,
                          Copy, Kill, Start, Finish, Harvest, disk

--------------------------------------------------------------------------------
(* Type correctness of the pipeline, with what a program may be doing where *)
(* it is.                                                                   *)
THEOREM PipelineTyped == Spec => []TypeOK
<1>1. Init => Typed
  BY InitTyped
<1>2. Typed /\ [Next]_vars => Typed'
  BY TypedNext
<1>3. Typed => TypeOK
  BY DEF Typed
<1> QED
  BY <1>1, <1>2, <1>3, PTL DEF Spec

(* However many programs buy at the same time, and whichever requests for   *)
(* the balance fail, the reserve is short of one task per program at most.  *)
THEOREM ReserveAlwaysKept == Spec => []ReserveKept
<1>1. Init => Typed /\ Reserve
  BY InitTyped, InitReserve
<1>2. Typed /\ Reserve /\ [Next]_vars => (Typed /\ Reserve)'
  BY TypedNext, ReserveNext
<1>3. Typed /\ Reserve => ReserveKept
  BY ReserveIsKept
<1> QED
  BY <1>1, <1>2, <1>3, PTL DEF Spec

(* Wherever a program is killed and whatever fails, a manifest and a        *)
(* meta.json say what lies beside them, for one program after the other; a  *)
(* level of detail may be cut where a processing wrote over the asset.      *)
THEOREM DiskAlwaysTold == Spec => []DiskIsTold
<1>1. Init => Typed /\ Told
  BY InitTyped, InitTold
<1>2. Typed /\ Told /\ [Next]_vars => (Typed /\ Told)'
  BY TypedNext, ToldNext
<1>3. Typed /\ Told => DiskIsTold
  BY ToldDisk
<1> QED
  BY <1>1, <1>2, <1>3, PTL DEF Spec

(* The reserve is kept, and programs one after the other buy nothing for a  *)
(* name that has a model in the inbox, and replace none there.              *)
THEOREM AlwaysSpendsOnce == Spec => SpendsOnce
<1> DEFINE Kept == Alone(plan) =>
                     /\ \A n \in Names : inbox[n].by # 0 => inbox'[n].by = inbox[n].by
                     /\ Len(tasks') > Len(tasks) =>
                          \A r \in Runners : At(r, "create") => inbox[Name(r)].by = 0
<1>1. Init => Typed /\ Told
  BY InitTyped, InitTold
<1>2. Typed /\ Told /\ [Next]_vars => (Typed /\ Told)'
  BY TypedNext, ToldNext
<1>3. Typed /\ Told /\ [Next]_vars => [Kept]_vars
  BY ToldPaid, ToldBuys
<1>4. PaidModelKept <=> [][Kept]_vars
  BY DEF PaidModelKept
<1> HIDE DEF Kept
<1>5. Spec => [][Kept]_vars
  BY <1>1, <1>2, <1>3, PTL DEF Spec
<1> QED
  BY <1>4, <1>5, ReserveAlwaysKept, PTL DEF SpendsOnce
================================================================================
