-------------------------- MODULE PublishPipeline --------------------------
(***************************************************************************)
(* How a room gets from its directory to a running engine: roomctl         *)
(* validates and builds a bundle, uploads it under its hash and asks the   *)
(* BFF to publish it; startRun pins a run to the active version, and the   *)
(* engine downloads and loads the bundle of that version (cmd/roomctl,     *)
(* internal/roomctl, internal/platform/storage, platform/publish,          *)
(* engine/a/service/bundle_loader.go, cmd/engine-a/runtime.go).            *)
(*                                                                         *)
(* Several roomctl commands run at once in one working directory; an       *)
(* author edits the directories under them; a step may fail, and roomctl   *)
(* gives up on a publish the BFF is still working on.  A step that fails   *)
(* after its effect is the step and then the failure of the next one.      *)
(* A hash is named by the content it is the SHA-256 of.                    *)
(***************************************************************************)
EXTENDS Integers

CONSTANTS
  Rooms, Numbers,  \* rooms with a row, version numbers
  Contents, Holds, \* what a room directory, and so a tar, can hold: Holds[c]
  Torn,            \* a bundle file that is not the tar of one directory
  None,
  Trim,            \* Trim[k]: strings.TrimSpace of the action key k
  Tools,           \* slots: roomctl commands, or other publishers, at once
  Runs,
  MaxBegun,        \* bound: commands and publishes by hand
  MaxEdits,        \* bound: edits of a room directory
  MaxFaults        \* bound: failing steps

\* What a content is good for: metadata is the engine when it is complete, has the
\* directory's name for a slug and the engine's directory is there; leak, that hidden
\* tests lie in the workspace; a file is "missing", "broken" (not YAML of the type
\* roomctl knows), "odd" (of that type but not of the engine's narrower one: a metric
\* or a win check's value that is no number) or "good", and names action keys.
Required == {"scenario", "actions", "signals", "win_checks", "simulation"}
File == [state : {"missing", "broken", "odd", "good"}, keys : SUBSET DOMAIN Trim]
Content == [metadata : {"A", "B", "bad"}, leak : BOOLEAN, scenario : File, actions : File,
            signals : File, win_checks : File, simulation : File]

ASSUME PipelineContents == Holds \in [Contents -> Content]
ASSUME PipelineNames ==
  /\ None \notin Contents \cup {Torn} /\ Torn \notin Contents
  /\ None \notin Rooms /\ None \notin Numbers /\ Numbers \subseteq Nat
ASSUME PipelineBounds == MaxBegun \in Nat /\ MaxEdits \in Nat /\ MaxFaults \in Nat

VARIABLES
  dir,       \* dir[r]: the directory rooms/<slug>
  built,     \* built[r]: the file .build/<slug>/bundle.tar
  store,     \* store[h]: the object bundles/<h>.tar, None when there is none
  versions,  \* versions[<<r, n>>]: the bundle_hash of the row, None without a row
  active,    \* active[r]: the number of active_room_version_id, None for NULL
  tool,      \* tool[t]: where a roomctl command stands
  call,      \* call[t]: where its publishRoomVersion stands at the BFF
  run,       \* run[n]: the version run n is pinned to, and what the engine makes of it
  past       \* counters and history

pipelineVars == <<dir, built, store, versions, active, tool, call, run, past>>

-----------------------------------------------------------------------------
Parses(c, files, states) == \A f \in files : Holds[c][f].state \in states

Trimmed(K) == {Trim[k] : k \in K} \ {""}
SameKeys(c) == Trimmed(Holds[c].actions.keys) = Trimmed(Holds[c].simulation.keys)

\* MUTANT of ValidateRoomDir: win_checks.yaml is left out of the list.
ValidateWithoutWinChecks(c) ==
  /\ Holds[c].metadata # "bad"
  /\ Holds[c].metadata = "A" => Parses(c, Required \ {"win_checks"}, {"odd", "good"}) /\ SameKeys(c)

ValidateRoomDir(c) ==
  /\ Holds[c].metadata # "bad"
  /\ Holds[c].metadata = "A" => Parses(c, Required, {"odd", "good"}) /\ SameKeys(c)

\* checkEngineBLeak.
Leaks(c) == Holds[c].metadata = "B" /\ Holds[c].leak

\* LoadEngineABundleFromTar does not look at metadata.yaml.
LoadsBundle(c) == c # Torn /\ Parses(c, Required, {"good"})

-----------------------------------------------------------------------------
IdleTool == [phase |-> "idle", room |-> None, number |-> None, activate |-> FALSE,
             seen |-> {}, listed |-> None, hash |-> None, read |-> None, shared |-> FALSE]
NoCall == [phase |-> "none", room |-> None, number |-> None, activate |-> FALSE, hash |-> None]
Unstarted == [room |-> None, number |-> None, plays |-> None, played |-> {}, refused |-> None]

\* History: past.overlap, a bundle file was opened while another command was between
\* opening and reading it; past.edited, a directory changed under a command that was
\* validating or packing it; run.played and run.refused, contents the engine loaded or
\* did not.
PipelineInit ==
  /\ dir \in [Rooms -> Contents]
  /\ built = [r \in Rooms |-> None]
  /\ store = [h \in Contents |-> None]
  /\ versions = [v \in Rooms \X Numbers |-> None]
  /\ active = [r \in Rooms |-> None]
  /\ tool = [t \in Tools |-> IdleTool]
  /\ call = [t \in Tools |-> NoCall]
  /\ run = [n \in Runs |-> Unstarted]
  /\ past = [begun |-> 0, edits |-> 0, faults |-> 0, overlap |-> FALSE, edited |-> FALSE]

\* The version a command, a call or a run x is about.
Row(x) == <<x.room, x.number>>

At(t, phases) == tool[t].phase \in phases
To(t, phase) == tool' = [tool EXCEPT ![t].phase = phase]
Fails(t) == tool' = [tool EXCEPT ![t] = IdleTool]
Faulty == past.faults < MaxFaults /\ past' = [past EXCEPT !.faults = @ + 1]

Reading == {"validate", "build", "list", "tar"}
Seen(r, c) == [t \in Tools |-> IF At(t, Reading) /\ tool[t].room = r
                               THEN [tool[t] EXCEPT !.seen = @ \cup {c}] ELSE tool[t]]

\* The author saves a file of a room directory.
Edit(r, c) ==
  /\ past.edits < MaxEdits /\ dir[r] # c
  /\ dir' = [dir EXCEPT ![r] = c] /\ tool' = Seen(r, c)
  /\ past' = [past EXCEPT !.edits = @ + 1,
                          !.edited = @ \/ \E t \in Tools : At(t, Reading) /\ tool[t].room = r]
  /\ UNCHANGED <<built, store, versions, active, call, run>>

\* What files read one after the other can amount to.
Mixed(seen) == {c \in Contents : \A f \in DOMAIN Holds[c] : \E s \in seen : Holds[c][f] = Holds[s][f]}

-----------------------------------------------------------------------------
(***************************************************************************)
(* roomctl                                                                 *)
(***************************************************************************)
Free(t) == At(t, {"idle", "ok"}) /\ call[t].phase \in {"none", "answer", "refused"}
Begun == past.begun < MaxBegun /\ past' = [past EXCEPT !.begun = @ + 1]

\* runPublish, or runBuild, which has no use for the version here: number is None.
Begin(t, r, n, activate) ==
  /\ Free(t) /\ Begun /\ (n = None => ~activate)
  /\ tool' = [tool EXCEPT ![t] = [IdleTool EXCEPT !.room = r, !.number = n, !.activate = activate,
                !.phase = IF n = None THEN "build" ELSE "validate", !.seen = {dir[r]}]]
  /\ call' = [call EXCEPT ![t] = NoCall]
  /\ UNCHANGED <<dir, built, store, versions, active, run>>

\* PublishRoom validates, and BuildRoom does so again.
Validate(t) ==
  /\ At(t, {"validate", "build"})
  /\ \E c \in Mixed(tool[t].seen) :
       IF ValidateRoomDir(c)
       THEN tool' = [tool EXCEPT ![t].phase = IF @ = "validate" THEN "build" ELSE "list",
                                 ![t].seen = {dir[tool[t].room]}]
       ELSE Fails(t)
  /\ UNCHANGED <<dir, built, store, versions, active, call, run, past>>

\* metadata.yaml, collectBundleEntries and checkEngineBLeak.  (The slug of an edited
\* metadata.yaml, which would name another .build directory, is left out.)
List(t) ==
  /\ At(t, {"list"})
  /\ \E c \in Mixed(tool[t].seen) :
       IF Leaks(c) THEN Fails(t)
       ELSE tool' = [tool EXCEPT ![t].phase = "tar", ![t].listed = c,
                                 ![t].seen = {dir[tool[t].room]}]
  /\ UNCHANGED <<dir, built, store, versions, active, call, run, past>>

\* The files the list l names are read, from c, and no others; one that is gone is an error.
AllThere(l, c) ==
  /\ Holds[l].leak => Holds[c].leak
  /\ \A f \in Required : Holds[c][f].state = "missing" => Holds[l][f].state = "missing"
Archive(l, c) == {b \in Contents :
  /\ Holds[b].metadata = Holds[c].metadata /\ Holds[b].leak = Holds[l].leak
  /\ \A f \in Required :
       Holds[b][f] = IF Holds[l][f].state = "missing" THEN Holds[l][f] ELSE Holds[c][f]}

\* createDeterministicTar and the hash of it.
Pack(t) ==
  /\ At(t, {"tar"})
  /\ \E c \in Mixed(tool[t].seen) :
       IF AllThere(tool[t].listed, c)
       THEN \E b \in Archive(tool[t].listed, c) :
              tool' = [tool EXCEPT ![t].phase = "open", ![t].hash = b, ![t].seen = {}]
       ELSE Fails(t)
  /\ UNCHANGED <<dir, built, store, versions, active, call, run, past>>

Others(t, phases) == {u \in Tools \ {t} : At(u, phases) /\ tool[u].room = tool[t].room}

\* os.WriteFile empties the file and then writes; another command writing it at the
\* same time may mix its bytes in.
OpenBundle(t) ==
  /\ At(t, {"open"})
  /\ built' = [built EXCEPT ![tool[t].room] = Torn]
  /\ tool' = [u \in Tools |->
       IF u = t THEN [tool[t] EXCEPT !.phase = "write", !.shared = Others(t, {"write"}) # {}]
       ELSE IF u \in Others(t, {"write"}) THEN [tool[u] EXCEPT !.shared = TRUE] ELSE tool[u]]
  /\ past' = [past EXCEPT !.overlap = @ \/ Others(t, {"write", "read"}) # {}]
  /\ UNCHANGED <<dir, store, versions, active, call, run>>

\* The manifest is a file of the room, too, but the command uses its own copy.
WriteBundle(t) ==
  /\ At(t, {"write"})
  /\ \E b \in {tool[t].hash} \cup (IF tool[t].shared THEN {Torn} ELSE {}) :
       built' = [built EXCEPT ![tool[t].room] = b]
  /\ IF tool[t].number = None THEN Fails(t) ELSE To(t, "read")
  /\ UNCHANGED <<dir, store, versions, active, call, run, past>>

\* MUTANT of ReadBundle: the directory is packed again.
PackAgain(t) ==
  /\ At(t, {"read"})
  /\ tool' = [tool EXCEPT ![t].phase = "upload", ![t].read = dir[tool[t].room]]
  /\ UNCHANGED <<dir, built, store, versions, active, call, run, past>>

\* PublishRoom reads the file back.
ReadBundle(t) ==
  /\ At(t, {"read"})
  /\ tool' = [tool EXCEPT ![t].phase = "upload", ![t].read = built[tool[t].room]]
  /\ UNCHANGED <<dir, built, store, versions, active, call, run, past>>

\* S3BundleStore.Upload puts whatever it is given under the hash it is given.
Upload(t) ==
  /\ At(t, {"upload"}) /\ To(t, "ask")
  /\ store' = [store EXCEPT ![tool[t].hash] = tool[t].read]
  /\ UNCHANGED <<dir, built, versions, active, call, run, past>>

\* GraphQLClient.PublishRoomVersion, with a request id of its own.
Ask(t) ==
  /\ At(t, {"ask"}) /\ To(t, "wait")
  /\ call' = [call EXCEPT ![t] = [phase |-> "check", room |-> tool[t].room, number |-> tool[t].number,
                                  activate |-> tool[t].activate, hash |-> tool[t].hash]]
  /\ UNCHANGED <<dir, built, store, versions, active, run, past>>

Hear(t) ==
  /\ At(t, {"wait"})
  /\ \/ call[t].phase = "answer" /\ To(t, "ok")
     \/ call[t].phase = "refused" /\ Fails(t)
  /\ UNCHANGED <<dir, built, store, versions, active, call, run, past>>

\* The command fails, is killed, or has waited for ten seconds.
GivesUp(t) ==
  /\ ~At(t, {"idle", "ok"}) /\ Faulty /\ Fails(t)
  /\ UNCHANGED <<dir, built, store, versions, active, call, run>>

-----------------------------------------------------------------------------
(***************************************************************************)
(* The BFF: publish.Service.Publish under a fresh key.  What the key is    *)
(* for is IdempotentMutations.                                             *)
(***************************************************************************)
\* An administrator calls the mutation without roomctl, with a hash of his choice.
PublishByHand(t, r, n, activate, h) ==
  /\ Free(t) /\ Begun
  /\ tool' = [tool EXCEPT ![t] = IdleTool]
  /\ call' = [call EXCEPT ![t] = [phase |-> "check", room |-> r, number |-> n,
                                  activate |-> activate, hash |-> h]]
  /\ UNCHANGED <<dir, built, store, versions, active, run>>

Serving(t, phase) == call[t].phase = phase
Serves(t, phase) == call' = [call EXCEPT ![t].phase = phase]
Ends(t, phase) == call' = [call EXCEPT ![t] = [NoCall EXCEPT !.phase = phase]]

\* S3BundleStore.Exists; an error other than "not found" is CallFails.
Exists(h) == store[h] # None

\* MUTANT of CheckStored: the bundle is not looked for.
CheckNothing(t) ==
  /\ Serving(t, "check") /\ Serves(t, "insert")
  /\ UNCHANGED <<dir, built, store, versions, active, tool, run, past>>

CheckStored(t) ==
  /\ Serving(t, "check")
  /\ IF Exists(call[t].hash) THEN Serves(t, "insert") ELSE Ends(t, "refused")
  /\ UNCHANGED <<dir, built, store, versions, active, tool, run, past>>

Inserted(t) == versions' = [versions EXCEPT ![Row(call[t])] = call[t].hash]
AfterInsert(t) == Serves(t, IF call[t].activate THEN "activate" ELSE "respond")

\* MUTANT of InsertVersion: ON CONFLICT DO NOTHING.
InsertOrIgnore(t) ==
  /\ Serving(t, "insert") /\ AfterInsert(t)
  /\ IF versions[Row(call[t])] = None THEN Inserted(t) ELSE UNCHANGED versions
  /\ UNCHANGED <<dir, built, store, active, tool, run, past>>

\* MUTANT of InsertVersion: ON CONFLICT DO UPDATE SET bundle_hash.
InsertOrReplace(t) ==
  /\ Serving(t, "insert") /\ AfterInsert(t) /\ Inserted(t)
  /\ UNCHANGED <<dir, built, store, active, tool, run, past>>

\* UNIQUE (room_id, version_number).
InsertVersion(t) ==
  /\ Serving(t, "insert")
  /\ IF versions[Row(call[t])] = None
     THEN Inserted(t) /\ AfterInsert(t)
     ELSE Ends(t, "refused") /\ UNCHANGED versions
  /\ UNCHANGED <<dir, built, store, active, tool, run, past>>

Activate(t) ==
  /\ Serving(t, "activate") /\ Serves(t, "respond")
  /\ active' = [active EXCEPT ![call[t].room] = call[t].number]
  /\ UNCHANGED <<dir, built, store, versions, tool, run, past>>

\* The response is stored and sent.
Respond(t) ==
  /\ Serving(t, "respond") /\ Ends(t, "answer")
  /\ UNCHANGED <<dir, built, store, versions, active, tool, run, past>>

CallFails(t) ==
  /\ ~(call[t].phase \in {"none", "answer", "refused"}) /\ Faulty /\ Ends(t, "refused")
  /\ UNCHANGED <<dir, built, store, versions, active, tool, run>>

-----------------------------------------------------------------------------
(***************************************************************************)
(* startRun and the engine                                                 *)
(***************************************************************************)
\* What the catalog has of a room: its active version and the latest one, if any.
Room(r) == [active |-> active[r],
            latest |-> {n \in Numbers : /\ versions[<<r, n>>] # None
                                        /\ \A m \in Numbers : versions[<<r, m>>] # None => m <= n}]

StartRun(n, r) ==
  /\ run[n].room = None /\ Room(r).active # None
  /\ run' = [run EXCEPT ![n].room = r, ![n].number = Room(r).active]
  /\ UNCHANGED <<dir, built, store, versions, active, tool, call, past>>

Pinned(n) == versions[Row(run[n])]

\* S3BundleStore.Download; a download that fails leaves the run as it is.
Download(h) == store[h]

\* runtime.state: the object is not compared with the hash.  A torn one may load or not,
\* and what it loads as is its own.
LoadRun(n) ==
  /\ run[n].room # None /\ run[n].plays = None
  /\ LET c == Download(Pinned(n)) IN
       \/ /\ LoadsBundle(c) \/ c = Torn
          /\ run' = [run EXCEPT ![n].plays = c, ![n].played = @ \cup {c}, ![n].refused = None]
       \/ ~LoadsBundle(c) /\ run' = [run EXCEPT ![n].refused = c]
  /\ UNCHANGED <<dir, built, store, versions, active, tool, call, past>>

\* The engine restarts and remembers no run.
Restart ==
  /\ run' = [n \in Runs |-> [run[n] EXCEPT !.plays = None]]
  /\ UNCHANGED <<dir, built, store, versions, active, tool, call, past>>

-----------------------------------------------------------------------------
ToolStep(t) ==
  \/ \E r \in Rooms, n \in Numbers \cup {None}, activate \in BOOLEAN : Begin(t, r, n, activate)
  \/ Validate(t) \/ List(t) \/ Pack(t) \/ OpenBundle(t) \/ WriteBundle(t) \/ ReadBundle(t) \/ Upload(t)
  \/ Ask(t) \/ Hear(t) \/ GivesUp(t)

CallStep(t) ==
  \/ \E r \in Rooms, n \in Numbers, activate \in BOOLEAN, h \in Contents :
       PublishByHand(t, r, n, activate, h)
  \/ CheckStored(t) \/ InsertVersion(t) \/ Activate(t) \/ Respond(t) \/ CallFails(t)

PipelineNext ==
  \/ \E r \in Rooms, c \in Contents : Edit(r, c)
  \/ \E t \in Tools : ToolStep(t) \/ CallStep(t)
  \/ \E n \in Runs : LoadRun(n) \/ \E r \in Rooms : StartRun(n, r)
  \/ Restart

PipelineSpec == PipelineInit /\ [][PipelineNext]_pipelineVars

-----------------------------------------------------------------------------
\* Whoever publishes, and whatever fails, the bundle of every version is in the store,
\* and a room is played on one of its versions, none later than the one it is shown with.
PublishedIsStored ==
  /\ \A v \in Rooms \X Numbers : versions[v] # None => store[versions[v]] # None
  /\ \A r \in Rooms : Room(r).active # None =>
       versions[<<r, active[r]>>] # None /\ \A n \in Room(r).latest : active[r] <= n

\* As long as no two commands use one bundle file at once, what is stored under a hash
\* is what was hashed, however the directory changes while it is published.
StoredUnderItsHash ==
  ~past.overlap => \A h \in Contents : store[h] \in {None, h}

\* A roomctl that reports success has published what it built: the version it asked for
\* names its bundle, so two that publish one number do not both succeed with different
\* bundles, and, as long as no two commands use one bundle file at once, the object
\* under that name is its bundle and not another's.
SuccessIsPublished ==
  \A t \in Tools : tool[t].phase = "ok" =>
    /\ versions[Row(tool[t])] = tool[t].hash
    /\ ~past.overlap => store[tool[t].hash] = tool[t].hash
    /\ tool[t].activate => active[tool[t].room] # None

\* As long as no two commands use one bundle file at once, a run is only ever played on
\* the bundle of the version it was started for, over all restarts of the engine, each
\* of which downloads it again, and all later publishes.
RunKeepsItsBundle ==
  ~past.overlap => \A n \in Runs : \A c \in run[n].played : run[n].room # None /\ c = Pinned(n)

\* What roomctl lets through, the engine loads: a bundle it refuses is one of engine B,
\* one whose numbers roomctl does not look at, or one that changed while it was built.
RefusedForCause ==
  \A n \in Runs : run[n].refused # None =>
    \/ past.overlap \/ past.edited
    \/ Holds[run[n].refused].metadata = "B"
    \/ \E f \in Required : Holds[run[n].refused][f].state = "odd"

\* docs/AGENTS/m2-research.md:91: "once a bundle hash is recorded against a
\* room_version, the content at that hash must never change."  Two commands that build
\* one room share its bundle file: one may upload the other's under its own hash.
PublishedContentIsFixed ==
  [][\A v \in Rooms \X Numbers : versions[v] # None => store'[versions[v]] = store[versions[v]]]_pipelineVars
=============================================================================
