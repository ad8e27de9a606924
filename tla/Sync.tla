-------------------------------- MODULE Sync --------------------------------
(***************************************************************************)
(* Comparing two folders and synchronising them: the walks of both trees   *)
(* on the worker, the classification and the plan, the plan shown to the   *)
(* user, and the transfers it queues (src/src/ssh/SyncPlan.cpp and         *)
(* CompareFolders, ShowPlan and QueuePair in src/src/ui/SftpBrowser.cpp).  *)
(*                                                                         *)
(* A path is the sequence of its components.  A tree says what opening a   *)
(* path finds, so what lies behind a link to a directory has its path too, *)
(* although no walk goes there.  A transfer is one step; Transfers has its *)
(* blocks, pauses and retries.                                             *)
(***************************************************************************)
EXTENDS Integers, FiniteSets, Sequences, SequencesExt

CONSTANTS PathOrder,   \* every path, in the order a std::map keeps them
          LocalTrees, RemoteTrees, \* the trees at the start
          Folders,     \* the local folders the pane can show; the first is compared
          Excludes,    \* sets of exclusion patterns, [name, dirOnly]
          Unsafe,      \* components CheckRemoteName refuses
          Clock,       \* the time of what is written while the program runs
          MaxSaves,    \* bound: saves by others
          ListFails    \* whether a directory may refuse to be listed

Paths == Range(PathOrder)
Under(q, p) == IsStrictPrefix(q, p)
Absent == [is |-> "none", link |-> FALSE, size |-> 0, time |-> 0]
Dir    == [Absent EXCEPT !.is = "dir"]
Entry  == [is : {"none", "file", "dir"}, link : BOOLEAN, size : Nat, time : Nat]
\* CheckRemotePath: every component is one a server may choose, and Windows has no other.
SafeName(p) == Range(p) \cap Unsafe = {}
\* What a tree has, it has in directories.
Grounded(tree) == \A p, q \in Paths : tree[p].is # "none" /\ Under(q, p) => tree[q].is = "dir"

ASSUME SyncAssumption ==
  /\ PathOrder \in Seq(Seq(STRING))
  /\ \A i, j \in DOMAIN PathOrder : PathOrder[i] = PathOrder[j] => i = j
  /\ \A p \in Paths : p # <<>> /\ (Len(p) > 1 => Front(p) \in Paths)
  /\ LocalTrees \cup RemoteTrees \subseteq [Paths -> Entry]
  /\ \A tree \in LocalTrees \cup RemoteTrees : Grounded(tree)
  /\ \A tree \in LocalTrees, p \in Paths : tree[p].is # "none" => SafeName(p)
  /\ Folders \in Seq(STRING) /\ Folders # <<>>
  /\ \A x \in UNION Excludes : x \in [name : STRING, dirOnly : BOOLEAN]
  /\ Clock \in Nat /\ MaxSaves \in Nat /\ ListFails \in BOOLEAN

VARIABLES
  disk,   \* the local trees, by folder
  host,   \* the remote tree
  lcwd,   \* Tab.lcwd: the folder the left pane shows
  job,    \* the comparison: what was captured when it was asked for, its stage, and
          \* (a history) whether every directory was listed
  seenL, seenR, \* what the walks listed: functions of some of the paths
  plan,   \* SyncPlan.steps
  moves,  \* the transfers ShowPlan queued, each with its place in the plan
  failed, \* those that failed
  saves   \* saves by others so far

syncVars == <<disk, host, lcwd, job, seenL, seenR, plan, moves, failed, saves>>
trees == <<disk, host>>
Nothing == [p \in {} |-> Absent]

SyncInit ==
  /\ \E tree \in LocalTrees :
       disk = [f \in Range(Folders) |-> IF f = Folders[1] THEN tree ELSE [p \in Paths |-> Absent]]
  /\ host \in RemoteTrees
  /\ lcwd = Folders[1]
  /\ job = [at |-> "none", root |-> Folders[1], dir |-> "toRemote", del |-> FALSE, excludes |-> {}, whole |-> TRUE]
  /\ seenL = Nothing /\ seenR = Nothing
  /\ plan = <<>> /\ moves = {} /\ failed = {} /\ saves = 0

----------------------------------------------------------------------------
(* SyncPlan.cpp.                                                           *)

\* The globs are names that match at any depth, as the default ones do.
MatchGlob(x, p, isDir) == Last(p) = x.name /\ (x.dirOnly => isDir)
Excluded(ex, p, isDir) ==
  \E x \in ex : MatchGlob(x, p, isDir) \/ \E q \in Paths : Under(q, p) /\ MatchGlob(x, q, TRUE)

At(seen, p) == IF p \in DOMAIN seen THEN seen[p] ELSE Absent
Tolerance == 2
SameTime(a, b) == a.time <= b.time + Tolerance /\ b.time <= a.time + Tolerance

OfTwoFiles(a, b) ==
  IF a.time = 0 \/ b.time = 0 THEN IF a.size = b.size THEN "Uncertain" ELSE "SizeDiffers"
  ELSE IF SameTime(a, b) THEN IF a.size = b.size THEN "Identical" ELSE "SizeDiffers"
  ELSE IF a.time > b.time THEN "LocalNewer" ELSE "RemoteNewer"
OfTwo(a, b) ==
  IF a.is # b.is THEN "TypeDiffers"
  ELSE IF a.link \/ b.link THEN "Uncertain"
  ELSE IF a.is = "dir" THEN "Identical" ELSE OfTwoFiles(a, b)
\* The state of every path that either walk listed and no pattern excludes.
Compare(l, r, ex) ==
  LET Kept(seen) == {p \in DOMAIN seen : ~Excluded(ex, p, seen[p].is = "dir")} IN
  [p \in Kept(l) \cup Kept(r) |->
     IF p \notin Kept(r) THEN "LocalOnly"
     ELSE IF p \notin Kept(l) THEN "RemoteOnly" ELSE OfTwo(l[p], r[p])]

ReplacesNewer(st, dir) == st \in {"LocalNewer", "RemoteNewer"}                       \* (faulty)
\* A one-way sync leaves a destination alone that is the newer one.
Replaces(st, dir) == (st = "LocalNewer" /\ dir # "toLocal") \/ (st = "RemoteNewer" /\ dir # "toRemote")
OfNewer(st, dir) ==
  IF ~Replaces(st, dir) THEN "Skip"
  ELSE IF dir = "toRemote" \/ (dir = "twoWay" /\ st = "LocalNewer") THEN "ReplaceRemote" ELSE "ReplaceLocal"
OfOneSide(st, e, dir, del) ==
  LET extra == IF st = "LocalOnly" THEN dir = "toLocal" ELSE dir = "toRemote" IN
  IF extra THEN IF ~del THEN "Skip" ELSE IF st = "LocalOnly" THEN "DeleteLocal" ELSE "DeleteRemote"
  ELSE IF e.is = "dir" THEN IF st = "LocalOnly" THEN "MkdirRemote" ELSE "MkdirLocal"
  ELSE IF st = "LocalOnly" THEN "Upload" ELSE "Download"
\* What the planner makes of one pair, with the rule Ask the browser leaves set.
Action(st, l, r, dir, del) ==
  CASE st = "Identical"                     -> "Skip"
    [] st = "LocalOnly"                     -> OfOneSide(st, l, dir, del)
    [] st = "RemoteOnly"                    -> OfOneSide(st, r, dir, del)
    [] st \in {"LocalNewer", "RemoteNewer"} -> OfNewer(st, dir)
    [] st = "SizeDiffers" /\ dir # "twoWay" -> IF dir = "toRemote" THEN "ReplaceRemote" ELSE "ReplaceLocal"
    [] OTHER                                -> "Conflict"

Up      == {"Upload", "ReplaceRemote"}
Down    == {"Download", "ReplaceLocal"}
Mkdirs  == {"MkdirLocal", "MkdirRemote"}
Deletes == {"DeleteLocal", "DeleteRemote"}
\* Directories to create, outermost first, then everything else, then the
\* deletions, innermost first; and in the map's order what this leaves open.
Part(act) == IF act \in Mkdirs THEN 1 ELSE IF act \in Deletes THEN 3 ELSE 2
DepthOutward(part, p) == IF part \in {1, 3} THEN Len(p) ELSE 0                        \* (faulty)
Depth(part, p) == IF part = 1 THEN Len(p) ELSE IF part = 3 THEN -Len(p) ELSE 0
Place(p) == CHOOSE i \in DOMAIN PathOrder : PathOrder[i] = p
Sooner(part, p, q) ==
  \/ part[p] < part[q]
  \/ part[p] = part[q] /\ Depth(part[p], p) < Depth(part[q], q)
  \/ part[p] = part[q] /\ Depth(part[p], p) = Depth(part[q], q) /\ Place(p) < Place(q)
Sorted(part) ==
  LET D == 1 .. Cardinality(DOMAIN part)
  IN  CHOOSE s \in [D -> DOMAIN part] : \A i, j \in D : i < j => Sooner(part, s[i], s[j])
BuildPlan(l, r, ex, dir, del) ==
  LET states == Compare(l, r, ex)
      act == [p \in DOMAIN states |-> Action(states[p], At(l, p), At(r, p), dir, del)]
      order == Sorted([p \in DOMAIN act |-> Part(act[p])])
  IN [i \in DOMAIN order |-> [act |-> act[order[i]], path |-> order[i]]]

----------------------------------------------------------------------------
(* The browser.                                                            *)

\* Directories up to here are listed and no link is walked into; one that
\* cannot be listed looks empty.
Walk(tree, unlisted) ==
  LET Reached(p) == \A q \in Paths : Under(q, p) => tree[q].is = "dir" /\ ~tree[q].link /\ q \notin unlisted
  IN [p \in {p \in Paths : tree[p].is # "none" /\ Reached(p)} |-> tree[p]]
Unlisted(tree) == IF ListFails THEN SUBSET {p \in Paths : tree[p].is = "dir"} ELSE {{}}

\* The folder, the direction and the exclusions are captured; the walks and the
\* plan run on the worker.
CompareFolders ==
  /\ job.at = "none"
  /\ \E dir \in {"toRemote", "toLocal", "twoWay"}, del \in BOOLEAN, ex \in Excludes :
       job' = [at |-> "local", root |-> lcwd, dir |-> dir, del |-> del, excludes |-> ex, whole |-> TRUE]
  /\ UNCHANGED <<trees, lcwd, seenL, seenR, plan, moves, failed, saves>>
WalkLocal ==
  /\ job.at = "local"
  /\ \E un \in Unlisted(disk[job.root]) :
       seenL' = Walk(disk[job.root], un) /\ job' = [job EXCEPT !.at = "remote", !.whole = un = {}]
  /\ UNCHANGED <<trees, lcwd, seenR, plan, moves, failed, saves>>
WalkRemote ==
  /\ job.at = "remote"
  /\ \E un \in Unlisted(host) :
       seenR' = Walk(host, un) /\ job' = [job EXCEPT !.at = "posted", !.whole = @ /\ un = {}]
  /\ plan' = BuildPlan(seenL, seenR', job.excludes, job.dir, job.del)
  /\ UNCHANGED <<trees, lcwd, seenL, moves, failed, saves>>

NavigateLocal ==
  /\ job.at \in {"local", "remote"}
  /\ lcwd' \in Range(Folders) \ {lcwd}
  /\ UNCHANGED <<trees, job, seenL, seenR, plan, moves, failed, saves>>

\* SHCreateDirectoryEx makes what is missing above a path, unless a file is in
\* the way.
MakeParents(tree, ps) ==
  LET Wanted(q) == \E p \in ps : Under(q, p) /\ \A o \in Paths : Under(o, p) => tree[o].is # "file"
  IN [q \in Paths |-> IF tree[q].is = "none" /\ Wanted(q) THEN Dir ELSE tree[q]]
\* The plan is confirmed: transfers alone are queued, into the folder the pane
\* shows by now.
ShowPlan ==
  /\ job.at = "posted" /\ plan # <<>>
  /\ LET wanted == {i \in DOMAIN plan : plan[i].act \in Up \cup Down /\ SafeName(plan[i].path)}
         fetched == {i \in wanted : plan[i].act \in Down} IN
       /\ moves' = {[at |-> i, down |-> i \in fetched, path |-> plan[i].path, root |-> lcwd] : i \in wanted}
       /\ disk' = [disk EXCEPT ![lcwd] = MakeParents(@, {plan[i].path : i \in fetched})]
  /\ job' = [job EXCEPT !.at = "queued"]
  /\ UNCHANGED <<host, lcwd, seenL, seenR, plan, failed, saves>>
\* Nothing to do, or not wanted.
Decline ==
  /\ job.at = "posted" /\ job' = [job EXCEPT !.at = "declined"]
  /\ UNCHANGED <<trees, lcwd, seenL, seenR, plan, moves, failed, saves>>

\* A path opens for writing where every directory above it is there.
Opens(tree, p) == tree[p].is # "dir" /\ \A q \in Paths : Under(q, p) => tree[q].is = "dir"
TimeOfWriting(src) == Clock                                                          \* (faulty)
\* The source's time is put on the copy when there is one.
TimeOfCopy(src) == IF src.time = 0 THEN Clock ELSE src.time
Copy(src, dst) == [is |-> "file", link |-> dst.link, size |-> src.size, time |-> TimeOfCopy(src)]
\* The worker runs the next transfer, whatever has become of both ends.
RunTransfer ==
  /\ job.at = "queued"
  /\ \E x \in moves :
     LET p == x.path
         src == IF x.down THEN host ELSE disk[x.root]
         dst == IF x.down THEN disk[x.root] ELSE host
     IN /\ \A y \in moves : x.at <= y.at
        /\ moves' = moves \ {x}
        /\ IF src[p].is = "file" /\ Opens(dst, p)
           THEN /\ UNCHANGED failed
                /\ IF x.down THEN disk' = [disk EXCEPT ![x.root][p] = Copy(src[p], dst[p])] /\ UNCHANGED host
                   ELSE host' = [host EXCEPT ![p] = Copy(src[p], dst[p])] /\ UNCHANGED disk
           ELSE failed' = failed \cup {x} /\ UNCHANGED trees
  /\ UNCHANGED <<lcwd, job, seenL, seenR, plan, saves>>

\* Somebody saves a file on either side while the sync is under way.
SavedAt(tree, p) ==
  LET e == [is |-> "file", link |-> tree[p].link, size |-> 1, time |-> Clock + saves] IN
  [tree EXCEPT ![p] = e]
SomebodySaves ==
  /\ saves < MaxSaves /\ saves' = saves + 1
  /\ job.at \in {"local", "remote", "posted", "queued"}
  /\ \E p \in Paths :
       \/ Opens(host, p) /\ host' = SavedAt(host, p) /\ UNCHANGED disk
       \/ /\ Opens(disk[job.root], p) /\ SafeName(p)
          /\ disk' = [disk EXCEPT ![job.root] = SavedAt(@, p)] /\ UNCHANGED host
  /\ UNCHANGED <<lcwd, job, seenL, seenR, plan, moves, failed>>

SyncNext == \/ CompareFolders \/ WalkLocal \/ WalkRemote \/ NavigateLocal \/ ShowPlan \/ Decline
        \/ RunTransfer \/ SomebodySaves
SyncSpec == SyncInit /\ [][SyncNext]_syncVars
----------------------------------------------------------------------------
(* Properties.                                                             *)

\* Every part of the browser, the worker and the two trees has its type; a plan
\* names only paths that were listed.
SyncTypeOK ==
  /\ disk \in [Range(Folders) -> [Paths -> Entry]] /\ host \in [Paths -> Entry]
  /\ lcwd \in Range(Folders)
  /\ job \in [at : {"none", "local", "remote", "posted", "queued", "declined"}, root : Range(Folders),
              dir : {"toRemote", "toLocal", "twoWay"}, del : BOOLEAN, excludes : Excludes \cup {{}}, whole : BOOLEAN]
  /\ \A seen \in {seenL, seenR} : DOMAIN seen \subseteq Paths /\ \A p \in DOMAIN seen : seen[p] \in Entry
  /\ \A s \in Range(plan) :
       s.act \in {"Skip", "Conflict"} \cup Up \cup Down \cup Mkdirs \cup Deletes /\ s.path \in Paths
  /\ \A x \in moves \cup failed :
       x.down \in BOOLEAN /\ x.path \in Paths /\ x.root \in Range(Folders)
  /\ saves \in 0 .. MaxSaves

\* The plan is safe to execute top to bottom: nothing inside a directory comes
\* before its creation, and nothing inside one is left when it is deleted.
PlanOrdered ==
  \A i, j \in DOMAIN plan : i < j =>
    /\ plan[i].act \in Deletes => ~Under(plan[i].path, plan[j].path)
    /\ plan[j].act \in Mkdirs => ~Under(plan[j].path, plan[i].path)

\* Compare is not told which side is local: with the sides and the direction
\* swapped the plan is the same one, mirrored, for whatever the walks listed.
Other(dir) == CASE dir = "toRemote" -> "toLocal" [] dir = "toLocal" -> "toRemote" [] dir = "twoWay" -> dir
Facing == {{"Upload", "Download"}, {"ReplaceRemote", "ReplaceLocal"},
           {"MkdirRemote", "MkdirLocal"}, {"DeleteRemote", "DeleteLocal"}}
Mirror(act) == IF act \in UNION Facing THEN CHOOSE b \in UNION Facing : {act, b} \in Facing ELSE act
Mirrored ==
  job.at = "posted" =>
    BuildPlan(seenR, seenL, job.excludes, Other(job.dir), job.del)
      = [i \in DOMAIN plan |-> [plan[i] EXCEPT !.act = Mirror(@)]]

Src(x) == IF x.down THEN host ELSE disk[x.root]
Dst(x) == IF x.down THEN disk[x.root] ELSE host
InPlace(x) == x.root = job.root
\* What the walks saw of both ends is what is there now.
AsSeen(x) ==
  /\ Src(x)[x.path] = At(IF x.down THEN seenR ELSE seenL, x.path)
  /\ Dst(x)[x.path] = At(IF x.down THEN seenL ELSE seenR, x.path)
Newer(a, b) == a.time # 0 /\ b.time # 0 /\ a.time > b.time + Tolerance
\* No transfer of a sync, in any direction, writes over a file that is newer
\* than its source, unless one of the two has changed since it was compared.
NewerSurvives ==
  [][\A x \in moves : InPlace(x) /\ AsSeen(x) /\ Newer(Dst(x)[x.path], Src(x)[x.path])
       => Dst(x)'[x.path] = Dst(x)[x.path] \/ saves' # saves]_syncVars

\* A path a pattern keeps out, by itself or by a directory above it, is not
\* touched in any folder.
KeptOut(p) ==
  \E x \in job.excludes, q \in Paths :
    Last(q) = x.name /\ (Under(q, p) \/ (q = p /\ ~x.dirOnly))
ExcludedUntouched ==
  [][\A p \in Paths : KeptOut(p) /\ saves' = saves =>
       host'[p] = host[p] /\ \A f \in Range(Folders) : disk'[f][p] = disk[f][p]]_syncVars

\* No name that was refused is made on this machine.
NamesChecked ==
  \A p \in Paths, f \in Range(Folders) : disk[f][p].is # "none" => SafeName(p)

Confirmed == job.at = "queued" /\ lcwd = job.root
Above(p) == {q \in Paths : Under(q, p)}
\* A transfer that fails although nothing changed goes below or onto a
\* path the plan reported as a conflict, onto one whose other half a pattern
\* hid, or into a remote directory that is yet to be made.
ActOf(p) == {s.act : s \in {s \in Range(plan) : s.path = p}}
Hidden(p) == p \in DOMAIN seenL \cap DOMAIN seenR /\ \E e \in {seenL[p], seenR[p]} : Excluded(job.excludes, p, e.is = "dir")
FailuresForetold ==
  Confirmed /\ saves = 0 /\ job.whole => \A x \in failed :
    \/ \E q \in Above(x.path) \cup {x.path} : Hidden(q) \/ "Conflict" \in ActOf(q)
    \/ ~x.down /\ \E q \in Above(x.path) : "MkdirRemote" \in ActOf(q)

\* Once everything queued has arrived and nobody interfered, the same
\* comparison has nothing to move, but for what lies behind a link.
Settled == Confirmed /\ job.whole /\ moves = {} /\ failed = {} /\ saves = 0
Linked(p) == \E q \in Above(p) \cup {p} : host[q].link \/ disk[job.root][q].link
Converges ==
  Settled => \A s \in Range(BuildPlan(Walk(disk[job.root], {}), Walk(host, {}), job.excludes, job.dir, job.del)) :
    s.act \in Up \cup Down => Linked(s.path) \/ ~SafeName(s.path)

\* What is planned can be executed as it stands, is the same from either side, and makes
\* no name that was refused.
PlanSound == SyncTypeOK /\ PlanOrdered /\ Mirrored /\ NamesChecked

\* What the plan leaves alone is left alone: newer files and excluded paths.
LeftAlone == NewerSurvives /\ ExcludedUntouched

\* What the plan moves arrives, and then there is nothing left to move.
EndsInAgreement == FailuresForetold /\ Converges

(* Statements of the repository that the code does not keep. *)

\* "One-way: a destination that is NEWER than the source is left alone, never
\* overwritten", as the browser tells the user.
NewerLeftAlone ==
  [][\A x \in moves : job.dir # "twoWay" /\ InPlace(x) /\ Newer(Dst(x)[x.path], Src(x)[x.path])
       => Dst(x)'[x.path] = Dst(x)[x.path]]_syncVars
=============================================================================
