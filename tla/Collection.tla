----------------------------- MODULE Collection -----------------------------
(***************************************************************************)
(* CollectionService.collect of collection/service.py with the nine        *)
(* collectors that runtime.py wires, merge_repository_facts, and what each *)
(* collector makes of the answers of its tool or provider.                 *)
(*                                                                         *)
(* One analysis is followed.  The collectors run one after another and see *)
(* nothing of each other; what they return is merged.  An observation is a *)
(* key of its group with a value where an analyzer looks at the value.     *)
(***************************************************************************)
EXTENDS Integers, Sequences, FiniteSets

CONSTANTS
  Profiles,      \* assessment profiles of requests, "public", "owner_extended"
  Wirings,       \* sets of configured providers, "sonarqube", "sourcecraft"
  MaxFiles,      \* context.limits.max_files
  MaxCommits,    \* context.limits.max_commits
  MaxGroups,     \* max_groups of SourceCraftAppSecCollector
  RowCounts,     \* bound: rows of a page set
  Histories,     \* bound: what the issues of a page set show, see IssueFacts
  Severities,    \* bound: of active AppSec findings, "other" is not counted
  Shapes,        \* of AppSec bodies, see DefectGroups
  MaxFaults      \* bound: collectors and analyzers that fail in one analysis

ASSUME CollectionAssumption ==
  /\ Profiles \subseteq {"public", "owner_extended"}
  /\ Wirings \subseteq SUBSET {"sonarqube", "sourcecraft"}
  /\ {MaxFiles, MaxCommits, MaxGroups} \subseteq Nat \ {0}
  /\ RowCounts \subseteq Nat /\ MaxFaults \in Nat
  /\ Histories \subseteq SUBSET {"answered", "matured", "aged", "trend"}
  /\ Severities \subseteq {"critical", "high", "medium", "low", "other"}
  /\ Shapes \subseteq {"whole", "odd", "paged"}

(* The order of source ids. *)
Order == <<"git", "git-sizer", "git.todo-history", "pydriller", "sonarqube",
           "sourcecraft.appsec", "sourcecraft.cicd", "sourcecraft.issues", "vale">>
Sources == {Order[i] : i \in DOMAIN Order}
Owned == {"sourcecraft.appsec", "sourcecraft.cicd", "sourcecraft.issues"}
ProviderOf ==
  [s \in Sources |->
     IF s \in Owned THEN "sourcecraft" ELSE IF s = "sonarqube" THEN s ELSE "local"]
GroupOf ==
  [s \in Sources |->
     CASE s \in {"git", "pydriller"} -> "git"
       [] s = "vale" -> "documentation"
       [] s = "sourcecraft.issues" -> "issues"
       [] s = "sourcecraft.cicd" -> "cicd"
       [] s = "sourcecraft.appsec" -> "security"
       [] OTHER -> "code_health"]
Groups == {GroupOf[s] : s \in Sources}

VARIABLES
  profile, wired,
  turn,          \* index in Order of the collector that runs
  facts,
  faults,        \* bounded by MaxFaults
  silent         \* ghost: sources that have not delivered a measurement

vars == <<profile, wired, turn, facts, faults, silent>>

(***************************************************************************)
(* Facts and their merge.                                                  *)
(***************************************************************************)
NoKeys == [k \in {} |-> 0]
Status(s, state) == [k \in {<<s, "">>} |-> state]
(* status: of sources and of the stages of AppSec, "" for the source       *)
(* itself; lims: sources with a limitation; glims: groups with one; truth: *)
(* ghost, where the active findings are that the selected scan has at the  *)
(* server, see Place.                                                      *)
Facts(s, state, g, avail, keys, lim) ==
  [status |-> Status(s, state),
   avail |-> IF avail THEN {g} ELSE {},
   obs |-> [h \in Groups |-> IF h = g THEN keys ELSE NoKeys],
   scan |-> "none",
   lims |-> IF lim THEN {s} ELSE {},
   glims |-> IF lim THEN {g} ELSE {},
   truth |-> {}]
Empty ==
  [Facts("git", "", "git", FALSE, NoKeys, FALSE) EXCEPT !.status = NoKeys]

(* f with the entries of h, which owns the keys both have. *)
Over(f, h) ==
  [k \in DOMAIN f \cup DOMAIN h |-> IF k \in DOMAIN h THEN h[k] ELSE f[k]]

(***************************************************************************)
(* Mutated forms of the definitions below, one plausible slip each.        *)
(***************************************************************************)
MutantMerged(l, r) ==
  [status |-> Over(l.status, r.status), avail |-> l.avail \cup r.avail,
   obs |-> [g \in Groups |-> IF g \in r.avail THEN r.obs[g] ELSE l.obs[g]],
   scan |-> IF r.scan # "none" THEN r.scan ELSE l.scan,
   lims |-> l.lims \cup r.lims, glims |-> l.glims \cup r.glims,
   truth |-> l.truth \cup r.truth]
MutantFailed(s) == [facts EXCEPT !.lims = @ \cup {s}]
MutantIsExcluded(s) == profile = "public" /\ s = "sourcecraft.appsec"
MutantUnread(groups) == {}

Merged(l, r) ==
  [status |-> Over(l.status, r.status),
   avail |-> l.avail \cup r.avail,
   obs |-> [g \in Groups |-> Over(l.obs[g], r.obs[g])],
   scan |-> IF r.scan # "none" THEN r.scan ELSE l.scan,
   lims |-> l.lims \cup r.lims,
   glims |-> l.glims \cup r.glims,
   truth |-> l.truth \cup r.truth]

(***************************************************************************)
(* What the collectors return when their source has measured something.    *)
(***************************************************************************)
Smaller(m, n) == IF m < n THEN m ELSE n
Larger(m, n) == IF m > n THEN m ELSE n
State(limited) == IF limited THEN "partial" ELSE "available"

GitFacts == {Facts("git", "available", "git", TRUE, [head |-> TRUE], FALSE)}

(* Who the authors are decides the confidence, in percent; no commit has   *)
(* no author. *)
Confidence == [unknown |-> 0, no_email |-> 50, ambiguous |-> 75, clear |-> 100]
HistoryOf(n, who) ==
  LET limited == n >= MaxCommits \/ who \in {"no_email", "ambiguous"}
  IN Facts("pydriller", State(limited), "git", n > 0,
           [commits |-> n, complete |-> n < MaxCommits, confidence |-> Confidence[who]],
           limited)
NoHistory ==
  Facts("pydriller", "available", "git", FALSE,
        [commits |-> 0, complete |-> TRUE, confidence |-> 0], FALSE)
HistoryFacts ==
  {HistoryOf(n, who) : n \in 1..MaxCommits, who \in DOMAIN Confidence}
    \cup {NoHistory}

(* The files of the inventory, or those Vale's findings name; found is the *)
(* number of documents in the checkout. *)
DocumentsOf(found, named) ==
  LET files == IF found > 0 THEN Smaller(found, MaxFiles) ELSE named
  IN Facts("vale", State(found > MaxFiles), "documentation", TRUE,
           [files |-> files, discovered |-> Larger(files, found)],
           found > MaxFiles)
ValeFacts == {DocumentsOf(found, named) : found \in 0..MaxFiles + 1, named \in 0..1}

SizerFacts ==
  {Facts("git-sizer", "available", "code_health", TRUE, [sizes |-> TRUE], FALSE)}
TodoFacts ==
  {Facts("git.todo-history", IF some THEN "available" ELSE "partial",
         "code_health", some, [markers |-> some], FALSE) : some \in BOOLEAN}
(* Measures of quality, or only others such as ncloc. *)
SonarFacts ==
  {Facts("sonarqube", "available", "code_health", TRUE, keys, FALSE) :
     keys \in {[quality |-> TRUE], [ncloc |-> TRUE]}}

(* Page sets of SourceCraftClient: rows, whether they are complete, and a  *)
(* page that was not found, whose status is the last of the source. *)
PageSets ==
  {p \in [rows : RowCounts, end : {"complete", "capped", "first_gone", "later_gone"}] :
     p.end = "first_gone" => p.rows = 0}
PageFacts(s, p, keys, lim) ==
  Facts(s, IF p.end \in {"first_gone", "later_gone"} THEN "unavailable" ELSE "available",
        GroupOf[s], p.end # "first_gone", keys, lim \/ p.end # "complete")
(* In percent. *)
Coverage(p) == IF p.end = "complete" THEN 100 ELSE 50

(* comments: those of every issue were read completely.  shown, of five    *)
(* issues and more: "answered" some issue after a while, "matured" five    *)
(* closed, "aged" an open one, "trend" five events in ninety days. *)
IssuesOf(p, all, h) ==
  PageFacts("sourcecraft.issues", p,
            IF p.rows = 0 THEN NoKeys
            ELSE [sample |-> p.rows, coverage |-> Coverage(p), comments |-> all,
                  shown |-> IF p.rows < 5 THEN {} ELSE h],
            p.rows > 0 /\ ~all)
IssueFacts ==
  {IssuesOf(p, all, h) : p \in PageSets, all \in BOOLEAN, h \in Histories}

RunsOf(p, some) ==
  PageFacts("sourcecraft.cicd", p,
            [decisive |-> some /\ p.rows > 0, coverage |-> Coverage(p)], FALSE)
RunFacts == {RunsOf(p, some) : p \in PageSets, some \in BOOLEAN}

(***************************************************************************)
(* AppSec: scans, then defect groups, then the findings of each group.     *)
(***************************************************************************)
Refusing == {"permission_denied", "unavailable", "error"}
AppSecFacts(states, scan, keys, lim) ==
  [Empty EXCEPT
     !.status = [k \in {"sourcecraft.appsec"} \X DOMAIN states |-> states[k[2]]],
     !.avail = IF scan = "unavailable" THEN {} ELSE {"security"},
     !.obs["security"] =
       Over([coverage |-> CASE scan \in {"finished_zero", "finished_with"} -> 100
                            [] scan = "partial" -> 50
                            [] OTHER -> 0], keys),
     !.scan = scan,
     !.lims = IF lim THEN {"sourcecraft.appsec"} ELSE {},
     !.glims = IF lim THEN {"security"} ELSE {}]

(* The stage of the scans is refused or its body is empty; it has no scan, *)
(* a scan without id, a failed or an unfinished one; the stage of the      *)
(* groups is refused. *)
AppSecRefusals ==
  {AppSecFacts([scans |-> state],
               IF state = "error" THEN "failed" ELSE "unavailable", NoKeys, TRUE) :
     state \in Refusing}
  \cup {AppSecFacts([scans |-> "available"], "failed", NoKeys, FALSE)}
  \cup {AppSecFacts([scans |-> "available"], scan, NoKeys, TRUE) :
          scan \in {"no_scan", "failed", "partial"}}
  \cup {AppSecFacts([scans |-> "available", groups |-> state], "partial",
                    [partial |-> TRUE], TRUE) : state \in Refusing}

(* A defect group of the scan: how its findings answer, "no_id" when the   *)
(* group cannot be asked for, and its active finding if it has one.  A     *)
(* body is "odd" without the array it should hold, and "paged" when the    *)
(* finding is on a later page, which is not asked for, or in a row that    *)
(* is no object; both are read as a page without rows. *)
DefectGroups ==
  [reply : Shapes \cup {"no_id", "refused"}, finding : Severities \cup {"none"}]
Unread(groups) ==
  {i \in DOMAIN groups : i <= MaxGroups /\ groups[i].reply \in {"no_id", "refused"}}
Found(groups) ==
  {i \in DOMAIN groups : i <= MaxGroups /\ groups[i].reply = "whole"
                           /\ groups[i].finding # "none"}
Read(groups, severity) == {i \in Found(groups) : groups[i].finding = severity}
FindingFacts(groups, truth) ==
  LET partial == Unread(groups) # {} \/ Len(groups) > MaxGroups
      count == [v \in {"critical", "high", "medium", "low"} |->
                  Cardinality(Read(groups, v))]
      scan == IF partial THEN "partial"
              ELSE IF Found(groups) # {} THEN "finished_with"
              ELSE "finished_zero"
  IN [AppSecFacts([scans |-> "available", groups |-> "available"], scan,
                  Over([partial |-> partial], count), partial)
      EXCEPT !.truth = truth]

(* How many of n groups the body of their stage shows; where one finding   *)
(* is: read, unread in a group that was shown, or left out by a body; and  *)
(* where those of all groups are. *)
Shown(shape, n) ==
  CASE shape = "whole" -> {n} [] shape = "odd" -> {0} [] shape = "paged" -> 0..n - 1
Place(i, group, shown) ==
  CASE i > shown \/ (i <= MaxGroups /\ group.reply \in {"odd", "paged"}) -> "left_out"
    [] i <= shown /\ i <= MaxGroups /\ group.reply = "whole" -> "read"
    [] OTHER -> "unread"
TruthOf(groups, shown) ==
  {Place(i, groups[i], shown) : i \in {k \in DOMAIN groups : groups[k].finding # "none"}}
GroupLists == UNION {[1..n -> DefectGroups] : n \in 0..MaxGroups + 1}
ScansOf(groups, shape) ==
  {FindingFacts(SubSeq(groups, 1, shown), TruthOf(groups, shown)) :
     shown \in Shown(shape, Len(groups))}
ScanFacts == UNION {ScansOf(groups, shape) : groups \in GroupLists, shape \in Shapes}

Deliveries(s) ==
  CASE s = "git" -> GitFacts
    [] s = "pydriller" -> HistoryFacts
    [] s = "vale" -> ValeFacts
    [] s = "git-sizer" -> SizerFacts
    [] s = "git.todo-history" -> TodoFacts
    [] s = "sonarqube" -> SonarFacts
    [] s = "sourcecraft.issues" -> IssueFacts
    [] s = "sourcecraft.cicd" -> RunFacts
    [] s = "sourcecraft.appsec" -> ScanFacts

(***************************************************************************)
(* What they return when it has not, and what makes them raise.            *)
(***************************************************************************)
Refused(s, g, state) == Facts(s, state, g, FALSE, NoKeys, TRUE)
(* A failed git or PyDriller has no block of facts to put a limitation in. *)
NoBlock(s, state) == [Refused(s, "git", state) EXCEPT !.glims = {}]
ToolFailures == {"unavailable", "timeout", "partial", "error"}
Refusals(s) ==
  CASE s = "git" -> {NoBlock(s, "error")}
    [] s = "pydriller" -> {NoBlock(s, "unavailable")}
    [] s \in {"vale", "git-sizer"} -> {Refused(s, GroupOf[s], f) : f \in ToolFailures}
    [] s = "git.todo-history" -> {Refused(s, "code_health", "unavailable")}
    [] s = "sonarqube" ->
         {Refused(s, "code_health", f) :
            f \in {"permission_denied", "timeout", "unavailable", "error"}}
    [] s = "sourcecraft.appsec" -> AppSecRefusals
    [] OTHER -> {}
(* A git command that fails, a reply of the client that is an exception,   *)
(* and httpx.TimeoutException, which SonarQubeCollector.collect does not   *)
(* catch. *)
MayRaise == {"git", "sonarqube", "sourcecraft.cicd", "sourcecraft.issues"}

(***************************************************************************)
(* collect.                                                                *)
(***************************************************************************)
IsExcluded(s) == profile = "public" /\ s \in Owned
Failed(s) ==
  [facts EXCEPT !.status = Over(@, Status(s, "error")), !.lims = @ \cup {s}]

Init ==
  /\ profile \in Profiles /\ wired \in Wirings
  /\ turn = 1 /\ facts = Empty /\ faults = 0 /\ silent = Sources

Collecting == turn <= Len(Order)
Turn(cost) ==
  /\ Collecting /\ faults + cost <= MaxFaults
  /\ turn' = turn + 1 /\ faults' = faults + cost
  /\ UNCHANGED <<profile, wired>>
IsWired(s) == ProviderOf[s] \in wired \cup {"local"}

Deliver(s) ==
  /\ IsWired(s) /\ ~IsExcluded(s)
  /\ \E r \in Deliveries(s) :
       /\ Turn(IF r.lims = {} THEN 0 ELSE 1)
       /\ facts' = Merged(facts, r)
  /\ silent' = silent \ {s}
Refuse(s) ==
  /\ IsWired(s) /\ ~IsExcluded(s)
  /\ Turn(1)
  /\ \E r \in Refusals(s) : facts' = Merged(facts, r)
  /\ UNCHANGED silent
(* The except clause of collect. *)
Raise(s) ==
  /\ IsWired(s) /\ ~IsExcluded(s) /\ s \in MayRaise
  /\ Turn(1)
  /\ facts' = Failed(s)
  /\ UNCHANGED silent
(* _profile_excluded, and UnavailableFactCollector in place of a provider  *)
(* that is not configured; it has no provider of its own to be excluded. *)
Leave(s) ==
  /\ ~IsWired(s) \/ IsExcluded(s)
  /\ Turn(0)
  /\ facts' = Merged(facts, Refused(s, GroupOf[s], "unavailable"))
  /\ UNCHANGED silent

Collect ==
  \E s \in Sources :
    /\ Collecting /\ Order[turn] = s
    /\ Deliver(s) \/ Refuse(s) \/ Raise(s) \/ Leave(s)

(* used_sources of the facts that collect returns: an excluded source is   *)
(* struck out, one that was not configured is not. *)
UsedSources ==
  {k[1] : k \in DOMAIN facts.status} \ {s \in Sources : IsWired(s) /\ IsExcluded(s)}

(***************************************************************************)
(* Properties.                                                             *)
(***************************************************************************)
(* Whatever a collector returns, and if it raises, nothing that an earlier *)
(* one has delivered is dropped, overwritten or made unavailable           *)
(* (merge_repository_facts, "without dropping independent source           *)
(* evidence"). *)
EvidenceKept ==
  [][/\ facts.avail \subseteq facts'.avail /\ facts.lims \subseteq facts'.lims
     /\ \A k \in DOMAIN facts.status :
          k \in DOMAIN facts'.status /\ facts'.status[k] = facts.status[k]
     /\ \A g \in Groups : \A k \in DOMAIN facts.obs[g] :
          k \in DOMAIN facts'.obs[g] /\ facts'.obs[g][k] = facts.obs[g][k]]_vars

(* After the collection every source has a status, and one that is not     *)
(* "available" has left a limitation (collect, and the failure results of  *)
(* the collectors).  A checkout without source files is the exception: its *)
(* TODO scan is "partial" without one. *)
EverySourceAccounted ==
  ~Collecting =>
    /\ {k[1] : k \in DOMAIN facts.status} = Sources
    /\ \A k \in DOMAIN facts.status :
         facts.status[k] # "available" =>
           \/ k[1] \in facts.lims
           \/ k[1] = "git.todo-history" /\ facts.status[k] = "partial"

(* A scan is called finished only if no group that the body of the groups  *)
(* shows was left unread, because it was refused, has no id or is beyond   *)
(* the cap, while it has an active finding; and it has zero findings only  *)
(* if none was read (SourceCraftAppSecCollector.collect).  What a body     *)
(* leaves out is not covered: see ZeroMeansZero. *)
FinishedIsWhatWasShown ==
  facts.scan \in {"finished_zero", "finished_with"} =>
    /\ "unread" \notin facts.truth
    /\ facts.scan = "finished_zero" <=> "read" \notin facts.truth

(* "missing or malformed responses never become zero findings"             *)
(* (docs/sourcecraft.md:32-33): a scan with zero findings has none at the  *)
(* server.  The code does not keep this: _payload_rows takes a body        *)
(* without the array for an empty one. *)
ZeroMeansZero == facts.scan = "finished_zero" => facts.truth = {}
=============================================================================
