------------------------- MODULE AnalysisLifecycle -------------------------
(***************************************************************************)
(* One analysis from its request to its stored result: create_analysis and *)
(* commit_envelope of persistence/sqlite.py, called by start and analyze   *)
(* of orchestration/orchestrator.py, called by the API and the scheduled   *)
(* jobs of api/app.py.                                                     *)
(*                                                                         *)
(* A job is one request being served.  The jobs of a process run on one    *)
(* event loop: between two awaits nothing else in the process moves, so a  *)
(* store call of one process is atomic for its own jobs and can interleave *)
(* only with those of another process, statement by statement.             *)
(***************************************************************************)
EXTENDS Integers

CONSTANTS
  Requests,      \* AnalysisRequests: each has an analysis id of its own
  Repositories,
  Snapshots,     \* what RepositoryRef says beside the id: ref, head_sha, ...
  Keys,          \* idempotency keys, derived or given
  RepositoryOf, SnapshotOf, KeyOf,
  Extended,      \* requests with the profile OWNER_EXTENDED
  Partial,       \* requests that name some of the six analyzers only
  Jobs,
  Processes,
  Home,          \* the process each job runs in
  Digests,       \* digests of collected facts
  None,
  MaxFaults      \* bound: faults that hit one request

ASSUME RequestsAssumption ==
  /\ RepositoryOf \in [Requests -> Repositories]
  /\ SnapshotOf \in [Requests -> Snapshots]
  /\ KeyOf \in [Requests -> Keys]
ASSUME JobsAssumption == Home \in [Jobs -> Processes]
ASSUME FaultsAssumption == MaxFaults \in Nat

VARIABLES
  repository,    \* the payload registered for each repository
  analysis,      \* the analyses row of each request
  job,
  faults         \* how often a fault has hit a job of each request

vars == <<repository, analysis, job, faults>>

(* What commit_envelope compares of two envelopes: facts digest, category  *)
(* results and the score, which is a function of them.                     *)
Categories == {"sound", "broken", "collection_error", "executor_error"}
Results == [facts : Digests \cup {None}, categories : Categories]
ASSUME NoneAssumption == None \notin Snapshots /\ None \notin Results

States == {"absent", "queued", "completed", "partial", "failed"}
Rows == [state : States, result : Results \cup {None}]
NoRow == [state |-> "absent", result |-> None]

InStore == {"registering", "selecting", "inserting", "writing"}
Awaiting == {"posted", "collecting", "executing"}
Resting == {"idle", "returned", "refused", "raised"}
JobStates == [pc : InStore \cup Awaiting \cup Resting,
              call : {"start", "analyze"},
              req : Requests \cup {None},
              facts : Digests \cup {None},
              result : Results \cup {None}]
Idle == [pc |-> "idle", call |-> "start", req |-> None,
         facts |-> None, result |-> None]

(* The event loop of process p is at an await. *)
Quiet(p) == \A j \in Jobs : Home[j] = p => job[j].pc \notin InStore

Present(q) == analysis[q].state # "absent"

(***************************************************************************)
(* Mutated forms of the definitions below, one plausible slip each.        *)
(***************************************************************************)
MutantOpen(q) == analysis[q].state # "completed"
MutantSameResult(q, result) == analysis[q].result.facts = result.facts
MutantRepositoryChanged(q) ==
  repository[RepositoryOf[q]] \notin {None, SnapshotOf[q]} /\ Present(q)
MutantCommitEnd(q, result) ==
  IF result.categories \in {"collection_error", "executor_error"}
  THEN "raised" ELSE "writing"
MutantAdmit(j) ==
  job' = [job EXCEPT ![j].pc =
            IF job[j].call = "start" THEN "posted"
            ELSE IF Present(job[j].req) THEN "raised" ELSE "collecting"]

(***************************************************************************)
(* Decisions of the code.                                                  *)
(***************************************************************************)

(* register_repository: the stored payload is another one. *)
RepositoryChanged(q) ==
  repository[RepositoryOf[q]] \notin {None, SnapshotOf[q]}

(* create_analysis: the key belongs to another request. *)
KeyTaken(q) ==
  \E r \in Requests \ {q} : KeyOf[r] = KeyOf[q] /\ Present(r)

(* The UNIQUE constraint on idempotency_key. *)
RowTaken(q) == KeyTaken(q) \/ Present(q)

(* commit_envelope: no score is stored yet, or the same result is. *)
Open(q) == analysis[q].result = None
SameResult(q, result) == analysis[q].result = result

(* _commit_result up to the UPDATE.  For OWNER_EXTENDED the score engine   *)
(* builds a RepoHealthResult whose profile is the default PUBLIC, which    *)
(* its validator rejects; the failure results of the executor carry PUBLIC *)
(* too, which ScoreInput rejects.  Nothing catches either.                 *)
CommitEnd(q, result) ==
  IF q \in Extended THEN "raised"
  ELSE IF Open(q) THEN "writing"
  ELSE IF SameResult(q, result) THEN "returned" ELSE "raised"

StateOf(q, categories) ==
  CASE categories \in {"collection_error", "executor_error"} -> "failed"
    [] categories = "broken" -> "partial"
    [] categories = "sound" -> IF q \in Partial THEN "partial" ELSE "completed"

-----------------------------------------------------------------------------
Init == /\ repository = [x \in Repositories |-> None]
        /\ analysis = [q \in Requests |-> NoRow]
        /\ job = [j \in Jobs |-> Idle]
        /\ faults = [q \in Requests |-> 0]

Goto(j, pc) == job' = [job EXCEPT ![j].pc = pc]

(* An IdempotencyConflict is answered with 409 when it comes from start. *)
Conflict(j) ==
  Goto(j, IF job[j].call = "start" THEN "refused" ELSE "raised")

(* create_analysis has a record: start answers, analyze returns a stored   *)
(* result or goes on to collect. *)
Admit(j) ==
  LET q == job[j].req IN
    IF job[j].call = "start" THEN Goto(j, "posted")
    ELSE IF Open(q) THEN Goto(j, "collecting")
    ELSE job' = [job EXCEPT ![j] = [@ EXCEPT !.pc = "returned",
                                             !.result = analysis[q].result]]

(* A request arrives; "start" is a POST, "analyze" a direct caller.  The   *)
(* repository is looked up. *)
Arrive(j, q, call) ==
  /\ job[j].pc \in Resting
  /\ Quiet(Home[j])
  /\ job' = [job EXCEPT ![j] =
               [Idle EXCEPT !.req = q, !.call = call,
                            !.pc = IF ~ RepositoryChanged(q) THEN "registering"
                                   ELSE IF call = "start" THEN "refused"
                                   ELSE "raised"]]
  /\ UNCHANGED <<repository, analysis, faults>>

(* The background task of an accepted POST begins: analyze creates again. *)
Analyze(j) ==
  /\ job[j].pc = "posted"
  /\ Quiet(Home[j])
  /\ job' = [job EXCEPT ![j] =
               [@ EXCEPT !.call = "analyze",
                         !.pc = IF RepositoryChanged(job[j].req) THEN "raised"
                                ELSE "registering"]]
  /\ UNCHANGED <<repository, analysis, faults>>

(* INSERT OR REPLACE INTO repositories *)
Register(j) ==
  /\ job[j].pc = "registering"
  /\ repository' = [repository EXCEPT ![RepositoryOf[job[j].req]] =
                                        SnapshotOf[job[j].req]]
  /\ Goto(j, "selecting")
  /\ UNCHANGED <<analysis, faults>>

(* SELECT ... WHERE idempotency_key = ? *)
Select(j) ==
  /\ job[j].pc = "selecting"
  /\ IF KeyTaken(job[j].req) THEN Conflict(j)
     ELSE IF Present(job[j].req) THEN Admit(j)
     ELSE Goto(j, "inserting")
  /\ UNCHANGED <<repository, analysis, faults>>

(* INSERT INTO analyses, which fails if the key came in meanwhile. *)
Insert(j) ==
  /\ job[j].pc = "inserting"
  /\ IF RowTaken(job[j].req)
     THEN Goto(j, "raised") /\ UNCHANGED analysis
     ELSE /\ analysis' = [analysis EXCEPT ![job[j].req].state = "queued"]
          /\ Admit(j)
  /\ UNCHANGED <<repository, faults>>

Collected(j, digest) ==
  /\ job[j].pc = "collecting"
  /\ Quiet(Home[j])
  /\ job' = [job EXCEPT ![j] = [@ EXCEPT !.pc = "executing",
                                         !.facts = digest]]
  /\ UNCHANGED <<repository, analysis, faults>>

(* score, build the envelope, and read the row it would replace *)
Commit(j, result) ==
  /\ Quiet(Home[j])
  /\ job' = [job EXCEPT ![j] =
               [@ EXCEPT !.pc = CommitEnd(job[j].req, result),
                         !.result = result]]
  /\ UNCHANGED <<repository, analysis, faults>>

(* collect raises: the facts are empty and every category is an error. *)
CollectionFails(j) ==
  /\ job[j].pc = "collecting"
  /\ Commit(j, [facts |-> None, categories |-> "collection_error"])

(* execute_many returns the six outcomes, or raises. *)
Executed(j, categories) ==
  /\ job[j].pc = "executing"
  /\ Commit(j, [facts |-> job[j].facts, categories |-> categories])

(* UPDATE analyses ... WHERE analysis_id = ? *)
Write(j) ==
  /\ job[j].pc = "writing"
  /\ analysis' = [analysis EXCEPT ![job[j].req] =
                    [state |-> StateOf(job[j].req, job[j].result.categories),
                     result |-> job[j].result]]
  /\ Goto(j, "returned")
  /\ UNCHANGED <<repository, faults>>

(* A process dies with its background tasks; nothing resumes them. *)
Crash(p) ==
  LET hit == {j \in Jobs : Home[j] = p /\ job[j].pc \notin Resting}
      lost == {job[j].req : j \in hit}
  IN /\ hit # {}
     /\ \A q \in lost : faults[q] < MaxFaults
     /\ faults' = [q \in Requests |-> faults[q] + (IF q \in lost THEN 1 ELSE 0)]
     /\ job' = [j \in Jobs |-> IF j \in hit THEN Idle ELSE job[j]]
     /\ UNCHANGED <<repository, analysis>>

(* A job is cancelled at an await: the scheduler or the server shuts down. *)
Cancel(j) ==
  /\ job[j].pc \in Awaiting
  /\ faults[job[j].req] < MaxFaults
  /\ faults' = [faults EXCEPT ![job[j].req] = @ + 1]
  /\ job' = [job EXCEPT ![j] = Idle]
  /\ UNCHANGED <<repository, analysis>>

StoreStep(j) == Register(j) \/ Select(j) \/ Insert(j) \/ Write(j)
Collect(j) == CollectionFails(j) \/ \E digest \in Digests : Collected(j, digest)
Execute(j) ==
  \E categories \in Categories \ {"collection_error"} : Executed(j, categories)
JobStep(j) == Analyze(j) \/ StoreStep(j) \/ Collect(j) \/ Execute(j)

Next ==
  \/ \E j \in Jobs, q \in Requests, call \in {"start", "analyze"} :
       Arrive(j, q, call)
  \/ \E j \in Jobs : JobStep(j) \/ Cancel(j)
  \/ \E p \in Processes : Crash(p)

Spec == Init /\ [][Next]_vars

(* The event loop runs ready coroutines in turn, so a job that is ready    *)
(* again and again moves although others take the loop in between;         *)
(* collectors and executors end or are timed out.  Clients, crashes and    *)
(* cancellations owe nothing.                                              *)
Fairness == \A j \in Jobs : SF_vars(JobStep(j))
FairSpec == Spec /\ Fairness

-----------------------------------------------------------------------------
(* Rows, jobs and registrations have their types; a row holds a result     *)
(* exactly when its state is final, which status and result routes, that   *)
(* look at one of the two each, rely on.                                   *)
TypeOK ==
  /\ repository \in [Repositories -> Snapshots \cup {None}]
  /\ analysis \in [Requests -> Rows]
  /\ job \in [Jobs -> JobStates]
  /\ faults \in [Requests -> Nat]
  /\ \A j \in Jobs : job[j].pc # "idle" => job[j].req \in Requests
  /\ \A j \in Jobs : job[j].pc = "writing" => job[j].result \in Results
  /\ \A q \in Requests :
       analysis[q].state \in {"absent", "queued"} <=> Open(q)

(* "An already committed result cannot be overwritten", not even by a      *)
(* second job for the same request that was already executing.             *)
ResultIsFinal ==
  [][\A q \in Requests :
       analysis[q].result # None => analysis'[q] = analysis[q]]_vars

(* Whatever job a caller's answer came from, analyze returned what the     *)
(* store keeps: the envelope it built, or the one it found.                *)
ReturnedIsStored ==
  \A j \in Jobs :
    job[j].pc = "returned" => analysis[job[j].req].result = job[j].result

(* What the store keeps speaks against request q: another snapshot is      *)
(* registered for its repository, or another request has its key.          *)
Conflicts(q) ==
  \/ repository[RepositoryOf[q]] \notin {None, SnapshotOf[q]}
  \/ \E r \in Requests \ {q} :
       KeyOf[r] = KeyOf[q] /\ analysis[r].state # "absent"

(* A POST is refused only for a conflict that the store shows, so          *)
(* repeating a request never is; and whatever arrives in whatever order,   *)
(* no conflict gets through: of the analyses that are accepted no two name *)
(* different snapshots of one repository, or one key                       *)
(* (register_repository, create_analysis).                                 *)
ConflictsAreRefused ==
  /\ \A j \in Jobs : job[j].pc = "refused" => Conflicts(job[j].req)
  /\ \A j \in Jobs :
       job[j].pc \in Awaiting \cup {"writing", "returned"} =>
         Present(job[j].req)
  /\ \A q \in Requests : Present(q) => ~ Conflicts(q)

Served(q) == \E j \in Jobs : job[j].req = q /\ job[j].pc \notin Resting

(* A queued PUBLIC analysis that no fault hit is still being worked on: no *)
(* failure of collection or execution leaves one behind, no other request  *)
(* for its key or its repository does, and no job gives up because another *)
(* one answered first.  Requests with OWNER_EXTENDED are the exception:    *)
(* score raises on them (CommitEnd), outside of every try of               *)
(* _commit_result, and their rows stay queued (EveryProfileHasJob).        *)
QueuedHasJob ==
  \A q \in Requests \ Extended :
    analysis[q].state = "queued" /\ faults[q] = 0 => Served(q)

(* The same of requests with any profile: "`AssessmentProfile.PUBLIC` and  *)
(* `OWNER_EXTENDED` flow through request, facts, category, score and       *)
(* persisted envelope" (docs/validation/pre-main-hardening.md).            *)
EveryProfileHasJob ==
  \A q \in Requests :
    analysis[q].state = "queued" /\ faults[q] = 0 => Served(q)

(* Every accepted PUBLIC analysis is finished, unless a fault hits it; and *)
(* one that a crash or a cancellation left queued, which nothing resumes,  *)
(* is finished by whoever asks for it again, unless he is hit as well      *)
(* (analyze takes the queued row of create_analysis on).                   *)
EventuallyFinished ==
  \A q \in Requests \ Extended, n \in 0..MaxFaults :
    (analysis[q].state = "queued" /\ faults[q] = n /\ (n = 0 \/ Served(q)))
      ~> (analysis[q].state \notin {"absent", "queued"} \/ faults[q] > n)

-----------------------------------------------------------------------------
(* Why these hold when one process serves all jobs.                        *)

(* One job at a time is inside the store. *)
Serial ==
  \A i, j \in Jobs : job[i].pc \in InStore /\ job[j].pc \in InStore => i = j

(* What a store call read still holds when it writes or returns. *)
ReadStands ==
  \A j \in Jobs :
    /\ job[j].pc = "registering" => ~ RepositoryChanged(job[j].req)
    /\ job[j].pc = "inserting" => ~ RowTaken(job[j].req)
    /\ job[j].pc = "writing" => Open(job[j].req) /\ Present(job[j].req)
    /\ job[j].pc = "returned" => ~ Open(job[j].req)

(* A job past create_analysis has a row, and rows have their repository    *)
(* registered and their key to themselves.                                 *)
RowsKept ==
  /\ \A j \in Jobs :
       /\ job[j].pc \in {"selecting", "inserting"} =>
            repository[RepositoryOf[job[j].req]] = SnapshotOf[job[j].req]
       /\ job[j].pc \in Awaiting => Present(job[j].req)
  /\ \A q \in Requests :
       Present(q) => /\ repository[RepositoryOf[q]] = SnapshotOf[q]
                     /\ ~ KeyTaken(q)

LifecycleInv == Serial /\ ReadStands /\ RowsKept /\ ReturnedIsStored
=============================================================================
