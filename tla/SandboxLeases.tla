--------------------------- MODULE SandboxLeases ---------------------------
(***************************************************************************)
(* The lease table of the backend's sandbox pool: biz/sandbox/impl          *)
(* service.go and pool.go, and the instance deletion of biz/agent.          *)
(*                                                                          *)
(* Redis holds, for every sandbox, a lease row (owner, InUse, when the      *)
(* provider lost it) and a cooldown key, and for every agent instance a     *)
(* hash of the sandboxes assigned to it.  Three kinds of processes touch    *)
(* them: task runs apply for a sandbox of their instance and give it back;  *)
(* administrators assign, unassign, list, clean up and delete instances;    *)
(* and the background refresh reconciles every row with the provider.       *)
(* Each Redis command is one step; a WATCH transaction is a read step and   *)
(* an EXEC step that fails when a watched key changed in between.           *)
(***************************************************************************)
EXTENDS Integers, FiniteSets, FiniteSetsExt

CONSTANTS
  Sandboxes,    \* sandbox ids, numbers: lock order is the order of the ids
  Instances,    \* agent instances
  Workers,      \* task runs that apply for and release sandboxes
  Home,         \* the instance of each worker
  Admins,       \* concurrent administrative requests
  Orgs,         \* organizations
  Projects,
  OrgOf,        \* the organization of each project
  ProjectOf,    \* the project of each instance
  Environments, \* the scenarios Init chooses from
  Nobody

Binding == [org : Orgs \cup {Nobody}, project : Projects \cup {Nobody}]

(* One scenario: the sandboxes and processes that take part, the workers    *)
(* that release what they got while the model runs, the administrative      *)
(* operations, the scope bindings of unassigned sandboxes, the bounds on    *)
(* operations per process and on reconciliation rounds, whether a lock's    *)
(* TTL may run out while its holder still works, and whether a request may  *)
(* fail or die in the middle.                                               *)
Environment ==
  [sandboxes : SUBSET Sandboxes, active : SUBSET (Workers \cup Admins),
   returning : SUBSET Workers, ops : SUBSET STRING, bindings : SUBSET Binding,
   maxOps : Nat, rounds : Nat, locksExpire : BOOLEAN, crashes : BOOLEAN]

ASSUME LeaseAssumptions ==
  /\ Sandboxes \subseteq Nat /\ IsFiniteSet(Sandboxes)
  /\ Nobody \notin Instances \cup Workers \cup Admins
  /\ Workers \cap Admins = {} /\ Instances # {}
  /\ Home \in [Workers -> Instances]
  /\ OrgOf \in [Projects -> Orgs] /\ ProjectOf \in [Instances -> Projects]
  /\ Nobody \notin Orgs \cup Projects
  /\ Environments \subseteq Environment /\ Environments # {}
  /\ \A e \in Environments : \A b \in e.bindings :
       b.project # Nobody => b.org = OrgOf[b.project]

VARIABLES
  env,       \* the scenario; no step changes it
  lease,     \* sandbox -> lease row
  assign,    \* instance -> the sandboxes of its assignment hash
  cooldown,  \* sandboxes whose cooldown key exists
  avail,     \* sandboxes the published snapshot shows as available
  alive,     \* instances with a row in MySQL
  scope,     \* sandbox -> its organization and project binding
  instLock,  \* instance -> holder of its assignment lock
  opLock,    \* sandbox -> holder of its operation lock
  proc,      \* process -> its control state and what it has read
  rec        \* the reconciler: rows read by MGet and rows still to visit

state == <<lease, assign, cooldown, avail, alive, scope, instLock, opLock, proc, rec>>
vars == <<env, state>>
table == <<lease, assign, cooldown>>
locks == <<instLock, opLock>>
Procs == Workers \cup Admins

(* MaxTries: the three attempts of assignSandboxAtomically,                 *)
(* unassignSandboxLocked and runScopeMutation.                              *)
MaxTries == 3

Row == [user : Instances \cup {Nobody}, inUse : BOOLEAN, missing : BOOLEAN]
NoLease == [user |-> Nobody, inUse |-> FALSE, missing |-> FALSE]
Fresh(i) == [user |-> i, inUse |-> FALSE, missing |-> FALSE]

NoScope == [org |-> Nobody, project |-> Nobody]
ScopeOf(i) == [org |-> OrgOf[ProjectOf[i]], project |-> ProjectOf[i]]

ListPcs == {"lsHash", "lsRead", "lsDel", "scan", "next", "erase"}
LockPcs == {"instLock", "opLock", "unlock", "unlockInst"}
ReleasePcs == {"relRead", "relSet", "relCool"}
AssignPcs == {"build", "exists", "asScope", "asRead", "asExec"}
UnassignPcs == {"unRead", "unTx", "unExec", "unGone"}
Pcs == {"idle", "pick", "using", "dead", "scope", "scopeExec", "claim"}
       \cup ListPcs \cup LockPcs \cup ReleasePcs \cup AssignPcs \cup UnassignPcs

At(i, n) ==
  [pc |-> "idle", op |-> "none", i |-> i, s |-> 0, row |-> NoLease, seen |-> NoScope,
   hash |-> {}, todo |-> {}, busy |-> {}, has |-> {}, ids |-> {}, held |-> {},
   back |-> "none", stage |-> 1, tries |-> 0, failed |-> FALSE, left |-> n]

TypeOK ==
  /\ lease \in [Sandboxes -> Row]
  /\ assign \in [Instances -> SUBSET Sandboxes]
  /\ cooldown \subseteq Sandboxes /\ avail \subseteq Sandboxes /\ alive \subseteq Instances
  /\ scope \in [Sandboxes -> Binding]
  /\ instLock \in [Instances -> Admins \cup {Nobody}]
  /\ opLock \in [Sandboxes -> Admins \cup {Nobody}]
  /\ \A p \in Procs : /\ proc[p].pc \in Pcs
                      /\ proc[p].left \in 0..env.maxOps
                      /\ proc[p].tries \in 0..MaxTries
                      /\ proc[p].held \subseteq proc[p].ids

(* The table starts with any assignment the operations below can leave:     *)
(* every assigned sandbox is idle, in its owner's hash and in its scope;    *)
(* the others have one of the given bindings.                               *)
Init ==
  /\ env \in Environments
  /\ \E owner \in [env.sandboxes -> Instances \cup {Nobody}], lost \in SUBSET env.sandboxes :
       /\ env.rounds = 0 => lost = {}
       /\ lease = [s \in Sandboxes |->
                    IF s \notin env.sandboxes \/ owner[s] = Nobody THEN NoLease
                    ELSE [Fresh(owner[s]) EXCEPT !.missing = s \in lost]]
       /\ assign = [i \in Instances |-> {s \in env.sandboxes : owner[s] = i}]
  /\ scope \in [Sandboxes -> env.bindings \cup {ScopeOf(i) : i \in Instances}]
  /\ \A s \in Sandboxes : IF lease[s].user = Nobody THEN scope[s] \in env.bindings
                          ELSE scope[s] = ScopeOf(lease[s].user)
  /\ cooldown = {}
  /\ avail = env.sandboxes
  /\ alive = Instances
  /\ instLock = [i \in Instances |-> Nobody]
  /\ opLock = [s \in Sandboxes |-> Nobody]
  /\ proc = [p \in Procs |->
              At(IF p \in Workers THEN Home[p] ELSE CHOOSE i \in Instances : TRUE,
                 IF p \in env.active THEN env.maxOps ELSE 0)]
  /\ rec = [pc |-> "wait", rows |-> [s \in Sandboxes |-> NoLease], live |-> {},
            todo |-> {}, left |-> env.rounds]

Goto(p, pc) == proc' = [proc EXCEPT ![p].pc = pc]
End(p) == proc' = [proc EXCEPT ![p] = At(@.i, @.left - 1)]

-----------------------------------------------------------------------------
(* Task runs.                                                               *)

(* ApplySandbox and AcquireAssignedLease: the candidates are the sandboxes  *)
(* the snapshot shows available and the instance's hash holds.              *)
ApplySandbox(w) ==
  LET q == proc[w]  cand == avail \cap assign[q.i] IN
  /\ w \in Workers /\ q.pc = "idle" /\ q.left > 0
  /\ IF cand = {} THEN End(w)
     ELSE proc' = [proc EXCEPT ![w] = [@ EXCEPT !.pc = "pick", !.todo = cand]]
  /\ UNCHANGED <<table, avail, alive, scope, locks, rec>>

CanAcquire_ignoresInUse(i, s) ==
  /\ lease[s].user = i
  /\ s \notin cooldown

(* acquireLeaseScript: one atomic script.                                   *)
CanAcquire(i, s) ==
  /\ lease[s].user = i
  /\ s \notin cooldown
  /\ ~lease[s].inUse

tryAcquireAssignedLease(w) ==
  LET q == proc[w] IN
  /\ w \in Workers /\ q.pc = "pick"
  /\ \E s \in q.todo :
       IF CanAcquire(q.i, s)
       THEN /\ lease' = [lease EXCEPT ![s].inUse = TRUE]
            /\ proc' = [proc EXCEPT ![w] = [@ EXCEPT !.pc = "using", !.s = s, !.todo = {}]]
       ELSE /\ IF q.todo = {s} THEN End(w)
               ELSE proc' = [proc EXCEPT ![w].todo = @ \ {s}]
            /\ UNCHANGED lease
  /\ UNCHANGED <<assign, cooldown, avail, alive, scope, locks, rec>>

StopUsing(w) ==
  /\ w \in env.returning /\ proc[w].pc = "using"
  /\ proc' = [proc EXCEPT ![w] = [@ EXCEPT !.pc = "relRead", !.back = "work"]]
  /\ UNCHANGED <<table, avail, alive, scope, locks, rec>>

-----------------------------------------------------------------------------
(* ReleaseSandbox and ReleaseLease, called by a task run, by an unassign    *)
(* and by the cleanup of an instance.  `back' is the caller.                *)

(* One more attempt, or the conflict error after the third.                 *)
Again(q, pc) ==
  [q EXCEPT !.tries = @ + 1, !.pc = IF q.tries + 1 = MaxTries THEN "unlock" ELSE pc]

(* Where the caller continues: out is "ok", "foreign" or "gone".            *)
ReleaseReturns(q, out) ==
  CASE q.back = "work"     -> At(q.i, q.left - 1)
    [] q.back \in {"unassign", "race"} /\ out = "ok" -> Again(q, "unRead")
    [] q.back = "unassign" /\ out # "ok" ->
         [q EXCEPT !.pc = IF out = "gone" THEN "unGone" ELSE "unlock"]
    [] q.back = "race" /\ out # "ok" ->
         [q EXCEPT !.pc = "unlock", !.failed = @ \/ out = "gone"]
    [] q.back = "clean"    ->
         IF out = "ok" THEN [q EXCEPT !.pc = "opLock"]
         ELSE [q EXCEPT !.pc = "next", !.failed = TRUE]

(* The reads of GetSandboxByID and getLease repeat the same tests; the one  *)
(* that counts is the last before the write.                                *)
ReleaseRead(p) ==
  LET q == proc[p]  r == lease[q.s] IN
  /\ q.pc = "relRead"
  /\ proc' = [proc EXCEPT ![p] =
       CASE r.user = Nobody -> ReleaseReturns(q, "gone")
         [] r.user # Nobody /\ r.user # q.i -> ReleaseReturns(q, "foreign")
         [] r.user = q.i /\ ~r.inUse -> ReleaseReturns(q, "ok")
         [] OTHER -> [q EXCEPT !.pc = "relSet", !.row = r]]
  /\ UNCHANGED <<table, avail, alive, scope, locks, rec>>

ReleaseSet_skipped(p) ==
  /\ proc[p].pc = "relSet"
  /\ Goto(p, "relCool")
  /\ UNCHANGED <<table, avail, alive, scope, locks, rec>>

(* The SET writes back the row that was read, whatever happened since.      *)
ReleaseSet(p) ==
  LET q == proc[p] IN
  /\ q.pc = "relSet"
  /\ lease' = [lease EXCEPT ![q.s] = [q.row EXCEPT !.inUse = FALSE]]
  /\ Goto(p, "relCool")
  /\ UNCHANGED <<assign, cooldown, avail, alive, scope, locks, rec>>

ReleaseCooldown(p) ==
  LET q == proc[p] IN
  /\ q.pc = "relCool"
  /\ cooldown' = cooldown \cup {q.s}
  /\ proc' = [proc EXCEPT ![p] = ReleaseReturns(q, "ok")]
  /\ UNCHANGED <<lease, assign, avail, alive, scope, locks, rec>>

CooldownExpires(s) ==
  /\ s \in cooldown
  /\ cooldown' = cooldown \ {s}
  /\ UNCHANGED <<lease, assign, avail, alive, scope, locks, proc, rec>>

-----------------------------------------------------------------------------
(* Locks.  WithInstanceAssignmentLock polls SET NX twenty times;            *)
(* withSandboxOperationLocks takes the sandboxes' locks in the order of     *)
(* their ids, within two seconds for all of them; both delete a lock only   *)
(* when it still carries their own value.                                   *)

AfterInstLock(op) == CASE op \in {"assign", "unassign"} -> "opLock"
                       [] op = "delete" -> "lsHash"
                       [] op = "clean" -> "scan"
AfterOpLock(op) == CASE op = "assign" -> "exists"
                     [] op \in {"unassign", "delete", "clean"} -> "unRead"
                     [] OTHER -> "scope"

AcquireInstanceLock(p) ==
  LET q == proc[p] IN
  /\ q.pc = "instLock" /\ instLock[q.i] = Nobody
  /\ instLock' = [instLock EXCEPT ![q.i] = p]
  /\ Goto(p, AfterInstLock(q.op))
  /\ UNCHANGED <<table, avail, alive, scope, opLock, rec>>

(* "instance sandbox operation is busy" after the last poll.                *)
InstanceBusy(p) ==
  /\ proc[p].pc = "instLock" /\ instLock[proc[p].i] # Nobody
  /\ End(p)
  /\ UNCHANGED <<table, avail, alive, scope, locks, rec>>

AcquireOperationLock(p) ==
  LET q == proc[p]  s == Min(q.ids \ q.held) IN
  /\ q.pc = "opLock" /\ opLock[s] = Nobody
  /\ opLock' = [opLock EXCEPT ![s] = p]
  /\ proc' = [proc EXCEPT ![p] =
       [q EXCEPT !.held = @ \cup {s}, !.tries = 0,
                 !.pc = IF q.held \cup {s} = q.ids THEN AfterOpLock(q.op) ELSE "opLock"]]
  /\ UNCHANGED <<table, avail, alive, scope, instLock, rec>>

(* The acquire deadline passed: what was taken is given back.               *)
OperationBusy(p) ==
  LET q == proc[p] IN
  /\ q.pc = "opLock" /\ opLock[Min(q.ids \ q.held)] # Nobody
  /\ Goto(p, "unlock")
  /\ UNCHANGED <<table, avail, alive, scope, locks, rec>>

(* releaseSandboxOperationLocks, last taken first; then the caller goes on. *)
AfterUnlock(q) ==
  CASE q.op \in {"assign", "unassign"} -> [q EXCEPT !.held = {}, !.pc = "unlockInst"]
    [] q.op \in {"delete", "clean"} -> [q EXCEPT !.held = {}, !.pc = "next"]
    [] OTHER -> At(q.i, q.left - 1)

ReleaseOperationLock(p) ==
  LET q == proc[p] IN
  /\ q.pc = "unlock"
  /\ IF q.held = {}
     THEN /\ proc' = [proc EXCEPT ![p] = AfterUnlock(q)]
          /\ UNCHANGED opLock
     ELSE LET s == Max(q.held) IN
          /\ opLock' = [opLock EXCEPT ![s] = IF @ = p THEN Nobody ELSE @]
          /\ proc' = [proc EXCEPT ![p] = IF q.held = {s} THEN AfterUnlock(q)
                                         ELSE [q EXCEPT !.held = @ \ {s}]]
  /\ UNCHANGED <<table, avail, alive, scope, instLock, rec>>

ReleaseInstanceLock(p) ==
  LET q == proc[p] IN
  /\ q.pc = "unlockInst"
  /\ instLock' = [instLock EXCEPT ![q.i] = IF @ = p THEN Nobody ELSE @]
  /\ End(p)
  /\ UNCHANGED <<table, avail, alive, scope, opLock, rec>>

(* A TTL runs out: of a request that died, and, in some scenarios, of one *)
(* that is merely slow.                                                     *)
Lapsed(h) == h \in Admins /\ (env.locksExpire \/ proc[h].pc = "dead")

LockExpires ==
  /\ \/ \E i \in Instances : /\ Lapsed(instLock[i])
                             /\ instLock' = [instLock EXCEPT ![i] = Nobody]
                             /\ UNCHANGED opLock
     \/ \E s \in Sandboxes : /\ Lapsed(opLock[s])
                             /\ opLock' = [opLock EXCEPT ![s] = Nobody]
                             /\ UNCHANGED instLock
  /\ UNCHANGED <<table, avail, alive, scope, proc, rec>>

Crash(p) ==
  /\ env.crashes /\ p \in Admins /\ proc[p].pc \notin {"idle", "dead"}
  /\ proc' = [proc EXCEPT ![p] = [At(@.i, 0) EXCEPT !.pc = "dead"]]
  /\ UNCHANGED <<table, avail, alive, scope, locks, rec>>

-----------------------------------------------------------------------------
(* Administrative requests.                                                 *)

First(op) == CASE op = "assign" -> "build"
               [] op \in {"unassign", "delete"} -> "instLock"
               [] op \in {"list", "clean"} -> "lsHash"

Request(p) ==
  /\ p \in Admins /\ proc[p].pc = "idle" /\ proc[p].left > 0
  /\ \E op \in env.ops \cap {"assign", "unassign", "delete", "list", "clean"},
        i \in Instances, s \in env.sandboxes :
       /\ op \in {"delete", "list", "clean"} => s = Min(env.sandboxes)
       /\ proc' = [proc EXCEPT ![p] =
            [@ EXCEPT !.pc = First(op), !.op = op, !.i = i, !.s = s,
                      !.ids = IF op \in {"assign", "unassign"} THEN {s} ELSE {}]]
  /\ UNCHANGED <<table, avail, alive, scope, locks, rec>>

(* buildLeaseForAssignment: the sandbox must be available in the snapshot.  *)
buildLeaseForAssignment(p) ==
  LET q == proc[p] IN
  /\ q.pc = "build"
  /\ IF q.s \in avail THEN Goto(p, "instLock") ELSE End(p)
  /\ UNCHANGED <<table, avail, alive, scope, locks, rec>>

InstanceExists_trusted(p) ==
  /\ proc[p].pc = "exists"
  /\ Goto(p, "asScope")
  /\ UNCHANGED <<table, avail, alive, scope, locks, rec>>

(* getInstanceByStringID, under both locks.                                 *)
InstanceExists(p) ==
  LET q == proc[p] IN
  /\ q.pc = "exists"
  /\ Goto(p, IF q.i \in alive THEN "asScope" ELSE "unlock")
  /\ UNCHANGED <<table, avail, alive, scope, locks, rec>>

(* validateAssignmentScope: unbound, or bound to the instance's scope.      *)
validateAssignmentScope(p) ==
  LET q == proc[p] IN
  /\ q.pc = "asScope"
  /\ proc' = [proc EXCEPT ![p] =
       IF scope[q.s] \in {NoScope, ScopeOf(q.i)}
       THEN [q EXCEPT !.pc = "asRead", !.seen = scope[q.s]]
       ELSE [q EXCEPT !.pc = "unlock"]]
  /\ UNCHANGED <<table, avail, alive, scope, locks, rec>>

(* runAssignSandboxTx, up to EXEC: the scopes must be the ones validated,   *)
(* and a row of another instance must be idle.                              *)
AssignTxRead(p) ==
  LET q == proc[p]  r == lease[q.s] IN
  /\ q.pc = "asRead"
  /\ proc' = [proc EXCEPT ![p] =
       IF scope[q.s] = q.seen /\ (r.user \in {Nobody, q.i} \/ ~r.inUse)
       THEN [q EXCEPT !.pc = "asExec", !.row = r, !.hash = assign[q.i]]
       ELSE [q EXCEPT !.pc = "unlock"]]
  /\ UNCHANGED <<table, avail, alive, scope, locks, rec>>

(* The new row is idle and not missing, even when the instance already held *)
(* the sandbox in use.                                                      *)
CommitAssign(p) ==
  LET q == proc[p] IN
  /\ lease' = [lease EXCEPT ![q.s] = Fresh(q.i)]
  /\ assign' = [i \in Instances |->
       IF i = q.i THEN assign[i] \cup {q.s}
       ELSE IF i = q.row.user THEN assign[i] \ {q.s} ELSE assign[i]]
  /\ Goto(p, "unlock")

AssignTxExec_unwatched(p) ==
  /\ proc[p].pc = "asExec"
  /\ CommitAssign(p)
  /\ UNCHANGED <<cooldown, avail, alive, scope, locks, rec>>

AssignTxExec(p) ==
  LET q == proc[p] IN
  /\ q.pc = "asExec"
  /\ \/ /\ lease[q.s] = q.row /\ assign[q.i] = q.hash /\ scope[q.s] = q.seen
        /\ CommitAssign(p)
     \/ /\ ~(lease[q.s] = q.row /\ assign[q.i] = q.hash /\ scope[q.s] = q.seen)
        /\ proc' = [proc EXCEPT ![p] = Again(q, "asRead")]
        /\ UNCHANGED <<lease, assign>>
  /\ UNCHANGED <<cooldown, avail, alive, scope, locks, rec>>

(* unassignSandboxOnce, first read.                                         *)
UnassignRead(p) ==
  LET q == proc[p]  r == lease[q.s] IN
  /\ q.pc = "unRead"
  /\ proc' = [proc EXCEPT ![p] =
       CASE r.user = Nobody -> [q EXCEPT !.pc = "unGone"]
         [] r.user \notin {Nobody, q.i} -> [q EXCEPT !.pc = "unlock"]
         [] r.user = q.i /\ r.inUse -> [q EXCEPT !.pc = "relRead", !.back = "unassign"]
         [] OTHER -> [q EXCEPT !.pc = "unTx"]]
  /\ UNCHANGED <<table, avail, alive, scope, locks, rec>>

(* clearMissingLeaseAssignment, and the HDEL of unassignReleaseInUseLease.  *)
clearMissingLeaseAssignment(p) ==
  LET q == proc[p] IN
  /\ q.pc = "unGone"
  /\ assign' = [assign EXCEPT ![q.i] = @ \ {q.s}]
  /\ Goto(p, "unlock")
  /\ UNCHANGED <<lease, cooldown, avail, alive, scope, locks, rec>>

(* runUnassignDeleteTx, up to EXEC.                                         *)
UnassignTxRead(p) ==
  LET q == proc[p]  r == lease[q.s] IN
  /\ q.pc = "unTx"
  /\ proc' = [proc EXCEPT ![p] =
       CASE r.user # q.i -> [q EXCEPT !.pc = "unlock"]
         [] r.user = q.i /\ r.inUse -> [q EXCEPT !.pc = "relRead", !.back = "race"]
         [] OTHER -> [q EXCEPT !.pc = "unExec", !.row = r, !.hash = assign[q.i]]]
  /\ UNCHANGED <<table, avail, alive, scope, locks, rec>>

UnassignTxExec_keepsHash(p) ==
  /\ proc[p].pc = "unExec"
  /\ lease' = [lease EXCEPT ![proc[p].s] = NoLease]
  /\ Goto(p, "unlock")
  /\ UNCHANGED <<assign, cooldown, avail, alive, scope, locks, rec>>

CommitUnassign(p) ==
  LET q == proc[p] IN
  /\ lease' = [lease EXCEPT ![q.s] = NoLease]
  /\ assign' = [assign EXCEPT ![q.i] = @ \ {q.s}]
  /\ Goto(p, "unlock")

UnassignTxExec(p) ==
  LET q == proc[p] IN
  /\ q.pc = "unExec"
  /\ \/ /\ lease[q.s] = q.row /\ assign[q.i] = q.hash
        /\ CommitUnassign(p)
     \/ /\ ~(lease[q.s] = q.row /\ assign[q.i] = q.hash)
        /\ proc' = [proc EXCEPT ![p] = Again(q, "unRead")]
        /\ UNCHANGED <<lease, assign>>
  /\ UNCHANGED <<cooldown, avail, alive, scope, locks, rec>>

(* A Redis command or the request's context fails: the error is returned    *)
(* through the deferred unlocks.                                            *)
RedisFails(p) ==
  LET q == proc[p] IN
  /\ env.crashes /\ p \in Admins
  /\ q.pc \in AssignPcs \cup {"unRead", "unTx", "unExec"} \cup ReleasePcs
  /\ proc' = [proc EXCEPT ![p] =
       IF q.pc = "build" THEN At(q.i, q.left - 1)
       ELSE [q EXCEPT !.failed = TRUE,
                      !.pc = IF q.back = "clean" /\ q.pc \in ReleasePcs THEN "next" ELSE "unlock"]]
  /\ UNCHANGED <<table, avail, alive, scope, locks, rec>>

-----------------------------------------------------------------------------
(* loadAssignedLeases: reads the hash, then every row of it, and removes    *)
(* the entries whose row is gone or has another owner.  The listing of an   *)
(* instance's sandboxes runs it under no lock.                              *)

ListReturns(q) ==
  CASE q.op = "list" -> At(q.i, q.left - 1)
    [] q.op = "clean" -> IF q.has = {} THEN At(q.i, q.left - 1) ELSE [q EXCEPT !.pc = "instLock"]
    [] q.op = "delete" ->
         [q EXCEPT !.pc = IF q.has = {} THEN "erase" ELSE IF q.stage = 1 THEN "scan" ELSE "unlockInst"]

ListHash(p) ==
  LET q == proc[p] IN
  /\ q.pc = "lsHash"
  /\ proc' = [proc EXCEPT ![p] = [q EXCEPT !.pc = "lsRead", !.todo = assign[q.i], !.has = {}]]
  /\ UNCHANGED <<table, avail, alive, scope, locks, rec>>

ListRow(p) ==
  LET q == proc[p] IN
  /\ q.pc = "lsRead"
  /\ \/ q.todo = {} /\ proc' = [proc EXCEPT ![p] = ListReturns(q)]
     \/ \E s \in q.todo :
          proc' = [proc EXCEPT ![p] =
            IF lease[s].user = q.i THEN [q EXCEPT !.todo = @ \ {s}, !.has = @ \cup {s}]
            ELSE [q EXCEPT !.todo = @ \ {s}, !.s = s, !.pc = "lsDel"]]
  /\ UNCHANGED <<table, avail, alive, scope, locks, rec>>

ListRemovesStale(p) ==
  LET q == proc[p] IN
  /\ q.pc = "lsDel"
  /\ assign' = [assign EXCEPT ![q.i] = @ \ {q.s}]
  /\ Goto(p, "lsRead")
  /\ UNCHANGED <<lease, cooldown, avail, alive, scope, locks, rec>>

(* cleanupInstanceSandboxes: every row of the instance, wherever it is      *)
(* listed.                                                                  *)
cleanupInstanceSandboxes(p) ==
  LET q == proc[p]  own == {s \in Sandboxes : lease[s].user = q.i} IN
  /\ q.pc = "scan"
  /\ proc' = [proc EXCEPT ![p] =
       [q EXCEPT !.pc = "next", !.todo = own, !.busy = {s \in own : lease[s].inUse}]]
  /\ UNCHANGED <<table, avail, alive, scope, locks, rec>>

(* cleanupSingleInstanceLease for the next lease; after the last one the    *)
(* deletion of the instance looks again.                                    *)
CleanupNext(p) ==
  LET q == proc[p] IN
  /\ q.pc = "next"
  /\ \/ /\ q.todo = {}
        /\ proc' = [proc EXCEPT ![p] =
             IF q.op = "delete" /\ ~q.failed THEN [q EXCEPT !.pc = "lsHash", !.stage = 2]
             ELSE [q EXCEPT !.pc = "unlockInst"]]
     \/ \E s \in q.todo :
          proc' = [proc EXCEPT ![p] =
            [q EXCEPT !.todo = @ \ {s}, !.s = s, !.ids = {s}, !.back = "clean",
                      !.pc = IF s \in q.busy THEN "relRead" ELSE "opLock"]]
  /\ UNCHANGED <<table, avail, alive, scope, locks, rec>>

(* SingleAgentInstanceRepo.Delete.                                          *)
deleteSingleAgentInstance(p) ==
  LET q == proc[p] IN
  /\ q.pc = "erase"
  /\ alive' = alive \ {q.i}
  /\ Goto(p, "unlockInst")
  /\ UNCHANGED <<table, avail, scope, locks, rec>>

-----------------------------------------------------------------------------
(* The background refresh, on the replica that leads.                       *)

(* persistTypeSnapshots publishes a new snapshot ...                        *)
PublishSnapshot ==
  /\ rec.pc = "wait" /\ rec.left > 0
  /\ avail' \in SUBSET env.sandboxes
  /\ rec' = [rec EXCEPT !.pc = "read", !.left = @ - 1]
  /\ UNCHANGED <<table, alive, scope, locks, proc>>

(* ... and reconcileLeaseProviderState reads all rows with one MGET.  live  *)
(* is what the provider was seen to offer: within the grace periods the     *)
(* snapshot may still show a sandbox the provider no longer has.            *)
ReconcileRead ==
  /\ rec.pc = "read"
  /\ \E live \in SUBSET env.sandboxes :
       rec' = [rec EXCEPT !.pc = "visit", !.rows = lease, !.live = live,
                          !.todo = {s \in Sandboxes : lease[s].user # Nobody}]
  /\ UNCHANGED <<table, avail, alive, scope, locks, proc>>

(* reconcileLeaseEntry.  persistLease and deleteLeaseAndAssignment write    *)
(* without looking at the row again.                                        *)
WriteBack(s, row) == lease' = [lease EXCEPT ![s] = row] /\ UNCHANGED assign

ReconcileEntry ==
  /\ rec.pc = "visit"
  /\ \E s \in rec.todo :
       LET row == rec.rows[s] IN
       /\ \/ /\ s \in rec.live /\ row.missing
             /\ WriteBack(s, [row EXCEPT !.missing = FALSE])
          \/ /\ s \notin rec.live /\ ~row.missing
             /\ WriteBack(s, [row EXCEPT !.missing = TRUE])
          \/ /\ s \notin rec.live /\ row.missing    \* missing for missingLeaseDeleteAfter
             /\ lease' = [lease EXCEPT ![s] = NoLease]
             /\ assign' = [assign EXCEPT ![row.user] = @ \ {s}]
          \/ /\ s \in rec.live <=> ~row.missing
             /\ UNCHANGED <<lease, assign>>
       /\ rec' = [rec EXCEPT !.todo = @ \ {s}]
  /\ UNCHANGED <<cooldown, avail, alive, scope, locks, proc>>

ReconcileEnds ==
  /\ rec.pc = "visit" /\ rec.todo = {}
  /\ rec' = [rec EXCEPT !.pc = "wait", !.rows = [s \in Sandboxes |-> NoLease], !.live = {}]
  /\ UNCHANGED <<table, avail, alive, scope, locks, proc>>

(* mergeResolvedResourceIntoLease: a WATCH transaction that clears the      *)
(* missing mark of a sandbox just found available.                          *)
mergeResolvedResourceIntoLease(s) ==
  /\ env.rounds > 0
  /\ lease[s].missing
  /\ lease' = [lease EXCEPT ![s].missing = FALSE]
  /\ UNCHANGED <<assign, cooldown, avail, alive, scope, locks, proc, rec>>

-----------------------------------------------------------------------------
WorkerStep(w) ==
  ApplySandbox(w) \/ StopUsing(w)

ReleaseStep(p) == ReleaseRead(p) \/ ReleaseSet(p) \/ ReleaseCooldown(p)

LockStep(p) ==
  \/ AcquireInstanceLock(p) \/ InstanceBusy(p) \/ ReleaseInstanceLock(p)
  \/ AcquireOperationLock(p) \/ OperationBusy(p) \/ ReleaseOperationLock(p)

AssignStep(p) ==
  \/ buildLeaseForAssignment(p) \/ InstanceExists(p) \/ validateAssignmentScope(p)
  \/ AssignTxRead(p) \/ AssignTxExec(p)

UnassignStep(p) ==
  \/ UnassignRead(p) \/ clearMissingLeaseAssignment(p)
  \/ UnassignTxRead(p) \/ UnassignTxExec(p)

InstanceStep(p) ==
  \/ ListHash(p) \/ ListRow(p) \/ ListRemovesStale(p)
  \/ cleanupInstanceSandboxes(p) \/ CleanupNext(p) \/ deleteSingleAgentInstance(p)

(* What a request does once it has begun.                                   *)
Progress(p) ==
  \/ tryAcquireAssignedLease(p) \/ ReleaseStep(p) \/ LockStep(p)
  \/ AssignStep(p) \/ UnassignStep(p) \/ InstanceStep(p)

Reconcile == PublishSnapshot \/ ReconcileRead \/ ReconcileEntry \/ ReconcileEnds

LeaseNext ==
  /\ \/ \E w \in Workers : WorkerStep(w)
     \/ \E p \in Admins : Request(p) \/ RedisFails(p) \/ Crash(p)
     \/ \E p \in Procs : Progress(p)
     \/ \E s \in Sandboxes : CooldownExpires(s) \/ mergeResolvedResourceIntoLease(s)
     \/ LockExpires
     \/ Reconcile
  /\ UNCHANGED env

Spec == Init /\ [][LeaseNext]_vars

(* A goroutine that can run its next command does; a TTL that can run out   *)
(* does.  Nothing makes a request begin, or a worker stop using a sandbox.  *)
Fairness ==
  /\ \A p \in Procs : WF_state(Progress(p))
  /\ WF_state(\E s \in Sandboxes : CooldownExpires(s))

FairSpec == Spec /\ Fairness

-----------------------------------------------------------------------------
RunsAlone == env.ops = {} /\ env.rounds = 0

(* No two task runs use one sandbox at a time: acquireLeaseScript gives an  *)
(* idle row to one caller, and only its holder's ReleaseLease makes it idle *)
(* again.  For the traffic of task runs alone: an administrator may take a  *)
(* sandbox from a run, and a reconciliation round may hide its use.         *)
ExclusiveUse ==
  RunsAlone => \A v, w \in Workers :
    v # w /\ proc[v].pc = "using" /\ proc[w].pc = "using" => proc[v].s # proc[w].s

(* No row or hash is written outside a transaction while another request    *)
(* may write it: no worker releases, no round writes back, no listing       *)
(* prunes under no lock (that of a cleanup does), and where requests        *)
(* release or prune under the instance's lock, it does not expire and no    *)
(* project, which does not take it, gives the sandbox up.                   *)
Transactional ==
  /\ env.returning = {} /\ env.rounds = 0 /\ env.ops \cap {"list", "clean"} = {}
  /\ env.ops \cap {"unassign", "delete"} # {} =>
       ~env.locksExpire /\ "fromProject" \notin env.ops

(* A hash names exactly the sandboxes whose row names that instance:        *)
(* assignment and unassignment change both keys in one transaction.  A row  *)
(* outside its owner's hash would be a sandbox nobody can use, a hash entry *)
(* without a row one that ApplySandbox tries in vain.                       *)
HashMatchesRows ==
  Transactional => \A i \in Instances, s \in Sandboxes : s \in assign[i] <=> lease[s].user = i

(* A deleted instance keeps no sandbox in its hash, although an assignment  *)
(* to it may be under way when deleteSingleAgentInstance starts, and        *)
(* whatever runs, cleanups, listings and reconciliation rounds do           *)
(* meanwhile: the instance lock and the look at MySQL under it order the    *)
(* two, as long as no lock runs out under its holder.                       *)
DeletedHoldsNothing ==
  ~env.locksExpire => \A i \in Instances \ alive : assign[i] = {}

(* Whatever races with it, the commit of an assignment never takes from     *)
(* another instance a sandbox that is in use at that moment, and leaves it  *)
(* in a scope the instance may use.                                         *)
AssignTakesNoBusySandbox ==
  [][\A p \in Admins :
       LET q == proc[p] IN
       q.pc = "asExec" /\ AssignTxExec(p) /\ lease' # lease =>
         /\ lease[q.s].user \notin {Nobody, q.i} => ~lease[q.s].inUse
         /\ scope[q.s] \in {NoScope, ScopeOf(q.i)}]_state

(* A sandbox a task run gives back can be acquired again later, or another  *)
(* run has it: neither a lost release nor the cooldown strands it.          *)
ReleasedComesBack ==
  \A w \in Workers, s \in Sandboxes :
    RunsAlone /\ proc[w].pc \in ReleasePcs /\ proc[w].s = s ~>
      \/ CanAcquire(Home[w], s)
      \/ \E v \in Workers : proc[v].pc = "using" /\ proc[v].s = s

====
