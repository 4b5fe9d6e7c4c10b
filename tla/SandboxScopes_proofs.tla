------------------------ MODULE SandboxScopes_proofs ------------------------
(***************************************************************************)
(* Proofs about SandboxLeases and SandboxScopes.  First what their steps    *)
(* keep, process by process: where a request is, what it has read, and how  *)
(* both relate to the locks, rows and hashes.  Then the steps that change   *)
(* locks, rows, hashes, bindings or instances, and what follows for every   *)
(* behaviour.                                                               *)
(***************************************************************************)
EXTENDS SandboxScopes, TLAPS

(* The shape of a process.                                                  *)
Fields == {"pc", "op", "i", "s", "row", "seen", "hash", "todo", "busy", "has", "ids", "held",
           "back", "stage", "tries", "failed", "left"}

Typed(q) ==
  /\ DOMAIN q = Fields
  /\ q.i \in Instances /\ q.s \in Sandboxes \cup {0}
  /\ q.row \in Row /\ q.seen \in Binding /\ q.todo \subseteq Sandboxes

(* The steps each operation consists of.                                    *)
Place(q) ==
  \/ q.op = "none" /\ q.pc \in {"idle", "dead"}
  \/ q.op = "assign" /\ q.pc \in AssignPcs \cup LockPcs
  \/ q.op = "unassign" /\ q.pc \in UnassignPcs \cup LockPcs \cup ReleasePcs
  \/ q.op = "delete" /\ q.pc \in UnassignPcs \cup LockPcs \cup ReleasePcs \cup ListPcs
  \/ q.op = "clean" /\ q.pc \in UnassignPcs \cup LockPcs \cup ReleasePcs \cup (ListPcs \ {"erase"})
  \/ q.op = "list" /\ q.pc \in {"lsHash", "lsRead", "lsDel"}
  \/ q.op \in ScopeOps /\ q.pc \in {"opLock", "unlock", "scope", "scopeExec"}
  \/ q.op = "claim" /\ q.pc = "claim"

OneSandbox == {"assign", "unassign", "delete", "clean", "list"}

(* A request knows its sandbox and, inside a release, who called it.        *)
Knows(q) ==
  /\ q.op \in env.ops \cup {"none"}
  /\ q.op \in OneSandbox => q.s \in Sandboxes
  /\ q.pc \in ReleasePcs => q.back \in {"unassign", "race"} \/ (q.back = "clean" /\ q.op # "unassign")

(* What the reads that led to a step have shown.                            *)
Reads(q) ==
  /\ q.pc \in {"asRead", "asExec"} => q.seen \in {NoScope, ScopeOf(q.i)}
  /\ q.pc = "asExec" => q.row.user \in {Nobody, q.i} \/ ~q.row.inUse
  /\ q.pc = "unExec" => q.row.user = q.i
  /\ q.pc = "relSet" => q.row.user = q.i /\ q.row.inUse
  /\ q.op \in ScopeOps => q.seen.project \in Projects /\ q.seen.org = OrgOf[q.seen.project]

AdminFine(q) == Typed(q) /\ Place(q) /\ Knows(q) /\ Reads(q)

WorkerFine(w, q) ==
  /\ Typed(q) /\ q.i = Home[w] /\ q.op = "none"
  /\ q.pc \in {"idle", "pick", "using"} \cup ReleasePcs
  /\ q.pc \in ReleasePcs => q.back = "work" /\ w \in env.returning
  /\ q.pc \in {"using"} \cup ReleasePcs => q.s \in Sandboxes
  /\ q.pc = "relSet" => q.row.user = q.i /\ q.row.inUse

Fine(p, q) == IF p \in Workers THEN WorkerFine(p, q) ELSE AdminFine(q)

(* The steps a request takes under the lock of its instance.                *)
Critical(q) ==
  /\ q.pc \notin {"idle", "dead", "build", "instLock"}
  /\ \/ q.op \in {"assign", "unassign", "delete"}
     \/ q.op = "clean" /\ q.pc \notin {"lsHash", "lsRead", "lsDel"}

(* While locks last: who is in a critical step holds the lock, who assigns  *)
(* has a living instance, and a deletion that looks through its hash has    *)
(* seen or will see all of it.                                              *)
Locked(p, q) ==
  ~env.locksExpire =>
    /\ Critical(q) => instLock[q.i] = p
    /\ q.pc \in {"asScope", "asRead", "asExec"} => q.i \in alive
    /\ q.op = "delete" =>
         /\ q.pc = "lsRead" => assign[q.i] \subseteq q.todo \cup q.has
         /\ q.pc = "lsDel" => assign[q.i] \subseteq q.todo \cup q.has \cup {q.s}
         /\ q.pc = "erase" => assign[q.i] = {}

(* Where rows and hashes agree: what a request is about to prune has        *)
(* another owner, and a row it is about to write back is still its own and  *)
(* in use.                                                                  *)
Current(q) ==
  Transactional =>
    /\ q.pc \in {"unGone", "lsDel"} => lease[q.s].user # q.i
    /\ q.pc = "relSet" => lease[q.s].user = q.i /\ lease[q.s].inUse

TableTypes ==
  /\ env \in Environments
  /\ lease \in [Sandboxes -> Row]
  /\ assign \in [Instances -> SUBSET Sandboxes]
  /\ scope \in [Sandboxes -> Binding]
  /\ instLock \in [Instances -> Admins \cup {Nobody}]
  /\ alive \subseteq Instances
  /\ avail \subseteq Sandboxes

(* The reconciler visits rows that have an owner.                           *)
RecFine ==
  /\ DOMAIN rec = {"pc", "rows", "live", "todo", "left"}
  /\ rec.pc \in {"wait", "read", "visit"} /\ rec.rows \in [Sandboxes -> Row]
  /\ rec.todo \subseteq Sandboxes /\ rec.left \in Nat
  /\ \A s \in rec.todo : rec.rows[s].user \in Instances
  /\ env.rounds = 0 => rec.pc = "wait" /\ rec.left = 0

Local ==
  /\ DOMAIN proc = Procs
  /\ \A p \in Procs : Fine(p, proc[p])

Guarded == \A p \in Admins : Locked(p, proc[p]) /\ Current(proc[p])

LeaseInv == TableTypes /\ RecFine /\ Local /\ Guarded /\ DeletedHoldsNothing /\ HashMatchesRows

(* A transaction that reached EXEC was accepted for what it has read.       *)
SnapFine ==
  /\ DOMAIN snap = Admins
  /\ \A p \in Admins : proc[p].pc = "scopeExec" =>
       \A s \in proc[p].ids : Accepts(proc[p].op, proc[p].seen, snap[p].scope[s])

ScopeInv == LeaseInv /\ SnapFine /\ ProjectInsideOrg

(* Task runs alone: who uses a sandbox has its row, and nobody else does.   *)
Holds(w) == proc[w].pc \in {"using", "relRead", "relSet"}

AloneInv ==
  RunsAlone =>
    /\ \A p \in Admins : proc[p].op = "none"
    /\ \A w \in Workers : Holds(w) =>
         lease[proc[w].s].inUse /\ lease[proc[w].s].user = proc[w].i
    /\ \A v, w \in Workers : v # w /\ Holds(v) /\ Holds(w) => proc[v].s # proc[w].s

-----------------------------------------------------------------------------
(* The constants.                                                           *)
LEMMA ConstantFacts ==
  /\ \A p \in Procs : p \in Workers \/ (p \in Admins /\ p \notin Workers)
  /\ \A p \in Admins : p \notin Workers /\ p \in Procs /\ p # Nobody
  /\ \A i \in Instances : i # Nobody /\ ScopeOf(i) \in Binding
                          /\ ScopeOf(i).project \in Projects
                          /\ ScopeOf(i).org = OrgOf[ScopeOf(i).project]
  /\ NoScope \in Binding /\ NoLease \in Row
  /\ \A j \in Projects : OrgOf[j] \in Orgs /\ OrgOf[j] # Nobody /\ j # Nobody
  /\ \A w \in Workers : Home[w] \in Instances /\ w \in Procs
BY LeaseAssumptions DEF Procs, Binding, Row, NoScope, NoLease, ScopeOf

LEMMA EnvFacts ==
  ASSUME env \in Environments
  PROVE  /\ env.locksExpire \in BOOLEAN /\ env.sandboxes \subseteq Sandboxes
         /\ env.bindings \subseteq Binding /\ env.rounds \in Nat
         /\ \A b \in env.bindings : b.project # Nobody => b.org = OrgOf[b.project]
BY Zenon, LeaseAssumptions DEF Environment

(* A process back at its start.                                             *)
LEMMA Starts ==
  ASSUME NEW i \in Instances, NEW n
  PROVE  Typed(At(i, n)) /\ At(i, n).pc = "idle" /\ At(i, n).op = "none" /\ At(i, n).i = i
BY Zenon, ConstantFacts DEF Typed, Fields, At

-----------------------------------------------------------------------------
(* A process at work is a request of an administrator, or inside a release. *)
LEMMA AdminAt ==
  ASSUME LeaseInv, NEW p \in Procs, proc[p].pc \notin {"idle", "pick", "using"} \cup ReleasePcs
  PROVE  p \in Admins /\ AdminFine(proc[p]) /\ Locked(p, proc[p]) /\ Current(proc[p])
BY Zenon, ConstantFacts DEF LeaseInv, Local, Guarded, Fine, WorkerFine

(* A step that changes one process, and nothing the invariants speak of.    *)
LEMMA Quiet ==
  ASSUME LeaseInv, NEW p \in Procs, NEW x, proc' = [proc EXCEPT ![p] = x],
         Fine(p, x), p \in Admins => Locked(p, x) /\ Current(x),
         UNCHANGED <<env, lease, assign, avail, alive, scope, instLock, rec>>
  PROVE  LeaseInv'
<1>1. TableTypes' /\ RecFine' /\ DeletedHoldsNothing' /\ HashMatchesRows'
  BY Zenon DEF LeaseInv, TableTypes, RecFine, DeletedHoldsNothing, HashMatchesRows, Transactional
<1>2. \A r \in Procs : proc'[r] = IF r = p THEN x ELSE proc[r]
  BY Zenon DEF LeaseInv, Local
<1>3. \A r \in Procs : Fine(r, proc[r])' 
  BY <1>2 DEF LeaseInv, Local, Fine, WorkerFine, AdminFine, Knows
<1>4. \A r \in Admins : Locked(r, proc[r])' /\ Current(proc[r])'
  BY <1>2, ConstantFacts DEF LeaseInv, Guarded, Locked, Current, Transactional
<1>5. Local' /\ Guarded'
  BY Zenon, <1>3, <1>4 DEF LeaseInv, Local, Guarded
<1> QED BY Zenon, <1>1, <1>5 DEF LeaseInv

(* Steps of an assignment before its commit.                                *)
LEMMA ValidateStep ==
  ASSUME LeaseInv, NEW p \in Procs, UNCHANGED env, validateAssignmentScope(p)
  PROVE  LeaseInv'
<1> DEFINE q == proc[p]
<1>1. p \in Admins /\ AdminFine(q) /\ Locked(p, q) /\ Current(q) /\ q.pc = "asScope"
  BY Zenon, AdminAt DEF validateAssignmentScope, ReleasePcs
<1>2. PICK x : /\ proc' = [proc EXCEPT ![p] = x]
               /\ \/ /\ scope[q.s] \in {NoScope, ScopeOf(q.i)}
                     /\ x = [q EXCEPT !.pc = "asRead", !.seen = scope[q.s]]
                  \/ x = [q EXCEPT !.pc = "unlock"]
  BY ZenonT(30) DEF validateAssignmentScope
<1>3. scope[q.s] \in Binding
  BY Zenon, <1>1 DEF LeaseInv, TableTypes, AdminFine, Knows, Place, OneSandbox, AssignPcs, LockPcs, ReleasePcs, ListPcs, UnassignPcs, ScopeOps
<1>4. AdminFine(x)
  BY ZenonT(30), <1>1, <1>2, <1>3 DEF AdminFine, Typed, Fields, Place, Knows, Reads, OneSandbox, AssignPcs, LockPcs, ReleasePcs, ListPcs, UnassignPcs, ScopeOps
<1>5. Locked(p, x) /\ Current(x)
  BY ZenonT(30), <1>1, <1>2 DEF Locked, Current, Critical, AdminFine, Typed, Fields, Place, AssignPcs, LockPcs, ReleasePcs, ListPcs, UnassignPcs, ScopeOps
<1> QED BY ZenonT(30), <1>1, <1>2, <1>4, <1>5, Quiet, ConstantFacts DEF Fine, validateAssignmentScope, table, locks

LEMMA BuildStep ==
  ASSUME LeaseInv, NEW p \in Procs, UNCHANGED env, buildLeaseForAssignment(p)
  PROVE  LeaseInv'
<1> DEFINE q == proc[p]
<1> USE DEF AssignPcs, LockPcs, ReleasePcs, ListPcs, UnassignPcs, ScopeOps
<1>1. p \in Admins /\ AdminFine(q) /\ Locked(p, q) /\ Current(q) /\ q.pc = "build"
  BY Zenon, AdminAt DEF buildLeaseForAssignment
<1>2. PICK x : /\ proc' = [proc EXCEPT ![p] = x]
               /\ x = [q EXCEPT !.pc = "instLock"] \/ x = At(q.i, q.left - 1)
  BY Zenon DEF buildLeaseForAssignment, Goto, End
<1>3. AdminFine(x)
  BY SMTT(30), <1>1, <1>2, Starts DEF AdminFine, Typed, Fields, Place, Knows, Reads, OneSandbox
<1>4. Locked(p, x) /\ Current(x)
  BY <1>1, <1>2, Starts DEF Locked, Current, Critical, AdminFine, Typed, Fields, Place
<1> QED BY ZenonT(30), <1>1, <1>2, <1>3, <1>4, Quiet, ConstantFacts DEF Fine, buildLeaseForAssignment, table, locks

LEMMA ExistsStep ==
  ASSUME LeaseInv, NEW p \in Procs, UNCHANGED env, InstanceExists(p)
  PROVE  LeaseInv'
<1> DEFINE q == proc[p]
<1> USE DEF AssignPcs, LockPcs, ReleasePcs, ListPcs, UnassignPcs, ScopeOps
<1>1. p \in Admins /\ AdminFine(q) /\ Locked(p, q) /\ Current(q) /\ q.pc = "exists"
  BY Zenon, AdminAt DEF InstanceExists
<1>2. PICK x : /\ proc' = [proc EXCEPT ![p] = x]
               /\ \/ x = [q EXCEPT !.pc = "asScope"] /\ q.i \in alive
                  \/ x = [q EXCEPT !.pc = "unlock"]
  BY ZenonT(30) DEF InstanceExists, Goto
<1>3. AdminFine(x)
  BY Zenon, <1>1, <1>2 DEF AdminFine, Typed, Fields, Place, Knows, Reads, OneSandbox
<1>4. Locked(p, x) /\ Current(x)
  BY <1>1, <1>2 DEF Locked, Current, Critical, AdminFine, Typed, Fields, Place
<1> QED BY ZenonT(30), <1>1, <1>2, <1>3, <1>4, Quiet, ConstantFacts DEF Fine, InstanceExists, table, locks

LEMMA AssignReadStep ==
  ASSUME LeaseInv, NEW p \in Procs, UNCHANGED env, AssignTxRead(p)
  PROVE  LeaseInv'
<1> DEFINE q == proc[p]  r == lease[q.s]
<1> USE DEF AssignPcs, LockPcs, ReleasePcs, ListPcs, UnassignPcs, ScopeOps
<1>1. p \in Admins /\ AdminFine(q) /\ Locked(p, q) /\ Current(q) /\ q.pc = "asRead"
  BY Zenon, AdminAt DEF AssignTxRead
<1>2. PICK x : /\ proc' = [proc EXCEPT ![p] = x]
               /\ \/ /\ r.user \in {Nobody, q.i} \/ ~r.inUse
                     /\ x = [q EXCEPT !.pc = "asExec", !.row = r, !.hash = assign[q.i]]
                  \/ x = [q EXCEPT !.pc = "unlock"]
  BY ZenonT(30) DEF AssignTxRead
<1>3. r \in Row
  BY Zenon, <1>1 DEF LeaseInv, TableTypes, AdminFine, Knows, Place, OneSandbox
<1>4. AdminFine(x)
  BY ZenonT(30), <1>1, <1>2, <1>3 DEF AdminFine, Typed, Fields, Place, Knows, Reads, OneSandbox
<1>5. Locked(p, x) /\ Current(x)
  BY ZenonT(30), <1>1, <1>2 DEF Locked, Current, Critical, AdminFine, Typed, Fields, Place
<1> QED BY ZenonT(30), <1>1, <1>2, <1>4, <1>5, Quiet, ConstantFacts DEF Fine, AssignTxRead, table, locks

(* Another attempt, or the end after the third.                             *)
LEMMA AgainKeeps ==
  ASSUME LeaseInv, NEW p \in Admins, NEW q, AdminFine(q), Locked(p, q), Current(q), NEW c,
         \/ q.op = "assign" /\ q.pc = "asExec" /\ c = "asRead"
         \/ q.op \in {"unassign", "delete", "clean"} /\ c = "unRead"
              /\ q.pc \in UnassignPcs \cup ReleasePcs
         \/ q.op \in ScopeOps /\ q.pc = "scopeExec" /\ c = "scope"
  PROVE  AdminFine(Again(q, c)) /\ Locked(p, Again(q, c)) /\ Current(Again(q, c))
<1> DEFINE x == Again(q, c)
<1> USE DEF AssignPcs, LockPcs, ReleasePcs, ListPcs, UnassignPcs, ScopeOps
<1>0. PICK d \in {c, "unlock"} : x = [q EXCEPT !.tries = @ + 1, !.pc = d]
  BY Zenon DEF Again
<1>1. /\ DOMAIN x = DOMAIN q /\ x.pc \in {c, "unlock"}
      /\ x.op = q.op /\ x.i = q.i /\ x.s = q.s /\ x.row = q.row /\ x.seen = q.seen
      /\ x.todo = q.todo /\ x.has = q.has /\ x.back = q.back
  BY Zenon, <1>0 DEF AdminFine, Typed, Fields
<1> HIDE DEF x
<1>2. AdminFine(x)
  BY Zenon, <1>1 DEF AdminFine, Typed, Place, Knows, Reads, OneSandbox
<1>3. Locked(p, x) /\ Current(x)
  BY Zenon, <1>1 DEF Locked, Current, Critical, AdminFine, Place
<1> QED BY Zenon, <1>2, <1>3 DEF x

LEMMA UnassignReadStep ==
  ASSUME LeaseInv, NEW p \in Procs, UNCHANGED env, UnassignRead(p)
  PROVE  LeaseInv'
<1> DEFINE q == proc[p]  r == lease[q.s]
<1> USE DEF AssignPcs, LockPcs, ReleasePcs, ListPcs, UnassignPcs, ScopeOps
<1>1. p \in Admins /\ AdminFine(q) /\ Locked(p, q) /\ Current(q) /\ q.pc = "unRead"
  BY Zenon, AdminAt DEF UnassignRead
<1> DEFINE x == CASE r.user = Nobody -> [q EXCEPT !.pc = "unGone"]
                  [] r.user \notin {Nobody, q.i} -> [q EXCEPT !.pc = "unlock"]
                  [] r.user = q.i /\ r.inUse -> [q EXCEPT !.pc = "relRead", !.back = "unassign"]
                  [] OTHER -> [q EXCEPT !.pc = "unTx"]
<1>2. proc' = [proc EXCEPT ![p] = x]
  BY Zenon DEF UnassignRead
<1>3. \/ x = [q EXCEPT !.pc = "unGone"] /\ r.user = Nobody
      \/ x = [q EXCEPT !.pc = "unlock"]
      \/ x = [q EXCEPT !.pc = "relRead", !.back = "unassign"]
      \/ x = [q EXCEPT !.pc = "unTx"]
  BY SMTT(30)
<1> HIDE DEF x
<1>4. AdminFine(x)
  BY ZenonT(30), <1>1, <1>3 DEF AdminFine, Typed, Fields, Place, Knows, Reads, OneSandbox
<1>5. q.i # Nobody
  BY Zenon, <1>1, ConstantFacts DEF AdminFine, Typed
<1>6. x.i = q.i /\ x.s = q.s /\ x.op = q.op /\ (x.pc = "unGone" => r.user = Nobody)
      /\ x.pc \in {"unGone", "unlock", "relRead", "unTx"}
  BY ZenonT(30), <1>1, <1>3 DEF AdminFine, Typed, Fields
<1>7. Locked(p, x) /\ Current(x)
  BY Zenon, <1>1, <1>5, <1>6 DEF Locked, Current, Critical, AdminFine, Place
<1> QED BY ZenonT(30), <1>1, <1>2, <1>4, <1>7, Quiet, ConstantFacts DEF Fine, UnassignRead, table, locks

LEMMA UnassignTxReadStep ==
  ASSUME LeaseInv, NEW p \in Procs, UNCHANGED env, UnassignTxRead(p)
  PROVE  LeaseInv'
<1> DEFINE q == proc[p]  r == lease[q.s]
<1> USE DEF AssignPcs, LockPcs, ReleasePcs, ListPcs, UnassignPcs, ScopeOps
<1>1. p \in Admins /\ AdminFine(q) /\ Locked(p, q) /\ Current(q) /\ q.pc = "unTx"
  BY Zenon, AdminAt DEF UnassignTxRead
<1>2. PICK x : /\ proc' = [proc EXCEPT ![p] = x]
               /\ \/ x = [q EXCEPT !.pc = "unlock"]
                  \/ x = [q EXCEPT !.pc = "relRead", !.back = "race"]
                  \/ x = [q EXCEPT !.pc = "unExec", !.row = r, !.hash = assign[q.i]] /\ r.user = q.i
  BY ZenonT(30) DEF UnassignTxRead
<1>3. r \in Row
  BY Zenon, <1>1 DEF LeaseInv, TableTypes, AdminFine, Knows, Place, OneSandbox
<1>4. AdminFine(x)
  BY ZenonT(30), <1>1, <1>2, <1>3 DEF AdminFine, Typed, Fields, Place, Knows, Reads, OneSandbox
<1>5. Locked(p, x) /\ Current(x)
  BY ZenonT(30), <1>1, <1>2 DEF Locked, Current, Critical, AdminFine, Typed, Fields, Place
<1> QED BY ZenonT(30), <1>1, <1>2, <1>4, <1>5, Quiet, ConstantFacts DEF Fine, UnassignTxRead, table, locks

-----------------------------------------------------------------------------
(* Locks, requests and their ends.                                          *)

(* A request that ends, or dies, holds no lock and owes nothing.            *)
LEMMA EndKeeps ==
  ASSUME NEW p \in Admins, NEW i \in Instances, NEW n, NEW x,
         x = At(i, n) \/ x = [At(i, n) EXCEPT !.pc = "dead"]
  PROVE  AdminFine(x) /\ Locked(p, x) /\ Current(x)
<1>1. DOMAIN At(i, n) = Fields /\ At(i, n).row = NoLease /\ At(i, n).seen = NoScope
      /\ At(i, n).todo = {} /\ At(i, n).s = 0
  BY Zenon DEF At, Fields
<1>2. /\ Typed(x) /\ x.op = "none" /\ x.pc \in {"idle", "dead"}
  BY <1>1, Starts DEF Typed, Fields
<1>3. Place(x) /\ Knows(x) /\ Reads(x)
  BY Zenon, <1>2 DEF Place, Knows, Reads, OneSandbox, ReleasePcs, ScopeOps
<1> QED BY Zenon, <1>2, <1>3 DEF AdminFine, Locked, Current, Critical

(* A request that goes on to its unlocking.                                 *)
LEMMA UnlockKeeps ==
  ASSUME NEW p \in Admins, NEW q, AdminFine(q), Locked(p, q), NEW x,
         q.pc \notin {"idle", "dead", "build", "instLock"}, q.op \notin {"none", "list", "claim"},
         q.op = "clean" => q.pc \notin {"lsHash", "lsRead", "lsDel"},
         DOMAIN x = DOMAIN q, x.pc = "unlock", x.op = q.op, x.i = q.i, x.s = q.s, x.row = q.row,
         x.seen = q.seen, x.todo = q.todo
  PROVE  AdminFine(x) /\ Locked(p, x) /\ Current(x)
<1> USE DEF AssignPcs, LockPcs, ReleasePcs, ListPcs, UnassignPcs, ScopeOps
<1>1. AdminFine(x)
  BY Zenon DEF AdminFine, Typed, Place, Knows, Reads, OneSandbox
<1>2. Locked(p, x) /\ Current(x)
  BY Zenon DEF Locked, Current, Critical, AdminFine, Place
<1> QED BY Zenon, <1>1, <1>2

LEMMA InstanceBusyStep ==
  ASSUME LeaseInv, NEW p \in Procs, UNCHANGED env, InstanceBusy(p)
  PROVE  LeaseInv'
<1>1. p \in Admins /\ AdminFine(proc[p])
  BY Zenon, AdminAt DEF InstanceBusy, ReleasePcs
<1>2. proc' = [proc EXCEPT ![p] = At(proc[p].i, proc[p].left - 1)]
  BY Zenon DEF InstanceBusy, End
<1>3. LET x == At(proc[p].i, proc[p].left - 1) IN AdminFine(x) /\ Locked(p, x) /\ Current(x)
  BY Zenon, <1>1, EndKeeps DEF AdminFine, Typed
<1> QED BY ZenonT(30), <1>1, <1>2, <1>3, Quiet, ConstantFacts DEF Fine, InstanceBusy, table, locks

LEMMA AcquireOperationLockStep ==
  ASSUME LeaseInv, NEW p \in Procs, UNCHANGED env, AcquireOperationLock(p)
  PROVE  LeaseInv'
<1> DEFINE q == proc[p]
<1> USE DEF AssignPcs, LockPcs, ReleasePcs, ListPcs, UnassignPcs, ScopeOps
<1>1. p \in Admins /\ AdminFine(q) /\ Locked(p, q) /\ Current(q) /\ q.pc = "opLock"
  BY Zenon, AdminAt DEF AcquireOperationLock
<1>2. PICK h : \E d \in {AfterOpLock(q.op), "opLock"} :
        proc' = [proc EXCEPT ![p] = [q EXCEPT !.held = h, !.tries = 0, !.pc = d]]
  BY ZenonT(30) DEF AcquireOperationLock
<1>8. PICK d \in {AfterOpLock(q.op), "opLock"} :
        proc' = [proc EXCEPT ![p] = [q EXCEPT !.held = h, !.tries = 0, !.pc = d]]
  BY ZenonT(30), <1>2
<1> DEFINE x == [q EXCEPT !.held = h, !.tries = 0, !.pc = d]
<1>3. /\ DOMAIN x = DOMAIN q /\ x.pc \in {AfterOpLock(q.op), "opLock"}
      /\ x.op = q.op /\ x.i = q.i /\ x.s = q.s /\ x.row = q.row /\ x.seen = q.seen
      /\ x.todo = q.todo /\ x.has = q.has /\ x.back = q.back
  BY Zenon, <1>1 DEF AdminFine, Typed, Fields
<1> HIDE DEF x
<1>4. /\ q.op \in {"assign", "unassign", "delete", "clean"} \cup ScopeOps
      /\ q.op = "assign" => AfterOpLock(q.op) = "exists"
      /\ q.op \in {"unassign", "delete", "clean"} => AfterOpLock(q.op) = "unRead"
      /\ q.op \in ScopeOps => AfterOpLock(q.op) = "scope"
  BY Zenon, <1>1 DEF AdminFine, Place, AfterOpLock
<1>5. AdminFine(x)
  BY Zenon, <1>1, <1>3, <1>4 DEF AdminFine, Typed, Place, Knows, Reads, OneSandbox
<1>6. Locked(p, x) /\ Current(x)
  BY Zenon, <1>1, <1>3, <1>4 DEF Locked, Current, Critical
<1>7. proc' = [proc EXCEPT ![p] = x]
  BY Zenon, <1>8 DEF x
<1> QED BY ZenonT(30), <1>1, <1>5, <1>6, <1>7, Quiet, ConstantFacts DEF Fine, AcquireOperationLock, table

LEMMA OperationBusyStep ==
  ASSUME LeaseInv, NEW p \in Procs, UNCHANGED env, OperationBusy(p)
  PROVE  LeaseInv'
<1> DEFINE q == proc[p]  x == [q EXCEPT !.pc = "unlock"]
<1>1. p \in Admins /\ AdminFine(q) /\ Locked(p, q) /\ Current(q) /\ q.pc = "opLock"
  BY Zenon, AdminAt DEF OperationBusy, ReleasePcs
<1>2. proc' = [proc EXCEPT ![p] = x]
  BY Zenon DEF OperationBusy, Goto
<1>3. q.op \notin {"none", "list", "claim"}
  BY Zenon, <1>1 DEF AdminFine, Place, ScopeOps
<1>4. /\ DOMAIN x = DOMAIN q /\ x.pc = "unlock" /\ x.op = q.op /\ x.i = q.i /\ x.s = q.s
      /\ x.row = q.row /\ x.seen = q.seen /\ x.todo = q.todo
  BY Zenon, <1>1 DEF AdminFine, Typed, Fields
<1>5. AdminFine(x) /\ Locked(p, x) /\ Current(x)
  BY ZenonT(30), <1>1, <1>3, <1>4, UnlockKeeps
<1> QED BY ZenonT(30), <1>1, <1>2, <1>5, Quiet, ConstantFacts DEF Fine, OperationBusy, table, locks

LEMMA ReleaseOperationLockStep ==
  ASSUME LeaseInv, NEW p \in Procs, UNCHANGED env, ReleaseOperationLock(p)
  PROVE  LeaseInv'
<1> DEFINE q == proc[p]
<1> USE DEF AssignPcs, LockPcs, ReleasePcs, ListPcs, UnassignPcs, ScopeOps
<1>1. p \in Admins /\ AdminFine(q) /\ Locked(p, q) /\ Current(q) /\ q.pc = "unlock"
  BY Zenon, AdminAt DEF ReleaseOperationLock
<1>2. PICK h : \/ proc' = [proc EXCEPT ![p] = AfterUnlock(q)]
               \/ proc' = [proc EXCEPT ![p] = [q EXCEPT !.held = h]]
  BY Zenon DEF ReleaseOperationLock
<1>3. q.op \in {"assign", "unassign", "delete", "clean"} \cup ScopeOps
  BY Zenon, <1>1 DEF AdminFine, Place
<1>4. PICK x : /\ proc' = [proc EXCEPT ![p] = x]
               /\ \/ x = At(q.i, q.left - 1)
                  \/ x = [q EXCEPT !.held = h]
                  \/ q.op \in {"assign", "unassign"} /\ x = [q EXCEPT !.held = {}, !.pc = "unlockInst"]
                  \/ q.op \in {"delete", "clean"} /\ x = [q EXCEPT !.held = {}, !.pc = "next"]
  BY Zenon, <1>2, <1>3 DEF AfterUnlock
<1>5. CASE x = At(q.i, q.left - 1)
  <2>1. AdminFine(x) /\ Locked(p, x) /\ Current(x)
    BY Zenon, <1>1, <1>5, EndKeeps DEF AdminFine, Typed
  <2> QED BY ZenonT(30), <1>1, <1>4, <2>1, Quiet, ConstantFacts DEF Fine, ReleaseOperationLock, table
<1>6. CASE x # At(q.i, q.left - 1)
  <2>1. /\ DOMAIN x = DOMAIN q
        /\ \/ x.pc = "unlock"
           \/ x.pc = "unlockInst" /\ q.op \in {"assign", "unassign"}
           \/ x.pc = "next" /\ q.op \in {"delete", "clean"}
        /\ x.op = q.op /\ x.i = q.i /\ x.s = q.s /\ x.row = q.row /\ x.seen = q.seen
        /\ x.todo = q.todo /\ x.has = q.has /\ x.back = q.back
    BY ZenonT(30), <1>1, <1>4, <1>6 DEF AdminFine, Typed, Fields
  <2>2. AdminFine(x)
    BY Zenon, <1>1, <2>1 DEF AdminFine, Typed, Place, Knows, Reads, OneSandbox
  <2>3. Locked(p, x) /\ Current(x)
    BY Zenon, <1>1, <1>3, <2>1 DEF Locked, Current, Critical
  <2> QED BY ZenonT(30), <1>1, <1>4, <2>2, <2>3, Quiet, ConstantFacts DEF Fine, ReleaseOperationLock, table
<1> QED BY Zenon, <1>5, <1>6

LEMMA CrashStep ==
  ASSUME LeaseInv, NEW p \in Admins, UNCHANGED env, Crash(p)
  PROVE  LeaseInv'
<1>1. AdminFine(proc[p]) /\ p \in Procs
  BY Zenon, ConstantFacts DEF LeaseInv, Local, Fine
<1> DEFINE x == [At(proc[p].i, 0) EXCEPT !.pc = "dead"]
<1>2. proc' = [proc EXCEPT ![p] = x]
  BY Zenon DEF Crash
<1>3. AdminFine(x) /\ Locked(p, x) /\ Current(x)
  BY Zenon, <1>1, EndKeeps DEF AdminFine, Typed
<1> QED BY ZenonT(30), <1>1, <1>2, <1>3, Quiet, ConstantFacts DEF Fine, Crash, table, locks

LEMMA RequestStep ==
  ASSUME LeaseInv, NEW p \in Admins, UNCHANGED env, Request(p)
  PROVE  LeaseInv'
<1> DEFINE q == proc[p]
<1> USE DEF AssignPcs, LockPcs, ReleasePcs, ListPcs, UnassignPcs, ScopeOps
<1>1. AdminFine(q) /\ p \in Procs /\ q.pc = "idle"
  BY Zenon, ConstantFacts DEF LeaseInv, Local, Fine, Request
<1>2. PICK op \in env.ops \cap {"assign", "unassign", "delete", "list", "clean"},
           i \in Instances, s \in env.sandboxes :
        proc' = [proc EXCEPT ![p] =
                  [@ EXCEPT !.pc = First(op), !.op = op, !.i = i, !.s = s,
                            !.ids = IF op \in {"assign", "unassign"} THEN {s} ELSE {}]]
  BY ZenonT(30) DEF Request
<1> DEFINE ids == IF op \in {"assign", "unassign"} THEN {s} ELSE {}
           x == [q EXCEPT !.pc = First(op), !.op = op, !.i = i, !.s = s, !.ids = ids]
<1> HIDE DEF ids
<1>3. /\ DOMAIN x = DOMAIN q /\ x.pc = First(op) /\ x.op = op /\ x.i = i /\ x.s = s
      /\ x.row = q.row /\ x.seen = q.seen /\ x.todo = q.todo /\ x.has = q.has
  BY Zenon, <1>1 DEF AdminFine, Typed, Fields
<1>4. s \in Sandboxes
  BY Zenon, EnvFacts DEF LeaseInv, TableTypes
<1> HIDE DEF x
<1>5. /\ op = "assign" => First(op) = "build"
      /\ op \in {"unassign", "delete"} => First(op) = "instLock"
      /\ op \in {"list", "clean"} => First(op) = "lsHash"
  BY Zenon DEF First
<1>6. AdminFine(x)
  BY Zenon, <1>1, <1>3, <1>4, <1>5 DEF AdminFine, Typed, Place, Knows, Reads, OneSandbox
<1>7. Locked(p, x) /\ Current(x)
  BY Zenon, <1>3, <1>5 DEF Locked, Current, Critical, OneSandbox
<1>8. proc' = [proc EXCEPT ![p] = x]
  BY Zenon, <1>1, <1>2 DEF x, ids, LeaseInv, Local
<1> QED BY ZenonT(30), <1>1, <1>6, <1>7, <1>8, Quiet, ConstantFacts DEF Fine, Request, table, locks

LEMMA RedisFailsStep ==
  ASSUME LeaseInv, NEW p \in Admins, UNCHANGED env, RedisFails(p)
  PROVE  LeaseInv'
<1> DEFINE q == proc[p]
<1> USE DEF AssignPcs, LockPcs, ReleasePcs, ListPcs, UnassignPcs, ScopeOps
<1>1. AdminFine(q) /\ p \in Procs /\ Locked(p, q) /\ Current(q)
      /\ q.pc \in AssignPcs \cup {"unRead", "unTx", "unExec"} \cup ReleasePcs
  BY Zenon, ConstantFacts DEF LeaseInv, Local, Fine, Guarded, RedisFails
<1>2. PICK x : /\ proc' = [proc EXCEPT ![p] = x]
               /\ \/ q.pc = "build" /\ x = At(q.i, q.left - 1)
                  \/ q.pc # "build" /\ x = [q EXCEPT !.failed = TRUE, !.pc = "unlock"]
                  \/ /\ q.back = "clean" /\ q.pc \in ReleasePcs
                     /\ x = [q EXCEPT !.failed = TRUE, !.pc = "next"]
  <2>1. CASE q.pc = "build"
    BY ZenonT(30), <2>1 DEF RedisFails
  <2>2. CASE q.pc # "build" /\ q.back = "clean" /\ q.pc \in ReleasePcs
    BY ZenonT(30), <2>2 DEF RedisFails
  <2>3. CASE q.pc # "build" /\ ~(q.back = "clean" /\ q.pc \in ReleasePcs)
    BY ZenonT(30), <2>3 DEF RedisFails
  <2> QED BY Zenon, <2>1, <2>2, <2>3
<1>3. CASE q.pc = "build" /\ x = At(q.i, q.left - 1)
  <2>1. AdminFine(x) /\ Locked(p, x) /\ Current(x)
    BY Zenon, <1>1, <1>3, EndKeeps DEF AdminFine, Typed
  <2> QED BY ZenonT(30), <1>1, <1>2, <2>1, Quiet, ConstantFacts DEF Fine, RedisFails, table, locks
<1>4. CASE q.pc # "build" /\ x = [q EXCEPT !.failed = TRUE, !.pc = "unlock"]
  <2>1. /\ DOMAIN x = DOMAIN q /\ x.pc = "unlock" /\ x.op = q.op /\ x.i = q.i /\ x.s = q.s
        /\ x.row = q.row /\ x.seen = q.seen /\ x.todo = q.todo
    BY Zenon, <1>1, <1>4 DEF AdminFine, Typed, Fields
  <2>2. q.op \in {"assign", "unassign", "delete", "clean"}
    BY Zenon, <1>1 DEF AdminFine, Place
  <2>3. AdminFine(x) /\ Locked(p, x) /\ Current(x)
    BY ZenonT(30), <1>1, <1>4, <2>1, <2>2, UnlockKeeps
  <2> QED BY ZenonT(30), <1>1, <1>2, <2>3, Quiet, ConstantFacts DEF Fine, RedisFails, table, locks
<1>5. CASE q.back = "clean" /\ q.pc \in ReleasePcs /\ x = [q EXCEPT !.failed = TRUE, !.pc = "next"]
  <2>1. /\ DOMAIN x = DOMAIN q /\ x.pc = "next" /\ x.op = q.op /\ x.i = q.i /\ x.s = q.s
        /\ x.row = q.row /\ x.seen = q.seen /\ x.todo = q.todo
    BY Zenon, <1>1, <1>5 DEF AdminFine, Typed, Fields
  <2>2. q.op \in {"delete", "clean"}
    BY Zenon, <1>1, <1>5 DEF AdminFine, Place, Knows
  <2>3. AdminFine(x)
    BY Zenon, <1>1, <2>1, <2>2 DEF AdminFine, Typed, Place, Knows, Reads, OneSandbox
  <2>4. Locked(p, x) /\ Current(x)
    BY Zenon, <1>1, <1>5, <2>1, <2>2 DEF Locked, Current, Critical
  <2> QED BY ZenonT(30), <1>1, <1>2, <2>3, <2>4, Quiet, ConstantFacts DEF Fine, RedisFails, table, locks
<1> QED BY Zenon, <1>2, <1>3, <1>4, <1>5

-----------------------------------------------------------------------------
(* Looking through an instance's hash, and cleaning it up.                  *)
LEMMA ListHashStep ==
  ASSUME LeaseInv, NEW p \in Procs, UNCHANGED env, ListHash(p)
  PROVE  LeaseInv'
<1> DEFINE q == proc[p]
           x == [q EXCEPT !.pc = "lsRead", !.todo = assign[q.i], !.has = {}]
<1> USE DEF AssignPcs, LockPcs, ReleasePcs, ListPcs, UnassignPcs, ScopeOps
<1>1. p \in Admins /\ AdminFine(q) /\ Locked(p, q) /\ Current(q) /\ q.pc = "lsHash"
  BY Zenon, AdminAt DEF ListHash
<1>2. proc' = [proc EXCEPT ![p] = x]
  BY Zenon DEF ListHash
<1>3. /\ DOMAIN x = DOMAIN q /\ x.pc = "lsRead" /\ x.op = q.op /\ x.i = q.i /\ x.s = q.s
      /\ x.row = q.row /\ x.seen = q.seen /\ x.todo = assign[q.i]
  BY Zenon, <1>1 DEF AdminFine, Typed, Fields
<1>4. assign[q.i] \subseteq Sandboxes
  BY Zenon, <1>1 DEF AdminFine, Typed, LeaseInv, TableTypes
<1> HIDE DEF x
<1>5. AdminFine(x)
  BY Zenon, <1>1, <1>3, <1>4 DEF AdminFine, Typed, Place, Knows, Reads, OneSandbox
<1>6. Locked(p, x) /\ Current(x)
  BY Zenon, <1>1, <1>3 DEF Locked, Current, Critical
<1> QED BY ZenonT(30), <1>1, <1>2, <1>5, <1>6, Quiet, ConstantFacts DEF Fine, ListHash, table, locks

LEMMA ListRowStep ==
  ASSUME LeaseInv, NEW p \in Procs, UNCHANGED env, ListRow(p)
  PROVE  LeaseInv'
<1> DEFINE q == proc[p]
<1> USE DEF AssignPcs, LockPcs, ReleasePcs, ListPcs, UnassignPcs, ScopeOps
<1>1. p \in Admins /\ AdminFine(q) /\ Locked(p, q) /\ Current(q) /\ q.pc = "lsRead"
  BY ZenonT(30), AdminAt DEF ListRow
<1>2. q.op \in {"list", "clean", "delete"}
  BY Zenon, <1>1 DEF AdminFine, Place
<1>3. ASSUME q.todo = {}, proc' = [proc EXCEPT ![p] = ListReturns(q)]
      PROVE  LeaseInv'
  <2>1. PICK x : /\ proc' = [proc EXCEPT ![p] = x]
                 /\ \/ x = At(q.i, q.left - 1)
                    \/ q.op = "clean" /\ x = [q EXCEPT !.pc = "instLock"]
                    \/ q.op = "delete" /\ x = [q EXCEPT !.pc = "erase"] /\ q.has = {}
                    \/ q.op = "delete" /\ x = [q EXCEPT !.pc = "scan"]
                    \/ q.op = "delete" /\ x = [q EXCEPT !.pc = "unlockInst"]
    BY ZenonT(30), <1>2, <1>3 DEF ListReturns
  <2>2. CASE x = At(q.i, q.left - 1)
    <3>1. AdminFine(x) /\ Locked(p, x) /\ Current(x)
      BY Zenon, <1>1, <2>2, EndKeeps DEF AdminFine, Typed
    <3> QED BY ZenonT(30), <1>1, <2>1, <3>1, Quiet, ConstantFacts DEF Fine, ListRow, table, locks
  <2>3. CASE x # At(q.i, q.left - 1)
    <3>1. /\ DOMAIN x = DOMAIN q /\ x.op = q.op /\ x.i = q.i /\ x.s = q.s
          /\ x.row = q.row /\ x.seen = q.seen /\ x.todo = q.todo /\ x.has = q.has
          /\ \/ q.op = "clean" /\ x.pc = "instLock"
             \/ q.op = "delete" /\ x.pc = "erase" /\ q.has = {}
             \/ q.op = "delete" /\ x.pc \in {"scan", "unlockInst"}
      BY Zenon, <1>1, <2>1, <2>3 DEF AdminFine, Typed, Fields
    <3>2. AdminFine(x)
      BY Zenon, <1>1, <3>1 DEF AdminFine, Typed, Place, Knows, Reads, OneSandbox
    <3>3. Locked(p, x) /\ Current(x)
      BY Zenon, <1>1, <1>3, <3>1 DEF Locked, Current, Critical
    <3> QED BY ZenonT(30), <1>1, <2>1, <3>2, <3>3, Quiet, ConstantFacts DEF Fine, ListRow, table, locks
  <2> QED BY Zenon, <2>2, <2>3
<1>4. ASSUME NEW s \in q.todo,
             proc' = [proc EXCEPT ![p] =
               IF lease[s].user = q.i THEN [q EXCEPT !.todo = @ \ {s}, !.has = @ \cup {s}]
               ELSE [q EXCEPT !.todo = @ \ {s}, !.s = s, !.pc = "lsDel"]]
      PROVE  LeaseInv'
  <2>1. PICK x : /\ proc' = [proc EXCEPT ![p] = x]
                 /\ \/ x = [q EXCEPT !.todo = @ \ {s}, !.has = @ \cup {s}]
                    \/ /\ x = [q EXCEPT !.todo = @ \ {s}, !.s = s, !.pc = "lsDel"]
                       /\ lease[s].user # q.i
    BY ZenonT(30), <1>4
  <2>2. /\ DOMAIN x = DOMAIN q /\ x.op = q.op /\ x.i = q.i
        /\ x.row = q.row /\ x.seen = q.seen /\ x.todo = q.todo \ {s}
        /\ \/ x.pc = "lsRead" /\ x.has = q.has \cup {s} /\ x.s = q.s
           \/ x.pc = "lsDel" /\ x.s = s /\ x.has = q.has /\ lease[s].user # q.i
    BY ZenonT(30), <1>1, <2>1 DEF AdminFine, Typed, Fields
  <2>3. s \in Sandboxes
    BY Zenon, <1>1 DEF AdminFine, Typed
  <2>4. AdminFine(x)
    BY Zenon, <1>1, <1>2, <2>2, <2>3 DEF AdminFine, Typed, Place, Knows, Reads, OneSandbox
  <2>5. Locked(p, x) /\ Current(x)
    BY Zenon, <1>1, <1>2, <2>2 DEF Locked, Current, Critical
  <2> QED BY ZenonT(30), <1>1, <2>1, <2>4, <2>5, Quiet, ConstantFacts DEF Fine, ListRow, table, locks
<1> QED BY ZenonT(30), <1>3, <1>4 DEF ListRow

LEMMA CleanupStep ==
  ASSUME LeaseInv, NEW p \in Procs, UNCHANGED env, cleanupInstanceSandboxes(p)
  PROVE  LeaseInv'
<1> DEFINE q == proc[p]
           own == {s \in Sandboxes : lease[s].user = q.i}
           x == [q EXCEPT !.pc = "next", !.todo = own, !.busy = {s \in own : lease[s].inUse}]
<1> USE DEF AssignPcs, LockPcs, ReleasePcs, ListPcs, UnassignPcs, ScopeOps
<1>1. p \in Admins /\ AdminFine(q) /\ Locked(p, q) /\ Current(q) /\ q.pc = "scan"
  BY Zenon, AdminAt DEF cleanupInstanceSandboxes
<1>2. proc' = [proc EXCEPT ![p] = x]
  BY Zenon DEF cleanupInstanceSandboxes
<1>3. own \subseteq Sandboxes
  BY Zenon
<1> HIDE DEF own
<1>4. /\ DOMAIN x = DOMAIN q /\ x.pc = "next" /\ x.op = q.op /\ x.i = q.i /\ x.s = q.s
      /\ x.row = q.row /\ x.seen = q.seen /\ x.todo = own
  BY Zenon, <1>1 DEF AdminFine, Typed, Fields
<1> HIDE DEF x
<1>5. q.op \in {"delete", "clean"}
  BY Zenon, <1>1 DEF AdminFine, Place
<1>6. AdminFine(x)
  BY Zenon, <1>1, <1>3, <1>4, <1>5 DEF AdminFine, Typed, Place, Knows, Reads, OneSandbox
<1>7. Locked(p, x) /\ Current(x)
  BY Zenon, <1>1, <1>4, <1>5 DEF Locked, Current, Critical
<1> QED BY ZenonT(30), <1>1, <1>2, <1>6, <1>7, Quiet, ConstantFacts DEF Fine, cleanupInstanceSandboxes, table, locks

LEMMA CleanupNextStep ==
  ASSUME LeaseInv, NEW p \in Procs, UNCHANGED env, CleanupNext(p)
  PROVE  LeaseInv'
<1> DEFINE q == proc[p]
<1> USE DEF AssignPcs, LockPcs, ReleasePcs, ListPcs, UnassignPcs, ScopeOps
<1>1. p \in Admins /\ AdminFine(q) /\ Locked(p, q) /\ Current(q) /\ q.pc = "next"
  BY ZenonT(30), AdminAt DEF CleanupNext
<1>2. q.op \in {"delete", "clean"}
  BY Zenon, <1>1 DEF AdminFine, Place
<1>3. PICK x : /\ proc' = [proc EXCEPT ![p] = x]
               /\ \/ q.op = "delete" /\ x = [q EXCEPT !.pc = "lsHash", !.stage = 2]
                  \/ x = [q EXCEPT !.pc = "unlockInst"]
                  \/ \E s \in q.todo, d \in {"relRead", "opLock"} :
                       x = [q EXCEPT !.todo = @ \ {s}, !.s = s, !.ids = {s}, !.back = "clean", !.pc = d]
  <2>1. CASE q.todo = {} /\ proc' = [proc EXCEPT ![p] =
               IF q.op = "delete" /\ ~q.failed THEN [q EXCEPT !.pc = "lsHash", !.stage = 2]
               ELSE [q EXCEPT !.pc = "unlockInst"]]
    BY ZenonT(30), <2>1
  <2>2. ASSUME NEW s \in q.todo,
               proc' = [proc EXCEPT ![p] =
                 [q EXCEPT !.todo = @ \ {s}, !.s = s, !.ids = {s}, !.back = "clean",
                           !.pc = IF s \in q.busy THEN "relRead" ELSE "opLock"]]
        PROVE  \E d \in {"relRead", "opLock"} : proc' = [proc EXCEPT ![p] =
                 [q EXCEPT !.todo = @ \ {s}, !.s = s, !.ids = {s}, !.back = "clean", !.pc = d]]
    BY <2>2, Zenon
  <2> QED BY ZenonT(30), <2>1, <2>2 DEF CleanupNext
<1>4. /\ DOMAIN x = DOMAIN q /\ x.op = q.op /\ x.i = q.i
      /\ x.row = q.row /\ x.seen = q.seen /\ x.todo \subseteq q.todo
      /\ \/ x.pc = "lsHash" /\ x.op = "delete" /\ x.s = q.s
         \/ x.pc = "unlockInst" /\ x.s = q.s
         \/ x.pc \in {"relRead", "opLock"} /\ x.back = "clean" /\ x.s \in q.todo
  <2>1. CASE q.op = "delete" /\ x = [q EXCEPT !.pc = "lsHash", !.stage = 2]
    BY Zenon, <1>1, <2>1 DEF AdminFine, Typed, Fields
  <2>2. CASE x = [q EXCEPT !.pc = "unlockInst"]
    BY Zenon, <1>1, <2>2 DEF AdminFine, Typed, Fields
  <2>3. ASSUME NEW s \in q.todo, NEW d \in {"relRead", "opLock"},
               x = [q EXCEPT !.todo = @ \ {s}, !.s = s, !.ids = {s}, !.back = "clean", !.pc = d]
        PROVE  /\ DOMAIN x = DOMAIN q /\ x.op = q.op /\ x.i = q.i
               /\ x.row = q.row /\ x.seen = q.seen /\ x.todo = q.todo \ {s}
               /\ x.pc = d /\ x.back = "clean" /\ x.s = s
    BY Zenon, <1>1, <2>3 DEF AdminFine, Typed, Fields
  <2> QED BY ZenonT(30), <1>3, <2>1, <2>2, <2>3
<1>5. AdminFine(x)
  BY Zenon, <1>1, <1>2, <1>4 DEF AdminFine, Typed, Place, Knows, Reads, OneSandbox
<1>6. Locked(p, x) /\ Current(x)
  BY Zenon, <1>1, <1>2, <1>4 DEF Locked, Current, Critical
<1> QED BY ZenonT(30), <1>1, <1>3, <1>5, <1>6, Quiet, ConstantFacts DEF Fine, CleanupNext, table, locks

-----------------------------------------------------------------------------
(* Releases.                                                                *)

(* Where the request that called a release goes on.                         *)
LEMMA ReturnKeeps ==
  ASSUME LeaseInv, NEW p \in Admins, NEW q, AdminFine(q), Locked(p, q), Current(q),
         q.pc \in ReleasePcs, NEW out \in {"ok", "foreign", "gone"},
         out = "gone" => lease[q.s].user # q.i
  PROVE  LET x == ReleaseReturns(q, out) IN AdminFine(x) /\ Locked(p, x) /\ Current(x)
<1> DEFINE x == ReleaseReturns(q, out)
<1> USE DEF AssignPcs, LockPcs, ReleasePcs, ListPcs, UnassignPcs, ScopeOps
<1>1. /\ q.op \in {"unassign", "delete", "clean"}
      /\ q.back \in {"unassign", "race"} \/ (q.back = "clean" /\ q.op \in {"delete", "clean"})
  BY Zenon DEF AdminFine, Place, Knows
<1>2. CASE q.back \in {"unassign", "race"} /\ out = "ok"
  <2>1. x = Again(q, "unRead")
    BY Zenon, <1>2 DEF ReleaseReturns
  <2> QED BY Zenon, <1>1, <2>1, AgainKeeps
<1>3. CASE ~(q.back \in {"unassign", "race"} /\ out = "ok")
  <2>1. \/ x = [q EXCEPT !.pc = "unGone"] /\ out = "gone"
        \/ x = [q EXCEPT !.pc = "unlock"]
        \/ x = [q EXCEPT !.pc = "unlock", !.failed = @ \/ out = "gone"]
        \/ x = [q EXCEPT !.pc = "opLock"] /\ q.back = "clean"
        \/ x = [q EXCEPT !.pc = "next", !.failed = TRUE] /\ q.back = "clean"
    <3>1. CASE q.back = "unassign"
      BY Zenon, <1>3, <3>1 DEF ReleaseReturns
    <3>2. CASE q.back = "race"
      BY Zenon, <1>3, <3>2 DEF ReleaseReturns
    <3>3. CASE q.back = "clean"
      BY Zenon, <3>3 DEF ReleaseReturns
    <3> QED BY Zenon, <1>1, <3>1, <3>2, <3>3
  <2> HIDE DEF x
  <2>2. /\ DOMAIN x = DOMAIN q /\ x.op = q.op /\ x.i = q.i /\ x.s = q.s
        /\ x.row = q.row /\ x.seen = q.seen /\ x.todo = q.todo
        /\ \/ x.pc = "unGone" /\ out = "gone"
           \/ x.pc = "unlock"
           \/ x.pc \in {"opLock", "next"} /\ q.back = "clean"
    BY ZenonT(30), <2>1 DEF AdminFine, Typed, Fields
  <2>3. AdminFine(x)
    BY Zenon, <1>1, <2>2 DEF AdminFine, Typed, Place, Knows, Reads, OneSandbox
  <2>4. Locked(p, x) /\ Current(x)
    BY Zenon, <1>1, <2>2 DEF Locked, Current, Critical
  <2> QED BY Zenon, <2>3, <2>4 DEF x
<1> QED BY Zenon, <1>2, <1>3

LEMMA WorkerReturns ==
  ASSUME NEW w \in Workers, NEW q, WorkerFine(w, q), NEW n
  PROVE  WorkerFine(w, At(q.i, n))
BY Zenon, ConstantFacts, Starts DEF WorkerFine, ReleasePcs, Typed

LEMMA ReleaseCooldownStep ==
  ASSUME LeaseInv, NEW p \in Procs, UNCHANGED env, ReleaseCooldown(p)
  PROVE  LeaseInv'
<1> DEFINE q == proc[p]  x == ReleaseReturns(q, "ok")
<1>1. proc' = [proc EXCEPT ![p] = x] /\ q.pc = "relCool" /\ q.pc \in ReleasePcs
  BY Zenon DEF ReleaseCooldown, ReleasePcs
<1>2. CASE p \in Workers
  <2>1. WorkerFine(p, q)
    BY Zenon, <1>2 DEF LeaseInv, Local, Fine
  <2>2. x = At(q.i, q.left - 1)
    BY Zenon, <1>1, <2>1 DEF WorkerFine, ReleaseReturns
  <2>3. WorkerFine(p, x)
    BY Zenon, <1>2, <2>1, <2>2, WorkerReturns
  <2> QED BY ZenonT(30), <1>1, <1>2, <2>3, Quiet, ConstantFacts DEF Fine, ReleaseCooldown, locks
<1>3. CASE p \in Admins /\ p \notin Workers
  <2>1. AdminFine(q) /\ Locked(p, q) /\ Current(q)
    BY Zenon, <1>3 DEF LeaseInv, Local, Fine, Guarded
  <2>2. AdminFine(x) /\ Locked(p, x) /\ Current(x)
    BY Zenon, <1>1, <1>3, <2>1, ReturnKeeps
  <2> QED BY ZenonT(30), <1>1, <1>3, <2>2, Quiet, ConstantFacts DEF Fine, ReleaseCooldown, locks
<1> QED BY Zenon, <1>2, <1>3, ConstantFacts

-----------------------------------------------------------------------------
(* The assignment lock excludes two critical steps on one instance.         *)
LEMMA OneCritical ==
  ASSUME LeaseInv, ~env.locksExpire, NEW p \in Admins, NEW r \in Admins,
         Critical(proc[p]), Critical(proc[r]), proc[p].i = proc[r].i
  PROVE  p = r
BY DEF LeaseInv, Guarded, Locked

(* Where rows and hashes agree, who prunes or releases holds its lock.      *)
LEMMA PruneIsCritical ==
  ASSUME LeaseInv, Transactional, NEW p \in Admins,
         proc[p].pc \in {"unGone", "lsDel", "relSet", "unExec"}
  PROVE  /\ ~env.locksExpire /\ Critical(proc[p])
         /\ proc[p].op \in {"unassign", "delete"} /\ "fromProject" \notin env.ops
<1> USE DEF AssignPcs, LockPcs, ReleasePcs, ListPcs, UnassignPcs, ScopeOps
<1>1. AdminFine(proc[p])
  BY Zenon, ConstantFacts DEF LeaseInv, Local, Fine
<1>2. proc[p].op \in {"unassign", "delete", "clean", "list"} \cap env.ops
  BY Zenon, <1>1 DEF AdminFine, Place, Knows
<1> QED BY Zenon, <1>2 DEF Transactional, Critical

(* A step of one process that keeps the invariants its own way.             *)
LEMMA Moves ==
  ASSUME LeaseInv, NEW p \in Procs, NEW x, proc' = [proc EXCEPT ![p] = x], Fine(p, x),
         UNCHANGED env, TableTypes', RecFine', DeletedHoldsNothing', HashMatchesRows', Guarded'
  PROVE  LeaseInv'
<1>1. \A r \in Procs : proc'[r] = IF r = p THEN x ELSE proc[r]
  BY Zenon DEF LeaseInv, Local
<1>2. \A r \in Procs : Fine(r, proc[r])'
  BY <1>1 DEF LeaseInv, Local, Fine, WorkerFine, AdminFine, Knows
<1> QED BY Zenon, <1>2 DEF LeaseInv, Local

-----------------------------------------------------------------------------
(* Task runs.                                                               *)
LEMMA ApplyStep ==
  ASSUME LeaseInv, NEW p \in Workers, UNCHANGED env, ApplySandbox(p)
  PROVE  LeaseInv'
<1> DEFINE q == proc[p]
<1>1. WorkerFine(p, q) /\ p \in Procs /\ p \notin Admins /\ q.pc = "idle"
  BY Zenon, ConstantFacts DEF LeaseInv, Local, Fine, ApplySandbox
<1>2. PICK x : /\ proc' = [proc EXCEPT ![p] = x]
               /\ \/ x = At(q.i, q.left - 1)
                  \/ x = [q EXCEPT !.pc = "pick", !.todo = avail \cap assign[q.i]]
  BY Zenon DEF ApplySandbox, End
<1>3. CASE x = At(q.i, q.left - 1)
  BY ZenonT(30), <1>1, <1>2, <1>3, WorkerReturns, Quiet DEF Fine, ApplySandbox, table, locks
<1>4. CASE x = [q EXCEPT !.pc = "pick", !.todo = avail \cap assign[q.i]]
  <2>1. avail \cap assign[q.i] \subseteq Sandboxes
    BY Zenon DEF LeaseInv, TableTypes
  <2>2. WorkerFine(p, x)
    BY Zenon, <1>1, <1>4, <2>1 DEF WorkerFine, Typed, Fields, ReleasePcs
  <2> QED BY ZenonT(30), <1>1, <1>2, <2>2, Quiet DEF Fine, ApplySandbox, table, locks
<1> QED BY Zenon, <1>2, <1>3, <1>4

LEMMA StopStep ==
  ASSUME LeaseInv, NEW p \in Workers, UNCHANGED env, StopUsing(p)
  PROVE  LeaseInv'
<1> DEFINE q == proc[p]  x == [q EXCEPT !.pc = "relRead", !.back = "work"]
<1>1. WorkerFine(p, q) /\ p \in Procs /\ p \notin Admins /\ q.pc = "using" /\ p \in env.returning
  BY Zenon, ConstantFacts DEF LeaseInv, Local, Fine, StopUsing
<1>2. WorkerFine(p, x)
  BY Zenon, <1>1 DEF WorkerFine, Typed, Fields, ReleasePcs
<1> QED BY ZenonT(30), <1>1, <1>2, Quiet DEF Fine, StopUsing, table, locks

LEMMA AcquireStep ==
  ASSUME LeaseInv, NEW p \in Procs, UNCHANGED env, tryAcquireAssignedLease(p)
  PROVE  LeaseInv'
<1> DEFINE q == proc[p]
<1>1. WorkerFine(p, q) /\ p \in Workers /\ p \notin Admins /\ q.pc = "pick"
  BY Zenon, ConstantFacts DEF LeaseInv, Local, Fine, tryAcquireAssignedLease
<1>2. PICK s \in q.todo :
        IF CanAcquire(q.i, s)
        THEN /\ lease' = [lease EXCEPT ![s].inUse = TRUE]
             /\ proc' = [proc EXCEPT ![p] = [@ EXCEPT !.pc = "using", !.s = s, !.todo = {}]]
        ELSE /\ IF q.todo = {s} THEN End(p)
                ELSE proc' = [proc EXCEPT ![p].todo = @ \ {s}]
             /\ UNCHANGED lease
  BY ZenonT(30) DEF tryAcquireAssignedLease
<1>3. s \in Sandboxes
  BY Zenon, <1>1 DEF WorkerFine, Typed
<1>4. CASE CanAcquire(q.i, s)
  <2> DEFINE x == [q EXCEPT !.pc = "using", !.s = s, !.todo = {}]
  <2>1. proc' = [proc EXCEPT ![p] = x] /\ lease' = [lease EXCEPT ![s].inUse = TRUE]
    BY Zenon, <1>2, <1>4
  <2>2. WorkerFine(p, x)
    BY Zenon, <1>1, <1>3 DEF WorkerFine, Typed, Fields, ReleasePcs
  <2>3. /\ lease' \in [Sandboxes -> Row]
        /\ \A t \in Sandboxes : lease'[t].user = lease[t].user /\ (lease[t].inUse => lease'[t].inUse)
    BY ZenonT(30), <1>3, <2>1 DEF LeaseInv, TableTypes, Row
  <2>4. UNCHANGED <<assign, avail, alive, scope, instLock, rec>>
    BY Zenon DEF tryAcquireAssignedLease, locks
  <2>5. TableTypes' /\ RecFine' /\ DeletedHoldsNothing' /\ HashMatchesRows'
    BY <2>3, <2>4 DEF LeaseInv, TableTypes, RecFine, DeletedHoldsNothing, HashMatchesRows, Transactional
  <2>6. ASSUME NEW r \in Admins PROVE Locked(r, proc[r])' /\ Current(proc[r])'
    <3>1. proc'[r] = proc[r] /\ Locked(r, proc[r]) /\ Current(proc[r]) /\ AdminFine(proc[r])
      BY Zenon, <1>1, <2>1, ConstantFacts DEF LeaseInv, Guarded, Local, Fine
    <3>2. Transactional /\ proc[r].pc \in {"unGone", "lsDel", "relSet"} => proc[r].s \in Sandboxes
      BY Zenon, <3>1, PruneIsCritical DEF AdminFine, Knows, OneSandbox
    <3> QED BY Zenon, <2>3, <2>4, <3>1, <3>2 DEF Locked, Current, Transactional
  <2>7. Guarded'
    BY Zenon, <2>6 DEF Guarded
  <2> HIDE DEF x
  <2> QED BY ZenonT(30), <1>1, <2>1, <2>2, <2>5, <2>7, Moves DEF Fine
<1>5. CASE ~CanAcquire(q.i, s)
  <2>1. PICK x : /\ proc' = [proc EXCEPT ![p] = x]
                 /\ x = At(q.i, q.left - 1) \/ x = [q EXCEPT !.todo = @ \ {s}]
    BY Zenon, <1>2, <1>5 DEF End
  <2>2. WorkerFine(p, x)
    <3>1. CASE x = At(q.i, q.left - 1)
      BY Zenon, <1>1, <3>1, WorkerReturns
    <3>2. CASE x = [q EXCEPT !.todo = @ \ {s}]
      BY Zenon, <1>1, <3>2 DEF WorkerFine, Typed, Fields, ReleasePcs
    <3> QED BY Zenon, <2>1, <3>1, <3>2
  <2> QED BY ZenonT(30), <1>1, <1>2, <1>5, <2>1, <2>2, Quiet DEF Fine, tryAcquireAssignedLease, locks
<1> QED BY Zenon, <1>4, <1>5

-----------------------------------------------------------------------------
(* Releases.                                                                *)
LEMMA ReleaseReadStep ==
  ASSUME LeaseInv, NEW p \in Procs, UNCHANGED env, ReleaseRead(p)
  PROVE  LeaseInv'
<1> DEFINE q == proc[p]  r == lease[q.s]
<1> USE DEF AssignPcs, LockPcs, ReleasePcs, ListPcs, UnassignPcs, ScopeOps
<1>1. q.pc = "relRead" /\ UNCHANGED <<lease, assign, avail, alive, scope, instLock, rec>>
  BY Zenon DEF ReleaseRead, table, locks
<1>2. PICK x : /\ proc' = [proc EXCEPT ![p] = x]
               /\ \/ r.user = Nobody /\ x = ReleaseReturns(q, "gone")
                  \/ r.user # q.i /\ x = ReleaseReturns(q, "foreign")
                  \/ x = ReleaseReturns(q, "ok")
                  \/ r.user = q.i /\ r.inUse /\ x = [q EXCEPT !.pc = "relSet", !.row = r]
  <2> DEFINE x == CASE r.user = Nobody -> ReleaseReturns(q, "gone")
                    [] r.user # Nobody /\ r.user # q.i -> ReleaseReturns(q, "foreign")
                    [] r.user = q.i /\ ~r.inUse -> ReleaseReturns(q, "ok")
                    [] OTHER -> [q EXCEPT !.pc = "relSet", !.row = r]
  <2>1. proc' = [proc EXCEPT ![p] = x]
    BY Zenon DEF ReleaseRead
  <2>2. \/ r.user = Nobody /\ x = ReleaseReturns(q, "gone")
        \/ r.user # q.i /\ x = ReleaseReturns(q, "foreign")
        \/ x = ReleaseReturns(q, "ok")
        \/ r.user = q.i /\ r.inUse /\ x = [q EXCEPT !.pc = "relSet", !.row = r]
    BY SMTT(30), ZenonT(30)
  <2> QED BY ZenonT(30), <2>1, <2>2
<1>3. CASE p \in Workers
  <2>1. WorkerFine(p, q) /\ p \notin Admins
    BY Zenon, <1>3, ConstantFacts DEF LeaseInv, Local, Fine
  <2>2. q.back = "work" /\ q.s \in Sandboxes /\ r \in Row
    BY Zenon, <1>1, <2>1 DEF WorkerFine, LeaseInv, TableTypes
  <2>3. x = At(q.i, q.left - 1) \/ (r.user = q.i /\ r.inUse /\ x = [q EXCEPT !.pc = "relSet", !.row = r])
    BY Zenon, <1>2, <2>2 DEF ReleaseReturns
  <2>4. CASE x = At(q.i, q.left - 1)
    BY ZenonT(30), <1>1, <1>2, <1>3, <2>1, <2>4, WorkerReturns, Quiet DEF Fine
  <2>5. CASE r.user = q.i /\ r.inUse /\ x = [q EXCEPT !.pc = "relSet", !.row = r]
    <3>1. WorkerFine(p, x)
      BY Zenon, <1>1, <2>1, <2>2, <2>5 DEF WorkerFine, Typed, Fields
    <3> QED BY ZenonT(30), <1>1, <1>2, <1>3, <2>1, <3>1, Quiet DEF Fine
  <2> QED BY Zenon, <2>3, <2>4, <2>5
<1>4. CASE p \in Admins /\ p \notin Workers
  <2>1. AdminFine(q) /\ Locked(p, q) /\ Current(q)
    BY Zenon, <1>4 DEF LeaseInv, Local, Fine, Guarded
  <2>2. q.op \in OneSandbox /\ q.op \in {"unassign", "delete", "clean"} /\ q.s \in Sandboxes /\ r \in Row /\ q.i # Nobody
    BY Zenon, <1>1, <2>1, ConstantFacts DEF AdminFine, Typed, Place, Knows, OneSandbox, LeaseInv, TableTypes
  <2>3. AdminFine(x) /\ Locked(p, x) /\ Current(x)
    <3>1. CASE r.user = q.i /\ r.inUse /\ x = [q EXCEPT !.pc = "relSet", !.row = r]
      <4>1. /\ DOMAIN x = DOMAIN q /\ x.pc = "relSet" /\ x.op = q.op /\ x.i = q.i /\ x.s = q.s
            /\ x.row = r /\ x.seen = q.seen /\ x.todo = q.todo /\ x.back = q.back
        BY Zenon, <2>1, <3>1 DEF AdminFine, Typed, Fields
      <4>2. AdminFine(x)
        BY Zenon, <1>1, <2>1, <2>2, <3>1, <4>1 DEF AdminFine, Typed, Place, Knows, Reads
      <4>3. Locked(p, x) /\ Current(x)
        BY Zenon, <1>1, <2>1, <2>2, <3>1, <4>1 DEF Locked, Current, Critical
      <4> QED BY Zenon, <4>2, <4>3
    <3>2. CASE r.user = Nobody /\ x = ReleaseReturns(q, "gone")
      BY Zenon, <1>1, <1>4, <2>1, <2>2, <3>2, ReturnKeeps
    <3>3. CASE x = ReleaseReturns(q, "foreign")
      BY Zenon, <1>1, <1>4, <2>1, <2>2, <3>3, ReturnKeeps
    <3>4. CASE x = ReleaseReturns(q, "ok")
      BY Zenon, <1>1, <1>4, <2>1, <2>2, <3>4, ReturnKeeps
    <3> QED BY Zenon, <1>2, <3>1, <3>2, <3>3, <3>4
  <2> QED BY ZenonT(30), <1>1, <1>2, <1>4, <2>3, Quiet DEF Fine
<1> QED BY Zenon, <1>3, <1>4, ConstantFacts

LEMMA ReleaseSetStep ==
  ASSUME LeaseInv, NEW p \in Procs, UNCHANGED env, ReleaseSet(p)
  PROVE  LeaseInv'
<1> DEFINE q == proc[p]  x == [q EXCEPT !.pc = "relCool"]
           new == [q.row EXCEPT !.inUse = FALSE]
<1> USE DEF AssignPcs, LockPcs, ReleasePcs, ListPcs, UnassignPcs, ScopeOps
<1>1. /\ q.pc = "relSet" /\ UNCHANGED <<assign, avail, alive, scope, instLock, rec>>
      /\ lease' = [lease EXCEPT ![q.s] = new]
  BY Zenon DEF ReleaseSet, locks
<1>2. proc' = [proc EXCEPT ![p] = x]
  BY Zenon DEF ReleaseSet, Goto
<1>3. /\ Typed(q) /\ q.row.user = q.i /\ q.row.inUse /\ q.s \in Sandboxes
      /\ p \in Workers => p \in env.returning
      /\ p \in Workers \/ p \in Admins
  BY Zenon, <1>1, ConstantFacts DEF LeaseInv, Local, Fine, WorkerFine, AdminFine, Reads, Knows, Place, OneSandbox
<1>4. new \in Row /\ new.user = q.i
  BY ZenonT(30), <1>3 DEF Typed, Row
<1>5. Transactional => p \in Admins /\ lease[q.s].user = q.i
  BY Zenon, <1>1, <1>3 DEF Transactional, LeaseInv, Guarded, Current
<1> HIDE DEF new
<1>6. /\ lease' \in [Sandboxes -> Row]
      /\ \A t \in Sandboxes : lease'[t] = IF t = q.s THEN new ELSE lease[t]
  BY Zenon, <1>1, <1>3, <1>4 DEF LeaseInv, TableTypes
<1>7. TableTypes' /\ RecFine' /\ DeletedHoldsNothing'
  BY Zenon, <1>1, <1>6 DEF LeaseInv, TableTypes, RecFine, DeletedHoldsNothing
<1>8. HashMatchesRows'
  BY <1>1, <1>4, <1>5, <1>6 DEF LeaseInv, HashMatchesRows, Transactional
<1>9. Fine(p, x)
  <2>1. CASE p \in Workers
    BY Zenon, <1>1, <2>1 DEF LeaseInv, Local, Fine, WorkerFine, Typed, Fields
  <2>2. CASE p \notin Workers
    BY <1>1, <2>2 DEF LeaseInv, Local, Fine, AdminFine, Typed, Place, Knows, Reads, OneSandbox, Fields
  <2> QED BY Zenon, <2>1, <2>2
<1>10. /\ DOMAIN x = DOMAIN q /\ x.pc = "relCool" /\ x.op = q.op /\ x.i = q.i
  BY Zenon, <1>3 DEF Typed, Fields
<1> HIDE DEF x
<1>11. ASSUME NEW r \in Admins PROVE Locked(r, proc[r])' /\ Current(proc[r])'
  <2>1. Locked(r, proc[r]) /\ Current(proc[r]) /\ AdminFine(proc[r]) /\ r \in Procs
    BY Zenon, ConstantFacts DEF LeaseInv, Guarded, Local, Fine
  <2>2. CASE r = p
    <3>1. proc'[r] = x
      BY Zenon, <1>2, <2>1, <2>2 DEF LeaseInv, Local
    <3> QED BY Zenon, <1>1, <1>10, <2>1, <2>2, <3>1 DEF Locked, Current, Critical
  <2>3. CASE r # p
    <3>1. proc'[r] = proc[r]
      BY Zenon, <1>2, <2>1, <2>3 DEF LeaseInv, Local
    <3>2. Locked(r, proc[r])'
      BY Zenon, <1>1, <2>1, <3>1 DEF Locked
    <3>3. Transactional /\ proc[r].pc \in {"unGone", "lsDel", "relSet"} =>
            /\ proc[r].s \in Sandboxes /\ Critical(proc[r]) /\ ~env.locksExpire
            /\ Critical(q) /\ proc[r].i # q.i
      BY Zenon, <1>1, <1>5, <2>1, <2>3, PruneIsCritical, OneCritical DEF AdminFine, Knows, OneSandbox
    <3>4. Current(proc[r])'
      BY Zenon, <1>4, <1>5, <1>6, <2>1, <3>1, <3>3 DEF Current, Transactional
    <3> QED BY Zenon, <3>2, <3>4
  <2> QED BY Zenon, <2>2, <2>3
<1>12. Guarded'
  BY Zenon, <1>11 DEF Guarded
<1> QED BY ZenonT(30), <1>2, <1>7, <1>8, <1>9, <1>12, Moves

-----------------------------------------------------------------------------
(* Locks.                                                                   *)
LEMMA AcquireInstanceLockStep ==
  ASSUME LeaseInv, NEW p \in Procs, UNCHANGED env, AcquireInstanceLock(p)
  PROVE  LeaseInv'
<1> DEFINE q == proc[p]  x == [q EXCEPT !.pc = AfterInstLock(q.op)]
<1> USE DEF AssignPcs, LockPcs, ReleasePcs, ListPcs, UnassignPcs, ScopeOps
<1>1. /\ q.pc = "instLock" /\ instLock[q.i] = Nobody
      /\ instLock' = [instLock EXCEPT ![q.i] = p]
      /\ UNCHANGED <<lease, assign, avail, alive, scope, rec>>
      /\ proc' = [proc EXCEPT ![p] = x]
  BY Zenon DEF AcquireInstanceLock, table, Goto
<1>2. p \in Admins /\ AdminFine(q)
  BY Zenon, <1>1, AdminAt
<1>3. /\ q.op \in {"assign", "unassign", "delete", "clean"} /\ q.i \in Instances
      /\ q.op \in {"assign", "unassign"} => AfterInstLock(q.op) = "opLock"
      /\ q.op = "delete" => AfterInstLock(q.op) = "lsHash"
      /\ q.op = "clean" => AfterInstLock(q.op) = "scan"
  BY Zenon, <1>1, <1>2 DEF AdminFine, Place, Typed, AfterInstLock
<1>4. /\ DOMAIN x = DOMAIN q /\ x.pc = AfterInstLock(q.op) /\ x.op = q.op /\ x.i = q.i
      /\ x.s = q.s /\ x.row = q.row /\ x.seen = q.seen /\ x.todo = q.todo /\ x.back = q.back
  BY Zenon, <1>2 DEF AdminFine, Typed, Fields
<1> HIDE DEF x
<1>5. AdminFine(x)
  BY Zenon, <1>1, <1>2, <1>3, <1>4 DEF AdminFine, Typed, Place, Knows, Reads, OneSandbox
<1>6. TableTypes' /\ RecFine' /\ DeletedHoldsNothing' /\ HashMatchesRows'
  BY <1>1, <1>2, <1>3 DEF LeaseInv, TableTypes, RecFine, DeletedHoldsNothing, HashMatchesRows, Transactional
<1>7. \A i \in Instances : instLock'[i] = IF i = q.i THEN p ELSE instLock[i]
  BY Zenon, <1>1, <1>3 DEF LeaseInv, TableTypes
<1>8. ASSUME NEW r \in Admins PROVE Locked(r, proc[r])' /\ Current(proc[r])'
  <2>1. Locked(r, proc[r]) /\ Current(proc[r]) /\ AdminFine(proc[r]) /\ r \in Procs
    BY Zenon, ConstantFacts DEF LeaseInv, Guarded, Local, Fine
  <2>2. CASE r = p
    <3>1. proc'[r] = x
      BY Zenon, <1>1, <2>1, <2>2 DEF LeaseInv, Local
    <3> QED BY Zenon, <1>1, <1>3, <1>4, <1>7, <2>2, <3>1 DEF Locked, Current, Critical
  <2>3. CASE r # p
    <3>1. proc'[r] = proc[r] /\ proc[r].i \in Instances /\ r # Nobody
      BY Zenon, <1>1, <2>1, <2>3, ConstantFacts DEF LeaseInv, Local, AdminFine, Typed
    <3> QED BY SMTT(30), <1>1, <1>7, <2>1, <3>1 DEF Locked, Current, Critical, Transactional
  <2> QED BY Zenon, <2>2, <2>3
<1> QED BY ZenonT(30), <1>1, <1>2, <1>5, <1>6, <1>8, Moves, ConstantFacts DEF Fine, Guarded

LEMMA ReleaseInstanceLockStep ==
  ASSUME LeaseInv, NEW p \in Procs, UNCHANGED env, ReleaseInstanceLock(p)
  PROVE  LeaseInv'
<1> DEFINE q == proc[p]  x == At(q.i, q.left - 1)
<1> USE DEF AssignPcs, LockPcs, ReleasePcs, ListPcs, UnassignPcs, ScopeOps
<1>1. /\ q.pc = "unlockInst"
      /\ instLock' = [instLock EXCEPT ![q.i] = IF @ = p THEN Nobody ELSE @]
      /\ UNCHANGED <<lease, assign, avail, alive, scope, rec>>
      /\ proc' = [proc EXCEPT ![p] = x]
  BY Zenon DEF ReleaseInstanceLock, table, End
<1>2. p \in Admins /\ AdminFine(q) /\ q.i \in Instances
  BY Zenon, <1>1, AdminAt DEF AdminFine, Typed
<1>3. AdminFine(x) /\ x.pc = "idle"
  BY Zenon, <1>2, EndKeeps, Starts
<1> HIDE DEF x
<1>4. TableTypes' /\ RecFine' /\ DeletedHoldsNothing' /\ HashMatchesRows'
  BY Zenon, <1>1, <1>2 DEF LeaseInv, TableTypes, RecFine, DeletedHoldsNothing, HashMatchesRows, Transactional
<1>5. \A i \in Instances : instLock'[i] = IF i = q.i /\ instLock[i] = p THEN Nobody ELSE instLock[i]
  BY Zenon, <1>1, <1>2 DEF LeaseInv, TableTypes
<1>6. ASSUME NEW r \in Admins PROVE Locked(r, proc[r])' /\ Current(proc[r])'
  <2>1. Locked(r, proc[r]) /\ Current(proc[r]) /\ AdminFine(proc[r]) /\ r \in Procs
    BY Zenon, ConstantFacts DEF LeaseInv, Guarded, Local, Fine
  <2>2. CASE r = p
    <3>1. proc'[r] = x
      BY Zenon, <1>1, <2>1, <2>2 DEF LeaseInv, Local
    <3> QED BY Zenon, <1>3, <3>1 DEF Locked, Current, Critical
  <2>3. CASE r # p
    <3>1. proc'[r] = proc[r] /\ proc[r].i \in Instances
      BY Zenon, <1>1, <2>1, <2>3 DEF LeaseInv, Local, AdminFine, Typed
    <3> QED BY SMTT(30), <1>1, <1>5, <2>1, <2>3, <3>1 DEF Locked, Current, Critical, Transactional
  <2> QED BY Zenon, <2>2, <2>3
<1> QED BY ZenonT(30), <1>1, <1>2, <1>3, <1>4, <1>6, Moves, ConstantFacts DEF Fine, Guarded

LEMMA LockExpiresStep ==
  ASSUME LeaseInv, UNCHANGED env, LockExpires
  PROVE  LeaseInv'
<1>1. UNCHANGED <<env, lease, assign, avail, alive, scope, proc, rec>>
  BY Zenon DEF LockExpires, table
<1>2. /\ instLock' \in [Instances -> Admins \cup {Nobody}]
      /\ \A i \in Instances : instLock'[i] = instLock[i] \/ Lapsed(instLock[i])
  BY Zenon DEF LockExpires, LeaseInv, TableTypes
<1>3. TableTypes' /\ RecFine' /\ DeletedHoldsNothing' /\ HashMatchesRows'
  BY Zenon, <1>1, <1>2 DEF LeaseInv, TableTypes, RecFine, DeletedHoldsNothing, HashMatchesRows, Transactional
<1>4. Local'
  BY Zenon, <1>1 DEF LeaseInv, Local, Fine, WorkerFine, AdminFine, Knows
<1>5. ASSUME NEW r \in Admins PROVE Locked(r, proc[r])' /\ Current(proc[r])'
  <2>1. Locked(r, proc[r]) /\ Current(proc[r]) /\ proc[r].i \in Instances
    BY Zenon, ConstantFacts DEF LeaseInv, Guarded, Local, Fine, AdminFine, Typed
  <2> QED BY Zenon, <1>1, <1>2, <2>1 DEF Locked, Current, Critical, Transactional, Lapsed
<1> QED BY Zenon, <1>3, <1>4, <1>5 DEF LeaseInv, Guarded

-----------------------------------------------------------------------------
(* Transactions and prunings.                                               *)
LEMMA CommitAssignStep ==
  ASSUME LeaseInv, NEW p \in Admins, UNCHANGED <<env, avail, alive, scope, instLock, rec>>,
         proc[p].pc = "asExec", lease[proc[p].s] = proc[p].row, CommitAssign(p)
  PROVE  LeaseInv'
<1> DEFINE q == proc[p]  x == [q EXCEPT !.pc = "unlock"]
<1> USE DEF AssignPcs, LockPcs, ReleasePcs, ListPcs, UnassignPcs, ScopeOps
<1>1. /\ lease' = [lease EXCEPT ![q.s] = Fresh(q.i)]
      /\ assign' = [i \in Instances |->
           IF i = q.i THEN assign[i] \cup {q.s}
           ELSE IF i = q.row.user THEN assign[i] \ {q.s} ELSE assign[i]]
      /\ proc' = [proc EXCEPT ![p] = x]
  BY Zenon DEF CommitAssign, Goto
<1>2. AdminFine(q) /\ Locked(p, q) /\ q.op = "assign" /\ q.s \in Sandboxes /\ q.i \in Instances
  BY Zenon, ConstantFacts DEF LeaseInv, Guarded, Local, Fine, AdminFine, Place, Knows, OneSandbox, Typed
<1>3. AdminFine(x) /\ Locked(p, x) /\ Current(x) /\ x.pc = "unlock" /\ x.op = "assign" /\ x.i = q.i
  BY Zenon, <1>2 DEF Locked, Current, Critical, AdminFine, Typed, Place, Knows, Reads, OneSandbox, Fields
<1>4. Fresh(q.i) \in Row /\ Fresh(q.i).user = q.i
  BY Zenon, <1>2 DEF Fresh, Row
<1>5. /\ lease' \in [Sandboxes -> Row] /\ assign' \in [Instances -> SUBSET Sandboxes]
      /\ \A t \in Sandboxes : lease'[t] = IF t = q.s THEN Fresh(q.i) ELSE lease[t]
      /\ \A i \in Instances : i # q.i => assign'[i] \subseteq assign[i]
  BY Zenon, <1>1, <1>2, <1>4 DEF LeaseInv, TableTypes
<1> HIDE DEF x
<1>6. TableTypes' /\ RecFine'
  BY Zenon, <1>5 DEF LeaseInv, TableTypes, RecFine
<1>7. DeletedHoldsNothing'
  BY Zenon, <1>2, <1>5 DEF LeaseInv, DeletedHoldsNothing, Locked
<1>8. HashMatchesRows'
  BY SMTT(30), <1>1, <1>2, <1>4, <1>5 DEF LeaseInv, HashMatchesRows, Transactional
<1>9. ~env.locksExpire => Critical(q)
  BY Zenon, <1>2 DEF Critical
<1>10. ASSUME NEW r \in Admins PROVE Locked(r, proc[r])' /\ Current(proc[r])'
  <2>1. Locked(r, proc[r]) /\ Current(proc[r]) /\ AdminFine(proc[r]) /\ r \in Procs
    BY Zenon, ConstantFacts DEF LeaseInv, Guarded, Local, Fine
  <2>2. CASE r = p
    <3>1. proc'[r] = x
      BY Zenon, <1>1, <2>1, <2>2 DEF LeaseInv, Local
    <3> QED BY Zenon, <1>3, <2>2, <3>1 DEF Locked, Current, Critical
  <2>3. CASE r # p
    <3>1. proc'[r] = proc[r] /\ proc[r].i \in Instances
      BY Zenon, <1>1, <2>1, <2>3 DEF LeaseInv, Local, AdminFine, Typed
    <3>2. ~env.locksExpire /\ Critical(proc[r]) => proc[r].i # q.i
      BY Zenon, <1>9, <2>3, OneCritical
    <3>3. Locked(r, proc[r])'
      BY Zenon, <1>5, <2>1, <3>1, <3>2 DEF Locked, Critical
    <3>4. Transactional /\ proc[r].pc \in {"unGone", "lsDel", "relSet"} =>
            proc[r].s \in Sandboxes /\ proc[r].i # q.i
      BY Zenon, <2>1, <3>2, PruneIsCritical DEF AdminFine, Knows, OneSandbox
    <3>5. q.row.user \in {Nobody, q.i} \/ ~q.row.inUse
      BY Zenon, <1>2 DEF AdminFine, Reads
    <3>6. proc[r].i # Nobody
      BY Zenon, <3>1, ConstantFacts
    <3>7. Current(proc[r])'
      BY SMTT(30), <1>4, <1>5, <2>1, <3>1, <3>4, <3>5, <3>6 DEF Current, Transactional
    <3> QED BY Zenon, <3>3, <3>7
  <2> QED BY Zenon, <2>2, <2>3
<1> QED BY ZenonT(30), <1>1, <1>3, <1>6, <1>7, <1>8, <1>10, Moves, ConstantFacts DEF Fine, Guarded

LEMMA AssignTxExecStep ==
  ASSUME LeaseInv, NEW p \in Procs, UNCHANGED env, AssignTxExec(p)
  PROVE  LeaseInv'
<1> DEFINE q == proc[p]
<1> USE DEF AssignPcs, LockPcs, ReleasePcs, ListPcs, UnassignPcs, ScopeOps
<1>1. q.pc = "asExec" /\ UNCHANGED <<avail, alive, scope, instLock, rec>>
  BY Zenon DEF AssignTxExec, locks
<1>2. p \in Admins /\ AdminFine(q) /\ Locked(p, q) /\ Current(q)
  BY Zenon, <1>1, AdminAt
<1>3. CASE lease[q.s] = q.row /\ CommitAssign(p)
  BY Zenon, <1>1, <1>2, <1>3, CommitAssignStep
<1>4. CASE proc' = [proc EXCEPT ![p] = Again(q, "asRead")] /\ UNCHANGED <<lease, assign>>
  <2>1. LET x == Again(q, "asRead") IN AdminFine(x) /\ Locked(p, x) /\ Current(x)
    BY ZenonT(30), <1>1, <1>2, AgainKeeps DEF AdminFine, Place
  <2> QED BY ZenonT(30), <1>1, <1>2, <1>4, <2>1, Quiet, ConstantFacts DEF Fine
<1> QED BY Zenon, <1>3, <1>4 DEF AssignTxExec

LEMMA CommitUnassignStep ==
  ASSUME LeaseInv, NEW p \in Admins, UNCHANGED <<env, avail, alive, scope, instLock, rec>>,
         proc[p].pc = "unExec", lease[proc[p].s] = proc[p].row, CommitUnassign(p)
  PROVE  LeaseInv'
<1> DEFINE q == proc[p]  x == [q EXCEPT !.pc = "unlock"]
<1> USE DEF AssignPcs, LockPcs, ReleasePcs, ListPcs, UnassignPcs, ScopeOps
<1>1. /\ lease' = [lease EXCEPT ![q.s] = NoLease]
      /\ assign' = [assign EXCEPT ![q.i] = @ \ {q.s}]
      /\ proc' = [proc EXCEPT ![p] = x]
  BY Zenon DEF CommitUnassign, Goto
<1>2. /\ AdminFine(q) /\ Locked(p, q) /\ q.op \in {"unassign", "delete", "clean"}
      /\ q.s \in Sandboxes /\ q.i \in Instances /\ q.row.user = q.i
  BY ZenonT(30), ConstantFacts DEF LeaseInv, Guarded, Local, Fine, AdminFine, Place, Knows, Reads, OneSandbox, Typed
<1>3. /\ DOMAIN x = DOMAIN q /\ x.pc = "unlock" /\ x.op = q.op /\ x.i = q.i
      /\ x.s = q.s /\ x.row = q.row /\ x.seen = q.seen /\ x.todo = q.todo
  BY Zenon, <1>2 DEF AdminFine, Typed, Fields
<1> HIDE DEF x
<1>4. AdminFine(x) /\ Locked(p, x) /\ Current(x)
  BY ZenonT(30), <1>2, <1>3 DEF Locked, Current, Critical, AdminFine, Typed, Place, Knows, Reads, OneSandbox
<1>5. /\ lease' \in [Sandboxes -> Row] /\ assign' \in [Instances -> SUBSET Sandboxes]
      /\ \A t \in Sandboxes : lease'[t] = IF t = q.s THEN NoLease ELSE lease[t]
      /\ \A i \in Instances : assign'[i] = IF i = q.i THEN assign[i] \ {q.s} ELSE assign[i]
  BY ZenonT(30), <1>1, <1>2, ConstantFacts DEF LeaseInv, TableTypes
<1>6. TableTypes' /\ RecFine'
  BY ZenonT(30), <1>5 DEF LeaseInv, TableTypes, RecFine
<1>7. DeletedHoldsNothing'
  BY Zenon, <1>5 DEF LeaseInv, DeletedHoldsNothing
<1>8. HashMatchesRows'
  <2>1. ASSUME Transactional, NEW i \in Instances, NEW t \in Sandboxes
        PROVE  t \in assign'[i] <=> lease'[t].user = i
    <3>1. t \in assign[i] <=> lease[t].user = i
      BY Zenon, <2>1 DEF LeaseInv, HashMatchesRows
    <3> QED BY <1>2, <1>5, <3>1, ConstantFacts DEF NoLease
  <2> QED BY Zenon, <2>1 DEF HashMatchesRows, Transactional
<1>9. ASSUME NEW r \in Admins PROVE Locked(r, proc[r])' /\ Current(proc[r])'
  <2>1. Locked(r, proc[r]) /\ Current(proc[r]) /\ AdminFine(proc[r]) /\ r \in Procs
    BY Zenon, ConstantFacts DEF LeaseInv, Guarded, Local, Fine
  <2>2. CASE r = p
    <3>1. proc'[r] = x
      BY ZenonT(30), <1>1, <2>1, <2>2 DEF LeaseInv, Local
    <3> QED BY ZenonT(30), <1>3, <1>4, <1>2, <2>2, <3>1 DEF Locked, Current, Critical
  <2>3. CASE r # p
    <3>1. proc'[r] = proc[r] /\ proc[r].i \in Instances /\ proc[r].i # Nobody
      BY Zenon, <1>1, <2>1, <2>3, ConstantFacts DEF LeaseInv, Local, AdminFine, Typed
    <3>2. Locked(r, proc[r])'
      BY ZenonT(30), <1>5, <2>1, <3>1 DEF Locked, Critical
    <3>3. Transactional /\ proc[r].pc \in {"unGone", "lsDel", "relSet"} =>
            proc[r].s \in Sandboxes /\ proc[r].i # q.i
      BY Zenon, <2>1, <2>3, PruneIsCritical, OneCritical DEF AdminFine, Knows, OneSandbox
    <3>4. Current(proc[r])'
      BY SMTT(30), <1>2, <1>5, <2>1, <3>1, <3>3 DEF Current, Transactional, NoLease
    <3> QED BY ZenonT(30), <3>2, <3>4
  <2> QED BY Zenon, <2>2, <2>3
<1> QED BY ZenonT(30), <1>1, <1>4, <1>6, <1>7, <1>8, <1>9, Moves, ConstantFacts DEF Fine, Guarded

LEMMA UnassignTxExecStep ==
  ASSUME LeaseInv, NEW p \in Procs, UNCHANGED env, UnassignTxExec(p)
  PROVE  LeaseInv'
<1> DEFINE q == proc[p]
<1> USE DEF AssignPcs, LockPcs, ReleasePcs, ListPcs, UnassignPcs, ScopeOps
<1>1. q.pc = "unExec" /\ UNCHANGED <<avail, alive, scope, instLock, rec>>
  BY Zenon DEF UnassignTxExec, locks
<1>2. p \in Admins /\ AdminFine(q) /\ Locked(p, q) /\ Current(q)
  BY Zenon, <1>1, AdminAt
<1>3. CASE lease[q.s] = q.row /\ CommitUnassign(p)
  BY Zenon, <1>1, <1>2, <1>3, CommitUnassignStep
<1>4. CASE proc' = [proc EXCEPT ![p] = Again(q, "unRead")] /\ UNCHANGED <<lease, assign>>
  <2>1. LET x == Again(q, "unRead") IN AdminFine(x) /\ Locked(p, x) /\ Current(x)
    BY ZenonT(30), <1>1, <1>2, AgainKeeps DEF AdminFine, Place
  <2> QED BY ZenonT(30), <1>1, <1>2, <1>4, <2>1, Quiet, ConstantFacts DEF Fine
<1> QED BY Zenon, <1>3, <1>4 DEF UnassignTxExec

(* An HDEL of an entry whose row was seen to have another owner.            *)
LEMMA PruneStep ==
  ASSUME LeaseInv, NEW p \in Procs, UNCHANGED env,
         clearMissingLeaseAssignment(p) \/ ListRemovesStale(p)
  PROVE  LeaseInv'
<1> DEFINE q == proc[p]
<1> USE DEF AssignPcs, LockPcs, ReleasePcs, ListPcs, UnassignPcs, ScopeOps
<1> DEFINE c == IF q.pc = "unGone" THEN "unlock" ELSE "lsRead"
           x == [q EXCEPT !.pc = c]
<1>1. /\ \/ q.pc = "unGone" /\ c = "unlock"
         \/ q.pc = "lsDel" /\ c = "lsRead"
      /\ assign' = [assign EXCEPT ![q.i] = @ \ {q.s}]
      /\ proc' = [proc EXCEPT ![p].pc = c]
      /\ UNCHANGED <<lease, avail, alive, scope, instLock, rec>>
  BY Zenon DEF clearMissingLeaseAssignment, ListRemovesStale, Goto, locks
<1> HIDE DEF c
<1>2. p \in Admins /\ AdminFine(q) /\ Locked(p, q) /\ Current(q) /\ q.i \in Instances
  BY Zenon, <1>1, AdminAt DEF AdminFine, Typed
<1>3. /\ DOMAIN x = DOMAIN q /\ x.pc = c /\ x.op = q.op /\ x.i = q.i /\ x.has = q.has
      /\ x.s = q.s /\ x.row = q.row /\ x.seen = q.seen /\ x.todo = q.todo
  BY Zenon, <1>2 DEF AdminFine, Typed, Fields
<1>4. proc' = [proc EXCEPT ![p] = x]
  BY Zenon, <1>1
<1> HIDE DEF x
<1>5. AdminFine(x)
  BY Zenon, <1>1, <1>2, <1>3 DEF AdminFine, Typed, Place, Knows, Reads, OneSandbox
<1>6. /\ assign' \in [Instances -> SUBSET Sandboxes]
      /\ \A i \in Instances : assign'[i] = IF i = q.i THEN assign[i] \ {q.s} ELSE assign[i]
  BY ZenonT(30), <1>1, <1>2 DEF LeaseInv, TableTypes
<1>7. TableTypes' /\ RecFine' /\ DeletedHoldsNothing'
  BY Zenon, <1>1, <1>6 DEF LeaseInv, TableTypes, RecFine, DeletedHoldsNothing
<1>8. HashMatchesRows'
  BY <1>1, <1>2, <1>6 DEF LeaseInv, HashMatchesRows, Transactional, Current
<1>9. ASSUME NEW r \in Admins PROVE Locked(r, proc[r])' /\ Current(proc[r])'
  <2>1. Locked(r, proc[r]) /\ Current(proc[r]) /\ AdminFine(proc[r]) /\ r \in Procs
    BY Zenon, ConstantFacts DEF LeaseInv, Guarded, Local, Fine
  <2>2. CASE r = p
    <3>1. proc'[r] = x
      BY Zenon, <1>4, <2>1, <2>2 DEF LeaseInv, Local
    <3>2. Current(x) /\ (Critical(x) => Critical(q))
      BY Zenon, <1>1, <1>2, <1>3 DEF Critical, Current, AdminFine, Place
    <3>3. Current(proc[r])'
      BY Zenon, <1>1, <3>1, <3>2 DEF Current, Transactional
    <3>4. Locked(r, proc[r])'
      BY Zenon, <1>1, <1>2, <1>3, <1>6, <2>2, <3>1, <3>2 DEF Locked
    <3> QED BY Zenon, <3>3, <3>4
  <2>3. CASE r # p
    <3>1. proc'[r] = proc[r] /\ proc[r].i \in Instances
      BY Zenon, <1>4, <2>1, <2>3 DEF LeaseInv, Local, AdminFine, Typed
    <3> QED BY SMTT(30), <1>1, <1>6, <2>1, <3>1 DEF Locked, Current, Transactional
  <2> QED BY Zenon, <2>2, <2>3
<1> QED BY ZenonT(30), <1>2, <1>4, <1>5, <1>7, <1>8, <1>9, Moves, ConstantFacts DEF Fine, Guarded

LEMMA DeleteStep ==
  ASSUME LeaseInv, NEW p \in Procs, UNCHANGED env, deleteSingleAgentInstance(p)
  PROVE  LeaseInv'
<1> DEFINE q == proc[p]  x == [q EXCEPT !.pc = "unlockInst"]
<1> USE DEF AssignPcs, LockPcs, ReleasePcs, ListPcs, UnassignPcs, ScopeOps
<1>1. /\ q.pc = "erase" /\ alive' = alive \ {q.i}
      /\ proc' = [proc EXCEPT ![p] = x]
      /\ UNCHANGED <<lease, assign, avail, scope, instLock, rec>>
  BY Zenon DEF deleteSingleAgentInstance, Goto, table, locks
<1>2. p \in Admins /\ AdminFine(q) /\ Locked(p, q) /\ Current(q) /\ q.op = "delete"
  BY Zenon, <1>1, AdminAt DEF AdminFine, Place
<1>3. AdminFine(x) /\ Locked(p, x) /\ Current(x) /\ x.pc = "unlockInst" /\ x.op = "delete" /\ x.i = q.i
  BY Zenon, <1>1, <1>2 DEF Locked, Current, Critical, AdminFine, Typed, Place, Knows, Reads, OneSandbox, Fields
<1> HIDE DEF x
<1>4. TableTypes' /\ RecFine' /\ HashMatchesRows'
  BY Zenon, <1>1 DEF LeaseInv, TableTypes, RecFine, HashMatchesRows, Transactional
<1>5. DeletedHoldsNothing'
  BY Zenon, <1>1, <1>2 DEF LeaseInv, DeletedHoldsNothing, Locked
<1>6. ASSUME NEW r \in Admins PROVE Locked(r, proc[r])' /\ Current(proc[r])'
  <2>1. Locked(r, proc[r]) /\ Current(proc[r]) /\ AdminFine(proc[r]) /\ r \in Procs
    BY Zenon, ConstantFacts DEF LeaseInv, Guarded, Local, Fine
  <2>2. CASE r = p
    <3>1. proc'[r] = x
      BY Zenon, <1>1, <2>1, <2>2 DEF LeaseInv, Local
    <3> QED BY Zenon, <1>1, <1>3, <2>2, <3>1 DEF Locked, Current, Critical
  <2>3. CASE r # p
    <3>1. proc'[r] = proc[r]
      BY Zenon, <1>1, <2>1, <2>3 DEF LeaseInv, Local
    <3>2. ~env.locksExpire /\ Critical(proc[r]) => proc[r].i # q.i
      BY Zenon, <1>1, <1>2, <2>3, OneCritical DEF Critical
    <3>3. proc[r].pc \in {"asScope", "asRead", "asExec"} => Critical(proc[r])
      BY Zenon, <2>1 DEF AdminFine, Place, Critical
    <3>4. Locked(r, proc[r])'
      <4>1. ~env.locksExpire /\ proc[r].pc \in {"asScope", "asRead", "asExec"} => proc[r].i \in alive'
        BY Zenon, <1>1, <2>1, <3>2, <3>3 DEF Locked
      <4> QED BY Zenon, <1>1, <2>1, <3>1, <4>1 DEF Locked
    <3>5. Current(proc[r])'
      BY Zenon, <1>1, <2>1, <3>1 DEF Current, Transactional
    <3> QED BY Zenon, <3>4, <3>5
  <2> QED BY Zenon, <2>2, <2>3
<1> QED BY ZenonT(30), <1>1, <1>2, <1>3, <1>4, <1>5, <1>6, Moves, ConstantFacts DEF Fine, Guarded

-----------------------------------------------------------------------------
(* The background refresh.                                                  *)
LEMMA Background ==
  ASSUME LeaseInv, UNCHANGED <<env, alive, scope, instLock, proc>>, TableTypes', RecFine',
         env.rounds = 0 => UNCHANGED <<lease, assign>>,
         \A i \in Instances : assign'[i] \subseteq assign[i]
  PROVE  LeaseInv'
<1>1. DeletedHoldsNothing'
  BY Zenon DEF LeaseInv, DeletedHoldsNothing
<1>2. HashMatchesRows'
  BY DEF LeaseInv, HashMatchesRows, Transactional
<1>3. Local'
  BY Zenon DEF LeaseInv, Local, Fine, WorkerFine, AdminFine, Knows
<1>4. ASSUME NEW r \in Admins PROVE Locked(r, proc[r])' /\ Current(proc[r])'
  <2>1. Locked(r, proc[r]) /\ Current(proc[r]) /\ proc[r].i \in Instances
    BY Zenon, ConstantFacts DEF LeaseInv, Guarded, Local, Fine, AdminFine, Typed
  <2>2. Current(proc[r])'
    BY Zenon, <2>1 DEF Current, Transactional
  <2>3. Locked(r, proc[r])'
    BY Zenon, <2>1 DEF Locked
  <2> QED BY Zenon, <2>2, <2>3
<1> QED BY Zenon, <1>1, <1>2, <1>3, <1>4 DEF LeaseInv, Guarded

LEMMA CooldownStep ==
  ASSUME LeaseInv, UNCHANGED env, NEW s \in Sandboxes, CooldownExpires(s)
  PROVE  LeaseInv'
<1>1. TableTypes' /\ RecFine'
  BY Zenon DEF CooldownExpires, LeaseInv, TableTypes, RecFine, locks
<1> QED BY Zenon, <1>1, Background DEF CooldownExpires, locks

LEMMA MergeStep ==
  ASSUME LeaseInv, UNCHANGED env, NEW s \in Sandboxes, mergeResolvedResourceIntoLease(s)
  PROVE  LeaseInv'
<1>1. /\ env.rounds # 0 /\ lease' = [lease EXCEPT ![s].missing = FALSE]
      /\ UNCHANGED <<assign, avail, alive, scope, instLock, proc, rec>>
  BY EnvFacts DEF mergeResolvedResourceIntoLease, locks, LeaseInv, TableTypes
<1>2. lease' \in [Sandboxes -> Row]
  BY ZenonT(30), <1>1 DEF LeaseInv, TableTypes, Row
<1>3. TableTypes' /\ RecFine'
  BY Zenon, <1>1, <1>2 DEF LeaseInv, TableTypes, RecFine
<1> QED BY Zenon, <1>1, <1>3, Background

LEMMA RefreshStep ==
  ASSUME LeaseInv, UNCHANGED env, PublishSnapshot \/ ReconcileRead \/ ReconcileEnds
  PROVE  LeaseInv'
<1>1. UNCHANGED <<lease, assign, alive, scope, instLock, proc>>
  BY ZenonT(30) DEF PublishSnapshot, ReconcileRead, ReconcileEnds, table, locks
<1>2. avail' \subseteq Sandboxes
  BY ZenonT(30), EnvFacts DEF PublishSnapshot, ReconcileRead, ReconcileEnds, LeaseInv, TableTypes
<1>3. TableTypes'
  BY Zenon, <1>1, <1>2 DEF LeaseInv, TableTypes
<1>4. RecFine'
  <2>1. CASE PublishSnapshot
    BY <2>1 DEF PublishSnapshot, LeaseInv, RecFine
  <2>2. CASE ReconcileRead
    <3> DEFINE owned == {s \in Sandboxes : lease[s].user # Nobody}
    <3>1. /\ DOMAIN rec' = DOMAIN rec /\ rec'.pc = "visit" /\ rec'.todo = owned
          /\ rec'.rows = lease /\ rec'.left = rec.left /\ rec.pc = "read"
      BY ZenonT(30), <2>2 DEF ReconcileRead, LeaseInv, RecFine
    <3>2. owned \subseteq Sandboxes /\ \A s \in owned : lease[s].user \in Instances
      BY Zenon DEF LeaseInv, TableTypes, Row
    <3> HIDE DEF owned
    <3> QED BY Zenon, <3>1, <3>2 DEF LeaseInv, RecFine, TableTypes
  <2>3. CASE ReconcileEnds
    <3>1. [s \in Sandboxes |-> NoLease] \in [Sandboxes -> Row]
      BY Zenon, ConstantFacts
    <3>2. /\ DOMAIN rec' = DOMAIN rec /\ rec'.pc = "wait" /\ rec'.todo = {}
          /\ rec'.rows = [s \in Sandboxes |-> NoLease] /\ rec'.left = rec.left
      BY Zenon, <2>3 DEF ReconcileEnds, LeaseInv, RecFine
    <3> QED BY Zenon, <2>3, <3>1, <3>2 DEF LeaseInv, RecFine
  <2> QED BY Zenon, <2>1, <2>2, <2>3
<1> QED BY Zenon, <1>1, <1>3, <1>4, Background

LEMMA ReconcileEntryStep ==
  ASSUME LeaseInv, UNCHANGED env, ReconcileEntry
  PROVE  LeaseInv'
<1>1. env.rounds # 0 /\ UNCHANGED <<avail, alive, scope, instLock, proc>>
  BY Zenon DEF ReconcileEntry, LeaseInv, RecFine, locks
<1>2. PICK s \in rec.todo :
        /\ \/ \E b \in BOOLEAN : WriteBack(s, [rec.rows[s] EXCEPT !.missing = b])
           \/ /\ lease' = [lease EXCEPT ![s] = NoLease]
              /\ assign' = [assign EXCEPT ![rec.rows[s].user] = @ \ {s}]
           \/ UNCHANGED <<lease, assign>>
        /\ rec' = [rec EXCEPT !.todo = @ \ {s}]
  BY ZenonT(30) DEF ReconcileEntry
<1>3. s \in Sandboxes /\ rec.rows[s] \in Row /\ rec.rows[s].user \in Instances
  BY Zenon DEF LeaseInv, RecFine
<1>4. RecFine'
  BY Zenon, <1>2, <1>1 DEF LeaseInv, RecFine
<1>5. /\ lease' \in [Sandboxes -> Row] /\ assign' \in [Instances -> SUBSET Sandboxes]
      /\ \A i \in Instances : assign'[i] \subseteq assign[i]
  <2>1. CASE \E b \in BOOLEAN : WriteBack(s, [rec.rows[s] EXCEPT !.missing = b])
    BY <1>3, <2>1 DEF WriteBack, LeaseInv, TableTypes, Row
  <2>2. CASE /\ lease' = [lease EXCEPT ![s] = NoLease]
             /\ assign' = [assign EXCEPT ![rec.rows[s].user] = @ \ {s}]
    BY Zenon, <1>3, <2>2, ConstantFacts DEF LeaseInv, TableTypes
  <2>3. CASE UNCHANGED <<lease, assign>>
    BY Zenon, <2>3 DEF LeaseInv, TableTypes
  <2> QED BY Zenon, <1>2, <2>1, <2>2, <2>3
<1>6. TableTypes'
  BY Zenon, <1>1, <1>5 DEF LeaseInv, TableTypes
<1> QED BY Zenon, <1>1, <1>4, <1>5, <1>6, Background

-----------------------------------------------------------------------------
(* Every step of the lease table.                                           *)
LEMMA LeaseStep ==
  ASSUME LeaseInv, LeaseNext
  PROVE  LeaseInv'
<1> USE DEF LeaseNext
<1>1. ASSUME NEW w \in Workers, WorkerStep(w) PROVE LeaseInv'
  BY Zenon, <1>1, ApplyStep, StopStep DEF WorkerStep
<1>2. ASSUME NEW p \in Admins, Request(p) \/ RedisFails(p) \/ Crash(p) PROVE LeaseInv'
  BY Zenon, <1>2, RequestStep, RedisFailsStep, CrashStep, ConstantFacts
<1>3. ASSUME NEW p \in Procs, Progress(p) PROVE LeaseInv'
  <2>1. CASE tryAcquireAssignedLease(p)
    BY Zenon, <2>1, AcquireStep
  <2>2. CASE ReleaseStep(p)
    BY Zenon, <2>2, ReleaseReadStep, ReleaseSetStep, ReleaseCooldownStep DEF ReleaseStep
  <2>3. CASE LockStep(p)
    BY Zenon, <2>3, AcquireInstanceLockStep, InstanceBusyStep, ReleaseInstanceLockStep,
       AcquireOperationLockStep, OperationBusyStep, ReleaseOperationLockStep DEF LockStep
  <2>4. CASE AssignStep(p)
    BY Zenon, <2>4, BuildStep, ExistsStep, ValidateStep, AssignReadStep, AssignTxExecStep DEF AssignStep
  <2>5. CASE UnassignStep(p)
    BY Zenon, <2>5, UnassignReadStep, PruneStep, UnassignTxReadStep, UnassignTxExecStep DEF UnassignStep
  <2>6. CASE InstanceStep(p)
    BY Zenon, <2>6, ListHashStep, ListRowStep, PruneStep, CleanupStep, CleanupNextStep, DeleteStep
       DEF InstanceStep
  <2> QED BY Zenon, <1>3, <2>1, <2>2, <2>3, <2>4, <2>5, <2>6 DEF Progress
<1>4. ASSUME NEW s \in Sandboxes, CooldownExpires(s) \/ mergeResolvedResourceIntoLease(s)
      PROVE  LeaseInv'
  BY Zenon, <1>4, CooldownStep, MergeStep
<1>5. CASE Reconcile
  BY Zenon, <1>5, RefreshStep, ReconcileEntryStep DEF Reconcile
<1> QED BY Zenon, <1>1, <1>2, <1>3, <1>4, <1>5, LockExpiresStep

LEMMA LeaseInit ==
  ASSUME Init
  PROVE  LeaseInv /\ ProjectInsideOrg
<1>1. PICK owner \in [env.sandboxes -> Instances \cup {Nobody}], lost \in SUBSET env.sandboxes :
        /\ lease = [s \in Sandboxes |->
                     IF s \notin env.sandboxes \/ owner[s] = Nobody THEN NoLease
                     ELSE [Fresh(owner[s]) EXCEPT !.missing = s \in lost]]
        /\ assign = [i \in Instances |-> {s \in env.sandboxes : owner[s] = i}]
  BY ZenonT(30) DEF Init
<1>2. env \in Environments /\ env.sandboxes \subseteq Sandboxes /\ env.rounds \in Nat
  BY Zenon, EnvFacts DEF Init
<1>3. lease \in [Sandboxes -> Row]
  <2>1. \A i \in Instances, s \in Sandboxes : [Fresh(i) EXCEPT !.missing = s \in lost] \in Row
    <3>1. \A i \in Instances : \A b \in BOOLEAN : [Fresh(i) EXCEPT !.missing = b] \in Row
      BY ZenonT(30) DEF Row, Fresh
    <3>2. \A s : (s \in lost) \in BOOLEAN
      OBVIOUS
    <3> QED BY <3>1, <3>2, Zenon
  <2>2. ASSUME NEW s \in Sandboxes PROVE lease[s] \in Row
    <3>1. CASE s \notin env.sandboxes \/ owner[s] = Nobody
      BY Zenon, <1>1, <3>1, ConstantFacts
    <3>2. CASE s \in env.sandboxes /\ owner[s] # Nobody
      <4>1. owner[s] \in Instances
        BY Zenon, <3>2
      <4>2. lease[s] = [Fresh(owner[s]) EXCEPT !.missing = s \in lost]
        BY Zenon, <1>1, <3>2
      <4> QED BY <2>1, <4>1, <4>2, Zenon
    <3> QED BY Zenon, <3>1, <3>2
  <2>3. lease = [s \in Sandboxes |-> lease[s]]
    BY Zenon, <1>1
  <2> QED BY Zenon, <2>2, <2>3
<1>4. \A s \in Sandboxes : lease[s].user = IF s \in env.sandboxes THEN owner[s] ELSE Nobody
  BY Zenon, <1>1 DEF NoLease, Fresh
<1>5. assign \in [Instances -> SUBSET Sandboxes]
  BY Zenon, <1>1, <1>2
<1>6. HashMatchesRows /\ DeletedHoldsNothing
  BY <1>1, <1>2, <1>4, ConstantFacts DEF HashMatchesRows, DeletedHoldsNothing, Init
<1>7. scope \in [Sandboxes -> Binding] /\ ProjectInsideOrg
  BY <1>2, EnvFacts, ConstantFacts DEF Init, ProjectInsideOrg
<1>8. TableTypes
  BY Zenon, <1>2, <1>3, <1>5, <1>7 DEF Init, TableTypes
<1>9. RecFine
  BY Zenon, <1>2, ConstantFacts DEF Init, RecFine
<1>10. (CHOOSE i \in Instances : TRUE) \in Instances
  BY Zenon, LeaseAssumptions
<1>11. ASSUME NEW p \in Procs
       PROVE  /\ proc[p] = At(proc[p].i, proc[p].left) /\ proc[p].i \in Instances
              /\ p \in Workers => proc[p].i = Home[p]
  BY ZenonT(30), <1>10, ConstantFacts DEF Init, At
<1>12. ASSUME NEW p \in Procs
       PROVE  Fine(p, proc[p]) /\ (p \in Admins => Locked(p, proc[p]) /\ Current(proc[p]))
  <2>1. CASE p \in Workers
    BY SMTT(30), <1>11, <2>1, Starts, ConstantFacts DEF Fine, WorkerFine, ReleasePcs
  <2>2. CASE p \in Admins /\ p \notin Workers
    BY Zenon, <1>11, <2>2, EndKeeps DEF Fine
  <2> QED BY Zenon, <2>1, <2>2, ConstantFacts
<1>13. Local /\ Guarded
  BY ZenonT(30), <1>12, ConstantFacts DEF Init, Local, Guarded
<1> QED BY Zenon, <1>6, <1>7, <1>8, <1>9, <1>13 DEF LeaseInv

-----------------------------------------------------------------------------
(* Bindings.  Only ScopeTxRead brings a binding request to its EXEC.        *)
Elsewhere(p) == proc'[p].pc # "scopeExec" /\ \A r \in Procs : r # p => proc'[r] = proc[r]

LEMMA ElsewhereStep ==
  ASSUME LeaseInv, NEW p \in Procs, WorkerStep(p) \/ Request(p) \/ RedisFails(p) \/ Crash(p) \/ Progress(p)
  PROVE  Elsewhere(p)
<1> DEFINE q == proc[p]
<1>0. DOMAIN proc = Procs /\ DOMAIN q = Fields
  BY ZenonT(30) DEF LeaseInv, Local, Fine, WorkerFine, AdminFine, Typed
<1>e. \A i, n : At(i, n).pc = "idle" /\ DOMAIN At(i, n) = Fields
  BY ZenonT(30) DEF At, Fields
<1>a. \A c : c # "scopeExec" => Again(q, c).pc # "scopeExec"
  BY Zenon, <1>0 DEF Again, Fields
<1>r. \A out : q.pc \in ReleasePcs => ReleaseReturns(q, out).pc # "scopeExec"
  <2>1. q.pc \in ReleasePcs => q.back \in {"work", "unassign", "race", "clean"}
    BY Zenon, ConstantFacts DEF LeaseInv, Local, Fine, WorkerFine, AdminFine, Knows
  <2> QED BY Zenon, <1>0, <1>e, <1>a, <2>1 DEF ReleaseReturns, Fields
<1> USE DEF Elsewhere, Fields
<1>1. CASE ApplySandbox(p) \/ StopUsing(p) \/ tryAcquireAssignedLease(p)
  <2>1. CASE ApplySandbox(p)
    <3>1. PICK x : /\ proc' = [proc EXCEPT ![p] = x]
                   /\ x = At(q.i, q.left - 1) \/ \E t : x = [q EXCEPT !.pc = "pick", !.todo = t]
      BY ZenonT(30), <2>1 DEF ApplySandbox, End
    <3> QED BY ZenonT(30), <1>0, <1>e, <3>1
  <2>2. CASE StopUsing(p)
    BY Zenon, <1>0, <2>2 DEF StopUsing
  <2>3. CASE tryAcquireAssignedLease(p)
    <3>1. PICK s : \/ proc' = [proc EXCEPT ![p] = [q EXCEPT !.pc = "using", !.s = s, !.todo = {}]]
                   \/ proc' = [proc EXCEPT ![p] = At(q.i, q.left - 1)]
                   \/ proc' = [proc EXCEPT ![p] = [q EXCEPT !.todo = @ \ {s}]]
      BY ZenonT(30), <2>3 DEF tryAcquireAssignedLease, End
    <3>2. q.pc = "pick"
      BY Zenon, <2>3 DEF tryAcquireAssignedLease
    <3> QED BY ZenonT(30), <1>0, <1>e, <3>1, <3>2
  <2> QED BY Zenon, <1>1, <2>1, <2>2, <2>3
<1>2. CASE Request(p)
  <2>1. PICK op \in {"assign", "unassign", "delete", "list", "clean"}, i \in Instances, s \in env.sandboxes :
          proc' = [proc EXCEPT ![p] =
            [@ EXCEPT !.pc = First(op), !.op = op, !.i = i, !.s = s,
                      !.ids = IF op \in {"assign", "unassign"} THEN {s} ELSE {}]]
    BY ZenonT(30), <1>2 DEF Request
  <2>2. First(op) # "scopeExec"
    BY Zenon DEF First
  <2> QED BY Zenon, <1>0, <2>1, <2>2
<1>3. CASE RedisFails(p) \/ Crash(p)
  <2>1. PICK x : /\ proc' = [proc EXCEPT ![p] = x]
                 /\ \/ x = At(q.i, q.left - 1)
                    \/ \E d \in {"next", "unlock"} : x = [q EXCEPT !.failed = TRUE, !.pc = d]
                    \/ x = [At(q.i, 0) EXCEPT !.pc = "dead"]
    BY ZenonT(30), <1>3 DEF RedisFails, Crash
  <2>2. x.pc # "scopeExec"
    BY ZenonT(30), <1>0, <1>e, <2>1
  <2> QED BY Zenon, <1>0, <2>1, <2>2
<1>4. CASE ReleaseStep(p)
  <2>1. CASE ReleaseRead(p)
    <3> DEFINE r == lease[q.s]
               x == CASE r.user = Nobody -> ReleaseReturns(q, "gone")
                      [] r.user # Nobody /\ r.user # q.i -> ReleaseReturns(q, "foreign")
                      [] r.user = q.i /\ ~r.inUse -> ReleaseReturns(q, "ok")
                      [] OTHER -> [q EXCEPT !.pc = "relSet", !.row = r]
    <3>1. proc' = [proc EXCEPT ![p] = x] /\ q.pc \in ReleasePcs
      BY Zenon, <2>1 DEF ReleaseRead, ReleasePcs
    <3>2. \/ x \in {ReleaseReturns(q, "gone"), ReleaseReturns(q, "foreign"), ReleaseReturns(q, "ok")}
          \/ x = [q EXCEPT !.pc = "relSet", !.row = r]
      BY Zenon
    <3> HIDE DEF x
    <3>3. x.pc # "scopeExec"
      BY ZenonT(30), <1>0, <1>r, <3>1, <3>2
    <3> QED BY Zenon, <1>0, <3>1, <3>3
  <2>2. CASE ReleaseSet(p)
    BY Zenon, <1>0, <2>2 DEF ReleaseSet, Goto
  <2>3. CASE ReleaseCooldown(p)
    BY <1>0, <1>r, <2>3 DEF ReleaseCooldown, ReleasePcs
  <2> QED BY Zenon, <1>4, <2>1, <2>2, <2>3 DEF ReleaseStep
<1>5. CASE LockStep(p)
  <2>1. CASE AcquireInstanceLock(p)
    <3>1. q.op \in {"assign", "unassign", "delete", "clean"}
      BY ZenonT(30), <2>1, AdminAt DEF AcquireInstanceLock, AdminFine, Place, AssignPcs, LockPcs, ReleasePcs, ListPcs, UnassignPcs
    <3>2. AfterInstLock(q.op) # "scopeExec"
      BY Zenon, <3>1 DEF AfterInstLock
    <3> QED BY Zenon, <1>0, <2>1, <3>2 DEF AcquireInstanceLock, Goto
  <2>2. CASE InstanceBusy(p) \/ ReleaseInstanceLock(p) \/ OperationBusy(p)
    BY <1>0, <1>e, <2>2 DEF InstanceBusy, ReleaseInstanceLock, OperationBusy, Goto, End
  <2>3. CASE AcquireOperationLock(p)
    <3>1. AfterOpLock(q.op) # "scopeExec"
      BY Zenon DEF AfterOpLock
    <3>2. PICK h : \E d \in {AfterOpLock(q.op), "opLock"} :
            proc' = [proc EXCEPT ![p] = [q EXCEPT !.held = h, !.tries = 0, !.pc = d]]
      BY ZenonT(30), <2>3 DEF AcquireOperationLock
    <3> QED BY Zenon, <1>0, <3>1, <3>2
  <2>4. CASE ReleaseOperationLock(p)
    <3>1. AfterUnlock(q).pc # "scopeExec"
      BY Zenon, <1>0, <1>e DEF AfterUnlock
    <3>2. PICK x : /\ proc' = [proc EXCEPT ![p] = x]
                   /\ x = AfterUnlock(q) \/ \E h : x = [q EXCEPT !.held = h]
      BY Zenon, <2>4 DEF ReleaseOperationLock
    <3>3. q.pc = "unlock"
      BY Zenon, <2>4 DEF ReleaseOperationLock
    <3> QED BY Zenon, <1>0, <3>1, <3>2, <3>3
  <2> QED BY Zenon, <1>5, <2>1, <2>2, <2>3, <2>4 DEF LockStep
<1>6. CASE AssignStep(p)
  <2>1. CASE AssignTxExec(p)
    <3>1. \/ proc' = [proc EXCEPT ![p].pc = "unlock"]
          \/ proc' = [proc EXCEPT ![p] = Again(q, "asRead")]
      BY Zenon, <2>1 DEF AssignTxExec, CommitAssign, Goto
    <3> QED BY Zenon, <1>0, <1>a, <3>1
  <2>2. CASE buildLeaseForAssignment(p)
    BY <1>0, <1>e, <2>2 DEF buildLeaseForAssignment, Goto, End
  <2>3. CASE InstanceExists(p) \/ validateAssignmentScope(p)
    BY ZenonT(30), <1>0, <2>3 DEF InstanceExists, validateAssignmentScope, Goto
  <2>4. CASE AssignTxRead(p)
    BY Zenon, <1>0, <2>4 DEF AssignTxRead
  <2> QED BY ZenonT(30), <1>6, <2>1, <2>2, <2>3, <2>4 DEF AssignStep
<1>7. CASE UnassignStep(p)
  <2>1. CASE UnassignTxExec(p)
    <3>1. \/ proc' = [proc EXCEPT ![p].pc = "unlock"]
          \/ proc' = [proc EXCEPT ![p] = Again(q, "unRead")]
      BY Zenon, <2>1 DEF UnassignTxExec, CommitUnassign, Goto
    <3> QED BY Zenon, <1>0, <1>a, <3>1
  <2>2. CASE UnassignRead(p)
    BY Zenon, <1>0, <2>2 DEF UnassignRead
  <2>3. CASE UnassignTxRead(p)
    BY Zenon, <1>0, <2>3 DEF UnassignTxRead
  <2>4. CASE clearMissingLeaseAssignment(p)
    BY Zenon, <1>0, <2>4 DEF clearMissingLeaseAssignment, Goto
  <2> QED BY ZenonT(30), <1>7, <2>1, <2>2, <2>3, <2>4 DEF UnassignStep
<1>8. CASE InstanceStep(p)
  <2>1. CASE ListRow(p)
    <3>1. ListReturns(q).pc # "scopeExec"
      BY ZenonT(30), <1>0, <1>e, <2>1, AdminAt DEF ListReturns, ListRow, AdminFine, Place, AssignPcs, LockPcs, ReleasePcs, ListPcs, UnassignPcs
    <3>2. q.pc = "lsRead"
      BY ZenonT(30), <2>1 DEF ListRow
    <3> QED BY ZenonT(30), <1>0, <2>1, <3>1, <3>2 DEF ListRow
  <2>2. CASE CleanupNext(p)
    BY ZenonT(30), <1>0, <2>2 DEF CleanupNext
  <2>3. CASE ~ListRow(p) /\ ~CleanupNext(p)
    BY ZenonT(30), <1>0, <1>8, <2>3
       DEF InstanceStep, ListHash, ListRemovesStale, cleanupInstanceSandboxes, deleteSingleAgentInstance, Goto
  <2> QED BY Zenon, <2>1, <2>2, <2>3
<1> QED BY ZenonT(30), <1>1, <1>2, <1>3, <1>4, <1>5, <1>6, <1>7, <1>8 DEF WorkerStep, Progress

LEMMA LeaseKeepsScope ==
  ASSUME LeaseNext
  PROVE  UNCHANGED scope
<1> USE DEF LeaseNext, locks, table
<1>1. ASSUME NEW w, WorkerStep(w) PROVE UNCHANGED scope
  BY ZenonT(30), <1>1 DEF WorkerStep, ApplySandbox, StopUsing
<1>2. ASSUME NEW p, Request(p) \/ RedisFails(p) \/ Crash(p) PROVE UNCHANGED scope
  BY ZenonT(30), <1>2 DEF Request, RedisFails, Crash
<1>3. ASSUME NEW p, Progress(p) PROVE UNCHANGED scope
  <2>1. CASE tryAcquireAssignedLease(p) \/ ReleaseStep(p)
    BY ZenonT(30), <2>1 DEF tryAcquireAssignedLease, ReleaseStep, ReleaseRead, ReleaseSet, ReleaseCooldown
  <2>2. CASE LockStep(p)
    BY Zenon, <2>2 DEF LockStep, AcquireInstanceLock, InstanceBusy, ReleaseInstanceLock,
                AcquireOperationLock, OperationBusy, ReleaseOperationLock
  <2>3. CASE AssignStep(p)
    BY Zenon, <2>3 DEF AssignStep, buildLeaseForAssignment, InstanceExists, validateAssignmentScope,
                AssignTxRead, AssignTxExec
  <2>4. CASE UnassignStep(p)
    BY Zenon, <2>4 DEF UnassignStep, UnassignRead, clearMissingLeaseAssignment, UnassignTxRead, UnassignTxExec
  <2>5. CASE InstanceStep(p)
    BY ZenonT(30), <2>5 DEF InstanceStep, ListHash, ListRow, ListRemovesStale, cleanupInstanceSandboxes,
                CleanupNext, deleteSingleAgentInstance
  <2> QED BY Zenon, <1>3, <2>1, <2>2, <2>3, <2>4, <2>5 DEF Progress
<1>4. ASSUME NEW s, CooldownExpires(s) \/ mergeResolvedResourceIntoLease(s) PROVE UNCHANGED scope
  BY Zenon, <1>4 DEF CooldownExpires, mergeResolvedResourceIntoLease
<1>5. CASE Reconcile \/ LockExpires
  BY ZenonT(30), <1>5 DEF Reconcile, PublishSnapshot, ReconcileRead, ReconcileEntry, ReconcileEnds, LockExpires
<1> QED BY Zenon, <1>1, <1>2, <1>3, <1>4, <1>5

LEMMA LeaseKeepsSnap ==
  ASSUME ScopeInv, LeaseNext, UNCHANGED snap
  PROVE  SnapFine'
<1>1. \A r \in Admins : proc'[r] = proc[r] \/ proc'[r].pc # "scopeExec"
  <2> USE DEF ScopeInv, LeaseNext
  <2>1. ASSUME NEW p \in Procs, WorkerStep(p) \/ Request(p) \/ RedisFails(p) \/ Crash(p) \/ Progress(p)
        PROVE  \A r \in Admins : proc'[r] = proc[r] \/ proc'[r].pc # "scopeExec"
    BY Zenon, <2>1, ElsewhereStep, ConstantFacts DEF Elsewhere
  <2>2. ASSUME NEW s, CooldownExpires(s) \/ mergeResolvedResourceIntoLease(s) PROVE UNCHANGED proc
    BY Zenon, <2>2 DEF CooldownExpires, mergeResolvedResourceIntoLease
  <2>3. CASE Reconcile \/ LockExpires
    BY ZenonT(30), <2>3 DEF Reconcile, PublishSnapshot, ReconcileRead, ReconcileEntry, ReconcileEnds, LockExpires
  <2> QED BY Zenon, <2>1, <2>2, <2>3, ConstantFacts
<1> QED BY Zenon, <1>1 DEF ScopeInv, SnapFine

(* A binding step of one request that leaves rows and hashes alone.         *)
LEMMA Binds ==
  ASSUME LeaseInv, NEW p \in Admins, NEW x, proc' = [proc EXCEPT ![p] = x],
         AdminFine(x), Locked(p, x), Current(x), scope' \in [Sandboxes -> Binding],
         UNCHANGED <<env, lease, assign, avail, alive, instLock, rec>>
  PROVE  LeaseInv'
<1>1. TableTypes' /\ RecFine' /\ DeletedHoldsNothing' /\ HashMatchesRows'
  BY ZenonT(30) DEF LeaseInv, TableTypes, RecFine, DeletedHoldsNothing, HashMatchesRows, Transactional
<1>2. \A r \in Admins : proc'[r] = IF r = p THEN x ELSE proc[r]
  BY Zenon, ConstantFacts DEF LeaseInv, Local
<1>3. Guarded'
  <2> SUFFICES ASSUME NEW r \in Admins PROVE Locked(r, proc[r])' /\ Current(proc[r])'
    BY Zenon DEF Guarded
  <2>1. Locked(r, proc[r]) /\ Current(proc[r])
    BY Zenon DEF LeaseInv, Guarded
  <2>2. CASE r = p
    <3>1. proc'[r] = x
      BY Zenon, <1>2, <2>2
    <3> QED BY <2>2, <3>1 DEF Locked, Current, Transactional
  <2>3. CASE r # p
    <3>1. proc'[r] = proc[r]
      BY Zenon, <1>2, <2>3
    <3> QED BY <2>1, <3>1 DEF Locked, Current, Transactional
  <2> QED BY Zenon, <2>2, <2>3
<1> QED BY ZenonT(30), <1>1, <1>3, Moves, ConstantFacts DEF Fine

LEMMA RequestsBind ==
  ASSUME ScopeInv, NEW p \in Admins, UNCHANGED env, ScopeRequest(p) \/ ClaimList(p)
  PROVE  ScopeInv'
<1> DEFINE q == proc[p]
<1> USE DEF AssignPcs, LockPcs, ReleasePcs, ListPcs, UnassignPcs, ScopeOps
<1>1. AdminFine(q)
  BY ZenonT(30), ConstantFacts DEF ScopeInv, LeaseInv, Local, Fine
<1>2. PICK x :
        /\ proc' = [proc EXCEPT ![p] = x]
        /\ DOMAIN x = DOMAIN q /\ x.i = q.i /\ x.s = q.s /\ x.row = q.row /\ x.todo = q.todo
        /\ \/ /\ x.pc = "opLock" /\ x.op \in env.ops \cap ScopeOps
              /\ x.seen.project \in Projects /\ x.seen.org = OrgOf[x.seen.project]
              /\ x.seen \in Binding
           \/ x.pc = "claim" /\ x.op = "claim" /\ "claim" \in env.ops /\ x.seen \in Binding
  <2>1. CASE ScopeRequest(p)
    <3>1. PICK op \in env.ops \cap ScopeOps, project \in Projects, ids \in SUBSET env.sandboxes \ {{}} :
            proc' = [proc EXCEPT ![p] =
              [@ EXCEPT !.pc = "opLock", !.op = op, !.ids = ids,
                        !.seen = [org |-> OrgOf[project], project |-> project]]]
      BY ZenonT(30), <2>1 DEF ScopeRequest
    <3> DEFINE b == [org |-> OrgOf[project], project |-> project]
               x == [q EXCEPT !.pc = "opLock", !.op = op, !.ids = ids, !.seen = b]
    <3>2. b \in Binding /\ b.project \in Projects /\ b.org = OrgOf[b.project]
      BY Zenon, ConstantFacts DEF Binding
    <3>3. proc' = [proc EXCEPT ![p] = x]
      BY Zenon, <3>1
    <3> HIDE DEF b
    <3>4. /\ DOMAIN x = DOMAIN q /\ x.i = q.i /\ x.s = q.s /\ x.row = q.row /\ x.todo = q.todo
          /\ x.pc = "opLock" /\ x.op = op /\ x.seen = b
      BY Zenon, <1>1 DEF AdminFine, Typed, Fields
    <3> QED BY ZenonT(30), <3>2, <3>3, <3>4
  <2>2. CASE ClaimList(p)
    <3>1. PICK o \in Orgs :
            proc' = [proc EXCEPT ![p] = [@ EXCEPT !.pc = "claim", !.op = "claim",
              !.ids = {s \in env.sandboxes : scope[s] = NoScope /\ lease[s].user = Nobody},
              !.seen = [NoScope EXCEPT !.org = o]]]
      BY ZenonT(30), <2>2 DEF ClaimList
    <3> DEFINE b == [NoScope EXCEPT !.org = o]
               ids == {s \in env.sandboxes : scope[s] = NoScope /\ lease[s].user = Nobody}
               x == [q EXCEPT !.pc = "claim", !.op = "claim", !.ids = ids, !.seen = b]
    <3>2. b \in Binding
      BY Zenon DEF NoScope, Binding
    <3>3. proc' = [proc EXCEPT ![p] = x] /\ "claim" \in env.ops
      BY ZenonT(30), <2>2, <3>1 DEF ClaimList
    <3> HIDE DEF b, ids
    <3>4. /\ DOMAIN x = DOMAIN q /\ x.i = q.i /\ x.s = q.s /\ x.row = q.row /\ x.todo = q.todo
          /\ x.pc = "claim" /\ x.op = "claim" /\ x.seen = b
      BY Zenon, <1>1 DEF AdminFine, Typed, Fields
    <3> QED BY ZenonT(30), <3>2, <3>3, <3>4
  <2> QED BY Zenon, <2>1, <2>2
<1>3. UNCHANGED <<lease, assign, avail, alive, scope, instLock, rec, snap>>
  BY ZenonT(30) DEF ScopeRequest, ClaimList, table, locks
<1>4. AdminFine(x)
  BY ZenonT(30), <1>1, <1>2 DEF AdminFine, Typed, Place, Knows, Reads, OneSandbox
<1>5. Locked(p, x) /\ Current(x)
  BY ZenonT(30), <1>2 DEF Locked, Current, Critical
<1>6. LeaseInv'
  BY ZenonT(30), <1>2, <1>3, <1>4, <1>5, Binds DEF ScopeInv, LeaseInv, TableTypes
<1>7. SnapFine' /\ ProjectInsideOrg'
  <2>1. \A r \in Admins : proc'[r] = IF r = p THEN x ELSE proc[r]
    BY Zenon, <1>2, ConstantFacts DEF ScopeInv, LeaseInv, Local
  <2> QED BY ZenonT(30), <1>2, <1>3, <2>1 DEF ScopeInv, SnapFine, ProjectInsideOrg
<1> QED BY Zenon, <1>6, <1>7 DEF ScopeInv

LEMMA ScopeReadStep ==
  ASSUME ScopeInv, NEW p \in Admins, UNCHANGED env, ScopeTxRead(p)
  PROVE  ScopeInv'
<1> DEFINE q == proc[p]
<1> USE DEF AssignPcs, LockPcs, ReleasePcs, ListPcs, UnassignPcs, ScopeOps
<1>1. PICK c \in {"scopeExec", "unlock"} :
        /\ proc' = [proc EXCEPT ![p].pc = c]
        /\ \/ /\ \A s \in q.ids : Accepts(q.op, q.seen, scope[s])
              /\ snap' = [snap EXCEPT ![p] = [scope |-> scope, lease |-> lease]]
           \/ c = "unlock" /\ UNCHANGED snap
  BY Zenon DEF ScopeTxRead, Goto
<1> DEFINE x == [q EXCEPT !.pc = c]
<1>2. AdminFine(q) /\ q.pc = "scope" /\ q.op \in ScopeOps
  BY ZenonT(30), ConstantFacts DEF ScopeInv, LeaseInv, Local, Fine, AdminFine, Place, ScopeTxRead
<1>3. /\ DOMAIN x = DOMAIN q /\ x.pc = c /\ x.i = q.i /\ x.s = q.s /\ x.row = q.row
      /\ x.todo = q.todo /\ x.op = q.op /\ x.seen = q.seen /\ x.ids = q.ids
  BY Zenon, <1>2 DEF AdminFine, Typed, Fields
<1>4. proc' = [proc EXCEPT ![p] = x]
  BY Zenon, <1>1
<1> HIDE DEF x
<1>5. AdminFine(x) /\ Locked(p, x) /\ Current(x)
  BY Zenon, <1>1, <1>2, <1>3 DEF AdminFine, Typed, Place, Knows, Reads, OneSandbox, Locked, Current, Critical
<1>6. LeaseInv'
  BY ZenonT(30), <1>4, <1>5, Binds DEF ScopeInv, LeaseInv, TableTypes, ScopeTxRead, table, locks
<1>7. SnapFine' /\ ProjectInsideOrg'
  <2>1. \A r \in Admins : proc'[r] = IF r = p THEN x ELSE proc[r]
    BY Zenon, <1>4, ConstantFacts DEF ScopeInv, LeaseInv, Local
  <2> QED BY <1>1, <1>3, <2>1 DEF ScopeInv, SnapFine, ProjectInsideOrg, ScopeTxRead
<1> QED BY Zenon, <1>6, <1>7 DEF ScopeInv

(* What a binding transaction writes keeps every project inside its         *)
(* organization, given what it watched and accepted.                        *)
LEMMA BoundInside ==
  ASSUME ScopeInv, NEW p \in Admins, proc[p].pc = "scopeExec", Watched(p),
         NEW s \in Sandboxes, s \in proc[p].ids
  PROVE  LET b == Bound(proc[p].op, proc[p].seen, scope[s]) IN
         b \in Binding /\ (b.project # Nobody => b.org = OrgOf[b.project])
<1> DEFINE q == proc[p]  b == Bound(q.op, q.seen, scope[s])
<1>1. /\ q.op \in ScopeOps /\ q.seen.project \in Projects /\ q.seen.org = OrgOf[q.seen.project]
      /\ q.seen.org \in Orgs
  BY ZenonT(30), ConstantFacts DEF ScopeInv, LeaseInv, Local, Fine, AdminFine, Place, Reads,
     AssignPcs, LockPcs, ReleasePcs, ListPcs, UnassignPcs
<1>2. /\ scope[s] \in Binding
      /\ scope[s].project # Nobody => scope[s].org = OrgOf[scope[s].project] /\ scope[s].org # Nobody
  BY ZenonT(30), ConstantFacts DEF ScopeInv, LeaseInv, TableTypes, ProjectInsideOrg, Binding
<1>3. Accepts(q.op, q.seen, snap[p].scope[s])
  BY ZenonT(30) DEF ScopeInv, SnapFine
<1>4. CASE q.op = "toOrg"
  <2>1. scope[s].org = Nobody /\ b = [scope[s] EXCEPT !.org = q.seen.org]
    BY Zenon, <1>3, <1>4 DEF Watched, Accepts, Bound
  <2> QED BY Zenon, <1>1, <1>2, <2>1 DEF Binding
<1>5. CASE q.op = "fromOrg"
  <2>1. scope[s].project = Nobody /\ b = [scope[s] EXCEPT !.org = Nobody]
    BY Zenon, <1>3, <1>5 DEF Watched, Accepts, Bound
  <2> QED BY Zenon, <1>2, <2>1 DEF Binding
<1>6. CASE q.op = "toProject"
  <2>1. scope[s].org = q.seen.org /\ b = [scope[s] EXCEPT !.project = q.seen.project]
    BY Zenon, <1>3, <1>6 DEF Watched, Accepts, Bound
  <2> QED BY Zenon, <1>1, <1>2, <2>1 DEF Binding
<1>7. CASE q.op = "fromProject"
  <2>1. b = [scope[s] EXCEPT !.project = Nobody]
    BY Zenon, <1>7 DEF Bound
  <2> QED BY Zenon, <1>2, <2>1 DEF Binding
<1> QED BY ZenonT(30), <1>1, <1>4, <1>5, <1>6, <1>7 DEF ScopeOps

(* Unbinding from a project, which deletes rows and hash entries.           *)
LEMMA UnbindRows ==
  ASSUME ScopeInv, NEW p \in Admins, NEW x, proc' = [proc EXCEPT ![p] = x],
         AdminFine(x), Locked(p, x), Current(x), x.pc = "unlock", x.op = "fromProject",
         scope' \in [Sandboxes -> Binding], Watched(p), proc[p].op = "fromProject",
         "fromProject" \in env.ops, writeProjectUnassignment(p),
         UNCHANGED <<env, avail, alive, instLock, rec>>
  PROVE  LeaseInv'
<1> DEFINE old == snap[p].lease  gone == {s \in proc[p].ids : old[s].user # Nobody}
<1>1. /\ lease' = [s \in Sandboxes |-> IF s \in gone THEN NoLease ELSE lease[s]]
      /\ assign' = [i \in Instances |-> assign[i] \ {s \in gone : old[s].user = i}]
  BY ZenonT(30) DEF writeProjectUnassignment
<1>2. \A s \in gone : lease[s] = old[s]
  BY Zenon DEF Watched
<1>3. /\ lease' \in [Sandboxes -> Row] /\ assign' \in [Instances -> SUBSET Sandboxes]
      /\ \A i \in Instances : assign'[i] \subseteq assign[i]
  BY ZenonT(30), <1>1, ConstantFacts DEF ScopeInv, LeaseInv, TableTypes
<1>4. TableTypes' /\ RecFine' /\ DeletedHoldsNothing'
  BY ZenonT(30), <1>3 DEF ScopeInv, LeaseInv, TableTypes, RecFine, DeletedHoldsNothing
<1>5. HashMatchesRows'
  <2>1. ASSUME Transactional, NEW i \in Instances, NEW s \in Sandboxes
        PROVE  s \in assign'[i] <=> lease'[s].user = i
    <3>1. s \in assign[i] <=> lease[s].user = i
      BY Zenon, <2>1 DEF ScopeInv, LeaseInv, HashMatchesRows
    <3>2. CASE s \in gone
      BY ZenonT(30), <1>1, <1>2, <3>1, <3>2, ConstantFacts DEF NoLease
    <3>3. CASE s \notin gone
      BY ZenonT(30), <1>1, <3>1, <3>3
    <3> QED BY Zenon, <3>2, <3>3
  <2> QED BY Zenon, <2>1 DEF HashMatchesRows, Transactional
<1>6. ASSUME NEW r \in Admins PROVE Locked(r, proc[r])' /\ Current(proc[r])'
  <2>1. /\ proc'[r] = IF r = p THEN x ELSE proc[r]
        /\ Locked(r, proc[r]) /\ Current(proc[r]) /\ proc[r].i \in Instances
    BY ZenonT(30), ConstantFacts DEF ScopeInv, LeaseInv, Local, Guarded, Fine, AdminFine, Typed
  <2>2. Transactional => proc[r].pc \notin {"unGone", "lsDel", "relSet"}
    BY ZenonT(30), PruneIsCritical DEF ScopeInv
  <2>3. Current(proc[r])'
    BY ZenonT(30), <2>1, <2>2 DEF Current, Transactional
  <2>4. Locked(r, proc[r])'
    <3>1. CASE r = p
      BY ZenonT(30), <2>1, <3>1 DEF Locked, Critical
    <3>2. CASE r # p
      <4>1. proc'[r] = proc[r] /\ assign'[proc[r].i] \subseteq assign[proc[r].i]
        BY Zenon, <1>3, <2>1, <3>2
      <4> QED BY <2>1, <4>1 DEF Locked
    <3> QED BY Zenon, <3>1, <3>2
  <2> QED BY Zenon, <2>3, <2>4
<1> QED BY ZenonT(30), <1>4, <1>5, <1>6, Moves, ConstantFacts DEF ScopeInv, Fine, Guarded

LEMMA ScopeExecStep ==
  ASSUME ScopeInv, NEW p \in Admins, UNCHANGED env, ScopeTxExec(p)
  PROVE  ScopeInv'
<1> DEFINE q == proc[p]
<1> USE DEF AssignPcs, LockPcs, ReleasePcs, ListPcs, UnassignPcs, ScopeOps
<1>1. /\ AdminFine(q) /\ Locked(p, q) /\ Current(q) /\ q.pc = "scopeExec" /\ q.op \in ScopeOps
      /\ q.op \in env.ops /\ LeaseInv /\ p \in Procs
  BY ZenonT(30), ConstantFacts DEF ScopeInv, LeaseInv, Local, Fine, Guarded, AdminFine, Place, Knows, ScopeTxExec
<1>2. UNCHANGED <<avail, alive, instLock, rec>> /\ snap' = [snap EXCEPT ![p] = NothingRead]
  BY Zenon DEF ScopeTxExec, locks
<1>3. ASSUME NEW x, proc' = [proc EXCEPT ![p] = x], x.pc # "scopeExec"
      PROVE  SnapFine'
  <2>1. \A r \in Admins : proc'[r] = IF r = p THEN x ELSE proc[r]
    BY Zenon, <1>1, <1>3, ConstantFacts DEF LeaseInv, Local
  <2> QED BY <1>2, <1>3, <2>1 DEF ScopeInv, SnapFine
<1>4. CASE /\ Watched(p)
           /\ scope' = [s \in Sandboxes |->
                         IF s \in q.ids THEN Bound(q.op, q.seen, scope[s]) ELSE scope[s]]
           /\ IF q.op = "fromProject" THEN writeProjectUnassignment(p) ELSE UNCHANGED table
           /\ Goto(p, "unlock")
  <2> DEFINE x == [q EXCEPT !.pc = "unlock"]
  <2>1. proc' = [proc EXCEPT ![p] = x]
    BY Zenon, <1>4 DEF Goto
  <2>2. /\ DOMAIN x = DOMAIN q /\ x.pc = "unlock" /\ x.i = q.i /\ x.s = q.s /\ x.row = q.row
        /\ x.todo = q.todo /\ x.op = q.op /\ x.seen = q.seen
    BY Zenon, <1>1 DEF AdminFine, Typed, Fields
  <2> HIDE DEF x
  <2>3. AdminFine(x) /\ Locked(p, x) /\ Current(x)
    BY ZenonT(30), <1>1, <2>2 DEF AdminFine, Typed, Place, Knows, Reads, OneSandbox, Locked, Current, Critical
  <2>4. scope' \in [Sandboxes -> Binding] /\ ProjectInsideOrg'
    <3>1. \A s \in Sandboxes : s \in q.ids =>
            LET b == Bound(q.op, q.seen, scope[s]) IN
            b \in Binding /\ (b.project # Nobody => b.org = OrgOf[b.project])
      BY ZenonT(30), <1>1, <1>4, BoundInside
    <3>2. \A s \in Sandboxes : /\ scope[s] \in Binding
                               /\ scope[s].project # Nobody => scope[s].org = OrgOf[scope[s].project]
      BY Zenon, <1>1 DEF LeaseInv, TableTypes, ScopeInv, ProjectInsideOrg
    <3> QED BY ZenonT(30), <1>4, <3>1, <3>2 DEF ProjectInsideOrg
  <2>5. LeaseInv'
    <3>1. CASE q.op = "fromProject"
      BY ZenonT(30), <1>1, <1>2, <1>4, <2>1, <2>2, <2>3, <2>4, <3>1, UnbindRows
    <3>2. CASE q.op # "fromProject"
      BY ZenonT(30), <1>1, <1>2, <1>4, <2>1, <2>3, <2>4, <3>2, Binds DEF table
    <3> QED BY Zenon, <3>1, <3>2
  <2> QED BY ZenonT(30), <1>3, <2>1, <2>2, <2>4, <2>5 DEF ScopeInv
<1>5. CASE proc' = [proc EXCEPT ![p] = Again(q, "scope")] /\ UNCHANGED <<table, scope>>
  <2>1. LET x == Again(q, "scope") IN AdminFine(x) /\ Locked(p, x) /\ Current(x)
    BY Zenon, <1>1, AgainKeeps
  <2>2. Again(q, "scope").pc # "scopeExec"
    BY Zenon, <1>1 DEF Again, AdminFine, Typed, Fields
  <2>3. LeaseInv'
    BY ZenonT(30), <1>1, <1>2, <1>5, <2>1, Binds DEF LeaseInv, TableTypes, table
  <2>4. ProjectInsideOrg'
    BY Zenon, <1>5 DEF ScopeInv, ProjectInsideOrg
  <2> QED BY ZenonT(30), <1>3, <1>5, <2>2, <2>3, <2>4 DEF ScopeInv
<1> QED BY Zenon, <1>4, <1>5 DEF ScopeTxExec

LEMMA ClaimStep ==
  ASSUME ScopeInv, NEW p \in Admins, UNCHANGED env, ClaimScript(p)
  PROVE  ScopeInv'
<1> DEFINE q == proc[p]  x == At(q.i, q.left - 1)
<1>1. AdminFine(q) /\ q.i \in Instances /\ q.seen \in Binding /\ LeaseInv
  BY ZenonT(30), ConstantFacts DEF ScopeInv, LeaseInv, Local, Fine, AdminFine, Typed
<1>2. /\ proc' = [proc EXCEPT ![p] = x]
      /\ UNCHANGED <<lease, assign, avail, alive, instLock, rec, snap>>
  BY Zenon DEF ClaimScript, End, table, locks
<1>3. AdminFine(x) /\ Locked(p, x) /\ Current(x) /\ x.pc = "idle"
  BY Zenon, <1>1, EndKeeps, Starts
<1> HIDE DEF x
<1>4. scope' \in [Sandboxes -> Binding] /\ ProjectInsideOrg'
  <2>1. ASSUME NEW s \in Sandboxes
        PROVE  /\ scope[s] \in Binding
               /\ scope[s].project # Nobody => scope[s].org = OrgOf[scope[s].project] /\ scope[s].org # Nobody
    <3>1. scope[s] \in Binding
      BY Zenon, <1>1 DEF LeaseInv, TableTypes
    <3>2. scope[s].project # Nobody => scope[s].project \in Projects
      BY Zenon, <3>1 DEF Binding
    <3>3. scope[s].project # Nobody => scope[s].org = OrgOf[scope[s].project]
      BY Zenon DEF ScopeInv, ProjectInsideOrg
    <3> QED BY Zenon, <3>1, <3>2, <3>3, ConstantFacts
  <2>2. \A s \in Sandboxes : scope[s].org = Nobody =>
          LET b == [scope[s] EXCEPT !.org = q.seen.org] IN b \in Binding /\ b.project = Nobody
    BY Zenon, <1>1, <2>1 DEF Binding
  <2>3. CASE UNCHANGED scope
    BY Zenon, <1>1, <2>1, <2>3 DEF LeaseInv, TableTypes, ProjectInsideOrg
  <2>4. CASE scope' = [s \in Sandboxes |->
                        IF s \in q.ids /\ scope[s].org = Nobody
                        THEN [scope[s] EXCEPT !.org = q.seen.org] ELSE scope[s]]
    BY Zenon, <2>1, <2>2, <2>4 DEF ProjectInsideOrg
  <2> QED BY Zenon, <2>3, <2>4 DEF ClaimScript
<1>5. LeaseInv'
  BY ZenonT(30), <1>1, <1>2, <1>3, <1>4, Binds
<1>6. SnapFine'
  <2>1. \A r \in Admins : proc'[r] = IF r = p THEN x ELSE proc[r]
    BY Zenon, <1>1, <1>2, ConstantFacts DEF LeaseInv, Local
  <2> QED BY SMTT(30), <1>2, <1>3, <2>1 DEF ScopeInv, SnapFine
<1> QED BY Zenon, <1>4, <1>5, <1>6 DEF ScopeInv

-----------------------------------------------------------------------------
(* Task runs alone.                                                         *)
LEMMA AloneMeans ==
  ASSUME LeaseInv, RunsAlone
  PROVE  /\ \A p \in Admins : proc[p].op = "none" /\ proc[p].pc \in {"idle", "dead"}
         /\ \A w \in Workers : proc[w].pc \in {"idle", "pick", "using"} \cup ReleasePcs
<1> USE DEF AssignPcs, LockPcs, ReleasePcs, ListPcs, UnassignPcs, ScopeOps
<1>1. ASSUME NEW p \in Admins PROVE proc[p].op = "none" /\ proc[p].pc \in {"idle", "dead"}
  <2>1. AdminFine(proc[p])
    BY Zenon, ConstantFacts DEF LeaseInv, Local, Fine
  <2>2. proc[p].op = "none"
    BY Zenon, <2>1 DEF AdminFine, Knows, RunsAlone
  <2> QED BY Zenon, <2>1, <2>2 DEF AdminFine, Place
<1> QED BY ZenonT(30), <1>1, ConstantFacts DEF LeaseInv, Local, Fine, WorkerFine

(* Then only a task run moves a process or writes a row.                    *)
LEMMA AloneMoves ==
  ASSUME LeaseInv, RunsAlone, LeaseNext
  PROVE  \/ UNCHANGED <<lease, proc>>
         \/ \E w \in Workers : ApplySandbox(w) \/ StopUsing(w) \/ tryAcquireAssignedLease(w) \/ ReleaseStep(w)
<1>1. ASSUME NEW p \in Admins PROVE ~(Request(p) \/ RedisFails(p) \/ Crash(p))
  BY Zenon, AloneMeans DEF RunsAlone, Request, RedisFails, Crash, AssignPcs, ReleasePcs
<1>2. ASSUME NEW p \in Procs, Progress(p)
      PROVE  p \in Workers /\ (tryAcquireAssignedLease(p) \/ ReleaseStep(p))
  <2> DEFINE c == proc[p].pc
  <2>1. /\ tryAcquireAssignedLease(p) => c = "pick"
        /\ ReleaseStep(p) => c \in ReleasePcs
    BY ZenonT(30) DEF tryAcquireAssignedLease, ReleaseStep, ReleaseRead, ReleaseSet, ReleaseCooldown, ReleasePcs
  <2>2. LockStep(p) => c \in LockPcs
    BY Zenon DEF LockStep, AcquireInstanceLock, InstanceBusy, ReleaseInstanceLock,
           AcquireOperationLock, OperationBusy, ReleaseOperationLock, LockPcs
  <2>3. AssignStep(p) => c \in AssignPcs
    BY Zenon DEF AssignStep, buildLeaseForAssignment, InstanceExists, validateAssignmentScope,
           AssignTxRead, AssignTxExec, AssignPcs
  <2>4. UnassignStep(p) => c \in UnassignPcs
    BY Zenon DEF UnassignStep, UnassignRead, clearMissingLeaseAssignment, UnassignTxRead, UnassignTxExec, UnassignPcs
  <2>5. InstanceStep(p) => c \in ListPcs
    BY ZenonT(30) DEF InstanceStep, ListHash, ListRow, ListRemovesStale, cleanupInstanceSandboxes,
           CleanupNext, deleteSingleAgentInstance, ListPcs
  <2> HIDE DEF c
  <2>6. c \in {"idle", "dead"} \/ (p \in Workers /\ c \in {"idle", "pick", "using"} \cup ReleasePcs)
    BY Zenon, AloneMeans, ConstantFacts DEF c
  <2> QED BY Zenon, <1>2, <2>1, <2>2, <2>3, <2>4, <2>5, <2>6
          DEF Progress, ReleasePcs, LockPcs, AssignPcs, UnassignPcs, ListPcs
<1>3. ASSUME NEW s \in Sandboxes, CooldownExpires(s) \/ mergeResolvedResourceIntoLease(s)
      PROVE  UNCHANGED <<lease, proc>>
  BY <1>3 DEF CooldownExpires, mergeResolvedResourceIntoLease, RunsAlone
<1>4. ~Reconcile
  <2>1. rec.pc = "wait" /\ rec.left = 0
    BY Zenon DEF LeaseInv, RecFine, RunsAlone
  <2>2. ~PublishSnapshot
    BY <2>1 DEF PublishSnapshot
  <2>3. ~ReconcileRead /\ ~ReconcileEntry /\ ~ReconcileEnds
    BY Zenon, <2>1 DEF ReconcileRead, ReconcileEntry, ReconcileEnds
  <2> QED BY Zenon, <2>2, <2>3 DEF Reconcile
<1>5. LockExpires => UNCHANGED <<lease, proc>>
  BY Zenon DEF LockExpires, table
<1> QED BY Zenon, <1>1, <1>2, <1>3, <1>4, <1>5 DEF LeaseNext, WorkerStep

(* What one task run's step does to its sandbox.                            *)
LEMMA AloneWorker ==
  ASSUME LeaseInv, AloneInv, RunsAlone, NEW w \in Workers,
         ApplySandbox(w) \/ StopUsing(w) \/ tryAcquireAssignedLease(w) \/ ReleaseStep(w)
  PROVE  \E x, s :
           /\ proc' = [proc EXCEPT ![w] = x]
           /\ \/ UNCHANGED lease /\ x.pc \notin {"using", "relRead", "relSet"}
              \/ /\ UNCHANGED lease /\ x.s = proc[w].s /\ x.i = proc[w].i /\ Holds(w)
              \/ /\ s \in Sandboxes /\ CanAcquire(proc[w].i, s)
                 /\ lease' = [lease EXCEPT ![s].inUse = TRUE] /\ x.s = s /\ x.i = proc[w].i
              \/ /\ Holds(w) /\ x.pc = "relCool" /\ \A t \in Sandboxes : t # proc[w].s => lease'[t] = lease[t]
<1> DEFINE q == proc[w]
<1>1. WorkerFine(w, q)
  BY Zenon, ConstantFacts DEF LeaseInv, Local, Fine
<1>2. DOMAIN q = Fields
  BY Zenon, <1>1 DEF WorkerFine, Typed
<1>3. \A i, n : At(i, n).pc = "idle"
  BY Zenon DEF At
<1>4. CASE ApplySandbox(w)
  <2>1. PICK x : /\ proc' = [proc EXCEPT ![w] = x]
                 /\ x = At(q.i, q.left - 1) \/ \E t : x = [q EXCEPT !.pc = "pick", !.todo = t]
    BY ZenonT(30), <1>4 DEF ApplySandbox, End
  <2>2. x.pc \in {"idle", "pick"}
    BY ZenonT(30), <1>2, <1>3, <2>1 DEF Fields
  <2> QED BY ZenonT(30), <1>4, <2>1, <2>2 DEF ApplySandbox, table
<1>5. CASE StopUsing(w)
  <2> DEFINE x == [q EXCEPT !.pc = "relRead", !.back = "work"]
  <2>1. proc' = [proc EXCEPT ![w] = x] /\ UNCHANGED lease /\ Holds(w)
    BY Zenon, <1>5 DEF StopUsing, table, Holds
  <2>2. x.s = q.s /\ x.i = q.i
    BY Zenon, <1>2 DEF Fields
  <2> QED BY ZenonT(30), <2>1, <2>2
<1>6. CASE tryAcquireAssignedLease(w)
  <2>1. PICK s \in q.todo :
        IF CanAcquire(q.i, s)
        THEN /\ lease' = [lease EXCEPT ![s].inUse = TRUE]
             /\ proc' = [proc EXCEPT ![w] = [@ EXCEPT !.pc = "using", !.s = s, !.todo = {}]]
        ELSE /\ IF q.todo = {s} THEN End(w)
                ELSE proc' = [proc EXCEPT ![w].todo = @ \ {s}]
             /\ UNCHANGED lease
    BY ZenonT(30), <1>6 DEF tryAcquireAssignedLease
  <2>2. s \in Sandboxes /\ q.pc = "pick"
    BY ZenonT(30), <1>1, <1>6 DEF WorkerFine, Typed, tryAcquireAssignedLease
  <2>3. CASE CanAcquire(q.i, s)
    <3> DEFINE x == [q EXCEPT !.pc = "using", !.s = s, !.todo = {}]
    <3>1. x.s = s /\ x.i = q.i
      BY Zenon, <1>2 DEF Fields
    <3>2. proc' = [proc EXCEPT ![w] = x] /\ lease' = [lease EXCEPT ![s].inUse = TRUE]
      BY Zenon, <2>1, <2>3
    <3> QED BY ZenonT(30), <2>2, <2>3, <3>1, <3>2
  <2>4. CASE ~CanAcquire(q.i, s)
    <3>1. PICK x : /\ proc' = [proc EXCEPT ![w] = x]
                   /\ x = At(q.i, q.left - 1) \/ x = [q EXCEPT !.todo = @ \ {s}]
      BY Zenon, <2>1, <2>4 DEF End
    <3>2. x.pc \in {"idle", "pick"}
      BY <1>2, <1>3, <2>2, <3>1 DEF Fields
    <3> QED BY ZenonT(30), <2>1, <2>4, <3>1, <3>2
  <2> QED BY Zenon, <2>3, <2>4
<1>7. CASE ReleaseRead(w)
  <2>1. q.back = "work" /\ q.pc = "relRead" /\ Holds(w) /\ UNCHANGED lease
    BY Zenon, <1>1, <1>7 DEF WorkerFine, ReleasePcs, ReleaseRead, Holds, table
  <2>2. \A out : ReleaseReturns(q, out) = At(q.i, q.left - 1)
    BY Zenon, <2>1 DEF ReleaseReturns
  <2>3. lease[q.s].inUse /\ lease[q.s].user = q.i /\ q.i # Nobody
    BY ZenonT(30), <1>1, <2>1, ConstantFacts DEF AloneInv, WorkerFine
  <2> DEFINE x == [q EXCEPT !.pc = "relSet", !.row = lease[q.s]]
  <2>4. proc' = [proc EXCEPT ![w] = x]
    BY Zenon, <1>7, <2>3 DEF ReleaseRead
  <2>5. x.s = q.s /\ x.i = q.i
    BY Zenon, <1>2 DEF Fields
  <2> QED BY ZenonT(30), <2>1, <2>4, <2>5
<1>8. CASE ReleaseSet(w)
  <2> DEFINE x == [q EXCEPT !.pc = "relCool"]
  <2>1. proc' = [proc EXCEPT ![w] = x] /\ Holds(w) /\ q.s \in Sandboxes
    BY Zenon, <1>1, <1>8 DEF ReleaseSet, Goto, Holds, WorkerFine, ReleasePcs
  <2>2. x.pc = "relCool"
    BY Zenon, <1>2 DEF Fields
  <2>3. \A t \in Sandboxes : t # q.s => lease'[t] = lease[t]
    BY Zenon, <1>8 DEF ReleaseSet, LeaseInv, TableTypes
  <2> QED BY ZenonT(30), <2>1, <2>2, <2>3
<1>9. CASE ReleaseCooldown(w)
  <2>1. q.back = "work" /\ UNCHANGED lease
    BY ZenonT(30), <1>1, <1>9 DEF WorkerFine, ReleasePcs, ReleaseCooldown
  <2>2. proc' = [proc EXCEPT ![w] = At(q.i, q.left - 1)]
    BY Zenon, <1>9, <2>1 DEF ReleaseCooldown, ReleaseReturns
  <2> QED BY ZenonT(30), <1>3, <2>1, <2>2
<1> QED BY Zenon, <1>4, <1>5, <1>6, <1>7, <1>8, <1>9 DEF ReleaseStep

LEMMA AloneStep ==
  ASSUME LeaseInv, LeaseInv', AloneInv, LeaseNext
  PROVE  AloneInv'
<1> SUFFICES ASSUME RunsAlone' PROVE AloneInv'
  BY Zenon DEF AloneInv
<1>1. RunsAlone
  BY Zenon DEF RunsAlone, LeaseNext
<1>2. \A p \in Admins : proc'[p].op = "none"
  <2>1. \A p \in Admins : AdminFine(proc[p])'
    BY ZenonT(30), ConstantFacts DEF LeaseInv, Local, Fine
  <2> QED BY Zenon, <2>1 DEF AdminFine, Knows, RunsAlone
<1>3. CASE UNCHANGED <<lease, proc>>
  BY Zenon, <1>1, <1>2, <1>3 DEF AloneInv, Holds
<1>4. ASSUME NEW w \in Workers, ApplySandbox(w) \/ StopUsing(w) \/ tryAcquireAssignedLease(w) \/ ReleaseStep(w)
      PROVE  AloneInv'
  <2>1. PICK x, s :
           /\ proc' = [proc EXCEPT ![w] = x]
           /\ \/ UNCHANGED lease /\ x.pc \notin {"using", "relRead", "relSet"}
              \/ /\ UNCHANGED lease /\ x.s = proc[w].s /\ x.i = proc[w].i /\ Holds(w)
              \/ /\ s \in Sandboxes /\ CanAcquire(proc[w].i, s)
                 /\ lease' = [lease EXCEPT ![s].inUse = TRUE] /\ x.s = s /\ x.i = proc[w].i
              \/ /\ Holds(w) /\ x.pc = "relCool" /\ \A t \in Sandboxes : t # proc[w].s => lease'[t] = lease[t]
    BY Zenon, <1>1, <1>4, AloneWorker
  <2>2. \A v \in Workers : proc'[v] = IF v = w THEN x ELSE proc[v]
    BY Zenon, <2>1, ConstantFacts DEF LeaseInv, Local
  <2>3. \A v \in Workers : Holds(v) => proc[v].s \in Sandboxes
    BY Zenon, ConstantFacts DEF Holds, LeaseInv, Local, Fine, WorkerFine, ReleasePcs
  <2>4. CASE UNCHANGED lease /\ x.pc \notin {"using", "relRead", "relSet"}
    BY SMTT(30), <1>1, <1>2, <2>2, <2>4 DEF AloneInv, Holds
  <2>5. CASE UNCHANGED lease /\ x.s = proc[w].s /\ x.i = proc[w].i /\ Holds(w)
    BY <1>1, <1>2, <2>2, <2>5 DEF AloneInv, Holds
  <2>6. CASE /\ s \in Sandboxes /\ CanAcquire(proc[w].i, s)
             /\ lease' = [lease EXCEPT ![s].inUse = TRUE] /\ x.s = s /\ x.i = proc[w].i
    <3>1. /\ lease'[s].inUse /\ lease'[s].user = proc[w].i
          /\ \A t \in Sandboxes : t # s => lease'[t] = lease[t]
          /\ ~lease[s].inUse
      BY SMTT(30), <2>6 DEF LeaseInv, TableTypes, Row, CanAcquire
    <3>2. \A v \in Workers : Holds(v) => proc[v].s # s
      BY Zenon, <1>1, <3>1 DEF AloneInv
    <3> QED BY <1>1, <1>2, <2>2, <2>3, <2>6, <3>1, <3>2 DEF AloneInv, Holds
  <2>7. CASE Holds(w) /\ x.pc = "relCool" /\ \A t \in Sandboxes : t # proc[w].s => lease'[t] = lease[t]
    <3>1. \A v \in Workers : v # w /\ Holds(v) => proc[v].s # proc[w].s
      BY Zenon, <1>1, <2>7 DEF AloneInv
    <3> QED BY SMTT(30), <1>1, <1>2, <2>2, <2>3, <2>7, <3>1 DEF AloneInv, Holds
  <2> QED BY Zenon, <2>1, <2>4, <2>5, <2>6, <2>7
<1> QED BY Zenon, <1>1, <1>3, <1>4, AloneMoves

-----------------------------------------------------------------------------
(* Every behaviour.                                                         *)
LEMMA Stutters ==
  ASSUME LeaseInv, AloneInv, UNCHANGED vars
  PROVE  LeaseInv' /\ AloneInv'
<1>1. UNCHANGED <<env, lease, assign, avail, alive, scope, instLock, proc, rec>>
  BY Zenon DEF vars, state
<1>2. TableTypes' /\ RecFine'
  BY Zenon, <1>1 DEF LeaseInv, TableTypes, RecFine
<1>3. LeaseInv'
  BY Zenon, <1>1, <1>2, Background DEF LeaseInv, TableTypes
<1> QED BY ZenonT(30), <1>1, <1>3 DEF AloneInv, Holds, RunsAlone

LEMMA AloneInit ==
  ASSUME Init
  PROVE  AloneInv
<1>1. \A p \in Procs : proc[p].pc = "idle" /\ proc[p].op = "none"
  BY Zenon DEF Init, At
<1> QED BY Zenon, <1>1, ConstantFacts DEF AloneInv, Holds

(* The inductive invariant of the lease table by itself.                    *)
THEOREM LeaseInvariant == Spec => [](LeaseInv /\ AloneInv)
<1>1. Init => LeaseInv /\ AloneInv
  BY Zenon, LeaseInit, AloneInit
<1>2. LeaseInv /\ AloneInv /\ [LeaseNext]_vars => (LeaseInv /\ AloneInv)'
  BY Zenon, LeaseStep, AloneStep, Stutters
<1> QED BY <1>1, <1>2, PTL DEF Spec

LEMMA ScopeAlone ==
  ASSUME ScopeInv, ScopeInv', AloneInv, UNCHANGED env, NEW p \in Admins,
         ScopeRequest(p) \/ ClaimList(p) \/ ScopeStep(p)
  PROVE  AloneInv'
<1>1. ~RunsAlone
  <2> SUFFICES ASSUME RunsAlone PROVE FALSE
    BY Zenon
  <2>1. proc[p].pc \in {"idle", "dead"} /\ env.ops = {}
    BY Zenon, AloneMeans DEF ScopeInv, RunsAlone
  <2> QED BY Zenon, <2>1 DEF ScopeRequest, ClaimList, ScopeStep, ScopeTxRead, ScopeTxExec, ClaimScript
<1> QED BY Zenon, <1>1 DEF AloneInv, RunsAlone

(* The inductive invariant of leases and bindings together.                 *)
THEOREM ScopeInvariant == ScopeSpec => [](ScopeInv /\ AloneInv)
<1>1. ScopeInit => ScopeInv /\ AloneInv
  <2> SUFFICES ASSUME ScopeInit PROVE ScopeInv /\ AloneInv
    BY Zenon
  <2>1. LeaseInv /\ ProjectInsideOrg /\ AloneInv
    BY Zenon, LeaseInit, AloneInit DEF ScopeInit
  <2>2. SnapFine
    <3>1. \A p \in Admins : proc[p].pc = "idle"
      BY Zenon, ConstantFacts DEF ScopeInit, Init, At
    <3> QED BY Zenon, <3>1 DEF ScopeInit, SnapFine
  <2> QED BY Zenon, <2>1, <2>2 DEF ScopeInv
<1>2. ScopeInv /\ AloneInv /\ [ScopeNext]_scopeVars => (ScopeInv /\ AloneInv)'
  <2> SUFFICES ASSUME ScopeInv, AloneInv, [ScopeNext]_scopeVars
               PROVE  ScopeInv' /\ AloneInv'
    BY Zenon
  <2>1. CASE LeaseNext /\ UNCHANGED <<snap, claimed>>
    <3>1. LeaseInv' /\ AloneInv'
      BY Zenon, <2>1, LeaseStep, AloneStep DEF ScopeInv
    <3>2. SnapFine'
      BY Zenon, <2>1, LeaseKeepsSnap
    <3>3. ProjectInsideOrg'
      BY Zenon, <2>1, LeaseKeepsScope DEF ScopeInv, ProjectInsideOrg
    <3> QED BY Zenon, <3>1, <3>2, <3>3 DEF ScopeInv
  <2>2. ASSUME NEW p \in Admins, ScopeRequest(p) \/ ClaimList(p) \/ ScopeStep(p), UNCHANGED env
        PROVE  ScopeInv' /\ AloneInv'
    <3>1. ScopeInv'
      BY Zenon, <2>2, RequestsBind, ScopeReadStep, ScopeExecStep, ClaimStep DEF ScopeStep
    <3> QED BY Zenon, <2>2, <3>1, ScopeAlone
  <2>3. CASE UNCHANGED scopeVars
    <3>1. UNCHANGED vars /\ UNCHANGED <<snap, proc, scope>>
      BY Zenon, <2>3 DEF scopeVars, vars, state
    <3> QED BY Zenon, <3>1, Stutters DEF ScopeInv, SnapFine, ProjectInsideOrg
  <2> QED BY Zenon, <2>1, <2>2, <2>3 DEF ScopeNext
<1> QED BY <1>1, <1>2, PTL DEF ScopeSpec

LEMMA AloneIsExclusive == AloneInv => ExclusiveUse
BY Zenon DEF AloneInv, ExclusiveUse, Holds

(* A deleted instance holds no sandbox, whatever requests, task runs and    *)
(* reconciliation rounds race with deleteSingleAgentInstance, as long as no *)
(* lock runs out under its holder.                                          *)
THEOREM DeletedInstancesHoldNothing == ScopeSpec => []DeletedHoldsNothing
<1>1. ScopeInv /\ AloneInv => DeletedHoldsNothing
  BY Zenon DEF ScopeInv, LeaseInv
<1> QED BY <1>1, ScopeInvariant, PTL

(* Assignment hashes and lease rows agree wherever only the transactions of *)
(* runAssignSandboxTx, runUnassignDeleteTx and runScopeMutation, and        *)
(* releases and prunings under the instance lock, write them.               *)
THEOREM HashesMatchRows == ScopeSpec => []HashMatchesRows
<1>1. ScopeInv /\ AloneInv => HashMatchesRows
  BY Zenon DEF ScopeInv, LeaseInv
<1> QED BY <1>1, ScopeInvariant, PTL

(* A sandbox of a project belongs to the project's organization at all      *)
(* times, because every mutation of sandbox_scope.go watches the binding it *)
(* relies on.                                                               *)
THEOREM ProjectsStayInsideOrgs == ScopeSpec => []ProjectInsideOrg
<1>1. ScopeInv /\ AloneInv => ProjectInsideOrg
  BY Zenon DEF ScopeInv
<1> QED BY <1>1, ScopeInvariant, PTL

(* While only task runs use the pool, acquireLeaseScript and ReleaseLease   *)
(* never let two of them use one sandbox.                                   *)
THEOREM UseIsExclusive == ScopeSpec => []ExclusiveUse
<1>1. ScopeInv /\ AloneInv => ExclusiveUse
  BY Zenon, AloneIsExclusive
<1> QED BY <1>1, ScopeInvariant, PTL

(* The commit of runAssignSandboxTx never takes a sandbox another instance  *)
(* is using, and only one the instance's scope allows.                      *)
THEOREM AssignmentTakesNoBusySandbox == ScopeSpec => AssignTakesNoBusySandbox
<1>1. ScopeInv /\ AloneInv =>
        [\A p \in Admins :
           LET q == proc[p] IN
           q.pc = "asExec" /\ AssignTxExec(p) /\ lease' # lease =>
             /\ lease[q.s].user \notin {Nobody, q.i} => ~lease[q.s].inUse
             /\ scope[q.s] \in {NoScope, ScopeOf(q.i)}]_state
  <2> SUFFICES ASSUME ScopeInv, NEW p \in Admins, proc[p].pc = "asExec", AssignTxExec(p), lease' # lease
               PROVE  /\ lease[proc[p].s].user \notin {Nobody, proc[p].i} => ~lease[proc[p].s].inUse
                      /\ scope[proc[p].s] \in {NoScope, ScopeOf(proc[p].i)}
    BY Zenon
  <2>1. lease[proc[p].s] = proc[p].row /\ scope[proc[p].s] = proc[p].seen
    BY Zenon DEF AssignTxExec
  <2>2. Reads(proc[p])
    BY Zenon, ConstantFacts DEF ScopeInv, LeaseInv, Local, Fine, AdminFine
  <2> QED BY Zenon, <2>1, <2>2 DEF Reads
<1> QED BY <1>1, ScopeInvariant, PTL DEF AssignTakesNoBusySandbox


=============================================================================
