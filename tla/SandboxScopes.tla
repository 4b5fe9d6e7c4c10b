--------------------------- MODULE SandboxScopes ---------------------------
(***************************************************************************)
(* Binding sandboxes to organizations and projects                          *)
(* (biz/sandbox/impl/sandbox_scope.go), composed with the lease table: both *)
(* work on the same keys under the same operation locks, a batch takes      *)
(* several locks, and unbinding from a project deletes leases.              *)
(***************************************************************************)
EXTENDS SandboxLeases

VARIABLES
  snap,     \* request -> the bindings and rows its transaction has read
  claimed   \* the organization of the initial claim, or Nobody

scopeVars == <<vars, snap, claimed>>

ScopeOps == {"toOrg", "fromOrg", "toProject", "fromProject"}

NothingRead == [scope |-> [s \in Sandboxes |-> NoScope], lease |-> [s \in Sandboxes |-> NoLease]]

ScopeInit ==
  /\ Init
  /\ snap = [p \in Admins |-> NothingRead]
  /\ claimed = Nobody

(* A request names a batch of sandboxes and an organization and project of  *)
(* it; AssignSandboxToProject refuses a project of another organization.    *)
ScopeRequest(p) ==
  /\ proc[p].pc = "idle" /\ proc[p].left > 0
  /\ \E op \in env.ops \cap ScopeOps, project \in Projects, ids \in SUBSET env.sandboxes \ {{}} :
       proc' = [proc EXCEPT ![p] =
         [@ EXCEPT !.pc = "opLock", !.op = op, !.ids = ids,
                   !.seen = [org |-> OrgOf[project], project |-> project]]]
  /\ UNCHANGED <<table, avail, alive, scope, locks, rec, snap, claimed>>

(* What a mutation asks of each sandbox: validateOrgUnassignment,           *)
(* validateProjectAssignment, loadProjectUnassignmentLease and the loop of  *)
(* AssignSandboxToOrg.                                                      *)
Accepts(op, target, b) ==
  CASE op = "toOrg"       -> b.org = Nobody
    [] op = "fromOrg"     -> b.org = target.org /\ b.project = Nobody
    [] op = "toProject"   -> b.org = target.org /\ b.project = Nobody
    [] op = "fromProject" -> b.project = target.project

ScopeTxRead(p) ==
  LET q == proc[p] IN
  /\ q.pc = "scope"
  /\ IF \A s \in q.ids : Accepts(q.op, q.seen, scope[s])
     THEN /\ Goto(p, "scopeExec")
          /\ snap' = [snap EXCEPT ![p] = [scope |-> scope, lease |-> lease]]
     ELSE Goto(p, "unlock") /\ UNCHANGED snap
  /\ UNCHANGED <<table, avail, alive, scope, locks, rec, claimed>>

(* The watched keys that this mutation's EXEC finds unchanged.              *)
Watched_leaseOnly(p) ==
  \A s \in proc[p].ids : proc[p].op = "fromProject" => lease[s] = snap[p].lease[s]

Watched(p) ==
  LET q == proc[p] IN
  \A s \in q.ids :
    /\ q.op # "fromProject" => scope[s].org = snap[p].scope[s].org
    /\ q.op # "toOrg" => scope[s].project = snap[p].scope[s].project
    /\ q.op = "fromProject" => lease[s] = snap[p].lease[s]

Bound(op, target, b) ==
  CASE op = "toOrg"       -> [b EXCEPT !.org = target.org]
    [] op = "fromOrg"     -> [b EXCEPT !.org = Nobody]
    [] op = "toProject"   -> [b EXCEPT !.project = target.project]
    [] op = "fromProject" -> [b EXCEPT !.project = Nobody]

(* writeProjectUnassignment: the rows read go, with their hash entries; a   *)
(* row in use leaves a cooldown.                                            *)
writeProjectUnassignment(p) ==
  LET q == proc[p]  old == snap[p].lease
      gone == {s \in q.ids : old[s].user # Nobody} IN
  /\ lease' = [s \in Sandboxes |-> IF s \in gone THEN NoLease ELSE lease[s]]
  /\ assign' = [i \in Instances |-> assign[i] \ {s \in gone : old[s].user = i}]
  /\ cooldown' = cooldown \cup {s \in gone : old[s].inUse}

ScopeTxExec(p) ==
  LET q == proc[p] IN
  /\ q.pc = "scopeExec"
  /\ \/ /\ Watched(p)
        /\ scope' = [s \in Sandboxes |->
                      IF s \in q.ids THEN Bound(q.op, q.seen, scope[s]) ELSE scope[s]]
        /\ IF q.op = "fromProject" THEN writeProjectUnassignment(p) ELSE UNCHANGED table
        /\ Goto(p, "unlock")
     \/ /\ ~Watched(p)
        /\ proc' = [proc EXCEPT ![p] = Again(q, "scope")]
        /\ UNCHANGED <<table, scope>>
  /\ snap' = [snap EXCEPT ![p] = NothingRead]
  /\ UNCHANGED <<avail, alive, locks, rec, claimed>>

(* ClaimUnassignedSandboxesForOrg: a listing, then one script that runs     *)
(* once in the life of the installation, under no lock.                     *)
ClaimList(p) ==
  LET free == {s \in env.sandboxes : scope[s] = NoScope /\ lease[s].user = Nobody} IN
  /\ "claim" \in env.ops /\ proc[p].pc = "idle" /\ proc[p].left > 0
  /\ \E o \in Orgs :
       proc' = [proc EXCEPT ![p] = [@ EXCEPT !.pc = "claim", !.op = "claim", !.ids = free,
                                             !.seen = [NoScope EXCEPT !.org = o]]]
  /\ UNCHANGED <<table, avail, alive, scope, locks, rec, snap, claimed>>

ClaimScript(p) ==
  LET q == proc[p] IN
  /\ q.pc = "claim"
  /\ IF claimed = Nobody
     THEN /\ scope' = [s \in Sandboxes |->
                        IF s \in q.ids /\ scope[s].org = Nobody
                        THEN [scope[s] EXCEPT !.org = q.seen.org] ELSE scope[s]]
          /\ claimed' = q.seen.org
     ELSE UNCHANGED <<scope, claimed>>
  /\ End(p)
  /\ UNCHANGED <<table, avail, alive, locks, rec, snap>>

ScopeStep(p) == ScopeTxRead(p) \/ ScopeTxExec(p) \/ ClaimScript(p)

ScopeNext ==
  \/ LeaseNext /\ UNCHANGED <<snap, claimed>>
  \/ /\ \E p \in Admins : ScopeRequest(p) \/ ClaimList(p) \/ ScopeStep(p)
     /\ UNCHANGED env

ScopeSpec == ScopeInit /\ [][ScopeNext]_scopeVars

-----------------------------------------------------------------------------
(* A sandbox bound to a project is bound to that project's organization,    *)
(* although the two bindings are separate keys and organization and project *)
(* administrators work at the same time: the mutations watch both.          *)
ProjectInsideOrg ==
  \A s \in Sandboxes : scope[s].project # Nobody => scope[s].org = OrgOf[scope[s].project]

=============================================================================
