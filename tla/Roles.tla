------------------------------- MODULE Roles -------------------------------
(***************************************************************************)
(* What administrators may do: the permissions of the role ADMIN, which     *)
(* super owners edit on a page, and the roles of the users, which owners    *)
(* and super owners change.                                                 *)
(*                                                                          *)
(* A save of permissions compares the mappings with those its page showed,  *)
(* deletes them and inserts the new ones in one READ COMMITTED transaction  *)
(* that locks only the rows it deletes.  A change of a user reads who asks, *)
(* then the user, then writes.                                              *)
(*                                                                          *)
(* Left out: names and passwords, and permissions that are no longer in use *)
(* (the program never takes one out of use).                                *)
(***************************************************************************)
EXTENDS Integers, FiniteSetsExt

CONSTANTS Permissions,
          Editors,     \* pages with the permissions of ADMIN
          People,      \* ids of users
          Askers,      \* those of them who ask for changes
          Founder,     \* the super owner the system is installed with
          MaxChanges   \* bound on the changes of users

ASSUME RolesAssumption == Founder \in People /\ Askers \subseteq People /\ MaxChanges \in Nat

VARIABLES granted,    \* the permissions mapped to ADMIN
          audit,      \* those that their last audit row says are enabled
          editor,     \* editor[e]: a page and its save
          overlapped, \* a save was overtaken between its comparison and its commit
          person,     \* person[u]: the row of a user
          request,    \* request[u]: the change that user u asks for
          appointed,  \* appointed[u]: the row of u as a super owner last wrote it
          late        \* users written after the row of asker or user had changed

grantVars  == <<granted, audit, editor, overlapped>>
peopleVars == <<person, request, appointed, late>>
rolesVars  == <<grantVars, peopleVars>>

-----------------------------------------------------------------------------
(***************************************************************************)
(* The permissions of ADMIN                                                *)
(***************************************************************************)

Configurable == Permissions

\* checked is what the boxes say; missed holds the mappings that were inserted since the
\* save deleted those it could see.
Page0 == [stage |-> "shut", shown |-> {}, checked |-> {}, missed |-> {}]

Saving(e) == editor[e].stage \in {"sent", "compared", "deleted"}

Shows(e, ids) == [editor EXCEPT ![e] = [Page0 EXCEPT !.stage = "shown", !.shown = ids, !.checked = ids]]

\* fetchData, when the page opens.
GetAdminPermissions(e) ==
  /\ ~Saving(e)
  /\ editor' = Shows(e, granted)
  /\ UNCHANGED <<granted, audit, overlapped>>

HandleToggle(e, p) ==
  /\ editor[e].stage = "shown"
  /\ editor' = [editor EXCEPT ![e].checked = IF p \in @ THEN @ \ {p} ELSE @ \cup {p}]
  /\ UNCHANGED <<granted, audit, overlapped>>

\* confirmCancel
Cancel(e) ==
  /\ editor[e].stage = "shown"
  /\ editor' = Shows(e, editor[e].shown)
  /\ UNCHANGED <<granted, audit, overlapped>>

HandleSave(e) ==
  /\ editor[e].stage = "shown" /\ editor[e].checked # editor[e].shown
  /\ editor' = [editor EXCEPT ![e].stage = "sent"]
  /\ UNCHANGED <<granted, audit, overlapped>>

Current_Anyway(e) == TRUE

\* The mappings are still the ones that the page has shown.
Current(e) == granted = editor[e].shown

\* The page shows an error, and everything else stays.
Refused(e) == [editor EXCEPT ![e].stage = "shown", ![e].missed = {}]

Compare(e) ==
  /\ editor[e].stage = "sent"
  /\ editor' = IF Current(e) /\ editor[e].checked \subseteq Configurable
                 THEN [editor EXCEPT ![e].stage = "compared"] ELSE Refused(e)
  /\ UNCHANGED <<granted, audit, overlapped>>

\* deleteMany sees the rows that are committed when it starts, and waits for those
\* that another save has deleted already.
DeleteMappings(e) ==
  /\ editor[e].stage = "compared"
  /\ editor' = [editor EXCEPT ![e].stage = "deleted"]
  /\ UNCHANGED <<granted, audit, overlapped>>

\* createMany fails on a mapping that is there, and the save is rolled back.
InsertMappings(e) ==
  LET new  == editor[e].checked
      left == editor[e].missed
  IN  /\ editor[e].stage = "deleted"
      /\ IF new \cap left # {}
           THEN editor' = Refused(e) /\ UNCHANGED <<granted, audit, overlapped>>
           ELSE /\ granted' = left \cup new
                /\ audit' = (audit \ (editor[e].shown \ new)) \cup (new \ editor[e].shown)
                /\ editor' = [d \in Editors |->
                     IF d = e THEN [Page0 EXCEPT !.stage = "shown", !.shown = new, !.checked = new]
                     ELSE IF editor[d].stage = "deleted"
                       THEN [editor[d] EXCEPT !.missed = (@ \cap left) \cup new] ELSE editor[d]]
                /\ overlapped' = (overlapped \/ \E d \in Editors \ {e} : editor[d].stage \in {"compared", "deleted"})

GrantNext ==
  \E e \in Editors :
    \/ GetAdminPermissions(e) \/ HandleSave(e) \/ Cancel(e) \/ \E p \in Configurable : HandleToggle(e, p)
    \/ Compare(e) \/ DeleteMappings(e) \/ InsertMappings(e)

-----------------------------------------------------------------------------
(***************************************************************************)
(* The roles of users                                                      *)
(***************************************************************************)

RoleCodes == {"SUPER_OWNER", "OWNER", "ADMIN"}
OwnerRole(role) == role \in {"SUPER_OWNER", "OWNER"}

\* version stands for updatedAt.
Nobody   == [role |-> "none", active |-> FALSE, version |-> 0]
NoChange == [op |-> "none", stage |-> "none", of |-> Founder, row |-> Nobody, as |-> "none", stale |-> FALSE]

\* checkPermission
MayManage(actor, target, op) ==
  \/ actor = "SUPER_OWNER" /\ ~(op = "create" /\ target = "SUPER_OWNER")
  \/ actor = "OWNER" /\ ~OwnerRole(target)

MayUpdate_NewRole(actor, old, new) == MayManage(actor, new, "update")

\* updateUser checks the role the user has, and the one it gets.
MayUpdate(actor, old, new) == MayManage(actor, old, "update") /\ MayManage(actor, new, "update")

Allowed(r) ==
  CASE r.op = "create"  -> person[r.of] = Nobody /\ MayManage(r.as, r.row.role, "create")
    [] r.op = "update"  -> /\ MayUpdate(r.as, person[r.of].role, r.row.role)
                           /\ person[r.of].version = r.row.version
    [] r.op = "disable" -> MayManage(r.as, person[r.of].role, "disable")

PeopleSame == UNCHANGED <<person, appointed, late>>

\* How often something was written.
Changes == FoldSet(LAMBDA u, n : n + person[u].version, 0, People)

\* A user fills in the form of another, as it is or as it is to be, and sends it;
\* SessionGuard reads the user who asks, and RolesGuard its role.
Admit(u, op, v, role, active) ==
  /\ request[u] = NoChange /\ Changes < MaxChanges
  /\ person[u].active /\ OwnerRole(person[u].role)
  /\ (op = "create") = (person[v] = Nobody)
  /\ request' = [request EXCEPT ![u] =
       [NoChange EXCEPT !.op = op, !.stage = "admitted", !.of = v, !.as = person[u].role,
                        !.row = [role |-> role, active |-> active, version |-> person[v].version]]]
  /\ PeopleSame

CheckPermission(u) ==
  /\ request[u].stage = "admitted"
  /\ request' = [request EXCEPT ![u] = IF Allowed(@) THEN [@ EXCEPT !.stage = "checked"] ELSE NoChange]
  /\ PeopleSame

\* The row that a request writes; a new one must not exist by then.
NewRow(r) ==
  LET old == person[r.of]
  IN  CASE r.op = "create"  -> [role |-> r.row.role, active |-> TRUE, version |-> 1]
        [] r.op = "update"  -> [role |-> r.row.role, active |-> r.row.active, version |-> old.version + 1]
        [] r.op = "disable" -> [old EXCEPT !.active = FALSE, !.version = @ + 1]

Write(u) ==
  LET r == request[u]
      v == r.of
  IN  /\ r.stage = "checked"
      /\ IF r.op = "create" /\ person[v] # Nobody
           THEN request' = [request EXCEPT ![u] = NoChange] /\ PeopleSame
           ELSE /\ Changes < MaxChanges
                /\ person' = [person EXCEPT ![v] = NewRow(r)]
                /\ appointed' = IF person[u].role = "SUPER_OWNER" THEN [appointed EXCEPT ![v] = NewRow(r)] ELSE appointed
                /\ late' = IF r.stale THEN late \cup {v} ELSE late
                /\ request' = [w \in Askers |->
                     IF w = u THEN NoChange
                     ELSE IF request[w].stage \in {"admitted", "checked"} /\ v \in {w, request[w].of}
                       THEN [request[w] EXCEPT !.stale = TRUE] ELSE request[w]]

CreatePerson(u) == \E v \in People, role \in RoleCodes : Admit(u, "create", v, role, TRUE)
UpdatePerson(u) == \E v \in People, role \in RoleCodes, active \in BOOLEAN : Admit(u, "update", v, role, active)
DisablePerson(u) == \E v \in People : Admit(u, "disable", v, person[v].role, FALSE)

PeopleNext ==
  \E u \in Askers : CreatePerson(u) \/ UpdatePerson(u) \/ DisablePerson(u) \/ CheckPermission(u) \/ Write(u)

-----------------------------------------------------------------------------

\* Some users there are, whom super owners have made what they are.
RolesInit ==
  /\ granted \in SUBSET Configurable
  /\ audit      = granted
  /\ editor     = [e \in Editors |-> Page0]
  /\ overlapped = FALSE
  /\ \E role \in [People -> RoleCodes \cup {"none"}] :
       /\ role[Founder] = "SUPER_OWNER"
       /\ person = [u \in People |-> [Nobody EXCEPT !.role = role[u], !.active = role[u] # "none"]]
  /\ request    = [u \in Askers |-> NoChange]
  /\ appointed  = person
  /\ late       = {}

\* The two halves share nothing, and the smaller instances interleave one at a time.
RolesNext ==
  \/ GrantNext /\ UNCHANGED peopleVars
  \/ PeopleNext /\ UNCHANGED grantVars

-----------------------------------------------------------------------------
(***************************************************************************)
(* Properties                                                              *)
(***************************************************************************)

\* The audit log tells which permissions ADMIN has: no save takes away or brings back
\* one that its page did not show, unless two saves overlapped.
GrantsAudited == granted = audit \/ overlapped

\* Who is an owner, and whether it may log in, is what a super owner last decided,
\* through any chain of promotions; a request that was checked before the row of the
\* asker or of the user changed may still undo it.
OwnersAppointed ==
  \A u \in People \ late :
    (OwnerRole(person[u].role) \/ OwnerRole(appointed[u].role)) => person[u] = appointed[u]
=============================================================================
