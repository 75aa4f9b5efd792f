--------------------------- MODULE BackOfficeProofs ---------------------------
(***************************************************************************)
(* Theorems about permissions and roles, master data, sessions, product     *)
(* units and order texts, for every number of users, pages, records,        *)
(* sessions, products and names, and texts of any length.                   *)
(*                                                                          *)
(* In each, something is read and written later without a lock, and the     *)
(* invariant says what a request in between knows: that what it read is     *)
(* still so, unless the history of the module notes that it is not.         *)
(***************************************************************************)
EXTENDS Roles, MasterRecords, Access, Catalogue, OrderText, TallyTheorems, SequenceTheorems,
        FiniteSetTheorems, TLAPS

-----------------------------------------------------------------------------
(***************************************************************************)
(* The permissions of ADMIN                                                *)
(***************************************************************************)

Pages ==
  [stage : {"shut", "shown", "sent", "compared", "deleted"},
   shown : SUBSET Permissions, checked : SUBSET Permissions, missed : SUBSET Permissions]

\* A save that has compared what its page showed has found the mappings there are, and
\* misses none of them.
Compared(e) ==
  /\ editor[e].stage \in {"compared", "deleted"} => editor[e].shown = granted
  /\ editor[e].missed = {}

GrantInv ==
  /\ granted \in SUBSET Permissions /\ audit \in SUBSET Permissions
  /\ editor \in [Editors -> Pages] /\ overlapped \in BOOLEAN
  /\ \A e \in Editors : editor[e].stage # "deleted" => editor[e].missed = {}
  /\ ~overlapped => granted = audit /\ \A e \in Editors : Compared(e)

\* A page that has nothing compared, or a save that compares, is a matter of its own.
LEMMA PageKeeps ==
  ASSUME GrantInv, NEW e \in Editors, NEW new \in Pages, editor' = [editor EXCEPT ![e] = new],
         UNCHANGED <<granted, audit, overlapped>>,
         new.stage # "deleted" => new.missed = {},
         ~overlapped => /\ new.stage \in {"compared", "deleted"} => new.shown = granted
                        /\ new.missed = {}
  PROVE  GrantInv'
BY DEF GrantInv, Compared

\* Inserting the mappings a save has compared keeps the invariant.
LEMMA InsertMappingsKeeps ==
  ASSUME GrantInv, NEW e \in Editors, InsertMappings(e)
  PROVE  GrantInv'
<1> DEFINE new  == editor[e].checked
           left == editor[e].missed
<1>1. /\ editor \in [Editors -> Pages] /\ new \in SUBSET Permissions /\ left \in SUBSET Permissions
      /\ editor[e].shown \in SUBSET Permissions /\ editor[e] \in Pages
      /\ granted \in SUBSET Permissions /\ audit \in SUBSET Permissions /\ overlapped \in BOOLEAN
      /\ editor[e].stage = "deleted"
  BY DEF GrantInv, Pages, InsertMappings
<1>2. CASE new \cap left # {}
  <2> DEFINE page0 == [editor[e] EXCEPT !.stage = "shown", !.missed = {}]
  <2>1. editor' = [editor EXCEPT ![e] = page0] /\ UNCHANGED <<granted, audit, overlapped>>
    BY <1>1, <1>2 DEF InsertMappings, Refused
  <2>2. page0 \in Pages /\ page0.stage = "shown" /\ page0.missed = {}
    BY <1>1 DEF Pages
  <2> HIDE DEF page0
  <2> QED
    BY <2>1, <2>2, PageKeeps
<1>3. CASE new \cap left = {}
  <2> DEFINE mine == [Page0 EXCEPT !.stage = "shown", !.shown = new, !.checked = new]
             others(d) == [editor[d] EXCEPT !.missed = (@ \cap left) \cup new]
  <2>1. /\ granted' = left \cup new
        /\ audit' = (audit \ (editor[e].shown \ new)) \cup (new \ editor[e].shown)
        /\ editor' = [d \in Editors |-> IF d = e THEN mine
                                        ELSE IF editor[d].stage = "deleted" THEN others(d) ELSE editor[d]]
        /\ overlapped' = (overlapped \/ \E d \in Editors \ {e} : editor[d].stage \in {"compared", "deleted"})
    BY <1>3 DEF InsertMappings
  <2>2. mine \in Pages /\ mine.stage = "shown" /\ mine.missed = {}
    BY <1>1 DEF Pages, Page0
  <2>3. \A d \in Editors : others(d) \in Pages /\ others(d).stage = editor[d].stage
    BY <1>1 DEF Pages
  <2> HIDE DEF mine, others
  <2>4. /\ granted' \in SUBSET Permissions /\ audit' \in SUBSET Permissions /\ overlapped' \in BOOLEAN
        /\ editor' \in [Editors -> Pages]
    BY <1>1, <2>1, <2>2, <2>3
  <2>5. \A d \in Editors : editor'[d].stage # "deleted" => editor'[d].missed = {}
    BY <2>1, <2>2, <2>3 DEF GrantInv
  <2>6. ASSUME ~overlapped' PROVE granted' = audit' /\ \A d \in Editors : Compared(d)'
    <3>1. ~overlapped /\ \A d \in Editors \ {e} : editor[d].stage \notin {"compared", "deleted"}
      BY <2>1, <2>6
    <3>2. granted = audit /\ editor[e].shown = granted /\ left = {}
      BY <1>1, <3>1 DEF GrantInv, Compared
    <3>3. granted' = audit'
      BY <2>1, <3>2
    <3>4. \A d \in Editors \ {e} : editor'[d] = editor[d] /\ editor[d].missed = {}
      BY <2>1, <3>1 DEF GrantInv, Compared
    <3>5. editor'[e] = mine
      BY <2>1
    <3> QED
      BY <2>2, <3>1, <3>3, <3>4, <3>5 DEF Compared
  <2> QED
    BY <2>4, <2>5, <2>6 DEF GrantInv
<1> QED
  BY <1>2, <1>3

\* No step of the permission pages disturbs the invariant.
LEMMA GrantStep ==
  ASSUME GrantInv, GrantNext
  PROVE  GrantInv'
<1>1. PICK e \in Editors :
        \/ GetAdminPermissions(e) \/ HandleSave(e) \/ Cancel(e) \/ \E p \in Configurable : HandleToggle(e, p)
        \/ Compare(e) \/ DeleteMappings(e) \/ InsertMappings(e)
  BY DEF GrantNext
<1>2. /\ editor \in [Editors -> Pages] /\ editor[e] \in Pages /\ granted \in SUBSET Permissions
      /\ editor[e].stage # "deleted" => editor[e].missed = {}
  BY DEF GrantInv
<1>3. ASSUME NEW ids \in SUBSET Permissions, editor' = Shows(e, ids), UNCHANGED <<granted, audit, overlapped>>
      PROVE  GrantInv'
  <2> DEFINE new == [Page0 EXCEPT !.stage = "shown", !.shown = ids, !.checked = ids]
  <2>1. new \in Pages /\ new.stage = "shown" /\ new.missed = {}
    BY DEF Pages, Page0
  <2>2. editor' = [editor EXCEPT ![e] = new]
    BY <1>3 DEF Shows
  <2> HIDE DEF new
  <2> QED
    BY <1>3, <2>1, <2>2, PageKeeps
<1>4. CASE GetAdminPermissions(e)
  BY <1>2, <1>3, <1>4 DEF GetAdminPermissions
<1>5. CASE Cancel(e)
  BY <1>2, <1>3, <1>5 DEF Cancel, Pages
<1>6. CASE HandleSave(e)
  <2> DEFINE new == [editor[e] EXCEPT !.stage = "sent"]
  <2>1. new \in Pages /\ new.stage = "sent" /\ new.missed = {}
    BY <1>2, <1>6 DEF Pages, HandleSave
  <2>2. editor' = [editor EXCEPT ![e] = new] /\ UNCHANGED <<granted, audit, overlapped>>
    BY <1>6 DEF HandleSave
  <2> HIDE DEF new
  <2> QED
    BY <2>1, <2>2, PageKeeps
<1>7. ASSUME NEW p \in Configurable, HandleToggle(e, p) PROVE GrantInv'
  <2> DEFINE boxes == IF p \in editor[e].checked THEN editor[e].checked \ {p} ELSE editor[e].checked \cup {p}
             new   == [editor[e] EXCEPT !.checked = boxes]
  <2>1. boxes \in SUBSET Permissions
    BY <1>2, <1>7 DEF Pages, Configurable
  <2>2. editor' = [editor EXCEPT ![e] = new] /\ UNCHANGED <<granted, audit, overlapped>>
    BY <1>7 DEF HandleToggle
  <2> HIDE DEF boxes
  <2>3. new \in Pages /\ new.stage = "shown" /\ new.missed = {}
    BY <1>2, <1>7, <2>1 DEF Pages, HandleToggle
  <2> HIDE DEF new
  <2> QED
    BY <2>2, <2>3, PageKeeps
<1>8. CASE Compare(e)
  <2> DEFINE new == IF Current(e) /\ editor[e].checked \subseteq Configurable
                    THEN [editor[e] EXCEPT !.stage = "compared"]
                    ELSE [editor[e] EXCEPT !.stage = "shown", !.missed = {}]
  <2>1. editor' = [editor EXCEPT ![e] = new] /\ UNCHANGED <<granted, audit, overlapped>>
    BY <1>2, <1>8 DEF Compare, Refused
  <2>2. new \in Pages /\ new.missed = {} /\ new.stage \in {"compared", "shown"}
        /\ (new.stage = "compared" => new.shown = granted)
    BY <1>2, <1>8 DEF Compare, Current, Pages
  <2> HIDE DEF new
  <2> QED
    BY <2>1, <2>2, PageKeeps
<1>9. CASE DeleteMappings(e)
  <2> DEFINE new == [editor[e] EXCEPT !.stage = "deleted"]
  <2>1. new \in Pages /\ new.stage = "deleted" /\ new.missed = {} /\ new.shown = editor[e].shown
    BY <1>2, <1>9 DEF Pages, DeleteMappings
  <2>2. editor' = [editor EXCEPT ![e] = new] /\ UNCHANGED <<granted, audit, overlapped>>
    BY <1>9 DEF DeleteMappings
  <2>3. ~overlapped => editor[e].shown = granted
    BY <1>9 DEF GrantInv, Compared, DeleteMappings
  <2> HIDE DEF new
  <2> QED
    BY <2>1, <2>2, <2>3, PageKeeps
<1>10. CASE InsertMappings(e)
  BY <1>10, InsertMappingsKeeps
<1> QED
  BY <1>1, <1>4, <1>5, <1>6, <1>7, <1>8, <1>9, <1>10

-----------------------------------------------------------------------------
(***************************************************************************)
(* The roles of users                                                      *)
(***************************************************************************)

PersonRows == [role : RoleCodes \cup {"none"}, active : BOOLEAN, version : Nat]

Changing ==
  [op : {"none", "create", "update", "disable"}, stage : {"none", "admitted", "checked"}, of : People,
   row : PersonRows, as : RoleCodes \cup {"none"}, stale : BOOLEAN]

\* What a request was granted for is still so, unless it is noted as stale.
Fresh(u) ==
  LET r == request[u]
  IN  r.stage \in {"admitted", "checked"} =>
        /\ r.op # "none"
        /\ ~r.stale => r.as = person[u].role /\ (r.stage = "checked" => Allowed(r))

Appointed(u) ==
  (OwnerRole(person[u].role) \/ OwnerRole(appointed[u].role)) => person[u] = appointed[u]

PeopleInv ==
  /\ person \in [People -> PersonRows] /\ appointed \in [People -> PersonRows]
  /\ request \in [Askers -> Changing] /\ late \in SUBSET People
  /\ \A u \in Askers : Fresh(u)
  /\ \A u \in People \ late : Appointed(u)

\* A request that enters knows the rows it was admitted by.
LEMMA AdmitKeeps ==
  ASSUME PeopleInv, NEW u \in Askers, NEW v \in People, NEW role \in RoleCodes \cup {"none"},
         NEW used \in BOOLEAN, NEW op \in {"create", "update", "disable"}, Admit(u, op, v, role, used)
  PROVE  PeopleInv'
<1> DEFINE row == [role |-> role, active |-> used, version |-> person[v].version]
           new == [NoChange EXCEPT !.op = op, !.stage = "admitted", !.of = v, !.as = person[u].role, !.row = row]
<1>1. /\ person \in [People -> PersonRows] /\ u \in People /\ person[v].version \in Nat
      /\ person[u].role \in RoleCodes \cup {"none"}
  BY RolesAssumption DEF PeopleInv, PersonRows
<1>2. row \in PersonRows
  BY <1>1 DEF PersonRows
<1>3. /\ request' = [request EXCEPT ![u] = new] /\ person' = person /\ appointed' = appointed /\ late' = late
  BY DEF Admit, PeopleSame
<1> HIDE DEF row
<1>4. /\ new \in Changing /\ new.stage = "admitted" /\ new.op = op /\ new.as = person[u].role
  BY <1>1, <1>2 DEF Changing, NoChange
<1> HIDE DEF new
<1>5. request' \in [Askers -> Changing] /\ request'[u] = new /\ \A w \in Askers \ {u} : request'[w] = request[w]
  BY <1>3, <1>4 DEF PeopleInv
<1>6. ASSUME NEW w \in Askers PROVE Fresh(w)'
  <2>1. CASE w = u
    BY <1>3, <1>4, <1>5, <2>1 DEF Fresh
  <2>2. CASE w # u
    BY <1>3, <1>5, <2>2 DEF Fresh, Allowed, PeopleInv
  <2> QED
    BY <2>1, <2>2
<1> QED
  BY <1>3, <1>5, <1>6 DEF PeopleInv, Appointed

\* The guard lets a request on or refuses it, and writes nothing.
LEMMA CheckPermissionKeeps ==
  ASSUME PeopleInv, NEW u \in Askers, CheckPermission(u)
  PROVE  PeopleInv'
<1> DEFINE new == IF Allowed(request[u]) THEN [request[u] EXCEPT !.stage = "checked"] ELSE NoChange
<1>1. request' = [request EXCEPT ![u] = new] /\ person' = person /\ appointed' = appointed /\ late' = late
  BY DEF CheckPermission, PeopleSame
<1>2. request[u] \in Changing /\ NoChange \in Changing /\ request[u].stage = "admitted"
  BY RolesAssumption DEF PeopleInv, Changing, NoChange, Nobody, PersonRows, CheckPermission
<1>3. /\ new \in Changing
      /\ \/ new.stage = "none"
         \/ /\ Allowed(request[u]) /\ new.stage = "checked" /\ new.op = request[u].op
            /\ new.as = request[u].as /\ new.of = request[u].of /\ new.row = request[u].row
            /\ new.stale = request[u].stale
  BY <1>2 DEF Changing, NoChange
<1> HIDE DEF new
<1>4. request' \in [Askers -> Changing] /\ request'[u] = new /\ \A w \in Askers \ {u} : request'[w] = request[w]
  BY <1>1, <1>3 DEF PeopleInv
<1>5. ASSUME NEW w \in Askers PROVE Fresh(w)'
  <2>1. CASE w = u
    BY <1>1, <1>2, <1>3, <1>4, <2>1 DEF Fresh, Allowed, PeopleInv
  <2>2. CASE w # u
    BY <1>1, <1>4, <2>2 DEF Fresh, Allowed, PeopleInv
  <2> QED
    BY <2>1, <2>2
<1> QED
  BY <1>1, <1>4, <1>5 DEF PeopleInv, Appointed

\* Who is not a super owner writes no row of an owner, and makes none.
LEMMA WriteKeeps ==
  ASSUME PeopleInv, NEW u \in Askers, Write(u)
  PROVE  PeopleInv'
<1> DEFINE r == request[u]
           v == r.of
           new == NewRow(r)
<1>1. /\ person \in [People -> PersonRows] /\ appointed \in [People -> PersonRows] /\ u \in People
      /\ request \in [Askers -> Changing] /\ r \in Changing /\ v \in People /\ r.stage = "checked"
      /\ r.row \in PersonRows /\ person[v] \in PersonRows /\ NoChange \in Changing /\ late \in SUBSET People
  BY RolesAssumption DEF PeopleInv, Changing, Write, NoChange, Nobody, PersonRows
<1>2. CASE r.op = "create" /\ person[v] # Nobody
  <2>1. request' = [request EXCEPT ![u] = NoChange] /\ person' = person /\ appointed' = appointed /\ late' = late
    BY <1>2 DEF Write, PeopleSame
  <2>2. request' \in [Askers -> Changing] /\ \A w \in Askers : request'[w].stage = "none" \/ request'[w] = request[w]
    BY <1>1, <2>1 DEF NoChange
  <2>3. \A w \in Askers : Fresh(w)'
    BY <2>1, <2>2 DEF PeopleInv, Fresh, Allowed
  <2> QED
    BY <2>1, <2>2, <2>3 DEF PeopleInv, Appointed
<1>3. CASE ~(r.op = "create" /\ person[v] # Nobody)
  <2>1. /\ person' = [person EXCEPT ![v] = new]
        /\ appointed' = IF person[u].role = "SUPER_OWNER" THEN [appointed EXCEPT ![v] = new] ELSE appointed
        /\ late' = IF r.stale THEN late \cup {v} ELSE late
        /\ request' = [w \in Askers |->
             IF w = u THEN NoChange
             ELSE IF request[w].stage \in {"admitted", "checked"} /\ v \in {w, request[w].of}
               THEN [request[w] EXCEPT !.stale = TRUE] ELSE request[w]]
    BY <1>3 DEF Write
  <2>2. new \in PersonRows /\ r.op \in {"create", "update", "disable"}
    <3>1. r.op \in {"create", "update", "disable"}
      BY <1>1 DEF PeopleInv, Fresh, Changing
    <3>2. CASE r.op = "create"
      BY <1>1, <3>2 DEF NewRow, PersonRows
    <3>3. CASE r.op = "update"
      BY <1>1, <3>3 DEF NewRow, PersonRows
    <3>4. CASE r.op = "disable"
      <4>1. new = [person[v] EXCEPT !.active = FALSE, !.version = person[v].version + 1]
        BY <1>1, <3>4 DEF NewRow, PersonRows
      <4>2. person[v].version + 1 \in Nat
        BY <1>1 DEF PersonRows
      <4> HIDE DEF new
      <4> QED
        BY <1>1, <3>4, <4>1, <4>2 DEF PersonRows
    <3> QED
      BY <3>1, <3>2, <3>3, <3>4
  <2>3. /\ ~r.stale => r.as = person[u].role /\ Allowed(r)
        /\ person[u].role # "SUPER_OWNER" /\ ~r.stale => ~OwnerRole(person[v].role) /\ ~OwnerRole(new.role)
    <3>1. ~r.stale => r.as = person[u].role /\ Allowed(r)
      BY <1>1 DEF PeopleInv, Fresh
    <3>2. ASSUME person[u].role # "SUPER_OWNER", ~r.stale
          PROVE  ~OwnerRole(person[v].role) /\ ~OwnerRole(new.role)
      <4>1. CASE r.op = "create"
        BY <1>3, <3>1, <3>2, <4>1 DEF Allowed, MayManage, NewRow, OwnerRole, Nobody
      <4>2. CASE r.op = "update"
        BY <3>1, <3>2, <4>2 DEF Allowed, MayUpdate, MayManage, NewRow
      <4>3. CASE r.op = "disable"
        BY <1>1, <3>1, <3>2, <4>3 DEF Allowed, MayManage, NewRow, PersonRows
      <4> QED
        BY <2>2, <4>1, <4>2, <4>3
    <3> QED
      BY <3>1, <3>2
  <2> HIDE DEF new
  <2>4. /\ person' \in [People -> PersonRows] /\ person'[v] = new
        /\ \A x \in People \ {v} : person'[x] = person[x] /\ appointed'[x] = appointed[x]
        /\ appointed' \in [People -> PersonRows]
        /\ appointed'[v] = IF person[u].role = "SUPER_OWNER" THEN new ELSE appointed[v]
    BY <1>1, <2>1, <2>2
  <2>5. late' \in SUBSET People /\ late \subseteq late' /\ (r.stale => v \in late')
    BY <1>1, <2>1
  <2>6. \A w \in Askers : request[w] \in Changing /\ [request[w] EXCEPT !.stale = TRUE] \in Changing
    BY <1>1 DEF Changing
  <2>7. request' \in [Askers -> Changing]
    BY <1>1, <2>1, <2>6
  <2>8. ASSUME NEW w \in Askers PROVE Fresh(w)'
    <3>1. CASE w = u
      BY <2>1, <3>1 DEF Fresh, NoChange
    <3>2. CASE w # u /\ request[w].stage \in {"admitted", "checked"} /\ v \in {w, request[w].of}
      <4>1. request'[w] = [request[w] EXCEPT !.stale = TRUE]
        BY <2>1, <3>2
      <4>2. request'[w].stale = TRUE /\ request'[w].op = request[w].op /\ request[w].op # "none"
        BY <1>1, <3>2, <4>1 DEF Changing, PeopleInv, Fresh
      <4> QED
        BY <4>2 DEF Fresh
    <3>3. CASE w # u /\ ~(request[w].stage \in {"admitted", "checked"} /\ v \in {w, request[w].of})
      <4>1. request'[w] = request[w] /\ Fresh(w)
        BY <2>1, <3>3 DEF PeopleInv
      <4>2. CASE request[w].stage \in {"admitted", "checked"}
        <5>1. w \in People \ {v} /\ request[w].of \in People \ {v}
          BY <2>6, <3>3, <4>2, RolesAssumption DEF Changing
        <5>2. person'[w] = person[w] /\ person'[request[w].of] = person[request[w].of]
          BY <2>4, <5>1
        <5> QED
          BY <4>1, <5>2 DEF Fresh, Allowed
      <4>3. CASE request[w].stage \notin {"admitted", "checked"}
        BY <4>1, <4>3 DEF Fresh
      <4> QED
        BY <4>2, <4>3
    <3> QED
      BY <3>1, <3>2, <3>3
  <2>9. ASSUME NEW x \in People \ late' PROVE Appointed(x)'
    <3>1. x \in People \ late /\ Appointed(x)
      BY <2>5 DEF PeopleInv
    <3>2. CASE x # v
      BY <2>4, <3>1, <3>2 DEF Appointed
    <3>3. CASE x = v /\ person[u].role = "SUPER_OWNER"
      BY <2>4, <3>3 DEF Appointed
    <3>4. CASE x = v /\ person[u].role # "SUPER_OWNER"
      <4>1. ~OwnerRole(person[v].role) /\ ~OwnerRole(new.role)
        BY <2>3, <2>5, <2>9, <3>4
      <4>2. ~OwnerRole(appointed[v].role)
        BY <3>1, <3>4, <4>1 DEF Appointed
      <4> QED
        BY <2>4, <3>4, <4>1, <4>2 DEF Appointed
    <3> QED
      BY <3>2, <3>3, <3>4
  <2> QED
    BY <2>4, <2>5, <2>7, <2>8, <2>9 DEF PeopleInv
<1> QED
  BY <1>2, <1>3

\* No step of user administration disturbs the invariant.
LEMMA PeopleStep ==
  ASSUME PeopleInv, PeopleNext
  PROVE  PeopleInv'
<1>1. PICK u \in Askers :
        CreatePerson(u) \/ UpdatePerson(u) \/ DisablePerson(u) \/ CheckPermission(u) \/ Write(u)
  BY DEF PeopleNext
<1>2. CASE CreatePerson(u)
  BY <1>2, AdmitKeeps DEF CreatePerson
<1>3. CASE UpdatePerson(u)
  BY <1>3, AdmitKeeps DEF UpdatePerson
<1>4. CASE DisablePerson(u)
  <2>1. \A v \in People : person[v].role \in RoleCodes \cup {"none"}
    BY DEF PeopleInv, PersonRows
  <2> QED
    BY <1>4, <2>1, AdmitKeeps DEF DisablePerson
<1> QED
  BY <1>1, <1>2, <1>3, <1>4, CheckPermissionKeeps, WriteKeeps

-----------------------------------------------------------------------------
(***************************************************************************)
(* Permissions and roles: the theorems                                     *)
(***************************************************************************)

RolesSpec == RolesInit /\ [][RolesNext]_rolesVars

\* What the invariants of both halves say, for any number of pages and users.
THEOREM RolesInvariant == RolesSpec => [](GrantInv /\ PeopleInv)
<1>1. RolesInit => GrantInv
  <2> SUFFICES ASSUME RolesInit PROVE GrantInv
    OBVIOUS
  <2>1. Page0 \in Pages /\ Page0.stage = "shut" /\ Page0.missed = {}
    BY DEF Page0, Pages
  <2>2. /\ granted \in SUBSET Permissions /\ audit = granted /\ overlapped = FALSE
        /\ editor = [e \in Editors |-> Page0]
    BY DEF RolesInit, Configurable
  <2> HIDE DEF Page0
  <2> QED
    BY <2>1, <2>2 DEF GrantInv, Compared
<1>2. RolesInit => PeopleInv
  <2> SUFFICES ASSUME RolesInit PROVE PeopleInv
    OBVIOUS
  <2>1. PICK role \in [People -> RoleCodes \cup {"none"}] :
          person = [u \in People |-> [Nobody EXCEPT !.role = role[u], !.active = role[u] # "none"]]
    BY DEF RolesInit
  <2>2. person \in [People -> PersonRows]
    <3>1. ASSUME NEW u \in People
          PROVE  [Nobody EXCEPT !.role = role[u], !.active = role[u] # "none"] \in PersonRows
      BY DEF Nobody, PersonRows
    <3> QED
      BY <2>1, <3>1
  <2>3. appointed = person /\ late = {} /\ request = [u \in Askers |-> NoChange]
    BY DEF RolesInit
  <2>4. NoChange \in Changing /\ NoChange.stage = "none"
    BY RolesAssumption DEF NoChange, Changing, Nobody, PersonRows
  <2> HIDE DEF NoChange
  <2> QED
    BY <2>2, <2>3, <2>4 DEF PeopleInv, Fresh, Appointed
<1>3. GrantInv /\ PeopleInv /\ [RolesNext]_rolesVars => (GrantInv /\ PeopleInv)'
  <2> SUFFICES ASSUME GrantInv, PeopleInv, [RolesNext]_rolesVars PROVE GrantInv' /\ PeopleInv'
    OBVIOUS
  <2>1. UNCHANGED grantVars => GrantInv'
    BY DEF GrantInv, Compared, grantVars
  <2>2. UNCHANGED peopleVars => PeopleInv'
    BY DEF PeopleInv, Fresh, Allowed, Appointed, peopleVars
  <2> QED
    BY <2>1, <2>2, GrantStep, PeopleStep DEF RolesNext, rolesVars, grantVars, peopleVars
<1> QED
  BY <1>1, <1>2, <1>3, PTL DEF RolesSpec

\* The audit log tells which permissions ADMIN has, with any number of pages, unless
\* one save was overtaken by another between its comparison and its commit.
THEOREM GrantsStayAudited == RolesSpec => []GrantsAudited
<1>1. GrantInv => GrantsAudited
  BY DEF GrantInv, GrantsAudited
<1> QED
  BY <1>1, RolesInvariant, PTL

\* Who is an owner is what a super owner last decided, through any chain of promotions
\* by any number of users, unless a request used a row that had changed.
THEOREM OwnersStayAppointed == RolesSpec => []OwnersAppointed
<1>1. PeopleInv => OwnersAppointed
  BY DEF PeopleInv, Appointed, OwnersAppointed
<1> QED
  BY <1>1, RolesInvariant, PTL

-----------------------------------------------------------------------------
(***************************************************************************)
(* Master records                                                          *)
(***************************************************************************)

AllRows == [word : Terms \cup {"none"}, capital : BOOLEAN, phone : Phones \cup {NoPhone}, active : BOOLEAN]

\* Categories and brands have no telephones.
Silent(x) == kind \in {"category", "brand"} => x.phone = NoPhone

Stages == {"idle", "warned", "create", "update", "resolved", "inactivate", "reactivate"}

Forms ==
  [stage : Stages, of : RecordIds \cup {NoRecord}, row : AllRows, read : AllRows,
   sees : SUBSET RecordIds, since : BOOLEAN]

RecordTypes ==
  /\ kind \in Kinds
  /\ record \in [RecordIds -> AllRows] /\ audited \in [RecordIds -> AllRows]
  /\ form \in [Keepers -> Forms]
  /\ \A r \in RecordIds : Silent(record[r])

\* What a page or a request in between knows, as long as nothing was written since.
Knows(f) ==
  /\ f.stage = "idle" => f = Idle
  /\ f.stage \in {"create", "resolved"} => f.of = NoRecord
  /\ f.stage \in {"update", "inactivate", "reactivate"} => f.of \in RecordIds
  /\ f.stage \in {"warned", "create", "update", "resolved"} => f.row \in Rows(kind)
  /\ ~f.since =>
       /\ f.stage \in {"warned", "create", "update", "resolved"} => f.sees = Twins(f.row, f.of)
       /\ f.stage = "update" => f.read = record[f.of]
       /\ f.stage \in {"warned", "update", "inactivate", "reactivate"} /\ f.of \in RecordIds => Exists(f.of)

RecordInv ==
  /\ RecordTypes
  /\ \A k \in Keepers : Knows(form[k])
  /\ TwinsConfirmed /\ AuditTells

\* The rows of the current kind are rows, and the empty form is a form.
LEMMA RowTypes ==
  ASSUME RecordTypes
  PROVE  /\ Nothing \in AllRows /\ Silent(Nothing)
         /\ \A x \in Rows(kind) : x \in AllRows /\ Silent(x) /\ x.active = TRUE
         /\ \A r \in RecordIds : record[r] \in AllRows /\ audited[r] \in AllRows /\ Silent(record[r])
         /\ \A k \in Keepers : form[k] \in Forms
         /\ Idle \in Forms
BY DEF RecordTypes, Nothing, AllRows, Silent, Rows, Kinds, Idle, Forms, Stages

\* Who looks like a row is among its twins.
LEMMA AlikeAreTwins ==
  ASSUME RecordTypes, NEW x \in AllRows, Silent(x), NEW own, NEW s \in RecordIds, s # own,
         Exists(s), Alike(x, record[s])
  PROVE  s \in Twins(x, own)
<1>1. s \in NamedAlike(x, own) \/ (s \in PhonedAlike(x, own) /\ kind \notin {"category", "brand"})
  BY DEF Alike, NamedAlike, PhonedAlike, Others, SameName, Silent
<1>2. CASE kind = "customer"
  BY <1>1, <1>2 DEF Twins, CustomerTwins
<1>3. CASE kind = "supplier"
  BY <1>1, <1>3 DEF Twins, SupplierTwins
<1>4. CASE kind = "category"
  BY <1>1, <1>4 DEF Twins, CategoryTwins
<1>5. CASE kind = "brand"
  BY <1>1, <1>5 DEF Twins, BrandTwins
<1> QED
  BY <1>2, <1>3, <1>4, <1>5 DEF RecordTypes, Kinds

\* The twins of a record are records.
LEMMA TwinsAreRecords ==
  ASSUME RecordTypes, NEW x, NEW own
  PROVE  Twins(x, own) \in SUBSET RecordIds
BY DEF RecordTypes, Kinds, Twins, CustomerTwins, SupplierTwins, CategoryTwins, BrandTwins,
       NamedAlike, PhonedAlike, Others

\* A step of a page that writes nothing.
LEMMA ReadKeeps ==
  ASSUME RecordInv, NEW k \in Keepers, NEW new \in Forms, Knows(new),
         form' = [form EXCEPT ![k] = new], UNCHANGED <<kind, record, audited, saves, told, crossed>>
  PROVE  RecordInv'
<1>1. form' \in [Keepers -> Forms] /\ \A w \in Keepers : form'[w] = new \/ form'[w] = form[w]
  BY DEF RecordInv, RecordTypes
<1>2. RecordTypes'
  BY <1>1 DEF RecordInv, RecordTypes, Silent
<1>3. \A x, own : (Twins(x, own))' = Twins(x, own)
  BY DEF Twins, CustomerTwins, SupplierTwins, CategoryTwins, BrandTwins, NamedAlike, PhonedAlike, Others, Exists
<1>4. \A f : Knows(f) => Knows(f)'
  BY <1>3 DEF Knows, Exists
<1>5. \A w \in Keepers : Knows(form'[w])
  BY <1>1 DEF RecordInv
<1>6. TwinsConfirmed' /\ AuditTells'
  BY DEF RecordInv, TwinsConfirmed, AuditTells, Exists
<1> QED
  BY <1>2, <1>4, <1>5, <1>6 DEF RecordInv

\* A write of row x to record r: who waits has read it before; the audit row agrees; and
\* whoever looks like it was shown, or is noted.
LEMMA RecordedKeeps ==
  ASSUME RecordInv, NEW k \in Keepers, NEW r \in RecordIds, NEW x \in AllRows, NEW said \in AllRows,
         Silent(x), form[k].stage # "idle", Recorded(k, r, x, said),
         ~form[k].since => /\ said \in {Nothing, x} \/ {r} \in crossed
                           /\ \A s \in RecordIds : s # r /\ Exists(s) /\ Alike(x, record[s])
                                => s \in form[k].sees \/ {r, s} \in told \cup crossed
  PROVE  RecordInv'
<1>1. /\ record' = [record EXCEPT ![r] = x] /\ audited' = [audited EXCEPT ![r] = said] /\ kind' = kind
      /\ told' = told \cup {{r, s} : s \in form[k].sees}
      /\ crossed' = IF form[k].since THEN crossed \cup {{r, s} : s \in RecordIds} ELSE crossed
      /\ form' = [Noticed(k) EXCEPT ![k] = Idle]
  BY DEF Recorded
<1>2. /\ record' \in [RecordIds -> AllRows] /\ record'[r] = x /\ \A s \in RecordIds \ {r} : record'[s] = record[s]
      /\ audited' \in [RecordIds -> AllRows] /\ audited'[r] = said
      /\ \A s \in RecordIds \ {r} : audited'[s] = audited[s]
  BY <1>1 DEF RecordInv, RecordTypes
<1>3. \A w \in Keepers : /\ form'[w] \in Forms /\ Knows(form[w]) /\ form[w] \in Forms
                         /\ \/ form'[w] = Idle
                            \/ form[w].stage # "idle" /\ form'[w] = [form[w] EXCEPT !.since = TRUE]
  <2> SUFFICES ASSUME NEW w \in Keepers
               PROVE  /\ form'[w] \in Forms /\ Knows(form[w]) /\ form[w] \in Forms
                      /\ \/ form'[w] = Idle
                         \/ form[w].stage # "idle" /\ form'[w] = [form[w] EXCEPT !.since = TRUE]
    OBVIOUS
  <2>1. form'[w] = IF w = k THEN Idle ELSE Noticed(k)[w]
    BY <1>1 DEF Noticed
  <2>2. Noticed(k)[w] = IF w # k /\ form[w] # Idle THEN [form[w] EXCEPT !.since = TRUE] ELSE form[w]
    BY DEF Noticed
  <2>3. form[w] \in Forms /\ Idle \in Forms /\ Knows(form[w])
    BY RowTypes DEF RecordInv
  <2>4. [form[w] EXCEPT !.since = TRUE] \in Forms
    BY <2>3 DEF Forms
  <2>5. form[w] # Idle => form[w].stage # "idle"
    BY <2>3 DEF Knows
  <2> HIDE DEF Idle
  <2> QED
    BY <2>1, <2>2, <2>3, <2>4, <2>5
<1>4. RecordTypes'
  <2>1. form' \in [Keepers -> Forms]
    BY <1>1, <1>3 DEF Noticed
  <2>2. \A s \in RecordIds : kind' \in {"category", "brand"} => record'[s].phone = NoPhone
    BY <1>1, <1>2 DEF RecordInv, RecordTypes, Silent
  <2> QED
    BY <1>1, <1>2, <2>1, <2>2 DEF RecordInv, RecordTypes, Silent
<1>5. ASSUME NEW w \in Keepers PROVE Knows(form[w])'
  <2>1. CASE form'[w] = Idle
    BY <2>1 DEF Knows, Idle
  <2>2. CASE form[w].stage # "idle" /\ form'[w] = [form[w] EXCEPT !.since = TRUE]
    <3>1. /\ form'[w].stage = form[w].stage /\ form'[w].of = form[w].of /\ form'[w].row = form[w].row
          /\ form'[w].since = TRUE
      BY <1>3, <2>2 DEF Forms
    <3>2. Knows(form[w]) /\ Rows(kind)' = Rows(kind)
      BY <1>1, <1>3 DEF Rows
    <3> QED
      BY <1>1, <2>2, <3>1, <3>2 DEF Knows
  <2> QED
    BY <1>3, <2>1, <2>2
<1>6. TwinsConfirmed'
  <2> SUFFICES ASSUME NEW p \in RecordIds, NEW q \in RecordIds, p # q, Exists(p)', Exists(q)',
                      Alike(record'[p], record'[q])
               PROVE  {p, q} \in told' \cup crossed'
    BY DEF TwinsConfirmed, Alike, SameName
  <2>1. CASE p # r /\ q # r
    BY <1>1, <1>2, <2>1 DEF RecordInv, TwinsConfirmed, Exists
  <2>2. ASSUME NEW s \in RecordIds, s # r, Exists(s), Alike(x, record[s]) PROVE {r, s} \in told' \cup crossed'
    <3>1. CASE form[k].since
      BY <1>1, <3>1
    <3>2. CASE ~form[k].since
      BY <1>1, <2>2, <3>2
    <3> QED
      BY <3>1, <3>2
  <2>3. CASE p = r
    BY <1>2, <2>2, <2>3 DEF Exists
  <2>4. CASE q = r
    <3>1. Alike(x, record[p]) /\ Exists(p)
      BY <1>2, <2>4 DEF Exists, Alike, SameName
    <3>2. {q, p} = {p, q}
      OBVIOUS
    <3> QED
      BY <2>2, <2>4, <3>1, <3>2
  <2> QED
    BY <2>1, <2>3, <2>4
<1>7. AuditTells'
  <2> SUFFICES ASSUME NEW s \in RecordIds PROVE audited'[s] \in {Nothing, record'[s]} \/ {s} \in crossed'
    BY DEF AuditTells
  <2>1. crossed \subseteq crossed' /\ (form[k].since => {r} \in crossed')
    <3>1. {r, r} = {r}
      OBVIOUS
    <3> QED
      BY <1>1, <3>1
  <2>2. CASE s = r
    BY <1>2, <2>1, <2>2
  <2>3. CASE s # r
    BY <1>2, <2>1, <2>3 DEF RecordInv, AuditTells
  <2> QED
    BY <2>2, <2>3
<1> QED
  BY <1>4, <1>5, <1>6, <1>7 DEF RecordInv

\* A save that ends leaves the records as they are.
LEMMA EndsKeeps ==
  ASSUME RecordInv, NEW k \in Keepers, Ends(k)
  PROVE  RecordInv'
<1>1. Idle \in Forms /\ Knows(Idle)
  BY RowTypes DEF RecordInv, Knows, Idle
<1>2. form' = [form EXCEPT ![k] = Idle] /\ UNCHANGED <<kind, record, audited, saves, told, crossed>>
  BY DEF Ends, ReadOnly
<1> HIDE DEF Idle
<1> QED
  BY <1>1, <1>2, ReadKeeps

\* A request that checks knows what it has read.
LEMMA CheckKeeps ==
  ASSUME RecordInv, NEW k \in Keepers, NEW x \in Rows(kind), NEW r \in RecordIds \cup {NoRecord},
         NEW stage \in {"create", "update"}, Check(k, stage, r, x),
         stage = "create" => r = NoRecord, stage = "update" => r \in RecordIds /\ Exists(r)
  PROVE  RecordInv'
<1> DEFINE twins  == Twins(x, r)
           warned == [Idle EXCEPT !.of = r, !.row = x, !.stage = "warned", !.sees = twins]
           passed == [Idle EXCEPT !.of = r, !.row = x, !.stage = stage, !.read = Now(r)]
<1>1. /\ twins \in SUBSET RecordIds /\ x \in AllRows /\ Now(r) \in AllRows /\ NoRecord \notin RecordIds
      /\ (r \in RecordIds => Now(r) = record[r] /\ Exists(r))
  <2>1. r \in RecordIds => Exists(r)
    BY RecordsAssumption
  <2> QED
    BY <2>1, TwinsAreRecords, RowTypes, RecordsAssumption DEF RecordInv, Now
<1>2. /\ form' = [form EXCEPT ![k] = IF twins # {} THEN warned ELSE passed]
      /\ UNCHANGED <<kind, record, audited, saves, told, crossed>>
  BY DEF Check, ReadOnly, Idle
<1> DEFINE read == Now(r)
<1>3. twins = Twins(x, r) /\ read = Now(r) /\ read \in AllRows
  BY <1>1
<1> HIDE DEF twins, read
<1>4. warned \in Forms /\ Knows(warned)
  <2>1. /\ warned \in Forms /\ warned.stage = "warned" /\ warned.of = r /\ warned.row = x
        /\ warned.sees = twins /\ warned.since = FALSE
    BY <1>1, RowTypes DEF RecordInv, Forms, Idle, Stages
  <2> HIDE DEF warned
  <2> QED
    BY <1>1, <1>3, <2>1 DEF Knows
<1>5. ASSUME twins = {} PROVE passed \in Forms /\ Knows(passed)
  <2>1. /\ passed \in Forms /\ passed.stage = stage /\ passed.of = r /\ passed.row = x
        /\ passed.sees = {} /\ passed.since = FALSE /\ passed.read = read
    BY <1>1, <1>3, RowTypes DEF RecordInv, Forms, Idle, Stages
  <2> HIDE DEF passed
  <2> QED
    BY <1>1, <1>3, <1>5, <2>1 DEF Knows
<1> HIDE DEF warned, passed
<1>6. CASE twins # {}
  BY <1>2, <1>4, <1>6, ReadKeeps
<1>7. CASE twins = {}
  BY <1>2, <1>5, <1>7, ReadKeeps
<1> QED
  BY <1>6, <1>7

\* A new record, of which the audit tells, or nothing tells.
LEMMA InsertKeeps ==
  ASSUME RecordInv, NEW k \in Keepers, NEW said \in AllRows,
         form[k].stage \in {"create", "resolved"}, said \in {Nothing, form[k].row},
         Insert(k, form[k].row, said)
  PROVE  RecordInv'
<1> DEFINE x == form[k].row
           r == FirstFree
<1>1. CASE Unique(x, NoRecord)
  <2>1. /\ (\E s \in RecordIds : ~Exists(s)) /\ Recorded(k, r, x, said)
    BY <1>1 DEF Insert
  <2>2. r \in RecordIds /\ ~Exists(r)
    BY <2>1 DEF FirstFree
  <2>3. Knows(form[k]) /\ RecordTypes /\ form[k].of = NoRecord /\ x \in Rows(kind)
    BY DEF RecordInv, Knows
  <2>4. x \in AllRows /\ Silent(x)
    BY <2>3, RowTypes
  <2>5. ASSUME ~form[k].since, NEW s \in RecordIds, s # r, Exists(s), Alike(x, record[s])
        PROVE  s \in form[k].sees
    <3>1. form[k].sees = Twins(x, NoRecord)
      BY <2>3, <2>5 DEF Knows
    <3>2. s # NoRecord
      BY RecordsAssumption
    <3> QED
      BY <2>3, <2>4, <2>5, <3>1, <3>2, AlikeAreTwins
  <2> HIDE DEF r
  <2> QED
    BY <2>1, <2>2, <2>4, <2>5, RecordedKeeps
<1>2. CASE ~Unique(x, NoRecord)
  BY <1>2, EndsKeeps DEF Insert
<1> QED
  BY <1>1, <1>2

\* An edit, of which the audit row names what it changed.
LEMMA UpdateKeeps ==
  ASSUME RecordInv, NEW k \in Keepers, form[k].stage = "update",
         Recorded(k, form[k].of, Saved(record[form[k].of], form[k].row),
                  Said(audited[form[k].of], form[k].read, Saved(record[form[k].of], form[k].row)))
  PROVE  RecordInv'
<1> DEFINE r    == form[k].of
           own  == record[r]
           row  == form[k].row
           x    == Saved(own, row)
           said == Said(audited[r], form[k].read, x)
<1>1. Knows(form[k]) /\ RecordTypes /\ r \in RecordIds /\ row \in Rows(kind)
  BY DEF RecordInv, Knows
<1>2. /\ own \in AllRows /\ Silent(own) /\ row \in AllRows /\ Silent(row) /\ audited[r] \in AllRows
  BY <1>1, RowTypes
<1>3. /\ x \in AllRows /\ Silent(x) /\ x.word = row.word /\ x.capital = row.capital /\ x.active = own.active
      /\ x.phone = IF row.phone = NoPhone THEN own.phone ELSE row.phone
  <2>1. x = [own EXCEPT !.word = row.word, !.capital = row.capital,
                        !.phone = IF row.phone = NoPhone THEN own.phone ELSE row.phone]
    BY <1>2 DEF Saved, AllRows
  <2> HIDE DEF x, own, row
  <2>2. /\ x \in AllRows /\ x.word = row.word /\ x.capital = row.capital /\ x.active = own.active
        /\ x.phone = IF row.phone = NoPhone THEN own.phone ELSE row.phone
    BY <1>2, <2>1 DEF AllRows
  <2> QED
    BY <1>2, <2>2 DEF Silent
<1>4. said \in AllRows
  <2> DEFINE old  == audited[r]
             read == form[k].read
  <2>1. old \in AllRows /\ Nothing \in AllRows
    BY <1>1, <1>2, RowTypes
  <2>2. said = IF old = Nothing THEN Nothing
               ELSE [old EXCEPT !.word    = IF read.word    # x.word    THEN x.word    ELSE @,
                                !.capital = IF read.capital # x.capital THEN x.capital ELSE @,
                                !.phone   = IF read.phone   # x.phone   THEN x.phone   ELSE @]
    BY DEF Said
  <2> HIDE DEF old, read, x, said
  <2> QED
    BY <1>3, <2>1, <2>2 DEF AllRows
<1>5. ASSUME ~form[k].since PROVE said \in {Nothing, x} \/ {r} \in crossed
  <2>1. form[k].read = own /\ (audited[r] \in {Nothing, own} \/ {r} \in crossed)
    BY <1>1, <1>5 DEF Knows, RecordInv, AuditTells
  <2>2. CASE audited[r] = Nothing
    BY <2>2 DEF Said
  <2>3. CASE audited[r] = own /\ own # Nothing
    <3>1. /\ said.word = x.word /\ said.capital = x.capital /\ said.phone = x.phone /\ said.active = x.active
      BY <1>2, <1>3, <2>1, <2>3 DEF Said, AllRows
    <3> HIDE DEF said, x
    <3>2. \A a, b \in AllRows : a.word = b.word /\ a.capital = b.capital /\ a.phone = b.phone /\ a.active = b.active
                                  => a = b
      BY DEF AllRows
    <3> QED
      BY <1>3, <1>4, <3>1, <3>2
  <2> QED
    BY <2>1, <2>2, <2>3
<1>6. ASSUME ~form[k].since, NEW s \in RecordIds, s # r, Exists(s), Alike(x, record[s])
      PROVE  s \in form[k].sees \/ {r, s} \in told \cup crossed
  <2>1. form[k].sees = Twins(row, r) /\ Exists(r)
    BY <1>1, <1>6 DEF Knows
  <2>2. Alike(row, record[s]) \/ Alike(own, record[s])
    BY <1>3, <1>6 DEF Alike, SameName
  <2>3. CASE Alike(row, record[s])
    BY <1>1, <1>2, <1>6, <2>1, <2>3, AlikeAreTwins
  <2>4. CASE Alike(own, record[s])
    BY <1>1, <1>6, <2>1, <2>4 DEF RecordInv, TwinsConfirmed
  <2> QED
    BY <2>2, <2>3, <2>4
<1> HIDE DEF x, said
<1>7. Recorded(k, r, x, said)
  BY DEF x, said
<1> HIDE DEF r, own, row
<1>8. form[k].stage # "idle" /\ r \in RecordIds
  BY <1>1 DEF r
<1> QED
  BY <1>3, <1>4, <1>5, <1>6, <1>7, <1>8, RecordedKeeps

\* A change of status leaves what records look like.
LEMMA SetActiveKeeps ==
  ASSUME RecordInv, NEW k \in Keepers, NEW stage \in {"inactivate", "reactivate"}, NEW used \in BOOLEAN,
         SetActive(k, stage, used)
  PROVE  RecordInv'
<1>1. ASSUME NEW r \in RecordIds, form[k] = Idle, Exists(r),
             form' = [form EXCEPT ![k] = [Idle EXCEPT !.stage = stage, !.of = r]], ReadOnly
      PROVE  RecordInv'
  <2> DEFINE new == [Idle EXCEPT !.stage = stage, !.of = r]
  <2>1. new \in Forms /\ new.stage = stage /\ new.of = r /\ new.since = FALSE
    BY RowTypes DEF RecordInv, Idle, Forms, Stages
  <2>2. Knows(new)
    <3> HIDE DEF new
    <3> QED
      BY <1>1, <2>1 DEF Knows
  <2>3. form' = [form EXCEPT ![k] = new]
    BY <1>1
  <2> HIDE DEF new
  <2> QED
    BY <1>1, <2>1, <2>2, <2>3, ReadKeeps DEF ReadOnly
<1>2. ASSUME form[k].stage = stage,
             Recorded(k, form[k].of, [record[form[k].of] EXCEPT !.active = used],
               IF audited[form[k].of] = Nothing THEN Nothing ELSE [audited[form[k].of] EXCEPT !.active = used])
      PROVE  RecordInv'
  <2> DEFINE r    == form[k].of
             own  == record[r]
             x    == [own EXCEPT !.active = used]
             said == IF audited[r] = Nothing THEN Nothing ELSE [audited[r] EXCEPT !.active = used]
  <2>1. Knows(form[k]) /\ RecordTypes /\ r \in RecordIds
    BY <1>2 DEF RecordInv, Knows
  <2>2. own \in AllRows /\ Silent(own) /\ audited[r] \in AllRows /\ Nothing \in AllRows
    BY <2>1, RowTypes
  <2>3. /\ x \in AllRows /\ Silent(x) /\ x.word = own.word /\ x.phone = own.phone
    BY <2>2 DEF AllRows, Silent
  <2>4. said \in AllRows
    BY <2>2 DEF AllRows
  <2>5. said \in {Nothing, x} \/ {r} \in crossed
    BY <2>1 DEF RecordInv, AuditTells
  <2>6. ASSUME ~form[k].since, NEW s \in RecordIds, s # r, Exists(s), Alike(x, record[s])
        PROVE  {r, s} \in told \cup crossed
    <3>1. Exists(r)
      BY <1>2, <2>1, <2>6 DEF Knows
    <3>2. Alike(own, record[s])
      BY <2>3, <2>6 DEF Alike, SameName
    <3> QED
      BY <2>1, <2>6, <3>1, <3>2 DEF RecordInv, TwinsConfirmed
  <2>7. Recorded(k, r, x, said)
    BY <1>2
  <2> HIDE DEF r, own, x, said
  <2>8. form[k].stage # "idle"
    BY <1>2
  <2> QED
    BY <2>1, <2>3, <2>4, <2>5, <2>6, <2>7, <2>8, RecordedKeeps
<1> QED
  BY <1>1, <1>2 DEF SetActive

\* A form put aside or sent again after its warning keeps the invariant.
LEMMA PageStepKeeps ==
  ASSUME RecordInv, NEW k \in Keepers, Page(k)
  PROVE  RecordInv'
<1>1. CASE PutAside(k)
  BY <1>1, EndsKeeps DEF PutAside
<1>2. CASE Insist(k)
  <2> DEFINE stage == IF form[k].of = NoRecord THEN "create" ELSE "update"
             read  == Now(form[k].of)
             new   == [form[k] EXCEPT !.stage = stage, !.read = read]
  <2>1. /\ form' = [form EXCEPT ![k] = new] /\ UNCHANGED <<kind, record, audited, saves, told, crossed>>
        /\ form[k].stage = "warned"
    BY <1>2 DEF Insist, ReadOnly
  <2>2. Knows(form[k]) /\ form[k] \in Forms /\ form[k].of \in RecordIds \cup {NoRecord}
    BY RowTypes DEF RecordInv, Forms
  <2>3. /\ read \in AllRows /\ stage \in {"create", "update"} /\ NoRecord \notin RecordIds
        /\ (stage = "create" => form[k].of = NoRecord)
        /\ (stage = "update" => form[k].of \in RecordIds /\ read = record[form[k].of])
    BY <2>2, RowTypes, RecordsAssumption DEF RecordInv, Now
  <2> HIDE DEF stage, read
  <2>4. /\ new \in Forms /\ new.stage = stage /\ new.of = form[k].of /\ new.row = form[k].row
        /\ new.read = read /\ new.sees = form[k].sees /\ new.since = form[k].since
    BY <2>2, <2>3 DEF Forms, Stages
  <2> HIDE DEF new
  <2>5. Knows(new)
    BY <2>1, <2>2, <2>3, <2>4 DEF Knows
  <2> QED
    BY <2>1, <2>4, <2>5, ReadKeeps
<1> QED
  BY <1>1, <1>2 DEF Page

\* A save without warning, from the search for twins to the insert, keeps the invariant.
LEMMA ResolveKeeps ==
  ASSUME RecordInv, NEW k \in Keepers, Resolve(k)
  PROVE  RecordInv'
<1>1. ASSUME NEW x \in Rows(kind), Twins(x, NoRecord) = {},
             form' = [form EXCEPT ![k] = [Idle EXCEPT !.stage = "resolved", !.row = x]], ReadOnly
      PROVE  RecordInv'
  <2> DEFINE new == [Idle EXCEPT !.stage = "resolved", !.row = x]
  <2>1. /\ new \in Forms /\ new.stage = "resolved" /\ new.of = NoRecord /\ new.row = x /\ new.since = FALSE
        /\ new.sees = {}
    BY RowTypes DEF RecordInv, Idle, Forms, Stages
  <2>2. Knows(new)
    <3> HIDE DEF new
    <3> QED
      BY <1>1, <2>1, RecordsAssumption DEF Knows
  <2>3. form' = [form EXCEPT ![k] = new]
    BY <1>1
  <2> HIDE DEF new
  <2> QED
    BY <1>1, <2>1, <2>2, <2>3, ReadKeeps DEF ReadOnly
<1>2. ASSUME form[k].stage = "resolved", Insert(k, form[k].row, Nothing) PROVE RecordInv'
  BY <1>2, RowTypes, InsertKeeps DEF RecordInv
<1> QED
  BY <1>1, <1>2 DEF Resolve

\* A record created keeps the invariant.
LEMMA CreateKeeps ==
  ASSUME RecordInv, NEW k \in Keepers, Create(k)
  PROVE  RecordInv'
<1>1. ASSUME NEW x \in Rows(kind), Check(k, "create", NoRecord, x) PROVE RecordInv'
  BY <1>1, CheckKeeps
<1>2. ASSUME form[k].stage = "create", Insert(k, form[k].row, form[k].row) PROVE RecordInv'
  <2>1. form[k].row \in AllRows
    BY RowTypes DEF RecordInv, Forms
  <2> QED
    BY <1>2, <2>1, InsertKeeps
<1> QED
  BY <1>1, <1>2 DEF Create

\* A record edited keeps the invariant.
LEMMA EditKeeps ==
  ASSUME RecordInv, NEW k \in Keepers, Update(k)
  PROVE  RecordInv'
<1>1. ASSUME NEW x \in Rows(kind), NEW r \in RecordIds, Exists(r), Check(k, "update", r, x) PROVE RecordInv'
  BY <1>1, CheckKeeps
<1> QED
  BY <1>1, UpdateKeeps, EndsKeeps DEF Update

\* One lemma for the four services, which differ in their twins.
LEMMA RecordsStep ==
  ASSUME RecordInv, RecordsNext
  PROVE  RecordInv'
<1>1. PICK k \in Keepers : Page(k) \/ Create(k) \/ Update(k) \/ Inactivate(k) \/ Reactivate(k) \/ Resolve(k)
  BY DEF RecordsNext, CustomerPage, SupplierPage, CategoryPage, BrandPage,
         CreateCustomer, UpdateCustomer, InactivateCustomer, ReactivateCustomer,
         CreateSupplier, UpdateSupplier, InactivateSupplier, ReactivateSupplier,
         CreateCategory, UpdateCategory, InactivateCategory, ReactivateCategory,
         CreateBrand, UpdateBrand, InactivateBrand, ReactivateBrand, ResolveCategory, ResolveBrand
<1> QED
  BY <1>1, PageStepKeeps, CreateKeeps, EditKeeps, SetActiveKeeps, ResolveKeeps DEF Inactivate, Reactivate

RecordsSpec == RecordsInit /\ [][RecordsNext]_recordVars

\* The inductive invariant of named records: in every reachable state a save in between
\* knows what it read, or the history notes it.
THEOREM RecordsInvariant == RecordsSpec => []RecordInv
<1>1. RecordsInit => RecordInv
  <2> SUFFICES ASSUME RecordsInit PROVE RecordInv
    OBVIOUS
  <2>1. /\ kind \in Kinds /\ audited = record /\ form = [k \in Keepers |-> Idle] /\ told = {} /\ crossed = {}
    BY DEF RecordsInit
  <2>2. PICK x \in Rows(kind) : record = [r \in RecordIds |-> IF r = FirstId THEN x ELSE Nothing]
    BY DEF RecordsInit
  <2>3. x \in AllRows /\ Silent(x) /\ Nothing \in AllRows /\ Silent(Nothing) /\ Idle \in Forms
    BY <2>1 DEF Nothing, AllRows, Silent, Rows, Kinds, Idle, Forms, Stages
  <2>4. RecordTypes
    <3>1. \A r \in RecordIds : record[r] = x \/ record[r] = Nothing
      BY <2>2
    <3>2. record \in [RecordIds -> AllRows] /\ \A r \in RecordIds : Silent(record[r])
      BY <2>2, <2>3, <3>1
    <3>3. form \in [Keepers -> Forms]
      BY <2>1, <2>3
    <3> QED
      BY <2>1, <3>2, <3>3 DEF RecordTypes
  <2>5. \A k \in Keepers : Knows(form[k])
    BY <2>1 DEF Knows, Idle
  <2>6. TwinsConfirmed
    BY <2>2 DEF TwinsConfirmed, Exists
  <2> QED
    BY <2>1, <2>4, <2>5, <2>6 DEF RecordInv, AuditTells
<1>2. RecordInv /\ [RecordsNext]_recordVars => RecordInv'
  <2>1. ASSUME RecordInv, UNCHANGED recordVars PROVE RecordInv'
    <3>1. \A x, own : (Twins(x, own))' = Twins(x, own)
      BY <2>1 DEF recordVars, Twins, CustomerTwins, SupplierTwins, CategoryTwins, BrandTwins,
                  NamedAlike, PhonedAlike, Others, Exists
    <3>2. \A f : Knows(f) => Knows(f)'
      BY <2>1, <3>1 DEF recordVars, Knows, Exists
    <3>3. \A k \in Keepers : Knows(form[k])'
      BY <2>1, <3>2 DEF recordVars, RecordInv
    <3>4. RecordTypes'
      BY <2>1 DEF recordVars, RecordInv, RecordTypes, Silent
    <3>5. TwinsConfirmed' /\ AuditTells'
      BY <2>1 DEF recordVars, RecordInv, TwinsConfirmed, AuditTells, Exists
    <3> QED
      BY <3>3, <3>4, <3>5 DEF RecordInv
  <2> QED
    BY <2>1, RecordsStep
<1> QED
  BY <1>1, <1>2, PTL DEF RecordsSpec

\* However many keepers there are, two records look alike only because somebody was
\* warned of the pair and insisted, or because one overtook the other.
THEOREM TwinsStayConfirmed == RecordsSpec => []TwinsConfirmed
<1>1. RecordInv => TwinsConfirmed
  BY DEF RecordInv
<1> QED
  BY <1>1, RecordsInvariant, PTL

\* After any sequence of edits and changes of status the audit rows tell what a record
\* is, unless an edit was overtaken between its read and its write.
THEOREM AuditKeepsTelling == RecordsSpec => []AuditTells
<1>1. RecordInv => AuditTells
  BY DEF RecordInv
<1> QED
  BY <1>1, RecordsInvariant, PTL


-----------------------------------------------------------------------------
(***************************************************************************)
(* Sessions                                                                *)
(***************************************************************************)

Ops     == {"none", "api", "login", "unlock", "logout"}
Steps   == {"none", "sent", "verified", "found", "answered"}
Answers == {"none", "ok", "refused"}

CallRows ==
  [op : Ops, stage : Steps, session : Sessions \cup {None}, user : Users \cup {None},
   answer : Answers, found : SUBSET Sessions, others : SUBSET Sessions]

\* A request that was verified was in a session, one that is under way has no answer, and a
\* login finds every session its user has.
Calls ==
  {c \in CallRows : /\ c.op = "api" /\ c.stage = "verified" => c.session # None
                    /\ c.op # "none" => c.answer = "none"
                    /\ c.others \subseteq c.found}

SessionRows ==
  [of : Users \cup {None}, revoked : BOOLEAN, idle : BOOLEAN, expired : BOOLEAN, beside : SUBSET Sessions]

Statements == [op : {"none", "logout", "unlock"}, found : SUBSET Sessions]

AccessTypes ==
  /\ session \in [Sessions -> SessionRows]
  /\ call \in [Requests -> Calls]
  /\ admin \in Statements

AccessInv == AccessTypes /\ OneSessionEach

\* What the guard lets through in a step, see ServesLiveSessions.
ServesOnlyLive ==
  \A r \in Requests : (call[r].op = "api" /\ call'[r].answer = "ok") => ~session[call[r].session].revoked

\* One request goes on, and the others stay as they are.
Puts(r, c) ==
  /\ call' \in [Requests -> Calls] /\ call'[r] = c
  /\ \A d \in Requests \ {r} : call'[d] = call[d]

\* Sessions may end, and none is opened.
Fewer ==
  /\ session' \in [Sessions -> SessionRows]
  /\ \A u \in Users, s \in Sessions : Live(u, s)' => Live(u, s) /\ session'[s].beside = session[s].beside

\* A request replaced puts that request and touches no other.
LEMMA PutsOne ==
  ASSUME AccessTypes, NEW r \in Requests, NEW c \in Calls, call' = [call EXCEPT ![r] = c]
  PROVE  Puts(r, c)
BY DEF AccessTypes, Puts

\* Sessions that stay as they are end none.
LEMMA SameIsFewer ==
  ASSUME AccessTypes, UNCHANGED session
  PROVE  Fewer
BY DEF AccessTypes, Fewer, Live

\* Where no session is opened, those that are live together were so before.
LEMMA FewerKeeps ==
  ASSUME OneSessionEach, Fewer
  PROVE  OneSessionEach'
<1> SUFFICES ASSUME NEW u \in Users, NEW s \in Sessions, NEW t \in Sessions, s # t, Live(u, s)', Live(u, t)'
             PROVE  t \in session'[s].beside \/ s \in session'[t].beside
  BY DEF OneSessionEach
<1>1. Live(u, s) /\ session'[s].beside = session[s].beside
  BY DEF Fewer
<1>2. Live(u, t) /\ session'[t].beside = session[t].beside
  BY DEF Fewer
<1> QED
  BY <1>1, <1>2 DEF OneSessionEach

\* The answers that are given to requests of data.
LEMMA PutServes ==
  ASSUME AccessTypes, NEW r \in Requests, NEW c \in Calls, Puts(r, c),
         call[r].op = "api" /\ c.answer = "ok" => ~session[call[r].session].revoked
  PROVE  ServesOnlyLive
<1> SUFFICES ASSUME NEW d \in Requests, call[d].op = "api", call'[d].answer = "ok"
             PROVE  ~session[call[d].session].revoked
  BY DEF ServesOnlyLive
<1>1. CASE d = r
  BY <1>1 DEF Puts
<1>2. CASE d # r
  <2>1. call[d] \in Calls /\ call'[d] = call[d]
    BY <1>2 DEF Puts, AccessTypes
  <2>2. call[d].answer = "none"
    BY <2>1 DEF Calls
  <2> QED
    BY <2>1, <2>2
<1> QED
  BY <1>1, <1>2

\* A request goes on, and sessions at most end.
LEMMA PutKeeps ==
  ASSUME AccessInv, NEW r \in Requests, NEW c \in Calls, call' = [call EXCEPT ![r] = c], Fewer, UNCHANGED admin,
         call[r].op = "api" /\ c.answer = "ok" => ~session[call[r].session].revoked
  PROVE  AccessInv' /\ ServesOnlyLive
<1>1. AccessTypes /\ OneSessionEach
  BY DEF AccessInv
<1>2. Puts(r, c)
  BY <1>1, PutsOne
<1>3. AccessTypes'
  BY <1>1, <1>2 DEF AccessTypes, Puts, Fewer
<1> QED
  BY <1>1, <1>2, <1>3, FewerKeeps, PutServes DEF AccessInv

\* What an answer leaves of a request.
LEMMA AnswerRow ==
  ASSUME NEW answer \in Answers
  PROVE  LET c == [NoCall EXCEPT !.stage = "answered", !.answer = answer]
         IN  c \in Calls /\ c.op = "none" /\ c.answer = answer
BY DEF NoCall, CallRows, Calls, Ops, Steps, Answers

\* A request is answered, and sessions at most end.
LEMMA ReplyKeeps ==
  ASSUME AccessInv, NEW r \in Requests, NEW answer \in Answers, Reply(r, answer), Fewer, UNCHANGED admin,
         call[r].op = "api" /\ answer = "ok" => ~session[call[r].session].revoked
  PROVE  AccessInv' /\ ServesOnlyLive
<1> DEFINE c == [NoCall EXCEPT !.stage = "answered", !.answer = answer]
<1>1. c \in Calls /\ c.answer = answer /\ call' = [call EXCEPT ![r] = c]
  BY AnswerRow DEF Reply
<1> HIDE DEF c
<1> QED
  BY <1>1, PutKeeps

\* A request refused changes no session.
LEMMA RefuseKeeps ==
  ASSUME AccessInv, NEW r \in Requests, Refuse(r), UNCHANGED admin
  PROVE  AccessInv' /\ ServesOnlyLive
<1>1. Reply(r, "refused") /\ UNCHANGED session /\ "refused" \in Answers /\ "refused" # "ok" /\ AccessTypes
  BY DEF Refuse, Answers, AccessInv
<1>2. Fewer
  BY <1>1, SameIsFewer
<1> QED
  BY <1>1, <1>2, ReplyKeeps

\* A step that leaves the requests alone.
LEMMA QuietKeeps ==
  ASSUME AccessInv, UNCHANGED call, admin' \in Statements, Fewer
  PROVE  AccessInv' /\ ServesOnlyLive
<1>1. AccessTypes' /\ OneSessionEach'
  BY FewerKeeps DEF AccessInv, AccessTypes, Fewer
<1>2. ServesOnlyLive
  <2> SUFFICES ASSUME NEW r \in Requests, call[r].op = "api", call[r].answer = "ok" PROVE FALSE
    BY DEF ServesOnlyLive
  <2>1. call[r] \in Calls
    BY DEF AccessInv, AccessTypes
  <2> QED
    BY <2>1 DEF Calls
<1> QED
  BY <1>1, <1>2 DEF AccessInv

\* What a step does to one session.
LEMMA SessionEnds ==
  ASSUME AccessTypes, NEW s \in Sessions, NEW row \in SessionRows, row.of = session[s].of,
         row.revoked \/ (row.revoked = session[s].revoked /\ row.beside = session[s].beside),
         session' = [session EXCEPT ![s] = row]
  PROVE  Fewer
BY DEF AccessTypes, Live, Fewer

\* Revoking, idling and expiring keep the owner of a session.
LEMMA RowChanges ==
  ASSUME AccessTypes, NEW s \in Sessions
  PROVE  /\ session[s] \in SessionRows
         /\ Revoked(session[s]) \in SessionRows /\ Revoked(session[s]).of = session[s].of
         /\ Revoked(session[s]).revoked
         /\ \A used \in BOOLEAN :
              LET x == [session[s] EXCEPT !.idle = used]
                  y == [session[s] EXCEPT !.expired = used]
              IN  /\ x \in SessionRows /\ x.of = session[s].of /\ x.revoked = session[s].revoked
                  /\ x.beside = session[s].beside
                  /\ y \in SessionRows /\ y.of = session[s].of /\ y.revoked = session[s].revoked
                  /\ y.beside = session[s].beside
<1> DEFINE row == session[s]
<1>1. row \in SessionRows
  BY DEF AccessTypes
<1> HIDE DEF row
<1>2. /\ Revoked(row) \in SessionRows /\ Revoked(row).of = row.of /\ Revoked(row).revoked
  BY <1>1 DEF Revoked, SessionRows
<1>3. ASSUME NEW used \in BOOLEAN
      PROVE  LET x == [row EXCEPT !.idle = used]
                 y == [row EXCEPT !.expired = used]
             IN  /\ x \in SessionRows /\ x.of = row.of /\ x.revoked = row.revoked /\ x.beside = row.beside
                 /\ y \in SessionRows /\ y.of = row.of /\ y.revoked = row.revoked /\ y.beside = row.beside
  BY <1>1 DEF SessionRows
<1> QED
  BY <1>1, <1>2, <1>3 DEF row

\* The session of a row that ends.
LEMMA RevokedEnds ==
  ASSUME AccessTypes, NEW s \in Sessions, session' = [session EXCEPT ![s] = Revoked(@)]
  PROVE  Fewer
<1> DEFINE row == Revoked(session[s])
<1>1. row \in SessionRows /\ row.of = session[s].of /\ row.revoked /\ session' = [session EXCEPT ![s] = row]
  BY RowChanges
<1> HIDE DEF row
<1> QED
  BY <1>1, SessionEnds

\* A session that is used or ages makes none live that was not.
LEMMA UsedEnds ==
  ASSUME AccessTypes, NEW s \in Sessions, NEW used \in BOOLEAN,
         session' = [session EXCEPT ![s].idle = used] \/ session' = [session EXCEPT ![s].expired = used]
  PROVE  Fewer
<1>1. CASE session' = [session EXCEPT ![s].idle = used]
  <2> DEFINE row == [session[s] EXCEPT !.idle = used]
  <2>1. /\ row \in SessionRows /\ row.of = session[s].of /\ row.revoked = session[s].revoked
        /\ row.beside = session[s].beside /\ session' = [session EXCEPT ![s] = row]
    BY <1>1, RowChanges
  <2> HIDE DEF row
  <2> QED
    BY <2>1, SessionEnds
<1>2. CASE session' = [session EXCEPT ![s].expired = used]
  <2> DEFINE row == [session[s] EXCEPT !.expired = used]
  <2>1. /\ row \in SessionRows /\ row.of = session[s].of /\ row.revoked = session[s].revoked
        /\ row.beside = session[s].beside /\ session' = [session EXCEPT ![s] = row]
    BY <1>2, RowChanges
  <2> HIDE DEF row
  <2> QED
    BY <2>1, SessionEnds
<1> QED
  BY <1>1, <1>2

\* A statement that ends the sessions it found.
LEMMA EndAllEnds ==
  ASSUME AccessTypes, NEW found, session' = EndAll(found)
  PROVE  /\ session' \in [Sessions -> SessionRows]
         /\ \A s \in Sessions : /\ session'[s].of = session[s].of
                                /\ s \in found => session'[s].revoked
                                /\ s \notin found => session'[s] = session[s]
         /\ Fewer
<1>1. \A s \in Sessions : /\ session[s] \in SessionRows
                          /\ Revoked(session[s]) \in SessionRows /\ Revoked(session[s]).of = session[s].of
                          /\ Revoked(session[s]).revoked
  BY RowChanges
<1>2. /\ session' \in [Sessions -> SessionRows]
      /\ \A s \in Sessions : /\ session'[s].of = session[s].of
                             /\ s \in found => session'[s].revoked
                             /\ s \notin found => session'[s] = session[s]
  BY <1>1 DEF EndAll
<1> QED
  BY <1>2 DEF Fewer, Live

-----------------------------------------------------------------------------

\* The guard verifies only a session that lives.
LEMMA VerifyStep ==
  ASSUME AccessInv, NEW r \in Requests, Verify(r)
  PROVE  AccessInv' /\ ServesOnlyLive
<1> DEFINE s == call[r].session
<1>1. AccessTypes /\ s \in Sessions \cup {None} /\ call[r] \in Calls /\ UNCHANGED admin /\ call[r].op = "api"
  BY DEF AccessInv, AccessTypes, CallRows, Calls, Verify, Handling
<1>2. ASSUME Refuse(r) PROVE AccessInv' /\ ServesOnlyLive
  BY <1>1, <1>2, RefuseKeeps
<1>3. ASSUME ~Gone(s), Reply(r, "refused"), session' = [session EXCEPT ![s] = Revoked(@)]
      PROVE  AccessInv' /\ ServesOnlyLive
  <2>1. s \in Sessions
    BY <1>1, <1>3 DEF Gone
  <2>2. Fewer
    BY <1>1, <1>3, <2>1, RevokedEnds
  <2>3. "refused" \in Answers \ {"ok"}
    BY DEF Answers
  <2> QED
    BY <1>1, <1>3, <2>2, <2>3, ReplyKeeps
<1>4. ASSUME ~Gone(s), call' = [call EXCEPT ![r].stage = "verified"], UNCHANGED session
      PROVE  AccessInv' /\ ServesOnlyLive
  <2> DEFINE old == call[r]
             c   == [old EXCEPT !.stage = "verified"]
  <2>1. call' = [call EXCEPT ![r] = c] /\ old \in Calls /\ old.session # None /\ old.op = "api"
    BY <1>1, <1>4 DEF Gone
  <2> HIDE DEF old
  <2>2. c \in Calls /\ c.answer = "none"
    BY <2>1 DEF CallRows, Calls, Steps
  <2> HIDE DEF c
  <2>3. Fewer
    BY <1>1, <1>4, SameIsFewer
  <2> QED
    BY <1>1, <2>1, <2>2, <2>3, PutKeeps
<1> HIDE DEF s
<1> QED
  BY <1>2, <1>3, <1>4 DEF Verify, s

\* The second step of the guard serves only what still lives.
LEMMA TouchStep ==
  ASSUME AccessInv, NEW r \in Requests, Touch(r)
  PROVE  AccessInv' /\ ServesOnlyLive
<1> DEFINE s == call[r].session
<1>1. AccessTypes /\ s \in Sessions /\ UNCHANGED admin /\ "ok" \in Answers
  BY DEF AccessInv, AccessTypes, CallRows, Calls, Touch, Handling, Answers
<1>2. CASE Touched(s)
  <2>1. session' = [session EXCEPT ![s].idle = FALSE] /\ Reply(r, "ok") /\ ~session[s].revoked
    BY <1>2 DEF Touch, Touched
  <2>2. Fewer
    BY <1>1, <2>1, UsedEnds
  <2> QED
    BY <1>1, <2>1, <2>2, ReplyKeeps
<1>3. CASE ~Touched(s)
  BY <1>1, <1>3, RefuseKeeps DEF Touch
<1> QED
  BY <1>2, <1>3

\* A password checked begins a login and ends no session.
LEMMA PasswordStep ==
  ASSUME AccessInv, NEW r \in Requests, NEW u \in Users, CheckPassword(r, u)
  PROVE  AccessInv' /\ ServesOnlyLive
<1>1. AccessTypes /\ UNCHANGED admin /\ call[r].op = "login" /\ call[r] \in Calls
  BY DEF AccessInv, AccessTypes, CheckPassword, Handling
<1>2. ASSUME Refuse(r) PROVE AccessInv' /\ ServesOnlyLive
  BY <1>1, <1>2, RefuseKeeps
<1>3. ASSUME call' = [call EXCEPT ![r] = [@ EXCEPT !.stage = "verified", !.user = u]], UNCHANGED session
      PROVE  AccessInv' /\ ServesOnlyLive
  <2> DEFINE old == call[r]
             c   == [old EXCEPT !.stage = "verified", !.user = u]
  <2>1. call' = [call EXCEPT ![r] = c] /\ old \in Calls /\ old.op = "login"
    BY <1>1, <1>3
  <2> HIDE DEF old
  <2>2. c \in Calls /\ c.answer = "none"
    BY <2>1 DEF CallRows, Calls, Steps
  <2> HIDE DEF c
  <2>3. Fewer
    BY <1>1, <1>3, SameIsFewer
  <2> QED
    BY <1>1, <2>1, <2>2, <2>3, PutKeeps
<1> QED
  BY <1>2, <1>3 DEF CheckPassword

\* A login finds all the sessions its user has.
LEMMA FindStep ==
  ASSUME AccessInv, NEW r \in Requests, FindOthers(r)
  PROVE  AccessInv' /\ ServesOnlyLive
<1> DEFINE old == call[r]
           u   == old.user
           own == {s \in Sessions : Live(u, s)}
           c   == [old EXCEPT !.stage = "found", !.found = Ended(u), !.others = own]
<1>1. /\ AccessTypes /\ UNCHANGED <<session, admin>> /\ old.op = "login" /\ old \in Calls
      /\ call' = [call EXCEPT ![r] = c]
  BY DEF AccessInv, AccessTypes, FindOthers, Handling
<1>2. Ended(u) = own /\ own \in SUBSET Sessions
  BY DEF Ended
<1> HIDE DEF own, old
<1>3. c \in Calls /\ c.answer = "none"
  BY <1>1, <1>2 DEF CallRows, Calls, Steps
<1> HIDE DEF c
<1>4. Fewer
  BY <1>1, SameIsFewer
<1> QED
  BY <1>1, <1>3, <1>4, PutKeeps

\* The sessions that the login does not end were opened while it was under way.
LEMMA OpenStep ==
  ASSUME AccessInv, NEW r \in Requests, OpenSession(r)
  PROVE  AccessInv' /\ ServesOnlyLive
<1> DEFINE f   == call[r]
           own == {t \in Sessions : Live(f.user, t)} \ f.others
           row == [NoRow EXCEPT !.of = f.user, !.beside = own]
           ans == [NoCall EXCEPT !.stage = "answered", !.answer = "ok"]
           all == EndAll(f.found)
<1>1. PICK s \in Sessions : s = (CHOOSE x \in Sessions : session[x].of = None) /\ session[s].of = None
  BY DEF OpenSession
<1>2. /\ AccessTypes /\ UNCHANGED admin /\ f \in Calls /\ f.op = "login"
      /\ session' = [all EXCEPT ![s] = row] /\ call' = [call EXCEPT ![r] = ans]
  BY <1>1 DEF AccessInv, AccessTypes, OpenSession, LoggingIn, Reply
<1>3. own \in SUBSET Sessions /\ \A t \in Sessions : t \in own <=> Live(f.user, t) /\ t \notin f.others
  OBVIOUS
<1> HIDE DEF own
<1>4. row \in SessionRows /\ row.of = f.user /\ row.beside = own
  BY <1>2, <1>3 DEF NoRow, SessionRows, CallRows, Calls
<1>5. ans \in Calls
  BY AnswerRow DEF Answers
<1>6. /\ all \in [Sessions -> SessionRows]
      /\ \A t \in Sessions : /\ all[t].of = session[t].of
                             /\ t \in f.found => all[t].revoked
                             /\ t \notin f.found => all[t] = session[t]
  <2>1. \A t \in Sessions : /\ session[t] \in SessionRows
                            /\ Revoked(session[t]) \in SessionRows /\ Revoked(session[t]).of = session[t].of
                            /\ Revoked(session[t]).revoked
    BY <1>2, RowChanges
  <2> QED
    BY <2>1 DEF EndAll
<1> HIDE DEF all, row, ans
<1>7. session' \in [Sessions -> SessionRows] /\ session'[s] = row /\ \A t \in Sessions \ {s} : session'[t] = all[t]
  BY <1>2, <1>4, <1>6
<1>8. Puts(r, ans)
  BY <1>2, <1>5, PutsOne
<1>9. ServesOnlyLive
  BY <1>2, <1>5, <1>8, PutServes
<1>10. AccessTypes'
  BY <1>2, <1>7, <1>8 DEF AccessTypes, Puts
<1>11. f.others \subseteq f.found
  BY <1>2 DEF Calls
<1> HIDE DEF f
<1>12. ASSUME NEW u \in Users, NEW t \in Sessions \ {s}, Live(u, t)'
       PROVE  Live(u, t) /\ session'[t] = session[t] /\ t \notin f.others
  BY <1>6, <1>7, <1>11, <1>12 DEF Live
<1>13. OneSessionEach'
  <2> SUFFICES ASSUME NEW u \in Users, NEW x \in Sessions, NEW t \in Sessions, x # t, Live(u, x)', Live(u, t)'
               PROVE  t \in session'[x].beside \/ x \in session'[t].beside
    BY DEF OneSessionEach
  <2>1. ASSUME Live(u, s)', NEW y \in Sessions \ {s}, Live(u, y)' PROVE y \in session'[s].beside
    <3>1. u = f.user
      BY <1>4, <1>7, <2>1 DEF Live
    <3> QED
      BY <1>3, <1>4, <1>7, <1>12, <2>1, <3>1
  <2>2. CASE x = s
    BY <2>1, <2>2
  <2>3. CASE t = s
    BY <2>1, <2>3
  <2>4. CASE x # s /\ t # s
    BY <1>12, <2>4 DEF AccessInv, OneSessionEach
  <2> QED
    BY <2>2, <2>3, <2>4
<1> QED
  BY <1>9, <1>10, <1>13 DEF AccessInv

\* The session of a request that is not without one.
LEMMA UnlockStep ==
  ASSUME AccessInv, NEW r \in Requests, Unlock(r)
  PROVE  AccessInv' /\ ServesOnlyLive
<1> DEFINE s == call[r].session
<1>1. AccessTypes /\ s \in Sessions \cup {None} /\ call[r].op = "unlock" /\ UNCHANGED admin
  BY DEF AccessInv, AccessTypes, Unlock, Handling, CallRows, Calls
<1> HIDE DEF s
<1>2. ASSUME Refuse(r) PROVE AccessInv' /\ ServesOnlyLive
  BY <1>1, <1>2, RefuseKeeps
<1>3. ASSUME NEW answer \in Answers, Reply(r, answer), ~Gone(s),
             session' = [session EXCEPT ![s] = Revoked(@)] \/ session' = [session EXCEPT ![s].idle = FALSE]
      PROVE  AccessInv' /\ ServesOnlyLive
  <2>1. s \in Sessions
    BY <1>1, <1>3 DEF Gone
  <2>2. Fewer
    BY <1>1, <1>3, <2>1, RevokedEnds, UsedEnds
  <2> QED
    BY <1>1, <1>3, <2>2, ReplyKeeps
<1>4. "ok" \in Answers /\ "refused" \in Answers
  BY DEF Answers
<1> QED
  BY <1>2, <1>3, <1>4 DEF Unlock, s

\* A logout ends a session and makes none.
LEMMA LogoutStep ==
  ASSUME AccessInv, NEW r \in Requests, Logout(r)
  PROVE  AccessInv' /\ ServesOnlyLive
<1> DEFINE s == call[r].session
<1>1. /\ AccessTypes /\ s \in Sessions \cup {None} /\ "ok" \in Answers
      /\ call[r].op = "logout" /\ Reply(r, "ok") /\ UNCHANGED admin
      /\ session' = IF s = None THEN session ELSE [session EXCEPT ![s] = Revoked(@)]
  BY DEF AccessInv, AccessTypes, Logout, Handling, CallRows, Calls, Answers
<1> HIDE DEF s
<1>2. Fewer
  BY <1>1, RevokedEnds, SameIsFewer
<1> QED
  BY <1>1, <1>2, ReplyKeeps

\* Administrators end sessions, or let them live.
LEMMA AdministerStep ==
  ASSUME AccessInv, Administer
  PROVE  AccessInv' /\ ServesOnlyLive
<1>1. AccessTypes /\ UNCHANGED call
  BY DEF AccessInv, Administer, DisableUser, ResetPassword, FindSessions, ForceLogout, UnlockAccount, UpdateUser
<1>2. admin' \in Statements
  <2>1. ASSUME NEW u \in Users, NEW op \in {"logout", "unlock"}, FindSessions(u, op) PROVE admin' \in Statements
    <3>1. {s \in Sessions : Live(u, s)} \in SUBSET Sessions
      OBVIOUS
    <3> QED
      BY <2>1, <3>1 DEF FindSessions, Statements
  <2>2. NoStatement \in Statements
    BY DEF NoStatement, Statements
  <2> QED
    BY <1>1, <2>1, <2>2
      DEF AccessTypes, Administer, DisableUser, ResetPassword, ForceLogout, UnlockAccount, UpdateUser
<1>3. CASE UNCHANGED session
  BY <1>1, <1>2, <1>3, SameIsFewer, QuietKeeps
<1>4. ASSUME NEW found, session' = EndAll(found) PROVE AccessInv' /\ ServesOnlyLive
  BY <1>1, <1>2, <1>4, EndAllEnds, QuietKeeps
<1>5. CASE UnlockAccount
  <2>1. \A s \in Sessions :
          LET x == [session[s] EXCEPT !.idle = FALSE]
          IN  /\ session[s] \in SessionRows /\ x \in SessionRows /\ x.of = session[s].of
              /\ x.revoked = session[s].revoked /\ x.beside = session[s].beside
    BY <1>1, RowChanges
  <2>2. Fewer
    BY <1>5, <2>1 DEF UnlockAccount, Fewer, Live
  <2> QED
    BY <1>1, <1>2, <2>2, QuietKeeps
<1> QED
  BY <1>3, <1>4, <1>5 DEF Administer, DisableUser, ResetPassword, FindSessions, ForceLogout, UpdateUser

\* Time ends sessions and makes none.
LEMMA AgeStep ==
  ASSUME AccessInv, NEW s \in Sessions, Age(s)
  PROVE  AccessInv' /\ ServesOnlyLive
<1>1. AccessTypes /\ UNCHANGED call /\ admin' \in Statements
  BY DEF AccessInv, AccessTypes, Age
<1>2. Fewer
  BY <1>1, UsedEnds DEF Age
<1> QED
  BY <1>1, <1>2, QuietKeeps

\* A request sent touches no session.
LEMMA BrowseStep ==
  ASSUME AccessInv, Browse
  PROVE  AccessInv' /\ ServesOnlyLive
<1>1. PICK r \in Requests, op \in Ops \ {"none"}, s \in Sessions \cup {None} : Send(r, op, s)
  BY DEF Browse, AskData, AskLogin, AskUnlock, AskLogout, Opened, Ops
<1> DEFINE c == [NoCall EXCEPT !.op = op, !.stage = "sent", !.session = s]
<1>2. AccessTypes /\ UNCHANGED <<session, admin>> /\ call' = [call EXCEPT ![r] = c]
  BY <1>1 DEF AccessInv, Send
<1>3. c \in Calls /\ c.answer = "none"
  BY DEF CallRows, Calls, NoCall, Steps, Answers
<1> HIDE DEF c
<1>4. Fewer
  BY <1>2, SameIsFewer
<1> QED
  BY <1>2, <1>3, <1>4, PutKeeps

\* A login that fails is a request refused.
LEMMA FailStep ==
  ASSUME AccessInv, NEW r \in Requests, FailLogin(r)
  PROVE  AccessInv' /\ ServesOnlyLive
BY RefuseKeeps DEF FailLogin

\* No step disturbs the invariant, and none serves a session that has ended.
LEMMA AccessStep ==
  ASSUME AccessInv, AccessNext
  PROVE  AccessInv' /\ ServesOnlyLive
BY VerifyStep, TouchStep, PasswordStep, FindStep, OpenStep, FailStep, UnlockStep, LogoutStep,
   AdministerStep, BrowseStep, AgeStep DEF AccessNext, Serve

AccessSpec == AccessInit /\ [][AccessNext]_accessVars

\* The inductive invariant of sessions: in every reachable state a verified request has its
\* session, a login has found all the sessions its user had, and of two live sessions one was
\* opened while the login of the other was under way.
THEOREM AccessInvariant == AccessSpec => []AccessInv
<1>1. AccessInit => AccessInv
  <2> SUFFICES ASSUME AccessInit PROVE AccessInv
    OBVIOUS
  <2>1. NoRow \in SessionRows /\ NoRow.of = None
    BY DEF NoRow, SessionRows
  <2>2. NoCall \in Calls /\ NoStatement \in Statements
    BY DEF NoCall, CallRows, Calls, Ops, Steps, Answers, NoStatement, Statements
  <2>3. AccessTypes
    BY <2>1, <2>2 DEF AccessInit, AccessTypes
  <2>4. \A u \in Users, s \in Sessions : ~Live(u, s)
    BY <2>1, AccessAssumption DEF AccessInit, Live
  <2> QED
    BY <2>3, <2>4 DEF AccessInv, OneSessionEach
<1>2. AccessInv /\ [AccessNext]_accessVars => AccessInv'
  <2>1. ASSUME AccessInv, UNCHANGED accessVars PROVE AccessInv'
    <3>1. AccessTypes /\ AccessTypes'
      BY <2>1 DEF accessVars, AccessInv, AccessTypes
    <3>2. OneSessionEach'
      BY <2>1, <3>1, SameIsFewer, FewerKeeps DEF accessVars, AccessInv
    <3> QED
      BY <3>1, <3>2 DEF AccessInv
  <2> QED
    BY <2>1, AccessStep
<1> QED
  BY <1>1, <1>2, PTL DEF AccessSpec

\* However many users, sessions and requests there are, and however their logins overlap with
\* each other and with what administrators do, of two live sessions of a user one was opened
\* while the login of the other was under way: a login ends every session opened before it.
THEOREM OneSessionEachAlways == AccessSpec => []OneSessionEach
<1>1. AccessInv => OneSessionEach
  BY DEF AccessInv
<1> QED
  BY <1>1, AccessInvariant, PTL

\* In every step the guard lets requests through only in sessions that nobody has
\* ended, whatever happened since it verified them.
THEOREM LiveSessionsServed == AccessSpec => ServesLiveSessions
<1>1. AccessInv /\ [AccessNext]_accessVars => [ServesOnlyLive]_accessVars
  BY AccessStep
<1>2. [ServesOnlyLive]_accessVars <=>
        [\A r \in Requests :
          (call[r].op = "api" /\ call'[r].answer = "ok") => ~session[call[r].session].revoked]_accessVars
  BY DEF ServesOnlyLive
<1> QED
  BY <1>1, <1>2, AccessInvariant, PTL DEF AccessSpec, ServesLiveSessions

-----------------------------------------------------------------------------
(***************************************************************************)
(* Product units                                                           *)
(***************************************************************************)

LineRows ==
  [of : Articles, unit : UnitIds, factor : Factors \cup {1}, base : BOOLEAN, parent : Nat, active : BOOLEAN]

CatalogueTypes ==
  /\ rows \in Seq(LineRows)
  /\ article \in [Articles -> {"none", "active", "inactive"}]
  /\ stockIn \in [Articles -> Nat]

\* In table t, row b is the base unit of product p, and the others hang off it.
Based(t, p, b) ==
  /\ b \in DOMAIN t /\ t[b].of = p /\ t[b].base /\ t[b].active /\ t[b].factor = 1
  /\ \A r \in DOMAIN t : t[r].of = p /\ r # b => ~t[r].base /\ t[r].parent = b

\* A product that does not exist has no units, and one that does has its base.
CatalogueInv ==
  /\ CatalogueTypes
  /\ \A p \in Articles : IF article[p] = "none" THEN RowsOf(p) = {}
                                                ELSE p \in muddled \/ Based(rows, p, stockIn[p])

\* From table t to table n only rows of product p are written, or appended.
OnlyOf(t, n, p) ==
  /\ n \in Seq(LineRows) /\ DOMAIN t \subseteq DOMAIN n
  /\ \A r \in DOMAIN t : n[r].of = t[r].of /\ (t[r].of # p => n[r] = t[r])
  /\ \A r \in DOMAIN n \ DOMAIN t : n[r].of = p

\* Two changes to the lines of one product are a change to its lines.
LEMMA OnlyOfTwice ==
  ASSUME NEW t, NEW n, NEW m, NEW p, OnlyOf(t, n, p), OnlyOf(n, m, p)
  PROVE  OnlyOf(t, m, p)
BY DEF OnlyOf

\* A row that is written over, and one that is appended.
LEMMA ExceptOnly ==
  ASSUME NEW t \in Seq(LineRows), NEW r \in DOMAIN t, NEW line \in LineRows, line.of = t[r].of
  PROVE  LET n == [t EXCEPT ![r] = line]
         IN  /\ OnlyOf(t, n, line.of) /\ DOMAIN n = DOMAIN t /\ n[r] = line
             /\ \A s \in DOMAIN t \ {r} : n[s] = t[s]
BY DEF OnlyOf

\* A line appended changes the lines of its product alone.
LEMMA AppendOnly ==
  ASSUME NEW t \in Seq(LineRows), NEW line \in LineRows
  PROVE  LET n == Append(t, line)
             r == Len(t) + 1
         IN  /\ OnlyOf(t, n, line.of) /\ DOMAIN n = DOMAIN t \cup {r} /\ r \notin DOMAIN t /\ r \in Nat
             /\ n[r] = line /\ \A s \in DOMAIN t : n[s] = t[s]
<1> DEFINE n == Append(t, line)
           r == Len(t) + 1
<1>1. /\ n \in Seq(LineRows) /\ DOMAIN t = 1 .. Len(t) /\ DOMAIN n = 1 .. r /\ Len(t) \in Nat
      /\ n[r] = line /\ \A s \in DOMAIN t : n[s] = t[s]
  OBVIOUS
<1>2. DOMAIN n = DOMAIN t \cup {r} /\ r \notin DOMAIN t
  BY <1>1
<1> HIDE DEF n, r
<1>3. OnlyOf(t, n, line.of)
  BY <1>1, <1>2 DEF OnlyOf
<1>4. r \in Nat
  BY <1>1 DEF r
<1> QED
  BY <1>1, <1>2, <1>3, <1>4 DEF n, r

\* An import writes a line over a row of its product and its unit, or appends it.
LEMMA UpsertOnly ==
  ASSUME NEW t \in Seq(LineRows), NEW line \in LineRows, NEW new \in Upserts(t, line)
  PROVE  /\ OnlyOf(t, new.table, line.of) /\ new.row \in DOMAIN new.table /\ new.table[new.row] = line
         /\ new.row \in Nat
         /\ \A s \in DOMAIN new.table \ {new.row} : s \in DOMAIN t /\ new.table[s] = t[s]
         /\ IF new.row \in DOMAIN t THEN t[new.row].of = line.of /\ t[new.row].unit = line.unit
            ELSE \A s \in DOMAIN t : ~(t[s].of = line.of /\ t[s].unit = line.unit)
<1> DEFINE own == {r \in DOMAIN t : t[r].of = line.of /\ t[r].unit = line.unit}
<1>1. CASE own = {}
  <2>1. new.table = Append(t, line) /\ new.row = Len(t) + 1
    BY <1>1 DEF Upserts
  <2> DEFINE n == Append(t, line)
             r == Len(t) + 1
  <2>2. /\ OnlyOf(t, n, line.of) /\ DOMAIN n = DOMAIN t \cup {r} /\ r \notin DOMAIN t /\ r \in Nat
        /\ n[r] = line /\ \A s \in DOMAIN t : n[s] = t[s]
    BY AppendOnly
  <2>3. new.table = n /\ new.row = r
    BY <2>1
  <2>4. \A s \in DOMAIN t : ~(t[s].of = line.of /\ t[s].unit = line.unit)
    BY <1>1
  <2> HIDE DEF n, r, own
  <2> QED
    BY <2>2, <2>3, <2>4
<1>2. CASE own # {}
  <2>0. PICK r \in own : new = [table |-> [t EXCEPT ![r] = line], row |-> r]
    <3>1. Upserts(t, line) = IF own = {} THEN {[table |-> Append(t, line), row |-> Len(t) + 1]}
                             ELSE {[table |-> [t EXCEPT ![r] = line], row |-> r] : r \in own}
      BY DEF Upserts
    <3> HIDE DEF own
    <3> QED
      BY <1>2, <3>1
  <2>1. new.table = [t EXCEPT ![r] = line] /\ new.row = r
    BY <2>0
  <2> DEFINE n == [t EXCEPT ![r] = line]
  <2>2. r \in DOMAIN t /\ r \in Nat /\ t[r].of = line.of /\ t[r].unit = line.unit
    BY <2>1
  <2>3. /\ OnlyOf(t, n, line.of) /\ DOMAIN n = DOMAIN t /\ n[r] = line
        /\ \A s \in DOMAIN t \ {r} : n[s] = t[s]
    BY <2>2, ExceptOnly
  <2>4. new.table = n /\ new.row = r
    BY <2>1
  <2> HIDE DEF n
  <2> QED
    BY <2>2, <2>3, <2>4
<1> QED
  BY <1>1, <1>2

\* The line of a unit is a line of its product.
LEMMA LineTypes ==
  ASSUME NEW p \in Articles, NEW u \in UnitIds, NEW f \in Factors \cup {1}, NEW base \in BOOLEAN,
         NEW parent \in Nat, NEW used \in BOOLEAN
  PROVE  LET line == RowOf(p, u, f, base, parent, used)
         IN  /\ line \in LineRows /\ line.of = p /\ line.unit = u /\ line.factor = f
             /\ line.base = base /\ line.parent = parent /\ line.active = used
BY DEF RowOf, LineRows

\* A step that writes rows of product p only, of which it keeps the promise.
LEMMA WrittenKeeps ==
  ASSUME CatalogueInv, NEW p \in Articles, OnlyOf(rows, rows', p),
         article' \in [Articles -> {"none", "active", "inactive"}], stockIn' \in [Articles -> Nat],
         article'[p] # "none", p \in muddled' \/ Based(rows', p, stockIn'[p]), muddled \subseteq muddled',
         \A q \in Articles \ {p} : article'[q] = article[q] /\ stockIn'[q] = stockIn[q]
  PROVE  CatalogueInv'
<1>1. CatalogueTypes'
  BY DEF CatalogueTypes, OnlyOf
<1>2. ASSUME NEW q \in Articles
      PROVE  IF article'[q] = "none" THEN (RowsOf(q))' = {} ELSE q \in muddled' \/ Based(rows', q, stockIn'[q])
  <2>1. CASE q = p
    BY <2>1
  <2>2. CASE q # p /\ article[q] = "none"
    BY <2>2 DEF CatalogueInv, RowsOf, OnlyOf
  <2>3. CASE q # p /\ article[q] # "none" /\ q \in muddled
    BY <2>3
  <2>4. CASE q # p /\ article[q] # "none" /\ q \notin muddled
    <3>1. Based(rows, q, stockIn[q])
      BY <2>4 DEF CatalogueInv
    <3>2. \A r \in DOMAIN rows' : rows'[r].of = q => r \in DOMAIN rows /\ rows[r].of = q /\ rows'[r] = rows[r]
      BY <2>4 DEF OnlyOf
    <3>3. \A r \in DOMAIN rows : rows[r].of = q => r \in DOMAIN rows' /\ rows'[r] = rows[r]
      BY <2>4 DEF OnlyOf
    <3>4. Based(rows', q, stockIn[q])
      BY <3>1, <3>2, <3>3 DEF Based
    <3> QED
      BY <2>4, <3>4
  <2> QED
    BY <2>1, <2>2, <2>3, <2>4
<1> QED
  BY <1>1, <1>2 DEF CatalogueInv

\* A step that writes no rows.
LEMMA UnwrittenKeeps ==
  ASSUME CatalogueInv, UNCHANGED <<rows, stockIn, muddled>>,
         article' \in [Articles -> {"none", "active", "inactive"}],
         \A p \in Articles : (article'[p] = "none") = (article[p] = "none")
  PROVE  CatalogueInv'
BY DEF CatalogueInv, CatalogueTypes, RowsOf

\* The base of a new product, and what may hang off it.
LEMMA CreateKeepsBase ==
  ASSUME CatalogueInv, NEW p \in Articles, NEW u \in UnitIds, NEW w \in Words, CreateProduct(p, u, w)
  PROVE  CatalogueInv'
<1> DEFINE line == RowOf(p, u, 1, TRUE, 0, TRUE)
           n    == Append(rows, line)
           b    == Len(rows) + 1
<1>1. /\ rows \in Seq(LineRows) /\ RowsOf(p) = {} /\ rows' = n
      /\ article' = [article EXCEPT ![p] = "active"] /\ stockIn' = [stockIn EXCEPT ![p] = b] /\ muddled' = muddled
  BY DEF CatalogueInv, CatalogueTypes, CreateProduct
<1>2. /\ line \in LineRows /\ line.of = p /\ line.factor = 1 /\ line.base /\ line.active
  BY DEF RowOf, LineRows
<1> HIDE DEF line
<1>3. /\ OnlyOf(rows, n, p) /\ DOMAIN n = DOMAIN rows \cup {b} /\ b \in Nat
      /\ n[b] = line /\ \A s \in DOMAIN rows : n[s] = rows[s]
  BY <1>1, <1>2, AppendOnly
<1> HIDE DEF n, b
<1>4. Based(n, p, b)
  BY <1>1, <1>2, <1>3 DEF Based, RowsOf
<1>5. /\ article' \in [Articles -> {"none", "active", "inactive"}] /\ stockIn' \in [Articles -> Nat]
      /\ article'[p] # "none" /\ stockIn'[p] = b
      /\ \A q \in Articles \ {p} : article'[q] = article[q] /\ stockIn'[q] = stockIn[q]
  BY <1>1, <1>3 DEF CatalogueInv, CatalogueTypes
<1> QED
  BY <1>1, <1>3, <1>4, <1>5, WrittenKeeps

\* A product created with two units has one base unit.
LEMMA CreateWithKeepsBase ==
  ASSUME CatalogueInv, NEW p \in Articles, NEW u \in UnitIds, NEW w \in Words, NEW v \in UnitIds, NEW x \in Words,
         NEW f \in Factors, CreateProductWith(p, u, w, v, x, f)
  PROVE  CatalogueInv'
<1> DEFINE b    == Len(rows) + 1
           line == RowOf(p, u, 1, TRUE, 0, TRUE)
           more == RowOf(p, v, f, FALSE, b, TRUE)
           n    == Append(rows, line)
           m    == Append(n, more)
           c    == Len(n) + 1
<1>1. /\ rows \in Seq(LineRows) /\ RowsOf(p) = {} /\ rows' = rows \o <<line, more>> /\ b \in Nat
      /\ article' = [article EXCEPT ![p] = "active"] /\ stockIn' = [stockIn EXCEPT ![p] = b] /\ muddled' = muddled
  BY DEF CatalogueInv, CatalogueTypes, CreateProductWith
<1>2. /\ line \in LineRows /\ line.of = p /\ line.factor = 1 /\ line.base /\ line.active
      /\ more \in LineRows /\ more.of = p /\ ~more.base /\ more.parent = b
  BY <1>1 DEF RowOf, LineRows
<1> HIDE DEF line, more
<1>3. rows' = m
  <2>1. rows \o <<line, more>> \in Seq(LineRows) /\ m \in Seq(LineRows)
    BY <1>1, <1>2
  <2>2. Len(m) = Len(rows \o <<line, more>>)
    BY <1>1, <1>2
  <2>3. \A i \in 1 .. Len(m) : m[i] = (rows \o <<line, more>>)[i]
    BY <1>1, <1>2
  <2> QED
    BY <1>1, <2>1, <2>2, <2>3
<1>4. /\ OnlyOf(rows, n, p) /\ DOMAIN n = DOMAIN rows \cup {b} /\ n \in Seq(LineRows) /\ b \notin DOMAIN rows
      /\ n[b] = line /\ \A s \in DOMAIN rows : n[s] = rows[s]
  BY <1>1, <1>2, AppendOnly DEF OnlyOf
<1> HIDE DEF n
<1>5. /\ OnlyOf(n, m, p) /\ DOMAIN m = DOMAIN n \cup {c} /\ c \notin DOMAIN n
      /\ m[c] = more /\ \A s \in DOMAIN n : m[s] = n[s]
  BY <1>2, <1>4, AppendOnly
<1> HIDE DEF m, b, c
<1>6. Based(m, p, b) /\ OnlyOf(rows, m, p)
  BY <1>1, <1>2, <1>4, <1>5, OnlyOfTwice DEF Based, RowsOf
<1>7. /\ article' \in [Articles -> {"none", "active", "inactive"}] /\ stockIn' \in [Articles -> Nat]
      /\ article'[p] # "none" /\ stockIn'[p] = b
      /\ \A q \in Articles \ {p} : article'[q] = article[q] /\ stockIn'[q] = stockIn[q]
  BY <1>1 DEF CatalogueInv, CatalogueTypes
<1> QED
  BY <1>1, <1>3, <1>6, <1>7, WrittenKeeps

\* What the form writes before its own line: the base is the base, the rest hangs off it.
LEMMA WrittenOnly ==
  ASSUME CatalogueInv, NEW p \in Articles, NEW b \in BaseRows(p), NEW k \in DOMAIN rows, b \in Shown(p, k)
  PROVE  LET n == Written(p, b, b, k)
         IN  /\ OnlyOf(rows, n, p) /\ DOMAIN n = DOMAIN rows /\ article[p] # "none"
             /\ b \in DOMAIN n /\ n[b].of = p
             /\ p \notin muddled => Based(n, p, b) /\ b = stockIn[p]
<1> DEFINE n == Written(p, b, b, k)
<1>1. b \in DOMAIN rows /\ rows[b].of = p /\ rows[b].base /\ rows \in Seq(LineRows) /\ b \in Nat
  BY DEF BaseRows, RowsOf, CatalogueInv, CatalogueTypes
<1>2. \A r \in DOMAIN rows : r \in Shown(p, k) => rows[r].of = p
  BY DEF Shown, RowsOf
<1>3. n = [r \in DOMAIN rows |->
             IF r = b THEN [rows[r] EXCEPT !.factor = 1, !.base = TRUE, !.parent = 0, !.active = TRUE]
             ELSE IF r \in Shown(p, k) THEN [rows[r] EXCEPT !.base = FALSE, !.parent = b] ELSE rows[r]]
  BY DEF Written
<1> HIDE DEF n
<1>4. \A line \in LineRows :
        LET x == [line EXCEPT !.factor = 1, !.base = TRUE, !.parent = 0, !.active = TRUE]
            y == [line EXCEPT !.base = FALSE, !.parent = b]
        IN  /\ x \in LineRows /\ x.of = line.of /\ x.base /\ x.active /\ x.factor = 1
            /\ y \in LineRows /\ y.of = line.of /\ ~y.base /\ y.parent = b
  BY <1>1 DEF LineRows
<1>5. \A r \in DOMAIN rows : rows[r] \in LineRows
  BY <1>1
<1>6. /\ DOMAIN n = DOMAIN rows
      /\ \A r \in DOMAIN rows : n[r] \in LineRows /\ n[r].of = rows[r].of
  BY <1>3, <1>4, <1>5
<1>7. n \in Seq(LineRows)
  <2>1. DOMAIN rows = 1 .. Len(rows) /\ Len(rows) \in Nat
    BY <1>1
  <2>2. n \in [1 .. Len(rows) -> LineRows]
    BY <1>3, <1>6, <2>1
  <2> QED
    BY <2>1, <2>2
<1>8. \A r \in DOMAIN rows : rows[r].of # p => n[r] = rows[r]
  BY <1>1, <1>2, <1>3
<1>9. OnlyOf(rows, n, p)
  BY <1>6, <1>7, <1>8 DEF OnlyOf
<1>10. article[p] # "none"
  BY <1>1 DEF CatalogueInv, RowsOf
<1>11. ASSUME p \notin muddled PROVE Based(n, p, b) /\ b = stockIn[p]
  <2>1. Based(rows, p, stockIn[p])
    BY <1>10, <1>11 DEF CatalogueInv
  <2>2. b = stockIn[p]
    BY <1>1, <2>1 DEF Based
  <2>3. n[b].of = p /\ n[b].base /\ n[b].active /\ n[b].factor = 1
    BY <1>1, <1>3, <1>4, <1>5
  <2>4. ASSUME NEW r \in DOMAIN n, n[r].of = p, r # b PROVE ~n[r].base /\ n[r].parent = b
    <3>1. r \in DOMAIN rows /\ rows[r].of = p /\ ~rows[r].base /\ rows[r].parent = b
      BY <1>6, <2>1, <2>2, <2>4 DEF Based
    <3> QED
      BY <1>3, <1>4, <1>5, <2>4, <3>1
  <2> QED
    BY <1>1, <1>6, <2>2, <2>3, <2>4 DEF Based
<1> QED
  BY <1>1, <1>6, <1>9, <1>10, <1>11 DEF n

\* The line of the form: another unit, factor or status, of which the base line may
\* change the unit only.
LEMMA UpdateKeepsBase ==
  ASSUME CatalogueInv, NEW p \in Articles, NEW b \in BaseRows(p), NEW k \in DOMAIN rows,
         NEW u \in UnitIds, NEW w \in Words, UpdateProduct(p, b, b, k, u, w)
  PROVE  CatalogueInv'
<1> DEFINE n == Written(p, b, b, k)
<1>1. PICK r \in Shown(p, k), f \in Factors \cup {1}, used \in BOOLEAN :
        /\ r = b => f = 1 /\ used = TRUE
        /\ rows' = [n EXCEPT ![r].unit = u, ![r].factor = f, ![r].active = used]
  BY DEF UpdateProduct
<1>2. /\ OnlyOf(rows, n, p) /\ DOMAIN n = DOMAIN rows /\ article[p] # "none"
      /\ p \notin muddled => Based(n, p, b) /\ b = stockIn[p]
  BY WrittenOnly DEF UpdateProduct
<1>3. r \in DOMAIN n /\ rows[r].of = p
  BY <1>2 DEF Shown, RowsOf
<1>4. UNCHANGED <<article, stockIn, muddled>> /\ CatalogueTypes
  BY DEF UpdateProduct, CatalogueInv
<1> HIDE DEF n
<1> DEFINE old  == n[r]
           line == [old EXCEPT !.unit = u, !.factor = f, !.active = used]
           m    == [n EXCEPT ![r] = line]
<1>5. n \in Seq(LineRows) /\ old \in LineRows /\ old.of = p
  BY <1>2, <1>3 DEF OnlyOf
<1>6. f \in Factors \cup {1} /\ used \in BOOLEAN /\ (r = b => f = 1 /\ used = TRUE)
  BY <1>1
<1>7. rows' = m
  BY <1>1, <1>3, <1>5
<1> HIDE DEF old
<1>8. /\ line \in LineRows /\ line.of = p /\ line.base = old.base /\ line.parent = old.parent
      /\ line.factor = f /\ line.active = used
  BY <1>5, <1>6 DEF LineRows
<1> HIDE DEF line
<1>9. OnlyOf(n, m, p) /\ DOMAIN m = DOMAIN n /\ m[r] = line /\ \A s \in DOMAIN n \ {r} : m[s] = n[s]
  BY <1>3, <1>5, <1>8, ExceptOnly DEF old
<1> HIDE DEF m
<1>10. OnlyOf(rows, m, p)
  BY <1>2, <1>9, OnlyOfTwice
<1>11. ASSUME p \notin muddled PROVE Based(m, p, b) /\ b = stockIn[p]
  <2>1. Based(n, p, b) /\ b = stockIn[p]
    BY <1>2, <1>11
  <2>2. /\ b \in DOMAIN m /\ m[b].of = p
        /\ m[b].base = n[b].base /\ m[b].active = TRUE /\ m[b].factor = 1
    <3>1. CASE r = b
      BY <1>3, <1>6, <1>8, <1>9, <3>1 DEF old
    <3>2. CASE r # b
      BY <1>9, <2>1, <3>2 DEF Based
    <3> QED
      BY <3>1, <3>2
  <2>3. ASSUME NEW s \in DOMAIN m, m[s].of = p, s # b PROVE ~m[s].base /\ m[s].parent = b
    <3>1. n[s].of = p /\ m[s].base = n[s].base /\ m[s].parent = n[s].parent
      BY <1>5, <1>8, <1>9, <2>3 DEF old
    <3> QED
      BY <1>9, <2>1, <2>3, <3>1 DEF Based
  <2> QED
    BY <2>1, <2>2, <2>3 DEF Based
<1> QED
  BY <1>2, <1>4, <1>7, <1>10, <1>11, WrittenKeeps DEF CatalogueTypes

\* A line added under the base unit is not a second base.
LEMMA AddKeepsBase ==
  ASSUME CatalogueInv, NEW p \in Articles, NEW b \in BaseRows(p), NEW k \in DOMAIN rows,
         NEW u \in UnitIds, NEW w \in Words, AddLine(p, b, b, k, u, w)
  PROVE  CatalogueInv'
<1> DEFINE n == Written(p, b, b, k)
<1>1. PICK f \in Factors : rows' = Append(n, RowOf(p, u, f, FALSE, b, TRUE))
  BY DEF AddLine
<1>2. /\ OnlyOf(rows, n, p) /\ DOMAIN n = DOMAIN rows /\ article[p] # "none" /\ b \in DOMAIN n
      /\ p \notin muddled => Based(n, p, b) /\ b = stockIn[p]
  BY WrittenOnly DEF AddLine
<1>3. UNCHANGED <<article, stockIn, muddled>> /\ CatalogueTypes
  BY DEF AddLine, CatalogueInv
<1> HIDE DEF n
<1> DEFINE line == RowOf(p, u, f, FALSE, b, TRUE)
           m    == Append(n, line)
           c    == Len(n) + 1
<1>4. n \in Seq(LineRows) /\ b \in Nat
  BY <1>2 DEF OnlyOf
<1>5. line \in LineRows /\ line.of = p /\ ~line.base /\ line.parent = b
  BY <1>4 DEF RowOf, LineRows
<1>6. rows' = m
  BY <1>1
<1> HIDE DEF line
<1>7. /\ OnlyOf(n, m, p) /\ DOMAIN m = DOMAIN n \cup {c} /\ c \notin DOMAIN n
      /\ m[c] = line /\ \A s \in DOMAIN n : m[s] = n[s]
  BY <1>4, <1>5, AppendOnly
<1> HIDE DEF m, c
<1>8. OnlyOf(rows, m, p)
  BY <1>2, <1>7, OnlyOfTwice
<1>9. p \notin muddled => Based(m, p, b) /\ b = stockIn[p]
  BY <1>2, <1>5, <1>7 DEF Based
<1> QED
  BY <1>2, <1>3, <1>6, <1>8, <1>9, WrittenKeeps DEF CatalogueTypes

\* Units go out of use; those that the import names stay as they are.
LEMMA RetiredOnly ==
  ASSUME CatalogueInv, NEW p \in Articles, NEW words
  PROVE  LET n == Retired(p, words)
         IN  /\ OnlyOf(rows, n, p) /\ DOMAIN n = DOMAIN rows
             /\ \A r \in DOMAIN rows : /\ n[r].unit = rows[r].unit /\ n[r].base = rows[r].base
                                       /\ n[r].parent = rows[r].parent
<1> DEFINE n == Retired(p, words)
<1>1. rows \in Seq(LineRows) /\ \A r \in DOMAIN rows : rows[r] \in LineRows
  BY DEF CatalogueInv, CatalogueTypes
<1>2. n = [r \in DOMAIN rows |->
             IF rows[r].of = p /\ unit[rows[r].unit] \notin words THEN [rows[r] EXCEPT !.active = FALSE] ELSE rows[r]]
  BY DEF Retired
<1> HIDE DEF n
<1>3. \A line \in LineRows :
        LET x == [line EXCEPT !.active = FALSE]
        IN  x \in LineRows /\ x.of = line.of /\ x.unit = line.unit /\ x.base = line.base /\ x.parent = line.parent
  BY DEF LineRows
<1>4. /\ DOMAIN n = DOMAIN rows
      /\ \A r \in DOMAIN rows : /\ n[r] \in LineRows /\ n[r].of = rows[r].of /\ n[r].unit = rows[r].unit
                                /\ n[r].base = rows[r].base /\ n[r].parent = rows[r].parent
                                /\ rows[r].of # p => n[r] = rows[r]
  BY <1>1, <1>2, <1>3
<1>5. n \in Seq(LineRows)
  <2>1. DOMAIN rows = 1 .. Len(rows) /\ Len(rows) \in Nat
    BY <1>1
  <2>2. n \in [1 .. Len(rows) -> LineRows]
    BY <1>2, <1>4, <2>1
  <2> QED
    BY <2>1, <2>2
<1> QED
  BY <1>4, <1>5 DEF OnlyOf, n

\* A product that no import has muddled gets its base line over its base, and its
\* other line over another row; a new one gets both at the end.
LEMMA ImportKeepsBase ==
  ASSUME CatalogueInv, NEW p \in Articles, NEW u \in UnitIds, NEW v \in UnitIds, NEW w \in Words,
         NEW x \in Words \cup {NoWord}, NEW f \in Factors, ImportProduct(p, u, w, v, x, f)
  PROVE  CatalogueInv'
<1> DEFINE start == IF article[p] = "none" THEN rows ELSE Retired(p, {w, x})
           line  == RowOf(p, u, 1, TRUE, 0, TRUE)
<1>1. PICK first \in Upserts(start, line) :
        /\ IF x = NoWord THEN rows' = first.table
           ELSE \E second \in Upserts(first.table, RowOf(p, v, f, FALSE, first.row, TRUE)) : rows' = second.table
        /\ stockIn' = IF article[p] = "none" THEN [stockIn EXCEPT ![p] = first.row] ELSE stockIn
  BY DEF ImportProduct
<1>2. /\ article[p] = "none" \/ SameBase(p, w)
      /\ x # NoWord /\ x # w => v # u
      /\ article' = IF article[p] = "none" THEN [article EXCEPT ![p] = "active"] ELSE article
      /\ muddled' = IF Muddles(p, u, w, v, x) THEN muddled \cup {p} ELSE muddled
  BY DEF ImportProduct
<1>3. CatalogueTypes /\ rows \in Seq(LineRows) /\ \A r \in DOMAIN rows : r \in Nat
  BY DEF CatalogueInv, CatalogueTypes
<1>4. /\ OnlyOf(rows, start, p) /\ DOMAIN start = DOMAIN rows
      /\ \A r \in DOMAIN rows : /\ start[r].unit = rows[r].unit /\ start[r].base = rows[r].base
                                /\ start[r].parent = rows[r].parent /\ start[r].of = rows[r].of
  <2>1. CASE article[p] = "none"
    BY <1>3, <2>1 DEF OnlyOf
  <2>2. CASE article[p] # "none"
    <3> DEFINE n == Retired(p, {w, x})
    <3>1. /\ OnlyOf(rows, n, p) /\ DOMAIN n = DOMAIN rows
          /\ \A r \in DOMAIN rows : /\ n[r].unit = rows[r].unit /\ n[r].base = rows[r].base
                                    /\ n[r].parent = rows[r].parent
      BY RetiredOnly
    <3>2. start = n
      BY <2>2
    <3> HIDE DEF n, start
    <3> QED
      BY <3>1, <3>2 DEF OnlyOf
  <2> QED
    BY <2>1, <2>2
<1> HIDE DEF start
<1>5. line \in LineRows /\ line.of = p /\ line.unit = u /\ line.factor = 1 /\ line.base /\ line.active
  BY DEF RowOf, LineRows
<1>6. start \in Seq(LineRows)
  BY <1>4 DEF OnlyOf
<1> HIDE DEF line
<1> DEFINE t == first.table
           b == first.row
<1>7. /\ OnlyOf(start, t, p) /\ b \in DOMAIN t /\ t[b] = line /\ b \in Nat
      /\ \A s \in DOMAIN t \ {b} : s \in DOMAIN start /\ t[s] = start[s]
      /\ IF b \in DOMAIN start THEN start[b].of = p /\ start[b].unit = u
         ELSE \A s \in DOMAIN start : ~(start[s].of = p /\ start[s].unit = u)
  BY <1>5, <1>6, UpsertOnly
<1> HIDE DEF t, b
<1>8. OnlyOf(rows, t, p) /\ t \in Seq(LineRows)
  BY <1>4, <1>7, OnlyOfTwice DEF OnlyOf
\* Either the product is muddled, or the row written is the base of the product.
<1>9. ASSUME p \notin muddled' PROVE Based(t, p, b) /\ stockIn'[p] = b /\ x # w
  <2>1. p \notin muddled /\ ~Muddles(p, u, w, v, x)
    BY <1>2, <1>9
  <2>2. CASE article[p] = "none"
    <3>1. \A r \in DOMAIN rows : rows[r].of # p
      BY <2>2 DEF CatalogueInv, RowsOf
    <3>2. \A s \in DOMAIN t : t[s].of = p => s = b
      BY <1>4, <1>7, <3>1
    <3>3. stockIn'[p] = b
      BY <1>1, <1>3, <2>2 DEF CatalogueTypes, b
    <3> QED
      BY <1>5, <1>7, <2>1, <3>2, <3>3 DEF Based, Muddles
  <2>3. CASE article[p] # "none"
    <3> DEFINE a == stockIn[p]
    <3>1. Based(rows, p, a)
      BY <2>1, <2>3 DEF CatalogueInv
    <3>2. BaseRows(p) = {a}
      BY <3>1 DEF Based, BaseRows, RowsOf
    <3>3. unit[rows[a].unit] = w
      BY <1>2, <2>3, <3>2 DEF SameBase
    <3>4. rows[a].unit = u
      BY <2>1, <2>3, <3>2, <3>3 DEF Muddles
    <3>5. \A s \in DOMAIN rows : rows[s].of = p /\ s # a => rows[s].unit # u
      BY <2>1, <3>1, <3>4 DEF Muddles, Based, RowsOf
    <3>6. b = a
      BY <1>4, <1>7, <3>1, <3>4, <3>5 DEF Based
    <3>7. \A s \in DOMAIN t : t[s].of = p /\ s # b => ~t[s].base /\ t[s].parent = b
      BY <1>4, <1>7, <3>1, <3>6 DEF Based
    <3>8. stockIn'[p] = b
      BY <1>1, <2>3, <3>6
    <3> QED
      BY <1>5, <1>7, <2>1, <3>7, <3>8 DEF Based, Muddles
  <2> QED
    BY <2>2, <2>3
<1>10. OnlyOf(rows, rows', p) /\ (p \notin muddled' => Based(rows', p, b))
  <2>1. CASE x = NoWord
    BY <1>1, <1>8, <1>9, <2>1 DEF t
  <2>2. CASE x # NoWord
    <3> DEFINE more == RowOf(p, v, f, FALSE, b, TRUE)
    <3>1. PICK second \in Upserts(t, more) : rows' = second.table
      BY <1>1, <2>2 DEF t, b
    <3>2. more \in LineRows /\ more.of = p /\ more.unit = v /\ ~more.base /\ more.parent = b
      BY <1>7 DEF RowOf, LineRows
    <3> HIDE DEF more
    <3> DEFINE c == second.row
    <3>3. /\ OnlyOf(t, rows', p) /\ c \in DOMAIN rows' /\ rows'[c] = more
          /\ \A s \in DOMAIN rows' \ {c} : s \in DOMAIN t /\ rows'[s] = t[s]
          /\ c \in DOMAIN t => t[c].of = p /\ t[c].unit = v
      BY <1>8, <3>1, <3>2, UpsertOnly
    <3> HIDE DEF c
    <3>4. OnlyOf(rows, rows', p)
      BY <1>8, <3>3, OnlyOfTwice
    <3>5. ASSUME p \notin muddled' PROVE Based(rows', p, b)
      <4>1. Based(t, p, b) /\ v # u
        BY <1>2, <1>9, <2>2, <3>5
      <4>2. c # b
        BY <1>5, <1>7, <3>3, <4>1
      <4>3. b \in DOMAIN rows' /\ rows'[b] = t[b]
        BY <3>3, <4>2, <1>7 DEF OnlyOf
      <4> QED
        BY <3>2, <3>3, <4>1, <4>3 DEF Based
    <3> QED
      BY <3>4, <3>5
  <2> QED
    BY <2>1, <2>2
<1>11. /\ article' \in [Articles -> {"none", "active", "inactive"}] /\ stockIn' \in [Articles -> Nat]
       /\ article'[p] # "none" /\ muddled \subseteq muddled'
       /\ \A q \in Articles \ {p} : article'[q] = article[q] /\ stockIn'[q] = stockIn[q]
  BY <1>1, <1>2, <1>3, <1>7 DEF CatalogueTypes, b
<1> QED
  BY <1>9, <1>10, <1>11, WrittenKeeps

\* No form, import or renaming disturbs the invariant.
LEMMA CatalogueStep ==
  ASSUME CatalogueInv, CatalogueNext
  PROVE  CatalogueInv'
<1>1. CASE Import
  <2>1. CASE BeginImport \/ EndImport
    BY <2>1, UnwrittenKeeps DEF BeginImport, EndImport, CatalogueInv, CatalogueTypes
  <2> QED
    BY <1>1, <2>1, ImportKeepsBase DEF Import
<1>2. CASE EditUnit
  BY <1>2, UnwrittenKeeps DEF EditUnit, CreateUnit, RenameUnit, CatalogueInv, CatalogueTypes
<1>3. ASSUME NEW p \in Articles, EditProduct(p) PROVE CatalogueInv'
  <2>1. ASSUME NEW status \in {"active", "inactive"}, ToggleStatus(p, status) PROVE CatalogueInv'
    BY <2>1, UnwrittenKeeps DEF ToggleStatus, CatalogueInv, CatalogueTypes
  <2>2. ASSUME NEW b \in BaseRows(p), NEW k \in DOMAIN rows, NEW u \in UnitIds, NEW w \in Words,
               NEW base \in BaseLines(p, b), UpdateProduct(p, b, base, k, u, w) \/ AddLine(p, b, base, k, u, w)
        PROVE  CatalogueInv'
    BY <2>2, UpdateKeepsBase, AddKeepsBase DEF BaseLines
  <2> QED
    BY <1>3, <2>1, <2>2, CreateKeepsBase, CreateWithKeepsBase DEF EditProduct
<1> QED
  BY <1>1, <1>2, <1>3 DEF CatalogueNext

CatalogueSpec == CatalogueInit /\ [][CatalogueNext]_catalogueVars

\* The inductive invariant of the catalogue: in every reachable state a product that no
\* import has muddled has one base row, the unit of its stock.
THEOREM CatalogueInvariant == CatalogueSpec => []CatalogueInv
<1>1. CatalogueInit => CatalogueInv
  BY DEF CatalogueInit, CatalogueInv, CatalogueTypes, RowsOf
<1>2. CatalogueInv /\ [CatalogueNext]_catalogueVars => CatalogueInv'
  <2>1. ASSUME CatalogueInv, UNCHANGED catalogueVars PROVE CatalogueInv'
    BY <2>1 DEF catalogueVars, CatalogueInv, CatalogueTypes, RowsOf
  <2> QED
    BY <2>1, CatalogueStep
<1> QED
  BY <1>1, <1>2, PTL DEF CatalogueSpec

\* However many products, units and imports there are, a product that no import has
\* muddled keeps one base unit, in use, in which its stock is counted.
THEOREM OneBaseEachAlways == CatalogueSpec => []OneBaseEach
<1>1. ASSUME CatalogueInv PROVE OneBaseEach
  <2> SUFFICES ASSUME NEW p \in Articles, article[p] # "none", p \notin muddled
               PROVE  \E b \in RowsOf(p) :
                        /\ BaseRows(p) = {b} /\ rows[b].active /\ rows[b].factor = 1 /\ stockIn[p] = b
                        /\ \A r \in RowsOf(p) \ {b} : rows[r].parent = b
    BY DEF OneBaseEach
  <2>1. Based(rows, p, stockIn[p])
    BY <1>1 DEF CatalogueInv
  <2> DEFINE b == stockIn[p]
  <2>2. /\ b \in RowsOf(p) /\ BaseRows(p) = {b} /\ rows[b].active /\ rows[b].factor = 1
        /\ \A r \in RowsOf(p) \ {b} : rows[r].parent = b
    BY <2>1 DEF Based, RowsOf, BaseRows
  <2> QED
    BY <2>2
<1> QED
  BY <1>1, CatalogueInvariant, PTL
-----------------------------------------------------------------------------
(***************************************************************************)
(* Aliases                                                                 *)
(***************************************************************************)

Families == {Products, Units}

AliasRows == {NoAlias} \cup [of : Targets, name : Names]

\* What a page shows: nothing, or an alias there was.
Glances == [id : AliasIds \cup {CHOOSE i \in AliasIds : TRUE}, name : Names \cup {<<>>}]

TextTypes ==
  /\ official \in [Targets -> Names] /\ alias \in [AliasIds -> AliasRows]
  /\ renamed \in SUBSET Targets /\ shown \in [Managers -> Glances]

\* Of products, or of units, no two aliases are the same, and what has an alias as its
\* official name has got it by a renaming.
Distinct(family) ==
  /\ \A i, j \in AliasIds :
       alias[i].of \in family /\ alias[j].of \in family /\ alias[i].name = alias[j].name => i = j
  /\ \A i \in AliasIds, s \in family :
       alias[i].of \in family /\ official[s] = alias[i].name => s \in renamed

TextInv ==
  /\ TextTypes
  /\ \A m \in Managers : shown[m].name # <<>> => shown[m].id \in AliasIds
  /\ \A family \in Families : Distinct(family)

\* What is of a kind has that kind.
LEMMA KindIs ==
  ASSUME NEW family \in Families, NEW t \in family
  PROVE  t \in Targets /\ KindOf(t) = family /\ t # NoTarget
BY OrderTextAssumption DEF Families, KindOf, Targets

\* Another name of the same kind leaves the aliases of that kind distinct.
LEMMA CreateAliasesKeeps ==
  ASSUME TextInv, NEW t \in Targets, NEW ns \in SUBSET Names, CreateAliases(t, ns)
  PROVE  TextInv'
<1>0. PICK ids \in SUBSET AliasIds : \E b \in [ids -> ns] :
        /\ IsInjective(b)
        /\ alias' = [i \in AliasIds |-> IF i \in ids THEN [of |-> t, name |-> b[i]] ELSE alias[i]]
  BY DEF CreateAliases
<1>1. PICK b \in [ids -> ns] :
        /\ IsInjective(b)
        /\ alias' = [i \in AliasIds |-> IF i \in ids THEN [of |-> t, name |-> b[i]] ELSE alias[i]]
  BY <1>0
<1>2. /\ UNCHANGED <<official, shown, renamed>>
      /\ \A n \in ns : /\ \A i \in AliasIds : ~(alias[i].of \in KindOf(t) /\ alias[i].name = n)
                       /\ \A s \in KindOf(t) : official[s] # n
  BY DEF CreateAliases, ValidName, Taken
<1>3. TextTypes'
  BY <1>1, <1>2 DEF TextInv, TextTypes, AliasRows
<1>4. ASSUME NEW family \in Families PROVE Distinct(family)'
  <2>1. Distinct(family)
    BY DEF TextInv
  <2>2. \A i \in AliasIds : alias'[i] = IF i \in ids THEN [of |-> t, name |-> b[i]] ELSE alias[i]
    BY <1>1
  <2>3. ASSUME NEW i \in ids, alias'[i].of \in family
        PROVE  /\ KindOf(t) = family /\ b[i] \in ns /\ alias'[i].name = b[i]
               /\ \A j \in AliasIds : ~(alias[j].of \in family /\ alias[j].name = alias'[i].name)
               /\ \A s \in family : official[s] # alias'[i].name
    <3>1. alias'[i].of = t /\ alias'[i].name = b[i] /\ b[i] \in ns
      BY <1>0, <1>1, <2>2
    <3>2. KindOf(t) = family
      BY <2>3, <3>1, KindIs
    <3>3. /\ \A j \in AliasIds : ~(alias[j].of \in KindOf(t) /\ alias[j].name = b[i])
          /\ \A s \in KindOf(t) : official[s] # b[i]
      BY <1>2, <3>1, Zenon
    <3> QED
      BY <3>1, <3>2, <3>3
  <2>4. ASSUME NEW i \in AliasIds, NEW j \in AliasIds,
               alias'[i].of \in family, alias'[j].of \in family, alias'[i].name = alias'[j].name
        PROVE  i = j
    <3>1. CASE i \in ids /\ j \in ids
      <4>1. b[i] = b[j]
        BY <2>3, <2>4, <3>1
      <4> QED
        BY <1>1, <3>1, <4>1 DEF IsInjective
    <3>2. CASE i \notin ids /\ j \notin ids
      BY <2>1, <2>2, <2>4, <3>2 DEF Distinct
    <3>3. CASE i \in ids /\ j \notin ids
      BY <2>2, <2>3, <2>4, <3>3
    <3>4. CASE i \notin ids /\ j \in ids
      BY <2>2, <2>3, <2>4, <3>4
    <3> QED
      BY <3>1, <3>2, <3>3, <3>4
  <2>5. ASSUME NEW i \in AliasIds, NEW s \in family, alias'[i].of \in family, official'[s] = alias'[i].name
        PROVE  s \in renamed'
    <3>1. CASE i \in ids
      BY <1>2, <2>3, <2>5, <3>1
    <3>2. CASE i \notin ids
      BY <1>2, <2>1, <2>2, <2>5, <3>2 DEF Distinct
    <3> QED
      BY <3>1, <3>2
  <2> QED
    BY <2>4, <2>5 DEF Distinct
<1> QED
  BY <1>2, <1>3, <1>4 DEF TextInv

\* The alias that a page shows, if it is still so called, is there.
LEMMA ShownIsThere ==
  ASSUME TextInv, NEW m \in Managers, Unchanged(m)
  PROVE  /\ shown[m].id \in AliasIds /\ alias[shown[m].id] \in [of : Targets, name : Names]
         /\ shown[m] \in Glances
BY DEF TextInv, TextTypes, Unchanged, AliasRows, NoAlias

\* Another name for an alias leaves the aliases distinct.
LEMMA ChangeAliasKeeps ==
  ASSUME TextInv, NEW m \in Managers, NEW n \in Names, ChangeAlias(m, n)
  PROVE  TextInv'
<1> DEFINE i == shown[m].id
           t == alias[i].of
<1>1. /\ alias' = [alias EXCEPT ![i].name = n] /\ shown' = [shown EXCEPT ![m].name = <<>>]
      /\ UNCHANGED <<official, renamed>> /\ Unchanged(m)
      /\ \A j \in AliasIds \ {i} : ~(alias[j].of \in KindOf(t) /\ alias[j].name = n)
      /\ \A s \in KindOf(t) : official[s] # n
  BY DEF ChangeAlias, ValidName, Taken
<1>2. i \in AliasIds /\ alias[i] \in [of : Targets, name : Names] /\ shown[m] \in Glances
  BY <1>1, ShownIsThere
<1> HIDE DEF i
<1>3. /\ alias'[i].of = t /\ alias'[i].name = n /\ alias'[i] \in AliasRows
      /\ \A j \in AliasIds \ {i} : alias'[j] = alias[j]
      /\ alias' \in [AliasIds -> AliasRows]
  BY <1>1, <1>2 DEF TextInv, TextTypes, AliasRows
<1>4. TextTypes' /\ \A k \in Managers : shown'[k].name # <<>> => shown'[k].id \in AliasIds
  BY <1>1, <1>2, <1>3 DEF TextInv, TextTypes, Glances
<1>5. ASSUME NEW family \in Families PROVE Distinct(family)'
  <2>1. Distinct(family)
    BY DEF TextInv
  <2>2. t \in family => KindOf(t) = family
    BY KindIs
  <2> QED
    BY <1>1, <1>2, <1>3, <2>1, <2>2 DEF Distinct
<1> QED
  BY <1>4, <1>5 DEF TextInv

\* Neither does the end of an alias.
LEMMA DeleteAliasKeeps ==
  ASSUME TextInv, NEW m \in Managers, DeleteAlias(m)
  PROVE  TextInv'
<1> DEFINE i == shown[m].id
<1>1. /\ alias' = [alias EXCEPT ![i] = NoAlias] /\ shown' = [shown EXCEPT ![m].name = <<>>]
      /\ UNCHANGED <<official, renamed>> /\ Unchanged(m)
  BY DEF DeleteAlias
<1>2. i \in AliasIds /\ shown[m] \in Glances
  BY <1>1, ShownIsThere
<1> HIDE DEF i
<1>3. /\ alias'[i] = NoAlias /\ \A j \in AliasIds \ {i} : alias'[j] = alias[j]
      /\ alias' \in [AliasIds -> AliasRows]
  BY <1>1, <1>2 DEF TextInv, TextTypes, AliasRows
<1>4. TextTypes' /\ \A k \in Managers : shown'[k].name # <<>> => shown'[k].id \in AliasIds
  BY <1>1, <1>2, <1>3 DEF TextInv, TextTypes, Glances
<1>5. ASSUME NEW family \in Families PROVE Distinct(family)'
  <2>1. Distinct(family) /\ NoTarget \notin family
    BY KindIs DEF TextInv
  <2>2. alias'[i].of \notin family
    BY <1>3, <2>1 DEF NoAlias
  <2> QED
    BY <1>1, <1>2, <1>3, <2>1, <2>2 DEF Distinct
<1> QED
  BY <1>4, <1>5 DEF TextInv

\* A renaming is the only thing that gives the name of an alias away.
LEMMA RenameKeeps ==
  ASSUME TextInv, NEW t \in Targets, NEW n \in Names, Rename(t, n)
  PROVE  TextInv'
<1>1. official' = [official EXCEPT ![t] = n] /\ renamed' = renamed \cup {t} /\ UNCHANGED <<alias, shown>>
  BY DEF Rename
<1>2. TextTypes' /\ \A m \in Managers : shown'[m].name # <<>> => shown'[m].id \in AliasIds
  BY <1>1 DEF TextInv, TextTypes
<1>3. ASSUME NEW family \in Families PROVE Distinct(family)'
  <2>1. Distinct(family) /\ family \subseteq Targets
    BY DEF TextInv, Families, Targets
  <2>2. \A s \in family : s # t => official'[s] = official[s]
    BY <1>1, <2>1 DEF TextInv, TextTypes
  <2> QED
    BY <1>1, <2>1, <2>2 DEF Distinct
<1> QED
  BY <1>2, <1>3 DEF TextInv

\* No write of a name or price disturbs the invariant.
LEMMA TextNextKeeps ==
  ASSUME TextInv, [TextNext]_textVars
  PROVE  TextInv'
<1>1. ASSUME UNCHANGED <<official, alias, shown, renamed>> PROVE TextInv'
  BY <1>1 DEF TextInv, TextTypes, Distinct
<1>2. ASSUME NEW t \in Targets, NEW n \in Names, NEW m \in Names, CreateAliases(t, {n, m}) PROVE TextInv'
  <2>1. {n, m} \in SUBSET Names
    OBVIOUS
  <2> QED
    BY <1>2, <2>1, CreateAliasesKeeps
<1>3. ASSUME NEW m \in Managers, NEW i \in AliasIds, OpenAlias(m, i) PROVE TextInv'
  <2>1. alias[i] \in [of : Targets, name : Names]
    BY <1>3 DEF OpenAlias, TextInv, TextTypes, AliasRows
  <2> DEFINE glance == [id |-> i, name |-> alias[i].name]
  <2>2. glance \in Glances /\ glance.id \in AliasIds
    BY <2>1 DEF Glances
  <2>3. shown' = [shown EXCEPT ![m] = glance] /\ UNCHANGED <<official, alias, renamed>>
    BY <1>3 DEF OpenAlias
  <2> HIDE DEF glance
  <2>4. TextTypes' /\ \A k \in Managers : shown'[k].name # <<>> => shown'[k].id \in AliasIds
    BY <2>2, <2>3 DEF TextInv, TextTypes
  <2> QED
    BY <2>3, <2>4 DEF TextInv, Distinct
<1>4. ASSUME NEW pairs, NEW mode, UpdateSnapshot(mode, pairs) PROVE TextInv'
  BY <1>1, <1>4 DEF UpdateSnapshot
<1>5. ASSUME UpdateGuestPrices(Sold) PROVE TextInv'
  BY <1>1, <1>5 DEF UpdateGuestPrices
<1>6. CASE UNCHANGED textVars
  BY <1>1, <1>6 DEF textVars
<1> QED
  BY <1>2, <1>3, <1>4, <1>5, <1>6, ChangeAliasKeeps, DeleteAliasKeeps, RenameKeeps DEF TextNext

TextSpec == TextInit /\ [][TextNext]_textVars

\* The inductive invariant of the names: in every reachable state no two products, and no
\* two units, have the same alias, nor an alias that is another's name but by a renaming.
THEOREM TextInvariant == TextSpec => []TextInv
<1>1. ASSUME TextInit PROVE TextInv
  <2>1. /\ official \in [Targets -> Names] /\ renamed = {}
        /\ alias = [i \in AliasIds |-> NoAlias]
        /\ shown = [m \in Managers |-> [id |-> CHOOSE i \in AliasIds : TRUE, name |-> <<>>]]
    BY <1>1, OrderTextAssumption DEF TextInit, Targets
  <2>2. TextTypes /\ \A m \in Managers : shown[m].name = <<>>
    BY <2>1 DEF TextTypes, AliasRows, Glances
  <2>3. ASSUME NEW family \in Families, NEW i \in AliasIds PROVE alias[i].of \notin family
    BY <2>1, KindIs DEF NoAlias
  <2>4. \A family \in Families : Distinct(family)
    BY <2>3 DEF Distinct
  <2> QED
    BY <2>2, <2>4 DEF TextInv
<1> QED
  BY <1>1, TextNextKeeps, PTL DEF TextSpec

\* An alias that nobody was given as an official name stands for one product or unit.
LEMMA AliasMeansOne ==
  ASSUME TextInv
  PROVE  AliasesUnderstood
<1> SUFFICES ASSUME NEW i \in AliasIds, alias[i] # NoAlias,
                    ~\E t \in renamed \cap KindOf(alias[i].of) : official[t] = alias[i].name
             PROVE  ChooseWords(KindOf(alias[i].of), alias[i].name) = {alias[i].of}
  BY DEF AliasesUnderstood
<1> DEFINE family == KindOf(alias[i].of)
           n == alias[i].name
<1>1. alias[i].of \in Targets
  BY DEF TextInv, TextTypes, AliasRows
<1>2. family \in Families /\ alias[i].of \in family
  BY <1>1 DEF KindOf, Families, Targets
<1>3. Distinct(family)
  BY <1>2 DEF TextInv
<1> HIDE DEF family
<1>4. Named(family, n) = {}
  <2>1. \A s \in family : official[s] # n
    BY <1>2, <1>3 DEF Distinct, family
  <2> QED
    BY <2>1 DEF Named
<1>5. Nicknamed(family, n) = {alias[i].of}
  <2>1. {j \in AliasIds : alias[j].of \in family /\ alias[j].name = n} = {i}
    BY <1>2, <1>3 DEF Distinct
  <2> QED
    BY <2>1 DEF Nicknamed
<1> QED
  BY <1>4, <1>5 DEF ChooseWords, family

-----------------------------------------------------------------------------
(***************************************************************************)
(* Sequences put one after the other                                       *)
(***************************************************************************)

\* One sequence after the other, by a name that keeps it whole.
Join(s, t) == s \o t

\* Three sequences may be joined in either order.
LEMMA JoinThree ==
  \A W : \A x, u, v \in Seq(W) :
    Join(u, v) \in Seq(W) /\ Join(Join(x, u), v) = Join(x, Join(u, v))
<1>1. ASSUME NEW W, NEW x \in Seq(W), NEW u \in Seq(W), NEW v \in Seq(W)
      PROVE  Join(u, v) \in Seq(W) /\ Join(Join(x, u), v) = Join(x, Join(u, v))
  <2>1. u \o v \in Seq(W)
    BY <1>1, ConcatProperties
  <2>2. (x \o u) \o v = x \o (u \o v)
    BY <1>1, ConcatAssociative, SMTT(60)
  <2> QED
    BY <2>1, <2>2 DEF Join
<1> QED
  BY <1>1

\* FlattenSeq puts one sequence after the other.
LEMMA FlattenUnfolds ==
  ASSUME NEW W, NEW s \in Seq(Seq(W)), s # <<>>
  PROVE  \E f : /\ f = [i \in 1 .. Len(s) |-> IF i = 1 THEN s[i] ELSE f[i - 1] \o s[i]]
                /\ FlattenSeq(s) = f[Len(s)]
<1> DEFINE L == Len(s)
           S == {m \in Nat : \E f : f = [i \in 1 .. m |-> IF i = 1 THEN s[i] ELSE f[i - 1] \o s[i]]}
<1>1. L \in Nat /\ L # 0
  OBVIOUS
<1>2. 0 \in S
  <2> DEFINE f == [i \in 1 .. 0 |-> s[1]]
  <2>1. f = [i \in 1 .. 0 |-> IF i = 1 THEN s[i] ELSE f[i - 1] \o s[i]]
    OBVIOUS
  <2> QED
    BY <2>1, Zenon
<1>3. ASSUME NEW m \in Nat, m \in S PROVE m + 1 \in S
  <2>1. PICK f : f = [i \in 1 .. m |-> IF i = 1 THEN s[i] ELSE f[i - 1] \o s[i]]
    BY <1>3, Zenon
  <2> DEFINE last == IF m = 0 THEN s[1] ELSE f[m] \o s[m + 1]
             g == [i \in 1 .. m + 1 |-> IF i <= m THEN f[i] ELSE last]
             h == [i \in 1 .. m + 1 |-> IF i = 1 THEN s[i] ELSE g[i - 1] \o s[i]]
  <2>2. ASSUME NEW i \in 1 .. m + 1 PROVE g[i] = h[i]
    <3>1. CASE i = m + 1
      <4>1. CASE m = 0
        BY <3>1, <4>1
      <4>2. CASE m # 0
        <5>0. m \in 1 .. m + 1 /\ i # 1 /\ i - 1 = m /\ ~(i <= m)
          BY <3>1, <4>2
        <5>1. g[m] = f[m] /\ g[i] = f[m] \o s[m + 1] /\ i # 1 /\ i - 1 = m
          <6>1. g[m] = f[m]
            BY <5>0
          <6>2. g[i] = last
            BY <5>0
          <6>3. last = f[m] \o s[m + 1]
            BY <4>2
          <6> QED
            BY <5>0, <6>1, <6>2, <6>3
        <5>2. h[i] = g[i - 1] \o s[i]
          BY <5>1
        <5> QED
          BY <3>1, <5>1, <5>2
      <4> QED
        BY <4>1, <4>2
    <3>2. CASE i \in 1 .. m
      <4>1. f[i] = IF i = 1 THEN s[i] ELSE f[i - 1] \o s[i]
        BY <2>1, <3>2
      <4>2. g[i] = f[i] /\ (i # 1 => g[i - 1] = f[i - 1])
        BY <3>2
      <4> QED
        BY <4>1, <4>2
    <3> QED
      BY <3>1, <3>2
  <2>3. g = h
    BY <2>2
  <2>4. m + 1 \in Nat
    OBVIOUS
  <2> HIDE DEF g
  <2> QED
    BY <2>3, <2>4, Zenon
<1> HIDE DEF S
<1>4. L \in S
  BY <1>1, <1>2, <1>3, FromZeroOn
<1>5. \E f : f = [i \in 1 .. L |-> IF i = 1 THEN s[i] ELSE f[i - 1] \o s[i]]
  BY <1>4, Zenon DEF S
<1> DEFINE all == CHOOSE f : f = [i \in 1 .. L |-> IF i = 1 THEN s[i] ELSE f[i - 1] \o s[i]]
<1>6. all = [i \in 1 .. L |-> IF i = 1 THEN s[i] ELSE all[i - 1] \o s[i]]
  BY <1>5, Zenon
<1>7. FlattenSeq(s) = all[L]
  BY <1>1, Zenon DEF FlattenSeq
<1> HIDE DEF all
<1> QED
  BY <1>6, <1>7, Zenon

\* A sequence in front comes first.
LEMMA FlattenAfter ==
  ASSUME NEW W, NEW s \in Seq(Seq(W)), NEW x \in Seq(W)
  PROVE  FlattenSeq(s) \in Seq(W) /\ FlattenSeq(<<x>> \o s) = x \o FlattenSeq(s)
<1> DEFINE t == <<x>> \o s
           L == Len(s)
<1>1. /\ L \in Nat /\ t \in Seq(Seq(W)) /\ Len(t) = L + 1 /\ t # <<>> /\ t[1] = x
      /\ \A i \in 1 .. L : s[i] \in Seq(W) /\ t[i + 1] = s[i]
  OBVIOUS
<1> HIDE DEF t
<1>2. PICK g : /\ g = [i \in 1 .. Len(t) |-> IF i = 1 THEN t[i] ELSE g[i - 1] \o t[i]]
               /\ FlattenSeq(t) = g[Len(t)]
  BY <1>1, FlattenUnfolds, Zenon
<1>3. g[1] = x /\ \A i \in 1 .. L : g[i + 1] = g[i] \o s[i]
  <2>1. g[1] = x
    <3>1. 1 \in 1 .. Len(t)
      BY <1>1
    <3> QED
      BY <1>1, <1>2, <3>1
  <2>2. ASSUME NEW i \in 1 .. L PROVE g[i + 1] = g[i] \o s[i]
    <3>1. i + 1 \in 1 .. Len(t) /\ i + 1 # 1 /\ (i + 1) - 1 = i
      BY <1>1
    <3>2. g[i + 1] = g[(i + 1) - 1] \o t[i + 1]
      BY <1>2, <3>1
    <3> QED
      BY <1>1, <3>1, <3>2
  <2> QED
    BY <2>1, <2>2
<1>4. CASE s = <<>>
  <2>1. FlattenSeq(s) = <<>> /\ L = 0
    BY <1>4 DEF FlattenSeq
  <2>2. FlattenSeq(t) = x
    BY <1>1, <1>2, <1>3, <2>1
  <2> QED
    BY <2>1, <2>2 DEF t
<1>5. CASE s # <<>>
  <2>1. PICK f : /\ f = [i \in 1 .. L |-> IF i = 1 THEN s[i] ELSE f[i - 1] \o s[i]]
                 /\ FlattenSeq(s) = f[L]
    BY <1>5, FlattenUnfolds, Zenon
  <2> DEFINE S == {m \in Nat : m \in 1 .. L => f[m] \in Seq(W) /\ g[m + 1] = x \o f[m]}
  <2>2. 0 \in S
    OBVIOUS
  <2>3. ASSUME NEW m \in Nat, m \in S PROVE m + 1 \in S
    <3> SUFFICES ASSUME m + 1 \in 1 .. L
                 PROVE  f[m + 1] \in Seq(W) /\ g[(m + 1) + 1] = x \o f[m + 1]
      OBVIOUS
    <3>1. s[m + 1] \in Seq(W) /\ g[(m + 1) + 1] = g[m + 1] \o s[m + 1]
      BY <1>1, <1>3
    <3>2. CASE m = 0
      <4>1. f[m + 1] = s[m + 1]
        BY <2>1, <3>2
      <4>2. g[m + 1] = x
        BY <1>3, <3>2
      <4> QED
        BY <3>1, <4>1, <4>2
    <3>3. CASE m # 0
      <4>1. m \in 1 .. L /\ m + 1 # 1 /\ (m + 1) - 1 = m
        BY <3>3, <1>1
      <4>2. f[m + 1] = f[(m + 1) - 1] \o s[m + 1]
        BY <2>1, <4>1
      <4>3. f[m] \in Seq(W) /\ g[m + 1] = x \o f[m]
        BY <2>3, <4>1
      <4>4. (x \o f[m]) \o s[m + 1] = x \o (f[m] \o s[m + 1]) /\ f[m] \o s[m + 1] \in Seq(W)
        <5>1. /\ Join(f[m], s[m + 1]) \in Seq(W)
              /\ Join(Join(x, f[m]), s[m + 1]) = Join(x, Join(f[m], s[m + 1]))
          BY <3>1, <4>3, JoinThree
        <5> QED
          BY <5>1 DEF Join
      <4> QED
        BY <3>1, <4>1, <4>2, <4>3, <4>4
    <3> QED
      BY <3>2, <3>3
  <2> HIDE DEF S
  <2>4. L \in S
    BY <1>1, <2>2, <2>3, FromZeroOn
  <2>5. L \in 1 .. L
    BY <1>1, <1>5
  <2>6. f[L] \in Seq(W) /\ g[L + 1] = x \o f[L]
    BY <2>4, <2>5 DEF S
  <2> QED
    BY <1>1, <1>2, <2>1, <2>6 DEF t
<1> QED
  BY <1>4, <1>5

-----------------------------------------------------------------------------
(***************************************************************************)
(* The reading of a line                                                   *)
(***************************************************************************)

TextWords == Int \cup UNION {Range(n) : n \in Names}

Doubts == {"format", "quantity", "no unit", "unknown unit", "which unit", "product"}

TextRows ==
  [product : Products \cup {NoTarget}, unit : Units \cup {NoTarget}, quantity : Int, why : SUBSET Doubts]

\* Names are sequences of words.
LEMMA NamesAreWords == Names \subseteq Seq(TextWords)
<1> SUFFICES ASSUME NEW n \in Names PROVE n \in Seq(TextWords)
  OBVIOUS
<1>1. n \in Seq(UNION {Range(m) : m \in Names})
  BY OrderTextAssumption
<1>2. UNION {Range(m) : m \in Names} \subseteq TextWords
  BY DEF TextWords
<1> HIDE DEF TextWords
<1> QED
  BY <1>1, <1>2, SeqMonotonic

\* What a name is taken for bears it.
LEMMA ChosenBears ==
  ASSUME TextTypes, NEW family \in Families, NEW n \in Names, NEW t \in ChooseWords(family, n)
  PROVE  t \in family /\ Bears(family, t, n)
<1>1. CASE Named(family, n) # {}
  BY <1>1 DEF ChooseWords, Named, Bears
<1>2. CASE Named(family, n) = {}
  <2>1. t \in Nicknamed(family, n)
    BY <1>2 DEF ChooseWords
  <2>2. t \in family
    BY <2>1 DEF Nicknamed
  <2>3. \A s \in family : official[s] # n
    BY <1>2 DEF Named
  <2> QED
    BY <2>1, <2>2, <2>3 DEF Bears
<1> QED
  BY <1>1, <1>2

\* The one that a set has.
LEMMA OnlyOne ==
  ASSUME NEW S, NEW T, IsFiniteSet(T), S \subseteq T, Cardinality(S) = 1
  PROVE  \E x : S = {x} /\ (CHOOSE y \in S : TRUE) = x
<1>1. IsFiniteSet(S)
  BY FS_Subset
<1>2. PICK x : S = {x}
  BY <1>1, FS_Singleton
<1> QED
  BY <1>2

\* A number and what follows it are the beginning of the rest of a text.
LEMMA CutOff ==
  ASSUME NEW W, NEW text \in Seq(W), NEW k \in 1 .. Len(text), NEW n \in Seq(W),
         IsPrefix(n, SubSeq(text, k + 1, Len(text)))
  PROVE  /\ Len(n) \in Nat /\ k + 1 + Len(n) \in k + 1 .. Len(text) + 1
         /\ SubSeq(text, k, Len(text))
              = (<<text[k]>> \o n) \o SubSeq(text, k + 1 + Len(n), Len(text))
<1> DEFINE L == Len(text)
           after == SubSeq(text, k + 1, L)
           rest == SubSeq(text, k + 1 + Len(n), L)
           one == <<text[k]>>
<1>1. Len(n) \in Nat /\ L \in Nat
  OBVIOUS
<1>2. after \in Seq(W) /\ Len(after) = L - k
  BY <1>1
<1>3. Len(n) <= Len(after) /\ SubSeq(n, 1, Len(n)) = SubSeq(after, 1, Len(n))
  BY DEF IsPrefix
<1>4. n = SubSeq(text, k + 1, k + Len(n))
  <2>1. SubSeq(n, 1, Len(n)) = n
    BY SubSeqFull
  <2>2. SubSeq(after, 1, Len(n)) = SubSeq(text, k + 1, k + Len(n))
    BY <1>1, <1>2, <1>3
  <2> QED
    BY <1>3, <2>1, <2>2
<1>5. SubSeq(text, k, L) = one \o after
  <2>1. L \in k .. L
    BY <1>1
  <2> QED
    BY <2>1, SubSeqRecursiveFirst
<1>6. after = n \o rest
  <2>1. /\ k + 1 \in 1 .. L + 1 /\ k + Len(n) \in (k + 1) - 1 .. L /\ L \in k + Len(n) .. L
        /\ (k + Len(n)) + 1 = k + 1 + Len(n)
    BY <1>1, <1>2, <1>3
  <2>2. SubSeq(text, k + 1, k + Len(n)) \o SubSeq(text, (k + Len(n)) + 1, L) = SubSeq(text, k + 1, L)
    BY <2>1, ConcatAdjacentSubSeq
  <2> QED
    BY <1>4, <2>1, <2>2
<1>7. one \in Seq(W) /\ rest \in Seq(W)
  BY <1>1, <1>2, <1>3
<1> HIDE DEF after, rest, one
<1>8. (one \o n) \o rest = one \o (n \o rest)
  <2>1. Join(Join(one, n), rest) = Join(one, Join(n, rest))
    BY <1>7, JoinThree
  <2> QED
    BY <2>1 DEF Join
<1>9. SubSeq(text, k, L) = (one \o n) \o rest
  BY <1>5, <1>6, <1>8
<1> QED
  BY <1>1, <1>2, <1>3, <1>9 DEF one, rest

\* A name of a unit after a number.
LEMMA UnitFollows ==
  ASSUME NEW text \in Seq(TextWords), NEW k \in 1 .. Len(text), NEW n \in UnitAt(text, k)
  PROVE  /\ n \in Names /\ ChooseWords(Units, n) # {} /\ Len(n) \in Nat
         /\ k + 1 + Len(n) \in k + 1 .. Len(text) + 1
         /\ SubSeq(text, k, Len(text))
              = (<<text[k]>> \o n) \o SubSeq(text, k + 1 + Len(n), Len(text))
<1>1. n \in Names /\ ChooseWords(Units, n) # {} /\ IsPrefix(n, SubSeq(text, k + 1, Len(text)))
  BY DEF UnitAt, Longest, Recognised
<1>2. n \in Seq(TextWords)
  BY <1>1, NamesAreWords
<1> QED
  BY <1>1, <1>2, CutOff

\* What AmountsFrom says of position k, given what it says of later ones.
Piece(p, text, from, k) ==
  IF k > Len(text) THEN <<>>
  ELSE IF text[k] \notin Numbers THEN <<Unread(p)>>
  ELSE IF UnitAt(text, k) = {}
    THEN <<Row(p, NoTarget, text[k],
               Doubt(text[k]) \cup {IF k = Len(text) THEN "no unit" ELSE "unknown unit"})>>
  ELSE LET n == CHOOSE n \in UnitAt(text, k) : TRUE
       IN  <<Amount(p, text[k], n)>> \o from[k + 1 + Len(n)]

\* It depends on later positions only.
LEMMA PieceSame ==
  ASSUME NEW p, NEW text \in Seq(TextWords), NEW k \in 1 .. Len(text) + 1, NEW f, NEW g,
         \A i \in k + 1 .. Len(text) + 1 : f[i] = g[i]
  PROVE  Piece(p, text, f, k) = Piece(p, text, g, k)
<1>1. CASE k > Len(text) \/ text[k] \notin Numbers \/ UnitAt(text, k) = {}
  BY <1>1 DEF Piece
<1>2. CASE ~(k > Len(text) \/ text[k] \notin Numbers \/ UnitAt(text, k) = {})
  <2> DEFINE n == CHOOSE n \in UnitAt(text, k) : TRUE
  <2>1. n \in UnitAt(text, k)
    BY <1>2
  <2>2. k \in 1 .. Len(text)
    BY <1>2
  <2> HIDE DEF n
  <2>3. f[k + 1 + Len(n)] = g[k + 1 + Len(n)]
    BY <2>1, <2>2, UnitFollows
  <2>4. /\ Piece(p, text, f, k) = <<Amount(p, text[k], n)>> \o f[k + 1 + Len(n)]
        /\ Piece(p, text, g, k) = <<Amount(p, text[k], n)>> \o g[k + 1 + Len(n)]
    BY <1>2, Zenon DEF Piece, n
  <2> QED
    BY <2>3, <2>4
<1> QED
  BY <1>1, <1>2

\* The recursion of AmountsFrom is well founded: it says something of every position.
LEMMA AmountsUnfold ==
  ASSUME NEW p, NEW text \in Seq(TextWords)
  PROVE  \E from : /\ AmountsFrom(p, text) = from
                   /\ from = [k \in 1 .. Len(text) + 1 |-> Piece(p, text, from, k)]
<1> DEFINE L == Len(text)
           S == {d \in Nat : d <= L => \E f : f = [k \in L + 1 - d .. L + 1 |-> Piece(p, text, f, k)]}
<1>1. L \in Nat
  OBVIOUS
<1>2. 0 \in S
  <2> DEFINE f == [k \in L + 1 - 0 .. L + 1 |-> <<>>]
             g == [k \in L + 1 - 0 .. L + 1 |-> Piece(p, text, f, k)]
  <2>1. ASSUME NEW k \in L + 1 - 0 .. L + 1 PROVE Piece(p, text, f, k) = <<>>
    BY <1>1 DEF Piece
  <2>2. f = g
    BY <2>1
  <2> HIDE DEF f
  <2> QED
    BY <2>2, Zenon
<1>3. ASSUME NEW d \in Nat, d \in S PROVE d + 1 \in S
  <2>0. d + 1 \in Nat
    OBVIOUS
  <2> SUFFICES ASSUME d + 1 <= L
               PROVE  \E f : f = [k \in L + 1 - (d + 1) .. L + 1 |-> Piece(p, text, f, k)]
    BY <2>0, Zenon
  <2> DEFINE a == L + 1 - d
             b == L + 1 - (d + 1)
  <2>1. d <= L /\ a \in Nat /\ b \in Nat /\ b >= 1 /\ a = b + 1 /\ a <= L + 1
    BY <1>1
  <2>2. PICK f : f = [k \in a .. L + 1 |-> Piece(p, text, f, k)]
    BY <1>3, <2>1, Zenon
  <2> DEFINE first == Piece(p, text, f, b)
             g == [k \in b .. L + 1 |-> IF k >= a THEN f[k] ELSE first]
             h == [k \in b .. L + 1 |-> Piece(p, text, g, k)]
  <2> HIDE DEF first, a, b, S, L
  <2>3. \A k \in a .. L + 1 : f[k] = g[k] /\ f[k] = Piece(p, text, f, k)
    <3> SUFFICES ASSUME NEW k \in a .. L + 1 PROVE f[k] = g[k] /\ f[k] = Piece(p, text, f, k)
      OBVIOUS
    <3>1. f[k] = Piece(p, text, f, k)
      BY <2>2
    <3>2. k \in b .. L + 1 /\ k >= a
      BY <1>1, <2>1
    <3>3. g[k] = f[k]
      BY <3>2
    <3> QED
      BY <3>1, <3>3
  <2>4. ASSUME NEW k \in b .. L + 1 PROVE g[k] = Piece(p, text, g, k)
    <3>1. k \in 1 .. Len(text) + 1
      BY <1>1, <2>1 DEF L
    <3>2. \A i \in k + 1 .. Len(text) + 1 : f[i] = g[i]
      <4>1. \A i \in k + 1 .. Len(text) + 1 : i \in a .. L + 1
        BY <1>1, <2>1 DEF L
      <4> QED
        BY <2>3, <4>1
    <3>3. Piece(p, text, f, k) = Piece(p, text, g, k)
      BY <3>1, <3>2, PieceSame
    <3>4. CASE k = b
      <4>1. ~(k >= a)
        BY <2>1, <3>4
      <4>2. g[k] = first
        BY <4>1
      <4> QED
        BY <3>3, <3>4, <4>2 DEF first
    <3>5. CASE k # b
      <4>1. k \in a .. L + 1
        BY <1>1, <2>1, <3>5
      <4> QED
        BY <2>3, <3>3, <4>1
    <3> QED
      BY <3>4, <3>5
  <2>5. g = h
    BY <2>4
  <2> HIDE DEF g
  <2> QED
    BY <2>5, Zenon DEF b
<1> HIDE DEF S
<1>4. L \in S
  BY <1>1, <1>2, <1>3, FromZeroOn
<1>5. \E f : f = [k \in 1 .. L + 1 |-> Piece(p, text, f, k)]
  <2>1. L + 1 - L = 1 /\ L <= L
    BY <1>1
  <2>2. \E f : f = [k \in L + 1 - L .. L + 1 |-> Piece(p, text, f, k)]
    BY <1>4, <2>1, Zenon DEF S
  <2> HIDE DEF L
  <2> QED
    BY <2>1, <2>2
<1> DEFINE from == CHOOSE f : f = [k \in 1 .. L + 1 |-> Piece(p, text, f, k)]
<1>6. from = [k \in 1 .. L + 1 |-> Piece(p, text, from, k)]
  BY <1>5, Zenon
<1>7. AmountsFrom(p, text) = from
  BY Zenon DEF AmountsFrom, Piece
<1> HIDE DEF from
<1> QED
  BY <1>6, <1>7, Zenon

\* An element in front of a sequence.
LEMMA InFront ==
  ASSUME NEW W, NEW s \in Seq(W), NEW x \in W
  PROVE  /\ <<x>> \o s \in Seq(W) /\ Len(<<x>> \o s) = Len(s) + 1 /\ (<<x>> \o s)[1] = x
         /\ \A k \in 1 .. Len(s) + 1 : k # 1 => (<<x>> \o s)[k] = s[k - 1]
OBVIOUS

\* The rows say what the text says, with a name that each unit bears.
ReadsAs(p, rs, text) ==
  \E ns \in [1 .. Len(rs) -> Names] :
    /\ text = FlattenSeq([k \in 1 .. Len(rs) |-> <<rs[k].quantity>> \o ns[k]])
    /\ \A k \in 1 .. Len(rs) : /\ rs[k].product = p /\ rs[k].unit \in Units /\ rs[k].quantity > 0
                               /\ Bears(Units, rs[k].unit, ns[k])

\* A row and the name of its unit, in front of rows that read as a text.
LEMMA ReadsOn ==
  ASSUME NEW p, NEW rs \in Seq(TextRows), NEW text, ReadsAs(p, rs, text), NEW r \in TextRows,
         r.product = p, r.unit \in Units, r.quantity > 0, NEW n \in Names, Bears(Units, r.unit, n)
  PROVE  ReadsAs(p, <<r>> \o rs, (<<r.quantity>> \o n) \o text)
<1> DEFINE L == Len(rs)
           all == <<r>> \o rs
           x == <<r.quantity>> \o n
<1>1. PICK ns \in [1 .. L -> Names] :
        /\ text = FlattenSeq([k \in 1 .. L |-> <<rs[k].quantity>> \o ns[k]])
        /\ \A k \in 1 .. L : /\ rs[k].product = p /\ rs[k].unit \in Units /\ rs[k].quantity > 0
                             /\ Bears(Units, rs[k].unit, ns[k])
  BY DEF ReadsAs
<1> DEFINE ms == [k \in 1 .. L + 1 |-> IF k = 1 THEN n ELSE ns[k - 1]]
           old == [k \in 1 .. L |-> <<rs[k].quantity>> \o ns[k]]
           new == [k \in 1 .. L + 1 |-> <<all[k].quantity>> \o ms[k]]
<1>2. /\ L \in Nat /\ Len(all) = L + 1 /\ all[1] = r /\ \A k \in 1 .. L : rs[k] \in TextRows
      /\ \A k \in 1 .. L + 1 : k # 1 => k - 1 \in 1 .. L /\ all[k] = rs[k - 1]
  OBVIOUS
<1>3. ms \in [1 .. L + 1 -> Names]
  BY <1>1, <1>2
<1>4. \A k \in 1 .. L + 1 : ms[k] = IF k = 1 THEN n ELSE ns[k - 1]
  OBVIOUS
<1> HIDE DEF all, ms, L
<1>5. ASSUME NEW q \in Int, NEW m \in Names PROVE <<q>> \o m \in Seq(TextWords)
  <2>1. m \in Seq(TextWords) /\ q \in TextWords
    BY <1>5, NamesAreWords DEF TextWords
  <2> HIDE DEF TextWords
  <2> QED
    BY <2>1
<1>6. x \in Seq(TextWords)
  BY <1>5 DEF TextRows
<1>7. old \in [1 .. L -> Seq(TextWords)]
  <2> SUFFICES ASSUME NEW k \in 1 .. L PROVE <<rs[k].quantity>> \o ns[k] \in Seq(TextWords)
    OBVIOUS
  <2>1. rs[k].quantity \in Int /\ ns[k] \in Names
    BY <1>1, <1>2 DEF TextRows
  <2> QED
    BY <1>5, <2>1
<1>8. /\ DOMAIN new = 1 .. L + 1 /\ new[1] = x
      /\ \A k \in 1 .. L + 1 : k # 1 => new[k] = old[k - 1]
  <2>1. DOMAIN new = 1 .. L + 1
    OBVIOUS
  <2>2. new[1] = x
    BY <1>2, <1>4
  <2>3. ASSUME NEW k \in 1 .. L + 1, k # 1 PROVE new[k] = old[k - 1]
    <3>1. k - 1 \in 1 .. L /\ all[k] = rs[k - 1] /\ ms[k] = ns[k - 1]
      BY <1>2, <1>4, <2>3
    <3>2. new[k] = <<all[k].quantity>> \o ms[k] /\ old[k - 1] = <<rs[k - 1].quantity>> \o ns[k - 1]
      BY <3>1
    <3> QED
      BY <3>1, <3>2
  <2> QED
    BY <2>1, <2>2, <2>3
<1>9. new = [k \in 1 .. L + 1 |-> new[k]]
  OBVIOUS
<1>10. text = FlattenSeq(old)
  BY <1>1
<1> HIDE DEF old, new, x
<1>11. old \in Seq(Seq(TextWords)) /\ Len(old) = L
  BY <1>2, <1>7
<1>12. new = <<x>> \o old
  <2>1. /\ <<x>> \o old \in Seq(Seq(TextWords)) /\ Len(<<x>> \o old) = L + 1 /\ (<<x>> \o old)[1] = x
        /\ \A k \in 1 .. L + 1 : k # 1 => (<<x>> \o old)[k] = old[k - 1]
    BY <1>6, <1>11, InFront
  <2>2. \A k \in 1 .. L + 1 : (<<x>> \o old)[k] = new[k]
    BY <1>8, <2>1
  <2>3. <<x>> \o old = [k \in 1 .. L + 1 |-> (<<x>> \o old)[k]]
    BY <1>2, <2>1
  <2> QED
    BY <1>9, <2>2, <2>3
<1>13. FlattenSeq(new) = x \o text
  BY <1>6, <1>10, <1>11, <1>12, FlattenAfter
<1>14. \A k \in 1 .. L + 1 : /\ all[k].product = p /\ all[k].unit \in Units /\ all[k].quantity > 0
                             /\ Bears(Units, all[k].unit, ms[k])
  BY <1>1, <1>2, <1>4
<1>15. ReadsAs(p, all, x \o text)
  BY <1>2, <1>3, <1>13, <1>14, Zenon DEF ReadsAs, new
<1> QED
  BY <1>15 DEF all, x

\* A row without a doubt has the one unit of its name.
LEMMA AmountReads ==
  ASSUME TextTypes, NEW p \in Products, NEW q \in Int, NEW n \in Names, ChooseWords(Units, n) # {}
  PROVE  /\ Amount(p, q, n) \in TextRows
         /\ Amount(p, q, n).why = {} =>
              /\ Amount(p, q, n).product = p /\ Amount(p, q, n).quantity = q /\ q > 0
              /\ Amount(p, q, n).unit \in Units /\ Bears(Units, Amount(p, q, n).unit, n)
<1> DEFINE us == ChooseWords(Units, n)
<1>1. Doubt(q) \in SUBSET Doubts /\ (Doubt(q) = {} => q > 0)
  BY DEF Doubt, Doubts
<1>2. CASE Cardinality(us) = 1
  <2>1. us \subseteq Units /\ IsFiniteSet(Units)
    <3>1. Units \in Families
      BY DEF Families
    <3>2. IsFiniteSet(Units)
      BY OrderTextAssumption, FS_Subset
    <3> QED
      BY <3>1, <3>2, ChosenBears
  <2>2. PICK u : us = {u} /\ (CHOOSE y \in us : TRUE) = u
    BY <1>2, <2>1, OnlyOne
  <2>3. u \in Units /\ Bears(Units, u, n)
    BY <2>2, ChosenBears DEF Families
  <2>4. Amount(p, q, n) = Row(p, u, q, Doubt(q))
    BY <1>2, <2>2 DEF Amount
  <2> QED
    BY <1>1, <2>3, <2>4 DEF Row, TextRows
<1>3. CASE Cardinality(us) # 1
  <2>1. Amount(p, q, n) = Row(p, NoTarget, q, Doubt(q) \cup {"which unit"})
    BY <1>3 DEF Amount
  <2>2. Doubt(q) \cup {"which unit"} \in SUBSET Doubts /\ Doubt(q) \cup {"which unit"} # {}
    BY <1>1 DEF Doubts
  <2> DEFINE why == Doubt(q) \cup {"which unit"}
  <2>3. Amount(p, q, n) = [product |-> p, unit |-> NoTarget, quantity |-> q, why |-> why]
    BY <2>1 DEF Row
  <2> HIDE DEF why
  <2>4. why \in SUBSET Doubts /\ why # {}
    BY <2>2 DEF why
  <2> QED
    BY <2>3, <2>4 DEF TextRows
<1> QED
  BY <1>2, <1>3

\* The amounts of a text, from any position on, are read as they are written, unless a
\* row says that something is in doubt.
LEMMA AmountsRead ==
  ASSUME TextTypes, NEW p \in Products, NEW text \in Seq(TextWords), NEW from,
         AmountsFrom(p, text) = from
  PROVE  \A k \in 1 .. Len(text) + 1 :
           /\ from[k] \in Seq(TextRows)
           /\ (\A i \in 1 .. Len(from[k]) : from[k][i].why = {}) =>
                ReadsAs(p, from[k], SubSeq(text, k, Len(text)))
<1> DEFINE L == Len(text)
           Clean(rs) == \A i \in 1 .. Len(rs) : rs[i].why = {}
           Read(k) == /\ from[k] \in Seq(TextRows)
                      /\ Clean(from[k]) => ReadsAs(p, from[k], SubSeq(text, k, L))
           S == {d \in Nat : d <= L => \A k \in L + 1 - d .. L + 1 : Read(k)}
<1>1. L \in Nat
  OBVIOUS
<1>2. \A k \in 1 .. L + 1 : from[k] = Piece(p, text, from, k)
  <2>1. from = [k \in 1 .. L + 1 |-> Piece(p, text, from, k)]
    BY AmountsUnfold
  <2> QED
    BY <2>1
<1>3. ASSUME NEW k \in 1 .. L, \A i \in k + 1 .. L + 1 : Read(i) PROVE Read(k)
  <2>1. from[k] = Piece(p, text, from, k) /\ ~(k > L)
    BY <1>1, <1>2
  <2>2. ASSUME NEW r \in TextRows, from[k] = <<r>>, r.why # {} PROVE Read(k)
    <3>1. from[k] \in Seq(TextRows) /\ Len(from[k]) = 1 /\ from[k][1] = r
      BY <2>2
    <3> QED
      BY <2>2, <3>1
  <2>3. text[k] \in TextWords
    OBVIOUS
  <2>4. CASE text[k] \notin Numbers
    <3>1. from[k] = <<Unread(p)>>
      BY <2>1, <2>4 DEF Piece
    <3>2. Unread(p) \in TextRows /\ Unread(p).why # {}
      BY DEF Unread, Row, TextRows, Doubts
    <3> QED
      BY <2>2, <3>1, <3>2
  <2>5. CASE text[k] \in Numbers /\ UnitAt(text, k) = {}
    <3> DEFINE why == Doubt(text[k]) \cup {IF k = L THEN "no unit" ELSE "unknown unit"}
               r == Row(p, NoTarget, text[k], why)
    <3>1. from[k] = <<r>>
      BY <2>1, <2>5 DEF Piece
    <3>2. why \in SUBSET Doubts /\ why # {}
      BY DEF Doubt, Doubts
    <3>3. text[k] \in Int
      BY <2>5, OrderTextAssumption
    <3> HIDE DEF why
    <3>4. r \in TextRows /\ r.why # {}
      BY <3>2, <3>3 DEF Row, TextRows
    <3> QED
      BY <2>2, <3>1, <3>4
  <2>6. CASE text[k] \in Numbers /\ UnitAt(text, k) # {}
    <3> DEFINE n == CHOOSE n \in UnitAt(text, k) : TRUE
               q == text[k]
               r == Amount(p, q, n)
               j == k + 1 + Len(n)
    <3>1. n \in UnitAt(text, k)
      BY <2>6
    <3>2. from[k] = <<r>> \o from[j]
      BY <2>1, <2>6, Zenon DEF Piece
    <3> HIDE DEF n
    <3>3. /\ n \in Names /\ ChooseWords(Units, n) # {} /\ j \in k + 1 .. L + 1
          /\ SubSeq(text, k, L) = (<<q>> \o n) \o SubSeq(text, j, L)
      BY <3>1, UnitFollows
    <3>4. q \in Int
      BY <2>6, OrderTextAssumption
    <3> HIDE DEF r, j, q
    <3>5. /\ r \in TextRows
          /\ r.why = {} => /\ r.product = p /\ r.quantity = q /\ q > 0
                           /\ r.unit \in Units /\ Bears(Units, r.unit, n)
      BY <3>3, <3>4, AmountReads DEF r
    <3>6. Read(j)
      BY <1>3, <3>3
    <3>7. from[j] \in Seq(TextRows)
      BY <3>6
    <3>8. /\ from[k] \in Seq(TextRows) /\ Len(from[k]) = Len(from[j]) + 1 /\ from[k][1] = r
          /\ \A i \in 1 .. Len(from[j]) + 1 : i # 1 => from[k][i] = from[j][i - 1]
      BY <3>2, <3>5, <3>7, InFront
    <3>9. ASSUME Clean(from[k]) PROVE ReadsAs(p, from[k], SubSeq(text, k, L))
      <4>1. Len(from[j]) \in Nat
        BY <3>7
      <4>2. r.why = {}
        BY <3>8, <3>9, <4>1
      <4>3. Clean(from[j])
        <5> SUFFICES ASSUME NEW i \in 1 .. Len(from[j]) PROVE from[j][i].why = {}
          OBVIOUS
        <5>1. i + 1 \in 1 .. Len(from[j]) + 1 /\ i + 1 # 1 /\ (i + 1) - 1 = i
          BY <4>1
        <5>2. from[k][i + 1] = from[j][i]
          BY <3>8, <5>1
        <5> QED
          BY <3>8, <3>9, <5>1, <5>2
      <4>4. ReadsAs(p, from[j], SubSeq(text, j, L))
        BY <3>6, <4>3
      <4>5. ReadsAs(p, <<r>> \o from[j], (<<r.quantity>> \o n) \o SubSeq(text, j, L))
        BY <3>3, <3>5, <3>7, <4>2, <4>4, ReadsOn
      <4> QED
        BY <3>2, <3>3, <3>5, <4>2, <4>5
    <3> QED
      BY <3>8, <3>9
  <2> QED
    BY <2>4, <2>5, <2>6
<1>4. Read(L + 1)
  <2>1. from[L + 1] = <<>>
    <3>1. L + 1 \in 1 .. L + 1 /\ L + 1 > Len(text)
      BY <1>1
    <3>2. Piece(p, text, from, L + 1) = <<>>
      BY <3>1, Zenon DEF Piece
    <3> QED
      BY <1>2, <3>1, <3>2
  <2>2. SubSeq(text, L + 1, L) = <<>>
    BY <1>1, SubSeqEmpty
  <2>3. ASSUME NEW rs, rs = <<>> PROVE rs \in Seq(TextRows) /\ ReadsAs(p, rs, <<>>)
    <3> DEFINE ns == [k \in 1 .. 0 |-> CHOOSE n \in Names : TRUE]
               none == [k \in 1 .. Len(rs) |-> <<rs[k].quantity>> \o ns[k]]
    <3>1. Len(rs) = 0 /\ rs \in Seq(TextRows)
      BY <2>3
    <3>2. ns \in [1 .. Len(rs) -> Names] /\ none = <<>> /\ \A k \in 1 .. Len(rs) : FALSE
      BY <3>1
    <3> HIDE DEF ns, none
    <3>3. FlattenSeq(none) = <<>>
      BY <3>2 DEF FlattenSeq
    <3> QED
      BY <3>1, <3>2, <3>3, Zenon DEF ReadsAs, none
  <2> QED
    BY <2>1, <2>2, <2>3
<1> HIDE DEF Read, L
<1>5. 0 \in S
  <2>1. \A k \in L + 1 - 0 .. L + 1 : k = L + 1
    BY <1>1
  <2> QED
    BY <1>4, <2>1
<1>6. ASSUME NEW d \in Nat, d \in S PROVE d + 1 \in S
  <2>1. d + 1 \in Nat
    OBVIOUS
  <2> SUFFICES ASSUME d + 1 <= L, NEW k \in L + 1 - (d + 1) .. L + 1 PROVE Read(k)
    BY <2>1
  <2>2. \A i \in L + 1 - d .. L + 1 : Read(i)
    BY <1>1, <1>6
  <2>3. CASE k \in L + 1 - d .. L + 1
    BY <2>2, <2>3
  <2>4. CASE k \notin L + 1 - d .. L + 1
    <3>1. k \in 1 .. L /\ \A i \in k + 1 .. L + 1 : i \in L + 1 - d .. L + 1
      BY <1>1, <2>4
    <3> QED
      BY <1>3, <2>2, <3>1
  <2> QED
    BY <2>3, <2>4
<1> HIDE DEF S
<1>7. L \in S
  BY <1>1, <1>5, <1>6, FromZeroOn
<1>8. \A k \in 1 .. L + 1 : Read(k)
  <2>1. L <= L /\ L + 1 - L = 1
    BY <1>1
  <2>2. \A k \in L + 1 - L .. L + 1 : Read(k)
    BY <1>7, <2>1 DEF S
  <2> QED
    BY <2>1, <2>2
<1> QED
  BY <1>8 DEF Read, L

\* A text that another one ends with.
LEMMA SuffixIs ==
  ASSUME NEW W, NEW n \in Seq(W), NEW line \in Seq(W), IsSuffix(n, line)
  PROVE  line = SubSeq(line, 1, Len(line) - Len(n)) \o n
<1> DEFINE a == Len(n)
           b == Len(line)
           start == SubSeq(line, 1, b - a)
           rn == Reverse(n)
           rl == Reverse(line)
<1>1. a \in Nat /\ b \in Nat
  OBVIOUS
<1>2. /\ rn \in Seq(W) /\ Len(rn) = a /\ \A i \in 1 .. a : rn[i] = n[a - i + 1]
      /\ rl \in Seq(W) /\ Len(rl) = b /\ \A i \in 1 .. b : rl[i] = line[b - i + 1]
  BY DEF Reverse
<1>3. a <= b /\ SubSeq(rn, 1, a) = SubSeq(rl, 1, a)
  BY <1>2 DEF IsSuffix, IsPrefix
<1> HIDE DEF rn, rl
<1>4. \A i \in 1 .. a : rn[i] = rl[i]
  <2> SUFFICES ASSUME NEW i \in 1 .. a PROVE rn[i] = rl[i]
    OBVIOUS
  <2>1. SubSeq(rn, 1, a)[i] = rn[i] /\ SubSeq(rl, 1, a)[i] = rl[i]
    BY <1>1, <1>2, <1>3
  <2> QED
    BY <1>3, <2>1
<1>5. \A i \in 1 .. a : n[i] = line[b - a + i]
  <2> SUFFICES ASSUME NEW i \in 1 .. a PROVE n[i] = line[b - a + i]
    OBVIOUS
  <2> DEFINE j == a - i + 1
  <2>1. j \in 1 .. a /\ j \in 1 .. b /\ a - j + 1 = i /\ b - j + 1 = b - a + i
    BY <1>1, <1>3
  <2> HIDE DEF j
  <2>2. rn[j] = n[i] /\ rl[j] = line[b - a + i]
    BY <1>2, <2>1
  <2> QED
    BY <1>4, <2>1, <2>2
<1>6. start \in Seq(W) /\ Len(start) = b - a /\ \A i \in 1 .. b - a : start[i] = line[i]
  BY <1>1, <1>3
<1> HIDE DEF start
<1>7. /\ start \o n \in Seq(W) /\ Len(start \o n) = b
      /\ \A i \in 1 .. b : (start \o n)[i] = IF i <= b - a THEN start[i] ELSE n[i - (b - a)]
  BY <1>1, <1>3, <1>6
<1>8. \A i \in 1 .. b : line[i] = (start \o n)[i]
  <2> SUFFICES ASSUME NEW i \in 1 .. b PROVE line[i] = (start \o n)[i]
    OBVIOUS
  <2>1. CASE i <= b - a
    BY <1>1, <1>3, <1>6, <1>7, <2>1
  <2>2. CASE ~(i <= b - a)
    <3> DEFINE j == i - (b - a)
    <3>1. j \in 1 .. a /\ b - a + j = i
      BY <1>1, <1>3, <2>2
    <3> HIDE DEF j
    <3>2. n[j] = line[i]
      BY <1>5, <3>1
    <3>3. (start \o n)[i] = n[j]
      BY <1>7, <2>2 DEF j
    <3> QED
      BY <3>2, <3>3
  <2> QED
    BY <2>1, <2>2
<1>9. line = start \o n
  BY <1>7, <1>8, SeqEqual
<1> QED
  BY <1>9 DEF start

\* A line is the name of its product and what is left of it.
LEMMA RemainderIs ==
  ASSUME NEW line \in Seq(TextWords), NEW n \in Names, IsPrefix(n, line) \/ IsSuffix(n, line)
  PROVE  /\ Remainder(line, n) \in Seq(TextWords)
         /\ line \in {n \o Remainder(line, n), Remainder(line, n) \o n}
<1>1. n \in Seq(TextWords)
  BY NamesAreWords
<1>2. CASE IsPrefix(n, line)
  <2>1. Remainder(line, n) = SubSeq(line, Len(n) + 1, Len(line))
    BY <1>2 DEF Remainder
  <2> DEFINE W == TextWords
             rest == SubSeq(line, Len(n) + 1, Len(line))
  <2>2. line \in Seq(W) /\ n \in Seq(W)
    BY <1>1
  <2> HIDE DEF W
  <2>3. Len(n) <= Len(line) /\ SubSeq(n, 1, Len(n)) = SubSeq(line, 1, Len(n))
    BY <1>2 DEF IsPrefix
  <2>4. Len(n) \in Nat /\ Len(line) \in Nat
    BY <2>2
  <2>5. SubSeq(line, 1, Len(n)) \o rest = SubSeq(line, 1, Len(line))
    <3>1. /\ 1 \in 1 .. Len(line) + 1 /\ Len(n) \in 1 - 1 .. Len(line) /\ Len(line) \in Len(n) .. Len(line)
      BY <2>3, <2>4
    <3> QED
      BY <2>2, <3>1, ConcatAdjacentSubSeq
  <2>6. SubSeq(n, 1, Len(n)) = n /\ SubSeq(line, 1, Len(line)) = line
    BY <2>2, SubSeqFull
  <2>7. rest \in Seq(W)
    BY <2>2, <2>3, <2>4
  <2> HIDE DEF rest
  <2>8. line = n \o rest
    BY <2>3, <2>5, <2>6
  <2> QED
    BY <2>1, <2>7, <2>8 DEF W, rest
<1>3. CASE ~IsPrefix(n, line)
  <2>1. Remainder(line, n) = SubSeq(line, 1, Len(line) - Len(n)) /\ IsSuffix(n, line)
    BY <1>3 DEF Remainder
  <2> DEFINE W == TextWords
             rest == SubSeq(line, 1, Len(line) - Len(n))
  <2>2. line \in Seq(W) /\ n \in Seq(W)
    BY <1>1
  <2> HIDE DEF W
  <2>3. line = rest \o n
    BY <2>1, <2>2, SuffixIs
  <2>4. rest \in Seq(W)
    BY <2>2
  <2> QED
    BY <2>1, <2>3, <2>4 DEF W
<1> QED
  BY <1>2, <1>3

\* The import adds doubts and takes none away but for another one.
LEMMA ImportDoubts ==
  ASSUME NEW r, r \in [product : Products \cup {NoTarget}, unit : Units \cup {NoTarget},
                       quantity : Int, why : SUBSET Doubts],
         Imported(r).why = {}
  PROVE  /\ r.why = {} /\ Imported(r) = r
         /\ r.unit # NoTarget => <<r.product, r.unit>> \in Sold \cap (guest \cup history)
<1> DEFINE usual == {u \in Units : <<r.product, u>> \in Sold \cap history}
           left == r.unit = NoTarget /\ "no unit" \in r.why /\ Cardinality(usual) = 1
           q == IF left THEN Inferred(r, CHOOSE u \in usual : TRUE) ELSE r
           done == CASE q.unit = NoTarget -> q
                     [] q.unit # NoTarget /\ <<q.product, q.unit>> \notin Sold ->
                          [q EXCEPT !.why = @ \cup {"not sold by it"}]
                     [] q.unit # NoTarget /\ <<q.product, q.unit>> \in Sold ->
                          IF <<q.product, q.unit>> \in history \cup guest THEN q
                          ELSE [q EXCEPT !.why = @ \cup {"no price"}]
<1>1. Imported(r) = done
  BY Zenon DEF Imported
<1>2. q = r \/ (q.why # {} /\ q = [r EXCEPT !.unit = q.unit, !.why = q.why])
  <2>1. CASE left
    <3>1. q = [r EXCEPT !.unit = CHOOSE u \in usual : TRUE, !.why = (r.why \ {"no unit"}) \cup {"from history"}]
      BY <2>1 DEF Inferred
    <3> DEFINE u == CHOOSE u \in usual : TRUE
               w == (r.why \ {"no unit"}) \cup {"from history"}
    <3>2. w # {}
      OBVIOUS
    <3> HIDE DEF q, u, w
    <3>3. q = [r EXCEPT !.unit = u, !.why = w]
      BY <3>1 DEF u, w
    <3>4. q.unit = u /\ q.why = w
      BY <3>3
    <3> QED
      BY <3>2, <3>3, <3>4
  <2>2. CASE ~left
    BY <2>2
  <2> QED
    BY <2>1, <2>2
<1> HIDE DEF q
<1>3. CASE q.unit = NoTarget
  <2>1. done = q
    BY <1>3
  <2> QED
    BY <1>1, <1>2, <2>1
<1>4. CASE q.unit # NoTarget /\ <<q.product, q.unit>> \notin Sold
  <2>1. done = [q EXCEPT !.why = q.why \cup {"not sold by it"}]
    BY <1>4
  <2>2. done.why = q.why \cup {"not sold by it"}
    BY <1>2, <2>1
  <2> QED
    BY <1>1, <2>2
<1>5. CASE q.unit # NoTarget /\ <<q.product, q.unit>> \in Sold
  <2>1. CASE <<q.product, q.unit>> \in history \cup guest
    <3>1. done = q
      BY <1>5, <2>1
    <3> QED
      BY <1>1, <1>2, <1>5, <2>1, <3>1
  <2>2. CASE <<q.product, q.unit>> \notin history \cup guest
    <3>1. done = [q EXCEPT !.why = q.why \cup {"no price"}]
      BY <1>5, <2>2
    <3>2. done.why = q.why \cup {"no price"}
      BY <1>2, <3>1
    <3> QED
      BY <1>1, <3>2
  <2> QED
    BY <2>1, <2>2
<1> QED
  BY <1>3, <1>4, <1>5

\* A line none of whose rows is put before the clerk says what the rows say.
LEMMA LineRead ==
  ASSUME TextTypes, NEW line \in Seq(TextWords), \A k \in DOMAIN Parse(line) : Parse(line)[k].why = {}
  PROVE  \E n \in Names, p \in Products :
           /\ Bears(Products, p, n)
           /\ Parse(line) \in Seq(TextRows)
           /\ \E text : line \in {n \o text, text \o n} /\ ReadsAs(p, Parse(line), text)
           /\ \A k \in DOMAIN Parse(line) :
                <<Parse(line)[k].product, Parse(line)[k].unit>> \in Sold \cap (guest \cup history)
<1> DEFINE raw == ParseOrderText(line)
           heads == Longest(ProductCandidates(line))
           ps == UNION {ChooseWords(Products, n) : n \in heads}
<1>1. Parse(line) = [k \in DOMAIN raw |-> Imported(raw[k])]
  BY DEF Parse
<1>2. ASSUME NEW r \in TextRows, raw = <<r>>, r.why # {} PROVE FALSE
  <2>1. DOMAIN raw = {1} /\ raw[1] = r
    BY <1>2
  <2>2. Parse(line)[1].why = {}
    BY <1>1, <2>1
  <2>3. Imported(r).why = {}
    BY <1>1, <2>1, <2>2
  <2> QED
    BY <1>2, <2>3, ImportDoubts DEF TextRows
<1>3. Cardinality(heads) = 1 /\ Cardinality(ps) = 1
  <2> SUFFICES ASSUME ~(Cardinality(heads) = 1 /\ Cardinality(ps) = 1) PROVE FALSE
    OBVIOUS
  <2>1. raw = <<Row(NoTarget, NoTarget, 0, {"product"})>>
    BY Zenon DEF ParseOrderText
  <2>2. Row(NoTarget, NoTarget, 0, {"product"}) \in TextRows
    BY DEF Row, TextRows, Doubts
  <2>3. Row(NoTarget, NoTarget, 0, {"product"}).why # {}
    BY DEF Row
  <2> QED
    BY <1>2, <2>1, <2>2, <2>3
<1>4. \A n \in heads : n \in Names /\ (IsPrefix(n, line) \/ IsSuffix(n, line))
  BY DEF Longest, ProductCandidates, Recognised
<1>5. IsFiniteSet(Names) /\ IsFiniteSet(Products)
  BY OrderTextAssumption, FS_Subset
<1>6. \A n \in heads : \A p \in ChooseWords(Products, n) : p \in Products /\ Bears(Products, p, n)
  <2>1. Products \in Families
    BY DEF Families
  <2> QED
    BY <1>4, <2>1, ChosenBears
<1>7. heads \subseteq Names /\ ps \subseteq Products
  BY <1>4, <1>6
<1>8. \E n : heads = {n} /\ (CHOOSE y \in heads : TRUE) = n
  <2> HIDE DEF heads
  <2> QED
    BY <1>3, <1>5, <1>7, OnlyOne
<1>9. \E p : ps = {p} /\ (CHOOSE y \in ps : TRUE) = p
  <2> HIDE DEF ps
  <2> QED
    BY <1>3, <1>5, <1>7, OnlyOne
<1>10. PICK n : heads = {n} /\ (CHOOSE y \in heads : TRUE) = n
  BY <1>8
<1>11. PICK p : ps = {p} /\ (CHOOSE y \in ps : TRUE) = p
  BY <1>9
<1> DEFINE text == Remainder(line, n)
           from == AmountsFrom(p, text)
<1>12. n \in Names /\ p \in Products /\ Bears(Products, p, n)
  BY <1>4, <1>6, <1>10, <1>11
<1>13. text \in Seq(TextWords) /\ line \in {n \o text, text \o n}
  BY <1>4, <1>10, <1>12, RemainderIs
<1>14. raw = ParseAmounts(p, text)
  BY <1>3, <1>10, <1>11, Zenon DEF ParseOrderText
<1> HIDE DEF raw, heads, ps, text
<1>15. raw = from[1]
  <2>1. Row(p, NoTarget, 0, {"quantity", "no unit"}) \in TextRows /\ Unread(p) \in TextRows
    BY <1>12 DEF Row, Unread, TextRows, Doubts
  <2>2. Row(p, NoTarget, 0, {"quantity", "no unit"}).why # {} /\ Unread(p).why # {}
    BY DEF Row, Unread
  <2>3. raw # <<Row(p, NoTarget, 0, {"quantity", "no unit"})>> /\ raw # <<Unread(p)>>
    BY <1>2, <2>1, <2>2
  <2> QED
    BY <1>14, <2>3, Zenon DEF ParseAmounts
<1>16. /\ raw \in Seq(TextRows)
       /\ (\A i \in 1 .. Len(raw) : raw[i].why = {}) => ReadsAs(p, raw, text)
  <2>1. /\ 1 \in 1 .. Len(text) + 1
        /\ SubSeq(text, 1, Len(text)) = text
    BY <1>13, SubSeqFull, LenProperties
  <2>2. /\ from[1] \in Seq(TextRows)
        /\ (\A i \in 1 .. Len(from[1]) : from[1][i].why = {}) => ReadsAs(p, from[1], SubSeq(text, 1, Len(text)))
    BY <1>12, <1>13, <2>1, AmountsRead
  <2> QED
    BY <1>15, <2>1, <2>2
<1> HIDE DEF from
<1>17. DOMAIN raw = 1 .. Len(raw) /\ \A k \in 1 .. Len(raw) : raw[k] \in TextRows
  BY <1>16
<1>18. \A k \in 1 .. Len(raw) :
         /\ raw[k].why = {} /\ Imported(raw[k]) = raw[k]
         /\ raw[k].unit # NoTarget => <<raw[k].product, raw[k].unit>> \in Sold \cap (guest \cup history)
  <2> SUFFICES ASSUME NEW k \in 1 .. Len(raw)
               PROVE  /\ raw[k].why = {} /\ Imported(raw[k]) = raw[k]
                      /\ raw[k].unit # NoTarget =>
                           <<raw[k].product, raw[k].unit>> \in Sold \cap (guest \cup history)
    OBVIOUS
  <2>1. Imported(raw[k]).why = {}
    BY <1>1, <1>17
  <2> QED
    BY <1>17, <2>1, ImportDoubts DEF TextRows
<1>19. ReadsAs(p, raw, text)
  BY <1>16, <1>18
<1>20. \A k \in 1 .. Len(raw) : raw[k].unit \in Units
  BY <1>19 DEF ReadsAs
<1>21. Parse(line) = raw
  <2>1. Parse(line) = [k \in 1 .. Len(raw) |-> raw[k]]
    BY <1>1, <1>17, <1>18
  <2>2. raw = [k \in 1 .. Len(raw) |-> raw[k]]
    BY <1>16
  <2> QED
    BY <2>1, <2>2
<1>22. \A k \in DOMAIN raw : <<raw[k].product, raw[k].unit>> \in Sold \cap (guest \cup history)
  <2>1. NoTarget \notin Units
    BY OrderTextAssumption
  <2> QED
    BY <1>17, <1>18, <1>20, <2>1
<1>23. \E rest : line \in {n \o rest, rest \o n} /\ ReadsAs(p, Parse(line), rest)
  <2>1. ReadsAs(p, Parse(line), text)
    BY <1>19, <1>21
  <2>2. line \in {n \o text, text \o n}
    BY <1>13
  <2> QED
    BY <2>1, <2>2
<1>24. /\ Parse(line) \in Seq(TextRows)
       /\ \A k \in DOMAIN Parse(line) :
            <<Parse(line)[k].product, Parse(line)[k].unit>> \in Sold \cap (guest \cup history)
  BY <1>16, <1>21, <1>22, Zenon
<1> QED
  BY <1>12, <1>23, <1>24, Zenon

\* The lines of the property are texts.
LEMMA LinesAreTexts == Lines \subseteq Seq(TextWords)
<1>1. \A q \in Numbers : <<q>> \in Seq(TextWords)
  <2>1. Numbers \subseteq TextWords
    BY OrderTextAssumption DEF TextWords
  <2> HIDE DEF TextWords
  <2> QED
    BY <2>1
<1>2. <<1>> \in Seq(TextWords)
  <2>1. 1 \in TextWords
    BY DEF TextWords
  <2> HIDE DEF TextWords
  <2> QED
    BY <2>1
<1>3. \A n \in Names : n \in Seq(TextWords)
  BY NamesAreWords
<1>4. \A s, t \in Seq(TextWords) : s \o t \in Seq(TextWords)
  BY ConcatProperties
<1>5. ASSUME NEW a \in AmountTexts PROVE a \in Seq(TextWords)
  <2>1. CASE \E q \in Numbers : a = <<q>>
    BY <1>1, <2>1, Zenon
  <2>2. CASE \E q \in Numbers, n \in Names : a = <<q>> \o n
    BY <1>1, <1>3, <1>4, <2>2, Zenon
  <2>3. AmountTexts = {<<q>> : q \in Numbers} \cup {Join(<<q>>, n) : q \in Numbers, n \in Names}
    BY DEF AmountTexts, Join
  <2>4. (\E q \in Numbers : a = <<q>>) \/ \E q \in Numbers, n \in Names : a = Join(<<q>>, n)
    BY <2>3
  <2> QED
    BY <2>1, <2>2, <2>4, Zenon DEF Join
<1>6. \A n \in Names, a \in AmountTexts : n \o a \in Seq(TextWords) /\ a \o n \in Seq(TextWords)
  BY <1>3, <1>4, <1>5, Zenon
<1>7. \A n, m \in Names : n \o <<1>> \o m \o <<1>> \o m \in Seq(TextWords)
  BY <1>2, <1>3, <1>4, Zenon
<1>8. ASSUME NEW line \in Lines PROVE line \in Seq(TextWords)
  <2>1. CASE line \in Names
    BY <1>3, <2>1, Zenon
  <2>2. CASE \E n, m \in Names : line = n \o <<1>> \o m \o <<1>> \o m
    BY <1>7, <2>2, Zenon
  <2>3. CASE \E n \in Names, a \in AmountTexts : line = n \o a \/ line = a \o n
    BY <1>6, <2>3, Zenon
  <2> DEFINE Twice(n, m) == n \o <<1>> \o m \o <<1>> \o m
  <2>4. Lines = Names \cup {Twice(n, m) : n, m \in Names}
                  \cup UNION {{Join(n, a), Join(a, n)} : n \in Names, a \in AmountTexts}
    BY DEF Lines, Join
  <2> HIDE DEF Twice
  <2>5. \/ line \in Names
        \/ \E n, m \in Names : line = Twice(n, m)
        \/ \E n \in Names, a \in AmountTexts : line = Join(n, a) \/ line = Join(a, n)
    BY <1>8, <2>4
  <2> QED
    BY <2>1, <2>2, <2>3, <2>5, Zenon DEF Join, Twice
<1> QED
  BY <1>8

\* Whatever names and prices there are, no row that the clerk does not get to review says
\* anything else than the line.
LEMMA LinesAreRead ==
  ASSUME TextTypes
  PROVE  ReadAsWritten
<1> SUFFICES ASSUME NEW line \in Lines, \A k \in DOMAIN Parse(line) : Parse(line)[k].why = {}
             PROVE  \E n \in Names, ns \in [DOMAIN Parse(line) -> Names] :
                      LET text == FlattenSeq([k \in DOMAIN Parse(line) |-> <<Parse(line)[k].quantity>> \o ns[k]])
                      IN  /\ line \in {n \o text, text \o n}
                          /\ \A k \in DOMAIN Parse(line) :
                               /\ Bears(Products, Parse(line)[k].product, n)
                               /\ Bears(Units, Parse(line)[k].unit, ns[k])
                               /\ Parse(line)[k].quantity > 0
                               /\ <<Parse(line)[k].product, Parse(line)[k].unit>> \in Sold \cap (guest \cup history)
  BY Zenon DEF ReadAsWritten
<1> DEFINE rs == Parse(line)
<1>1. line \in Seq(TextWords)
  BY LinesAreTexts
<1>2. PICK n \in Names, p \in Products :
        /\ Bears(Products, p, n) /\ rs \in Seq(TextRows)
        /\ \E text : line \in {n \o text, text \o n} /\ ReadsAs(p, rs, text)
        /\ \A k \in DOMAIN rs : <<rs[k].product, rs[k].unit>> \in Sold \cap (guest \cup history)
  BY <1>1, LineRead
<1>3. PICK text : line \in {n \o text, text \o n} /\ ReadsAs(p, rs, text)
  BY <1>2
<1> HIDE DEF rs
<1>4. DOMAIN rs = 1 .. Len(rs)
  BY <1>2
<1>5. PICK ns \in [1 .. Len(rs) -> Names] :
        /\ text = FlattenSeq([k \in 1 .. Len(rs) |-> <<rs[k].quantity>> \o ns[k]])
        /\ \A k \in 1 .. Len(rs) : /\ rs[k].product = p /\ rs[k].unit \in Units /\ rs[k].quantity > 0
                                   /\ Bears(Units, rs[k].unit, ns[k])
  BY <1>3 DEF ReadsAs
<1>6. /\ ns \in [DOMAIN rs -> Names]
      /\ text = FlattenSeq([k \in DOMAIN rs |-> <<rs[k].quantity>> \o ns[k]])
  BY <1>4, <1>5
<1>7. \A k \in DOMAIN rs :
        /\ Bears(Products, rs[k].product, n) /\ Bears(Units, rs[k].unit, ns[k])
        /\ rs[k].quantity > 0 /\ <<rs[k].product, rs[k].unit>> \in Sold \cap (guest \cup history)
  BY <1>2, <1>4, <1>5
<1> QED
  BY <1>3, <1>6, <1>7, Zenon DEF rs

\* Whatever is renamed, aliased and priced in whatever order, an alias means what it was
\* made for and an order that needs no review was read as it was written.
THEOREM MessagesAlwaysUnderstood == TextSpec => []MessagesUnderstood
<1>1. TextInv => MessagesUnderstood
  BY AliasMeansOne, LinesAreRead DEF TextInv, MessagesUnderstood
<1> QED
  BY <1>1, TextInvariant, PTL
=============================================================================
