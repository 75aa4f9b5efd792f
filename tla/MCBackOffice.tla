---------------------------- MODULE MCBackOffice ----------------------------
(***************************************************************************)
(* Small instances of Catalogue, Access, MasterRecords, Roles and OrderText *)
(* for TLC.  They share no state: focus, which never changes, chooses the   *)
(* one that moves; of Roles, it chooses a half.                             *)
(***************************************************************************)
EXTENDS Catalogue, Access, MasterRecords, Roles, OrderText, TLC

CONSTANTS soap, bar, pcs, p1, p2, u1, u2

\* The products soap and soap bar, the units bar and pcs.
MCNames == {<<soap>>, <<soap, bar>>, <<bar>>, <<pcs>>}
MCFirst == (p1 :> <<soap>>) @@ (p2 :> <<soap, bar>>) @@ (u1 :> <<bar>>) @@ (u2 :> <<pcs>>)
MCSold  == {<<p1, u1>>, <<p1, u2>>}

VARIABLE focus

\* What does not move starts in one state only.
MCInit ==
  /\ focus \in {"catalogue", "access", "records", "grants", "people", "text"}
  /\ CatalogueInit /\ AccessInit /\ RecordsInit /\ RolesInit /\ TextInit
  /\ focus # "grants" => granted = {}
  /\ focus # "people" => \A u \in People \ {Founder} : person[u] = Nobody

\* What focus does not choose keeps still.
Resting ==
  /\ focus # "catalogue" => UNCHANGED catalogueVars
  /\ focus # "access"    => UNCHANGED accessVars
  /\ focus # "records"   => UNCHANGED recordVars
  /\ focus # "grants"    => UNCHANGED grantVars
  /\ focus # "people"    => UNCHANGED peopleVars
  /\ focus # "text"      => UNCHANGED textVars
  /\ UNCHANGED focus

MCNext ==
  /\ Resting
  /\ \/ focus = "catalogue" /\ CatalogueNext
     \/ focus = "access"    /\ AccessNext
     \/ focus = "records"   /\ RecordsNext
     \/ focus = "grants"    /\ GrantNext
     \/ focus = "people"    /\ PeopleNext
     \/ focus = "text"      /\ TextNext

\* The part of a state that moves tells it from the others.
MCView ==
  <<focus,
    CASE focus = "catalogue" -> catalogueVars
      [] focus = "access"    -> accessVars
      [] focus = "records"   -> recordVars
      [] focus = "grants"    -> grantVars
      [] focus = "people"    -> peopleVars
      [] focus = "text"      -> textVars>>

MCSpec ==
  MCInit /\ [][MCNext]_<<catalogueVars, accessVars, recordVars, rolesVars, textVars, focus>>
=============================================================================
