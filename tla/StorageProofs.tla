--------------------------- MODULE StorageProofs ---------------------------
(* Theorems about Storage, for every value of its constants, and about what  *)
(* it shows the readers of any one environment id (EnvView).                 *)
EXTENDS EnvView, TLAPS

LEMMA BumpedIsLater ==
    ASSUME NEW stamp \in Nat, NEW ts \in Nat
    PROVE  Bumped(stamp, ts) \in Nat /\ Bumped(stamp, ts) > stamp
BY DEF Bumped

\* Moving stamps keeps the table of environments well-formed.
LEMMA TouchType ==
    ASSUME envs \subseteq EnvRow, NEW ids, NEW ts \in Stamps, Touch(ids, ts)
    PROVE  envs' \subseteq EnvRow
<1> SUFFICES ASSUME NEW e \in envs
             PROVE  (IF e.id \in ids THEN [e EXCEPT !.stamp = Bumped(@, ts)] ELSE e)
                       \in EnvRow
  BY DEF Touch
<1>1. e \in EnvRow
  OBVIOUS
<1>2. e.stamp \in Nat /\ ts \in Nat
  BY <1>1, StorageBounds DEF EnvRow, Stamps
<1>3. Bumped(e.stamp, ts) \in Nat
  BY <1>2, BumpedIsLater
<1>4. e.id \in ids => Bumped(e.stamp, ts) \in Stamps
  BY <1>3, StorageBounds DEF Touch, Stamps
<1> QED
  BY <1>1, <1>4 DEF EnvRow

LEMMA InitType == Init => TypeOK
BY DEF Init, TypeOK

LEMMA StepType == TypeOK /\ [Next]_vars => TypeOK'
<1> SUFFICES ASSUME TypeOK, [Next]_vars
             PROVE  TypeOK'
  OBVIOUS
<1> USE DEF TypeOK
<1>1. ASSUME NEW ts \in Stamps, NEW slug \in ProjectSlugs, CreateProject(slug, ts)
      PROVE  TypeOK'
  BY <1>1, DefaultIsSlug DEF CreateProject, ProjectRow, EnvRow
<1>2. ASSUME NEW p \in projects, DeleteProject(p)
      PROVE  TypeOK'
  BY <1>2 DEF DeleteProject, CascadeRecs, CascadeLinks
<1>3. ASSUME NEW ts \in Stamps, NEW p \in projects, NEW slug \in EnvSlugs,
             CreateEnvironment(p, slug, ts)
      PROVE  TypeOK'
  BY <1>3 DEF CreateEnvironment, ProjectRow, EnvRow
<1>4. ASSUME NEW e \in envs, DeleteEnvironment(e)
      PROVE  TypeOK'
  BY <1>4 DEF DeleteEnvironment, CascadeRecs, CascadeLinks
<1>5. ASSUME NEW ts \in Stamps, NEW kind \in Kinds, NEW e \in envs, NEW key \in Keys,
             NEW val \in Values, CreateRecord(kind, e, key, val, ts)
      PROVE  TypeOK'
  <2>1. envs' \subseteq EnvRow
    BY <1>5, TouchType DEF CreateRecord
  <2>2. recs' \subseteq RecRow
    BY <1>5, StorageBounds DEF CreateRecord, RecRow, EnvRow, Versions
  <2> QED
    BY <1>5, <2>1, <2>2 DEF CreateRecord
<1>6. ASSUME NEW ts \in Stamps, NEW r \in recs, NEW val \in Values,
             NEW expected \in 0 .. MaxVersion, UpdateRecord(r, val, expected, ts)
      PROVE  TypeOK'
  <2>1. envs' \subseteq EnvRow
    BY <1>6, TouchType DEF UpdateRecord
  <2>a. r \in RecRow /\ r.ver \in Versions
    BY DEF RecRow
  <2>b. r.ver + 1 \in Versions
    BY <1>6, <2>a, StorageBounds DEF UpdateRecord, Versions
  <2>2. [r EXCEPT !.val = val, !.ver = @ + 1] \in RecRow
    BY <2>a, <2>b DEF RecRow
  <2> QED
    BY <1>6, <2>1, <2>2 DEF UpdateRecord
<1>7. ASSUME NEW ts \in Stamps, NEW r \in recs, NEW expected \in 0 .. MaxVersion,
             DeleteRecord(r, expected, ts)
      PROVE  TypeOK'
  <2>1. envs' \subseteq EnvRow
    BY <1>7, TouchType DEF DeleteRecord
  <2> QED
    BY <1>7, <2>1 DEF DeleteRecord, CascadeLinks
<1>8. ASSUME NEW ts \in Stamps, NEW r \in recs, NEW e \in envs, NEW name \in TagNames,
             AttachTag(r, e, name, ts)
      PROVE  TypeOK'
  <2>1. envs' \subseteq EnvRow
    BY <1>8, TouchType DEF AttachTag
  <2>2. PICK t \in Ids :
           /\ tags' = tags \cup {[id |-> t, project |-> e.project, name |-> name]}
           /\ links' = links \cup {[kind |-> r.kind, owner |-> r.id, tag |-> t]}
    BY <1>8 DEF AttachTag
  <2>3. tags' \subseteq TagRow /\ links' \subseteq LinkRow
    BY <2>2 DEF TagRow, LinkRow, EnvRow, RecRow
  <2> QED
    BY <1>8, <2>1, <2>3 DEF AttachTag
<1>9. ASSUME NEW ts \in Stamps, NEW r \in recs, NEW e \in envs, NEW t \in tags,
             DetachTag(r, e, t, ts)
      PROVE  TypeOK'
  <2>1. envs' \subseteq EnvRow
    BY <1>9, TouchType DEF DetachTag
  <2> QED
    BY <1>9, <2>1 DEF DetachTag
<1>10. ASSUME NEW ts \in Stamps, NEW t \in tags, DeleteTag(t, ts)
       PROVE  TypeOK'
  <2>1. envs' \subseteq EnvRow
    BY <1>10, TouchType DEF DeleteTag, TouchProject
  <2> QED
    BY <1>10, <2>1 DEF DeleteTag, CascadeLinks
<1>11. CASE UNCHANGED vars
  BY <1>11 DEF vars
<1> QED
  BY <1>1, <1>2, <1>3, <1>4, <1>5, <1>6, <1>7, <1>8, <1>9, <1>10, <1>11 DEF Next

\* Every table only ever holds rows of its own shape: ids, stamps and versions
\* stay inside their bounds whatever the write functions of internal/db do.
THEOREM TypeCorrect == Spec => []TypeOK
BY InitType, StepType, PTL DEF Spec
-----------------------------------------------------------------------------
(* The referential invariant.                                              *)

\* Moving stamps neither adds nor removes an environment, nor moves one to
\* another project; the chosen ones go strictly up, the others stay.
LEMMA TouchKeeps ==
    ASSUME envs \subseteq EnvRow, NEW ids, NEW ts \in Stamps, Touch(ids, ts)
    PROVE  /\ \A f \in envs' : \E e \in envs :
                 /\ f.id = e.id /\ f.project = e.project /\ f.slug = e.slug
                 /\ f = IF e.id \in ids THEN [e EXCEPT !.stamp = Bumped(@, ts)] ELSE e
                 /\ e.id \in ids => f.stamp > e.stamp
           /\ \A e \in envs : \E f \in envs' :
                 f.id = e.id /\ f.project = e.project /\ f.slug = e.slug
<1> DEFINE Moved(e) == IF e.id \in ids THEN [e EXCEPT !.stamp = Bumped(@, ts)] ELSE e
<1>1. envs' = {Moved(e) : e \in envs}
  BY DEF Touch
<1>2. ASSUME NEW e \in envs
      PROVE  /\ Moved(e).id = e.id /\ Moved(e).project = e.project
             /\ Moved(e).slug = e.slug
             /\ e.id \in ids => Moved(e).stamp > e.stamp
  <2>1. e \in EnvRow /\ e.stamp \in Nat /\ ts \in Nat
    BY StorageBounds DEF EnvRow, Stamps
  <2>2. Bumped(e.stamp, ts) > e.stamp
    BY <2>1, BumpedIsLater
  <2> QED
    BY <2>1, <2>2 DEF EnvRow
<1>3. ASSUME NEW f \in envs'
      PROVE  \E e \in envs :
                 /\ f.id = e.id /\ f.project = e.project /\ f.slug = e.slug
                 /\ f = Moved(e)
                 /\ e.id \in ids => f.stamp > e.stamp
  <2>1. PICK e \in envs : f = Moved(e)
    BY <1>1
  <2> HIDE DEF Moved
  <2> QED
    BY <2>1, <1>2
<1>4. ASSUME NEW e \in envs
      PROVE  \E f \in envs' : f.id = e.id /\ f.project = e.project /\ f.slug = e.slug
  <2>1. Moved(e) \in envs'
    BY <1>1
  <2> HIDE DEF Moved
  <2> QED
    BY <2>1, <1>2
<1> QED
  BY <1>3, <1>4

LEMMA TouchUnique ==
    ASSUME envs \subseteq EnvRow, \A e, f \in envs : e.id = f.id => e = f,
           NEW ids, NEW ts \in Stamps, Touch(ids, ts)
    PROVE  \A e, f \in envs' : e.id = f.id => e = f
<1> SUFFICES ASSUME NEW f \in envs', NEW g \in envs', f.id = g.id
             PROVE  f = g
  OBVIOUS
<1>1. PICK d \in envs :
         /\ f.id = d.id
         /\ f = IF d.id \in ids THEN [d EXCEPT !.stamp = Bumped(@, ts)] ELSE d
  BY TouchKeeps
<1>2. PICK e \in envs :
         /\ g.id = e.id
         /\ g = IF e.id \in ids THEN [e EXCEPT !.stamp = Bumped(@, ts)] ELSE e
  BY TouchKeeps
<1>3. d = e
  BY <1>1, <1>2
<1> QED
  BY <1>1, <1>2, <1>3

\* A new id is not in use.
LEMMA NextIdIsFresh ==
    ASSUME NEW table, \A row \in table : row.id \in Ids, NEW id \in Ids,
           IsNextId(table, id)
    PROVE  \A row \in table : row.id # id
BY StorageBounds DEF IsNextId, Ids

LEMMA StepUnique == TypeOK /\ UniqueIds /\ [Next]_vars => UniqueIds'
<1> SUFFICES ASSUME TypeOK, UniqueIds, [Next]_vars
             PROVE  UniqueIds'
  OBVIOUS
<1> USE DEF UniqueIds
<1>t. envs \subseteq EnvRow
  BY DEF TypeOK
<1>1. ASSUME NEW ts \in Stamps, NEW slug \in ProjectSlugs, CreateProject(slug, ts)
      PROVE  UniqueIds'
  <2>1. PICK p \in Ids, e \in Ids :
           /\ IsNextId(projects, p)
           /\ IsNextId(envs, e)
           /\ projects' = projects \cup {[id |-> p, slug |-> slug]}
           /\ envs' = envs \cup {[id |-> e, project |-> p,
                                  slug |-> DefaultEnvironment, stamp |-> ts]}
    BY <1>1 DEF CreateProject
  <2>2. /\ \A q \in projects : q.id \in Ids
        /\ \A f \in envs : f.id \in Ids
    BY DEF TypeOK, ProjectRow, EnvRow
  <2>3. \A q \in projects : q.id # p
    BY <2>1, <2>2, NextIdIsFresh
  <2>4. \A f \in envs : f.id # e
    BY <2>1, <2>2, NextIdIsFresh
  <2> QED
    BY <1>1, <2>1, <2>3, <2>4 DEF CreateProject
<1>2. ASSUME NEW p \in projects, DeleteProject(p)
      PROVE  UniqueIds'
  BY <1>2 DEF DeleteProject, CascadeRecs
<1>3. ASSUME NEW ts \in Stamps, NEW p \in projects, NEW slug \in EnvSlugs,
             CreateEnvironment(p, slug, ts)
      PROVE  UniqueIds'
  <2>1. PICK e \in Ids :
           /\ IsNextId(envs, e)
           /\ envs' = envs \cup {[id |-> e, project |-> p.id, slug |-> slug,
                                  stamp |-> ts]}
    BY <1>3 DEF CreateEnvironment
  <2>2. \A f \in envs : f.id \in Ids
    BY DEF TypeOK, EnvRow
  <2>3. \A f \in envs : f.id # e
    BY <2>1, <2>2, NextIdIsFresh
  <2> QED
    BY <1>3, <2>1, <2>3 DEF CreateEnvironment
<1>4. ASSUME NEW e \in envs, DeleteEnvironment(e)
      PROVE  UniqueIds'
  BY <1>4 DEF DeleteEnvironment, CascadeRecs
<1>5. ASSUME NEW ts \in Stamps, NEW kind \in Kinds, NEW e \in envs, NEW key \in Keys,
             NEW val \in Values, CreateRecord(kind, e, key, val, ts)
      PROVE  UniqueIds'
  <2>1. PICK id \in Ids :
           /\ IsNextId(OfKind(kind), id)
           /\ recs' = recs \cup {[kind |-> kind, id |-> id, env |-> e.id,
                                  key |-> key, val |-> val, ver |-> 1]}
    BY <1>5 DEF CreateRecord
  <2>2. \A r \in OfKind(kind) : r.id \in Ids
    BY DEF TypeOK, RecRow, OfKind
  <2>3. \A r \in recs : r.kind = kind => r.id # id
    BY <2>1, <2>2, NextIdIsFresh DEF OfKind
  <2>4. \A f, g \in envs' : f.id = g.id => f = g
    BY <1>5, <1>t, TouchUnique DEF CreateRecord
  <2> QED
    BY <1>5, <2>1, <2>3, <2>4 DEF CreateRecord
<1>6. ASSUME NEW ts \in Stamps, NEW r \in recs, NEW val \in Values,
             NEW expected \in 0 .. MaxVersion, UpdateRecord(r, val, expected, ts)
      PROVE  UniqueIds'
  <2>1. \A f, g \in envs' : f.id = g.id => f = g
    BY <1>6, <1>t, TouchUnique DEF UpdateRecord
  <2> DEFINE new == [r EXCEPT !.val = val, !.ver = @ + 1]
  <2>2. new.id = r.id /\ new.kind = r.kind
    BY DEF TypeOK, RecRow
  <2>3. recs' = (recs \ {r}) \cup {new}
    BY <1>6 DEF UpdateRecord
  <2> HIDE DEF new
  <2>4. \A q, x \in recs' : q.kind = x.kind /\ q.id = x.id => q = x
    BY <2>2, <2>3
  <2> QED
    BY <1>6, <2>1, <2>4 DEF UpdateRecord
<1>7. ASSUME NEW ts \in Stamps, NEW r \in recs, NEW expected \in 0 .. MaxVersion,
             DeleteRecord(r, expected, ts)
      PROVE  UniqueIds'
  <2>1. \A f, g \in envs' : f.id = g.id => f = g
    BY <1>7, <1>t, TouchUnique DEF DeleteRecord
  <2> QED
    BY <1>7, <2>1 DEF DeleteRecord
<1>8. ASSUME NEW ts \in Stamps, NEW r \in recs, NEW e \in envs, NEW name \in TagNames,
             AttachTag(r, e, name, ts)
      PROVE  UniqueIds'
  <2>1. \A f, g \in envs' : f.id = g.id => f = g
    BY <1>8, <1>t, TouchUnique DEF AttachTag
  <2>2. PICK t \in Ids :
           /\ \/ [id |-> t, project |-> e.project, name |-> name] \in tags
              \/ IsNextId(tags, t)
           /\ tags' = tags \cup {[id |-> t, project |-> e.project, name |-> name]}
    BY <1>8 DEF AttachTag
  <2>3. \A u \in tags : u.id \in Ids
    BY DEF TypeOK, TagRow
  <2>4. \A u, x \in tags' : u.id = x.id => u = x
    <3>1. CASE [id |-> t, project |-> e.project, name |-> name] \in tags
      BY <3>1, <2>2
    <3>2. CASE IsNextId(tags, t)
      BY <3>2, <2>2, <2>3, NextIdIsFresh
    <3> QED
      BY <2>2, <3>1, <3>2
  <2> QED
    BY <1>8, <2>1, <2>4 DEF AttachTag
<1>9. ASSUME NEW ts \in Stamps, NEW r \in recs, NEW e \in envs, NEW t \in tags,
             DetachTag(r, e, t, ts)
      PROVE  UniqueIds'
  <2>1. \A f, g \in envs' : f.id = g.id => f = g
    BY <1>9, <1>t, TouchUnique DEF DetachTag
  <2> QED
    BY <1>9, <2>1 DEF DetachTag
<1>10. ASSUME NEW ts \in Stamps, NEW t \in tags, DeleteTag(t, ts)
       PROVE  UniqueIds'
  <2>1. \A f, g \in envs' : f.id = g.id => f = g
    BY <1>10, <1>t, TouchUnique DEF DeleteTag, TouchProject
  <2> QED
    BY <1>10, <2>1 DEF DeleteTag
<1>11. CASE UNCHANGED vars
  BY <1>11 DEF vars
<1> QED
  BY <1>1, <1>2, <1>3, <1>4, <1>5, <1>6, <1>7, <1>8, <1>9, <1>10, <1>11 DEF Next

LEMMA StepNoOrphans == TypeOK /\ NoOrphans /\ [Next]_vars => NoOrphans'
<1> SUFFICES ASSUME TypeOK, NoOrphans, [Next]_vars
             PROVE  NoOrphans'
  OBVIOUS
<1> USE DEF NoOrphans
<1>t. envs \subseteq EnvRow
  BY DEF TypeOK
\* A step that only moves stamps among the environments orphans no one.
<1>k. ASSUME NEW ids, NEW ts \in Stamps, Touch(ids, ts), UNCHANGED projects
      PROVE  /\ \A f \in envs' : \E p \in projects' : p.id = f.project
             /\ \A e \in envs : \E f \in envs' : f.id = e.id
  BY <1>k, <1>t, TouchKeeps
<1>1. ASSUME NEW ts \in Stamps, NEW slug \in ProjectSlugs, CreateProject(slug, ts)
      PROVE  NoOrphans'
  <2>1. PICK p \in Ids, e \in Ids :
           /\ projects' = projects \cup {[id |-> p, slug |-> slug]}
           /\ envs' = envs \cup {[id |-> e, project |-> p,
                                  slug |-> DefaultEnvironment, stamp |-> ts]}
    BY <1>1 DEF CreateProject
  <2> DEFINE newProject == [id |-> p, slug |-> slug]
             newEnv == [id |-> e, project |-> p, slug |-> DefaultEnvironment,
                        stamp |-> ts]
  <2>2. /\ newProject \in projects' /\ newProject.id = p
        /\ newEnv.project = p
        /\ projects \subseteq projects' /\ envs \subseteq envs'
        /\ \A f \in envs' : f \in envs \/ f = newEnv
    BY <2>1
  <2> HIDE DEF newProject, newEnv
  <2>3. UNCHANGED <<recs, tags, links>>
    BY <1>1 DEF CreateProject
  <2>4. \A f \in envs' : \E q \in projects' : q.id = f.project
    BY <2>2
  <2>5. /\ \A r \in recs' : \E f \in envs' : f.id = r.env
        /\ \A t \in tags' : \E q \in projects' : q.id = t.project
    BY <2>2, <2>3
  <2> QED
    BY <2>3, <2>4, <2>5
<1>2. ASSUME NEW p \in projects, DeleteProject(p)
      PROVE  NoOrphans'
  <2>1. \A f \in envs' : \E q \in projects' : q.id = f.project
    BY <1>2 DEF DeleteProject
  <2>2. \A t \in tags' : \E q \in projects' : q.id = t.project
    BY <1>2 DEF DeleteProject
  <2>3. \A r \in recs' : \E f \in envs' : f.id = r.env
    BY <1>2 DEF DeleteProject, CascadeRecs
  <2>4. CascadeLinks
    BY <1>2 DEF DeleteProject
  <2> QED
    BY <2>1, <2>2, <2>3, <2>4 DEF CascadeLinks
<1>3. ASSUME NEW ts \in Stamps, NEW p \in projects, NEW slug \in EnvSlugs,
             CreateEnvironment(p, slug, ts)
      PROVE  NoOrphans'
  BY <1>3 DEF CreateEnvironment
<1>4. ASSUME NEW e \in envs, DeleteEnvironment(e)
      PROVE  NoOrphans'
  BY <1>4 DEF DeleteEnvironment, CascadeRecs, CascadeLinks
<1>5. ASSUME NEW ts \in Stamps, NEW kind \in Kinds, NEW e \in envs, NEW key \in Keys,
             NEW val \in Values, CreateRecord(kind, e, key, val, ts)
      PROVE  NoOrphans'
  <2>1. Touch({e.id}, ts) /\ UNCHANGED <<projects, tags, links>>
    BY <1>5 DEF CreateRecord
  <2>2. PICK id \in Ids :
           recs' = recs \cup {[kind |-> kind, id |-> id, env |-> e.id,
                               key |-> key, val |-> val, ver |-> 1]}
    BY <1>5 DEF CreateRecord
  <2>3. \A r \in recs' : \E f \in envs' : f.id = r.env
    BY <2>1, <2>2, <1>k
  <2> QED
    BY <2>1, <2>2, <2>3, <1>k
<1>6. ASSUME NEW ts \in Stamps, NEW r \in recs, NEW val \in Values,
             NEW expected \in 0 .. MaxVersion, UpdateRecord(r, val, expected, ts)
      PROVE  NoOrphans'
  <2> DEFINE new == [r EXCEPT !.val = val, !.ver = @ + 1]
  <2>1. Touch({r.env}, ts) /\ UNCHANGED <<projects, tags, links>>
    BY <1>6 DEF UpdateRecord
  <2>2. new.id = r.id /\ new.kind = r.kind /\ new.env = r.env
    BY DEF TypeOK, RecRow
  <2>3. recs' = (recs \ {r}) \cup {new}
    BY <1>6 DEF UpdateRecord
  <2> HIDE DEF new
  <2>4. \A q \in recs' : \E f \in envs' : f.id = q.env
    BY <2>1, <2>2, <2>3, <1>k
  <2>5. \A q \in recs : \E x \in recs' : x.kind = q.kind /\ x.id = q.id
    BY <2>2, <2>3
  <2> QED
    BY <2>1, <2>4, <2>5, <1>k
<1>7. ASSUME NEW ts \in Stamps, NEW r \in recs, NEW expected \in 0 .. MaxVersion,
             DeleteRecord(r, expected, ts)
      PROVE  NoOrphans'
  <2>1. Touch({r.env}, ts) /\ UNCHANGED <<projects, tags>>
    BY <1>7 DEF DeleteRecord
  <2>2. recs' = recs \ {r} /\ CascadeLinks
    BY <1>7 DEF DeleteRecord
  <2> QED
    BY <2>1, <2>2, <1>k DEF CascadeLinks
<1>8. ASSUME NEW ts \in Stamps, NEW r \in recs, NEW e \in envs, NEW name \in TagNames,
             AttachTag(r, e, name, ts)
      PROVE  NoOrphans'
  <2>1. Touch({e.id}, ts) /\ UNCHANGED <<projects, recs>>
    BY <1>8 DEF AttachTag
  <2>2. PICK t \in Ids :
           /\ tags' = tags \cup {[id |-> t, project |-> e.project, name |-> name]}
           /\ links' = links \cup {[kind |-> r.kind, owner |-> r.id, tag |-> t]}
    BY <1>8 DEF AttachTag
  <2>3. \A q \in recs' : \E f \in envs' : f.id = q.env
    BY <2>1, <1>k
  <2>4. \A u \in tags' : \E p \in projects' : p.id = u.project
    BY <2>1, <2>2
  <2>5. \A l \in links' : /\ \E q \in recs' : q.kind = l.kind /\ q.id = l.owner
                          /\ \E u \in tags' : u.id = l.tag
    <3> SUFFICES ASSUME NEW l \in links'
                 PROVE  /\ \E q \in recs' : q.kind = l.kind /\ q.id = l.owner
                        /\ \E u \in tags' : u.id = l.tag
      OBVIOUS
    <3>1. CASE l \in links
      BY <3>1, <2>1, <2>2
    <3> DEFINE tag == [id |-> t, project |-> e.project, name |-> name]
    <3>2. CASE l = [kind |-> r.kind, owner |-> r.id, tag |-> t]
      <4>1. l.kind = r.kind /\ l.owner = r.id /\ l.tag = t /\ tag.id = t
        BY <3>2
      <4>2. r \in recs' /\ tag \in tags'
        BY <2>1, <2>2
      <4> HIDE DEF tag
      <4> QED
        BY <4>1, <4>2
    <3> QED
      BY <3>1, <3>2, <2>2
  <2> QED
    BY <2>1, <2>3, <2>4, <2>5, <1>k
<1>9. ASSUME NEW ts \in Stamps, NEW r \in recs, NEW e \in envs, NEW t \in tags,
             DetachTag(r, e, t, ts)
      PROVE  NoOrphans'
  <2>1. Touch({e.id}, ts) /\ UNCHANGED <<projects, recs, tags>> /\ links' \subseteq links
    BY <1>9 DEF DetachTag
  <2> QED
    BY <2>1, <1>k
<1>10. ASSUME NEW ts \in Stamps, NEW t \in tags, DeleteTag(t, ts)
       PROVE  NoOrphans'
  <2>1. UNCHANGED <<projects, recs>> /\ tags' \subseteq tags
    BY <1>10 DEF DeleteTag
  <2>2. /\ \A f \in envs' : \E p \in projects' : p.id = f.project
        /\ \A e \in envs : \E f \in envs' : f.id = e.id
    BY <1>10, <1>k DEF DeleteTag, TouchProject
  <2> QED
    BY <1>10, <2>1, <2>2 DEF DeleteTag, CascadeLinks
<1>11. CASE UNCHANGED vars
  BY <1>11 DEF vars
<1> QED
  BY <1>1, <1>2, <1>3, <1>4, <1>5, <1>6, <1>7, <1>8, <1>9, <1>10, <1>11 DEF Next

\* A record keeps to the tags of its project: needs that ids are unique and that
\* no link is left behind, or a fresh id could adopt an old link.
LEMMA StepTagsStay ==
    TypeOK /\ Referential /\ [Next]_vars => TagsStayInProject'
<1> SUFFICES ASSUME TypeOK, UniqueIds, NoOrphans, TagsStayInProject, [Next]_vars
             PROVE  TagsStayInProject'
  BY DEF Referential
<1> USE DEF TagsStayInProject
<1>t. envs \subseteq EnvRow
  BY DEF TypeOK
<1>k. ASSUME NEW ids, NEW ts \in Stamps, Touch(ids, ts)
      PROVE  \A f \in envs' : \E e \in envs : f.id = e.id /\ f.project = e.project
  BY <1>k, <1>t, TouchKeeps
\* Rows that go and stamps that move cannot break it.
<1>s. ASSUME recs' \subseteq recs, tags' \subseteq tags, links' \subseteq links,
             \A f \in envs' : \E e \in envs : f.id = e.id /\ f.project = e.project
      PROVE  TagsStayInProject'
  <2> SUFFICES ASSUME NEW l \in links', NEW r \in recs', NEW t \in tags',
                      NEW f \in envs', r.kind = l.kind, r.id = l.owner,
                      t.id = l.tag, f.id = r.env
               PROVE  t.project = f.project
    OBVIOUS
  <2>1. PICK e \in envs : f.id = e.id /\ f.project = e.project
    BY <1>s
  <2> QED
    BY <1>s, <2>1
\* Nor can an environment that no record is in.
<1>e. ASSUME NEW new, envs' = envs \cup {new}, \A e \in envs : e.id # new.id,
             UNCHANGED <<recs, tags, links>>
      PROVE  TagsStayInProject'
  BY <1>e DEF NoOrphans
<1>1. ASSUME NEW ts \in Stamps, NEW slug \in ProjectSlugs, CreateProject(slug, ts)
      PROVE  TagsStayInProject'
  <2>1. PICK p \in Ids, e \in Ids :
           /\ IsNextId(envs, e)
           /\ envs' = envs \cup {[id |-> e, project |-> p,
                                  slug |-> DefaultEnvironment, stamp |-> ts]}
    BY <1>1 DEF CreateProject
  <2>2. \A f \in envs : f.id \in Ids
    BY <1>t DEF EnvRow
  <2>3. \A f \in envs : f.id # e
    BY <2>1, <2>2, NextIdIsFresh
  <2> QED
    BY <1>1, <2>1, <2>3, <1>e DEF CreateProject
<1>2. ASSUME NEW p \in projects, DeleteProject(p)
      PROVE  TagsStayInProject'
  BY <1>2, <1>s DEF DeleteProject, CascadeRecs, CascadeLinks
<1>3. ASSUME NEW ts \in Stamps, NEW p \in projects, NEW slug \in EnvSlugs,
             CreateEnvironment(p, slug, ts)
      PROVE  TagsStayInProject'
  <2>1. PICK e \in Ids :
           /\ IsNextId(envs, e)
           /\ envs' = envs \cup {[id |-> e, project |-> p.id, slug |-> slug,
                                  stamp |-> ts]}
    BY <1>3 DEF CreateEnvironment
  <2>2. \A f \in envs : f.id \in Ids
    BY <1>t DEF EnvRow
  <2>3. \A f \in envs : f.id # e
    BY <2>1, <2>2, NextIdIsFresh
  <2> QED
    BY <1>3, <2>1, <2>3, <1>e DEF CreateEnvironment
<1>4. ASSUME NEW e \in envs, DeleteEnvironment(e)
      PROVE  TagsStayInProject'
  BY <1>4, <1>s DEF DeleteEnvironment, CascadeRecs, CascadeLinks
<1>5. ASSUME NEW ts \in Stamps, NEW kind \in Kinds, NEW e \in envs, NEW key \in Keys,
             NEW val \in Values, CreateRecord(kind, e, key, val, ts)
      PROVE  TagsStayInProject'
  <2>1. Touch({e.id}, ts) /\ UNCHANGED <<projects, tags, links>>
    BY <1>5 DEF CreateRecord
  <2>2. PICK id \in Ids :
           /\ IsNextId(OfKind(kind), id)
           /\ recs' = recs \cup {[kind |-> kind, id |-> id, env |-> e.id,
                                  key |-> key, val |-> val, ver |-> 1]}
    BY <1>5 DEF CreateRecord
  <2>3. \A r \in OfKind(kind) : r.id \in Ids
    BY DEF TypeOK, RecRow, OfKind
  <2>4. \A r \in recs : r.kind = kind => r.id # id
    BY <2>2, <2>3, NextIdIsFresh DEF OfKind
  <2>5. \A l \in links : ~ (l.kind = kind /\ l.owner = id)
    BY <2>4 DEF NoOrphans
  <2> SUFFICES ASSUME NEW l \in links', NEW r \in recs', NEW t \in tags',
                      NEW f \in envs', r.kind = l.kind, r.id = l.owner,
                      t.id = l.tag, f.id = r.env
               PROVE  t.project = f.project
    OBVIOUS
  <2>6. r \in recs
    BY <2>1, <2>2, <2>5
  <2>7. PICK g \in envs : f.id = g.id /\ f.project = g.project
    BY <2>1, <1>k
  <2> QED
    BY <2>1, <2>6, <2>7
<1>6. ASSUME NEW ts \in Stamps, NEW r \in recs, NEW val \in Values,
             NEW expected \in 0 .. MaxVersion, UpdateRecord(r, val, expected, ts)
      PROVE  TagsStayInProject'
  <2> DEFINE new == [r EXCEPT !.val = val, !.ver = @ + 1]
  <2>1. Touch({r.env}, ts) /\ UNCHANGED <<projects, tags, links>>
    BY <1>6 DEF UpdateRecord
  <2>2. new.id = r.id /\ new.kind = r.kind /\ new.env = r.env
    BY DEF TypeOK, RecRow
  <2>3. recs' = (recs \ {r}) \cup {new}
    BY <1>6 DEF UpdateRecord
  <2> HIDE DEF new
  <2>4. \A q \in recs' : \E x \in recs : q.id = x.id /\ q.kind = x.kind /\ q.env = x.env
    BY <2>2, <2>3
  <2> SUFFICES ASSUME NEW l \in links', NEW q \in recs', NEW t \in tags',
                      NEW f \in envs', q.kind = l.kind, q.id = l.owner,
                      t.id = l.tag, f.id = q.env
               PROVE  t.project = f.project
    OBVIOUS
  <2>5. PICK g \in envs : f.id = g.id /\ f.project = g.project
    BY <2>1, <1>k
  <2> QED
    BY <2>1, <2>4, <2>5
<1>7. ASSUME NEW ts \in Stamps, NEW r \in recs, NEW expected \in 0 .. MaxVersion,
             DeleteRecord(r, expected, ts)
      PROVE  TagsStayInProject'
  <2>1. \A f \in envs' : \E e \in envs : f.id = e.id /\ f.project = e.project
    BY <1>7, <1>k DEF DeleteRecord
  <2> QED
    BY <1>7, <2>1, <1>s DEF DeleteRecord, CascadeLinks
<1>8. ASSUME NEW ts \in Stamps, NEW r \in recs, NEW e \in envs, NEW name \in TagNames,
             AttachTag(r, e, name, ts)
      PROVE  TagsStayInProject'
  <2>1. Touch({e.id}, ts) /\ UNCHANGED <<projects, recs>> /\ e.id = r.env
    BY <1>8 DEF AttachTag
  <2>2. PICK t \in Ids :
           /\ \/ [id |-> t, project |-> e.project, name |-> name] \in tags
              \/ IsNextId(tags, t)
           /\ tags' = tags \cup {[id |-> t, project |-> e.project, name |-> name]}
           /\ links' = links \cup {[kind |-> r.kind, owner |-> r.id, tag |-> t]}
    BY <1>8 DEF AttachTag
  <2> DEFINE tag == [id |-> t, project |-> e.project, name |-> name]
             link == [kind |-> r.kind, owner |-> r.id, tag |-> t]
  <2>3. tag.id = t /\ tag.project = e.project
    OBVIOUS
  <2>4. link.kind = r.kind /\ link.owner = r.id /\ link.tag = t
    OBVIOUS
  <2>5. tag \in tags \/ \A u \in tags : u.id # t
    <3>1. \A u \in tags : u.id \in Ids
      BY DEF TypeOK, TagRow
    <3> QED
      BY <2>2, <3>1, NextIdIsFresh
  <2>6. tags' = tags \cup {tag} /\ links' = links \cup {link}
    BY <2>2
  <2> HIDE DEF tag, link
  <2> SUFFICES ASSUME NEW l \in links', NEW q \in recs', NEW u \in tags',
                      NEW f \in envs', q.kind = l.kind, q.id = l.owner,
                      u.id = l.tag, f.id = q.env
               PROVE  u.project = f.project
    OBVIOUS
  <2>7. q \in recs
    BY <2>1
  <2>8. PICK g \in envs : f.id = g.id /\ f.project = g.project
    BY <2>1, <1>k
  <2>9. CASE l \in links
    <3>1. PICK x \in tags : x.id = l.tag
      BY <2>9 DEF NoOrphans
    <3>2. u \in tags
      BY <3>1, <2>3, <2>5, <2>6
    <3>3. l \in links /\ q \in recs /\ u \in tags /\ g \in envs /\ g.id = q.env
      BY <2>7, <2>8, <2>9, <3>2
    <3>4. u.project = g.project
      BY <3>3
    <3> QED
      BY <3>4, <2>8
  <2>10. CASE l = link
    <3>1. q = r
      BY <2>4, <2>7, <2>10 DEF UniqueIds
    <3>2. g = e
      BY <3>1, <2>1, <2>8 DEF UniqueIds
    <3>3. u = tag
      BY <2>3, <2>4, <2>5, <2>6, <2>10 DEF UniqueIds
    <3> QED
      BY <3>2, <3>3, <2>3, <2>8
  <2> QED
    BY <2>6, <2>9, <2>10
<1>9. ASSUME NEW ts \in Stamps, NEW r \in recs, NEW e \in envs, NEW t \in tags,
             DetachTag(r, e, t, ts)
      PROVE  TagsStayInProject'
  <2>1. \A f \in envs' : \E g \in envs : f.id = g.id /\ f.project = g.project
    BY <1>9, <1>k DEF DetachTag
  <2> QED
    BY <1>9, <2>1, <1>s DEF DetachTag
<1>10. ASSUME NEW ts \in Stamps, NEW t \in tags, DeleteTag(t, ts)
       PROVE  TagsStayInProject'
  <2>1. \A f \in envs' : \E g \in envs : f.id = g.id /\ f.project = g.project
    BY <1>10, <1>k DEF DeleteTag, TouchProject
  <2> QED
    BY <1>10, <2>1, <1>s DEF DeleteTag, CascadeLinks
<1>11. CASE UNCHANGED vars
  BY <1>11 DEF vars
<1> QED
  BY <1>1, <1>2, <1>3, <1>4, <1>5, <1>6, <1>7, <1>8, <1>9, <1>10, <1>11 DEF Next

LEMMA InitReferential == Init => Referential
BY DEF Init, Referential, UniqueIds, NoOrphans, TagsStayInProject

LEMMA StepReferential == TypeOK /\ Referential /\ [Next]_vars => Referential'
BY StepUnique, StepNoOrphans, StepTagsStay DEF Referential

\* Ids name one row each, no row refers to one that is gone, and a record only
\* carries tags of its own project, although SQLite hands ids out again and the
\* schema does not relate a link's two ends: what every query and cascade of
\* internal/db takes for granted.
THEOREM ReferentialCorrect == Spec => []Referential
<1>1. Init => TypeOK /\ Referential
  BY InitType, InitReferential
<1>2. TypeOK /\ Referential /\ [Next]_vars => TypeOK' /\ Referential'
  BY StepType, StepReferential
<1> QED
  BY <1>1, <1>2, PTL DEF Spec

(***************************************************************************)
(* EnvView.  The stamp of an environment stands for what its readers see,  *)
(* and what they see is what EnvStore promises.                            *)
(***************************************************************************)
\* A listing depends on the records of its environment and on their tags.
LEMMA ShownStays ==
    ASSUME NEW env,
           \A x \in recs : x.env = env => x \in recs',
           \A x \in recs' : x.env = env => x \in recs,
           \A x \in recs, name \in TagNames :
              x.env = env => (Tagged(x, name)' <=> Tagged(x, name)),
           NEW kind \in Kinds, NEW filter \in Filters
    PROVE  Shown(kind, env, filter)' = Shown(kind, env, filter)
<1> DEFINE Listed == {x \in recs : /\ x.kind = kind /\ x.env = env
                                   /\ filter # NoTag => Tagged(x, filter)}
<1>1. filter # NoTag => filter \in TagNames
  BY DEF Filters
<1>2. Listed' = Listed
  BY <1>1
<1> QED
  BY <1>2 DEF Shown

\* An environment that survives keeps its identity: the row with its id is the
\* same environment, and its stamp has not gone down.
LEMMA TouchRaises ==
    ASSUME envs \subseteq EnvRow, UniqueIds, NEW ids, NEW ts \in Stamps, Touch(ids, ts),
           NEW e \in envs, NEW f \in envs', e.id = f.id
    PROVE  /\ f.stamp >= e.stamp
           /\ e.id \in ids => f.stamp > e.stamp
<1>1. PICK d \in envs :
         /\ f.id = d.id
         /\ f = IF d.id \in ids THEN [d EXCEPT !.stamp = Bumped(@, ts)] ELSE d
         /\ d.id \in ids => f.stamp > d.stamp
  BY TouchKeeps
<1>2. d = e
  BY <1>1 DEF UniqueIds
<1>3. e.stamp \in Nat
  BY StorageBounds DEF EnvRow, Stamps
<1>4. CASE e.id \in ids
  <2>1. f.stamp > e.stamp
    BY <1>1, <1>2, <1>4
  <2>2. ts \in Nat
    BY StorageBounds DEF Stamps
  <2>3. Bumped(e.stamp, ts) \in Nat
    BY <1>3, <2>2, BumpedIsLater
  <2>4. f.stamp = Bumped(e.stamp, ts)
    BY <1>1, <1>2, <1>4 DEF EnvRow
  <2> QED
    BY <2>1, <2>3, <2>4, <1>3
<1>5. CASE e.id \notin ids
  BY <1>1, <1>2, <1>3, <1>5
<1> QED
  BY <1>4, <1>5

LEMMA StepStamp == TypeOK /\ Referential /\ Next => StampCoversContentStep
<1> SUFFICES ASSUME TypeOK, UniqueIds, NoOrphans, TagsStayInProject, Next
             PROVE  StampCoversContentStep
  BY DEF Referential
<1>t. envs \subseteq EnvRow /\ \A e \in envs : e.stamp \in Nat
  BY StorageBounds DEF TypeOK, EnvRow, Stamps
\* It is enough that a touched environment is the only one to show anything new.
<1>k. ASSUME NEW ids, NEW ts \in Stamps, Touch(ids, ts),
             \A e \in envs, kind \in Kinds, filter \in Filters :
                e.id \notin ids
                   => Shown(kind, e.id, filter)' = Shown(kind, e.id, filter)
      PROVE  StampCoversContentStep
  BY <1>k, <1>t, TouchRaises DEF StampCoversContentStep
\* Or that the environments that are left show what they showed.
<1>s. ASSUME \A f \in envs' : f \in envs \/ \A e \in envs : e.id # f.id,
             \A e \in envs, kind \in Kinds, filter \in Filters :
                e \in envs'
                   => Shown(kind, e.id, filter)' = Shown(kind, e.id, filter)
      PROVE  StampCoversContentStep
  <2> SUFFICES ASSUME NEW e \in envs, NEW f \in envs', e.id = f.id
               PROVE  /\ f.stamp >= e.stamp
                      /\ \A kind \in Kinds, filter \in Filters :
                            Shown(kind, e.id, filter)' = Shown(kind, e.id, filter)
    BY DEF StampCoversContentStep
  <2>1. e = f
    BY <1>s DEF UniqueIds
  <2> QED
    BY <2>1, <1>s, <1>t
<1>1. ASSUME NEW ts \in Stamps, NEW slug \in ProjectSlugs, CreateProject(slug, ts)
      PROVE  StampCoversContentStep
  <2>1. PICK p \in Ids, e \in Ids :
           /\ IsNextId(envs, e)
           /\ envs' = envs \cup {[id |-> e, project |-> p,
                                  slug |-> DefaultEnvironment, stamp |-> ts]}
    BY <1>1 DEF CreateProject
  <2>2. \A f \in envs : f.id \in Ids
    BY <1>t DEF EnvRow
  <2>3. \A f \in envs : f.id # e
    BY <2>1, <2>2, NextIdIsFresh
  <2>4. UNCHANGED <<recs, tags, links>>
    BY <1>1 DEF CreateProject
  <2>5. ASSUME NEW env, NEW kind \in Kinds, NEW filter \in Filters
        PROVE  Shown(kind, env, filter)' = Shown(kind, env, filter)
    BY <2>4 DEF Shown, Tagged
  <2> QED
    BY <2>1, <2>3, <2>5, <1>s
<1>2. ASSUME NEW p \in projects, DeleteProject(p)
      PROVE  StampCoversContentStep
  <2>1. /\ envs' = {e \in envs : e.project # p.id}
        /\ tags' = {t \in tags : t.project # p.id}
        /\ recs' = {r \in recs : \E e \in envs' : e.id = r.env}
        /\ links' = {l \in links : /\ \E r \in recs' : r.kind = l.kind /\ r.id = l.owner
                                   /\ \E t \in tags' : t.id = l.tag}
    BY <1>2 DEF DeleteProject, CascadeRecs, CascadeLinks
  <2>2. ASSUME NEW e \in envs, e \in envs', NEW x \in recs, x.env = e.id,
               NEW name \in TagNames
        PROVE  Tagged(x, name)' <=> Tagged(x, name)
    <3>1. x \in recs'
      BY <2>1, <2>2
    <3>2. Tagged(x, name)' => Tagged(x, name)
      BY <2>1 DEF Tagged
    <3>3. ASSUME Tagged(x, name)
          PROVE  Tagged(x, name)'
      <4>1. PICK l \in links, t \in tags : /\ l.kind = x.kind /\ l.owner = x.id
                                           /\ t.id = l.tag /\ t.name = name
        BY <3>3 DEF Tagged
      <4>2. t.project = e.project
        BY <4>1, <2>2 DEF TagsStayInProject
      <4>3. t \in tags'
        BY <4>2, <2>1, <2>2
      <4>4. l \in links'
        BY <3>1, <4>1, <4>3, <2>1
      <4> QED
        BY <4>1, <4>3, <4>4 DEF Tagged
    <3> QED
      BY <3>2, <3>3
  <2>3. ASSUME NEW e \in envs, e \in envs', NEW kind \in Kinds, NEW filter \in Filters
        PROVE  Shown(kind, e.id, filter)' = Shown(kind, e.id, filter)
    <3>1. \A x \in recs : x.env = e.id => x \in recs'
      BY <2>1, <2>3
    <3>2. \A x \in recs' : x \in recs
      BY <2>1
    <3> QED
      BY <3>1, <3>2, <2>2, <2>3, ShownStays
  <2> QED
    BY <2>1, <2>3, <1>s
<1>3. ASSUME NEW ts \in Stamps, NEW p \in projects, NEW slug \in EnvSlugs,
             CreateEnvironment(p, slug, ts)
      PROVE  StampCoversContentStep
  <2>1. PICK e \in Ids :
           /\ IsNextId(envs, e)
           /\ envs' = envs \cup {[id |-> e, project |-> p.id, slug |-> slug,
                                  stamp |-> ts]}
    BY <1>3 DEF CreateEnvironment
  <2>2. \A f \in envs : f.id \in Ids
    BY <1>t DEF EnvRow
  <2>3. \A f \in envs : f.id # e
    BY <2>1, <2>2, NextIdIsFresh
  <2>4. UNCHANGED <<recs, tags, links>>
    BY <1>3 DEF CreateEnvironment
  <2>5. ASSUME NEW env, NEW kind \in Kinds, NEW filter \in Filters
        PROVE  Shown(kind, env, filter)' = Shown(kind, env, filter)
    BY <2>4 DEF Shown, Tagged
  <2> QED
    BY <2>1, <2>3, <2>5, <1>s
<1>4. ASSUME NEW d \in envs, DeleteEnvironment(d)
      PROVE  StampCoversContentStep
  <2>1. /\ envs' = envs \ {d}
        /\ tags' = tags
        /\ recs' = {r \in recs : \E e \in envs' : e.id = r.env}
        /\ links' = {l \in links : /\ \E r \in recs' : r.kind = l.kind /\ r.id = l.owner
                                   /\ \E t \in tags' : t.id = l.tag}
    BY <1>4 DEF DeleteEnvironment, CascadeRecs, CascadeLinks
  <2>2. ASSUME NEW e \in envs, e \in envs', NEW x \in recs, x.env = e.id,
               NEW name \in TagNames
        PROVE  Tagged(x, name)' <=> Tagged(x, name)
    <3>1. x \in recs'
      BY <2>1, <2>2
    <3> QED
      BY <3>1, <2>1 DEF Tagged
  <2>3. ASSUME NEW e \in envs, e \in envs', NEW kind \in Kinds, NEW filter \in Filters
        PROVE  Shown(kind, e.id, filter)' = Shown(kind, e.id, filter)
    <3>1. \A x \in recs : x.env = e.id => x \in recs'
      BY <2>1, <2>3
    <3>2. \A x \in recs' : x \in recs
      BY <2>1
    <3> QED
      BY <3>1, <3>2, <2>2, <2>3, ShownStays
  <2> QED
    BY <2>1, <2>3, <1>s
<1>5. ASSUME NEW ts \in Stamps, NEW kind \in Kinds, NEW e \in envs, NEW key \in Keys,
             NEW val \in Values, CreateRecord(kind, e, key, val, ts)
      PROVE  StampCoversContentStep
  <2>1. Touch({e.id}, ts) /\ UNCHANGED <<tags, links>>
    BY <1>5 DEF CreateRecord
  <2>2. PICK id \in Ids :
           recs' = recs \cup {[kind |-> kind, id |-> id, env |-> e.id,
                               key |-> key, val |-> val, ver |-> 1]}
    BY <1>5 DEF CreateRecord
  <2>3. \A x \in recs, name \in TagNames : Tagged(x, name)' <=> Tagged(x, name)
    BY <2>1 DEF Tagged
  <2>4. ASSUME NEW d \in envs, NEW other \in Kinds, NEW filter \in Filters,
               d.id \notin {e.id}
        PROVE  Shown(other, d.id, filter)' = Shown(other, d.id, filter)
    <3>1. \A x \in recs' : x.env = d.id => x \in recs
      BY <2>2, <2>4
    <3>2. \A x \in recs : x \in recs'
      BY <2>2
    <3> QED
      BY <3>1, <3>2, <2>3, ShownStays
  <2> QED
    BY <2>1, <2>4, <1>k
<1>6. ASSUME NEW ts \in Stamps, NEW r \in recs, NEW val \in Values,
             NEW expected \in 0 .. MaxVersion, UpdateRecord(r, val, expected, ts)
      PROVE  StampCoversContentStep
  <2> DEFINE new == [r EXCEPT !.val = val, !.ver = @ + 1]
  <2>1. Touch({r.env}, ts) /\ UNCHANGED <<tags, links>>
    BY <1>6 DEF UpdateRecord
  <2>2. new.env = r.env
    BY DEF TypeOK, RecRow
  <2>3. recs' = (recs \ {r}) \cup {new}
    BY <1>6 DEF UpdateRecord
  <2> HIDE DEF new
  <2>4. \A x \in recs, name \in TagNames : Tagged(x, name)' <=> Tagged(x, name)
    BY <2>1 DEF Tagged
  <2>5. ASSUME NEW d \in envs, NEW kind \in Kinds, NEW filter \in Filters,
               d.id \notin {r.env}
        PROVE  Shown(kind, d.id, filter)' = Shown(kind, d.id, filter)
    <3>1. \A x \in recs' : x.env = d.id => x \in recs
      BY <2>2, <2>3, <2>5
    <3>2. \A x \in recs : x.env = d.id => x \in recs'
      BY <2>3, <2>5
    <3> QED
      BY <3>1, <3>2, <2>4, ShownStays
  <2> QED
    BY <2>1, <2>5, <1>k
<1>7. ASSUME NEW ts \in Stamps, NEW r \in recs, NEW expected \in 0 .. MaxVersion,
             DeleteRecord(r, expected, ts)
      PROVE  StampCoversContentStep
  <2>1. /\ Touch({r.env}, ts)
        /\ tags' = tags
        /\ recs' = recs \ {r}
        /\ links' = {l \in links : /\ \E x \in recs' : x.kind = l.kind /\ x.id = l.owner
                                   /\ \E t \in tags' : t.id = l.tag}
    BY <1>7 DEF DeleteRecord, CascadeLinks
  <2>2. ASSUME NEW x \in recs, x # r, NEW name \in TagNames
        PROVE  Tagged(x, name)' <=> Tagged(x, name)
    BY <2>1, <2>2 DEF Tagged
  <2>3. ASSUME NEW d \in envs, NEW kind \in Kinds, NEW filter \in Filters,
               d.id \notin {r.env}
        PROVE  Shown(kind, d.id, filter)' = Shown(kind, d.id, filter)
    <3>1. \A x \in recs' : x \in recs
      BY <2>1
    <3>2. \A x \in recs : x.env = d.id => x \in recs' /\ x # r
      BY <2>1, <2>3
    <3> QED
      BY <3>1, <3>2, <2>2, ShownStays
  <2> QED
    BY <2>1, <2>3, <1>k
<1>8. ASSUME NEW ts \in Stamps, NEW r \in recs, NEW e \in envs, NEW name \in TagNames,
             AttachTag(r, e, name, ts)
      PROVE  StampCoversContentStep
  <2>1. Touch({e.id}, ts) /\ recs' = recs /\ e.id = r.env
    BY <1>8 DEF AttachTag
  <2>2. PICK t \in Ids :
           /\ \/ [id |-> t, project |-> e.project, name |-> name] \in tags
              \/ IsNextId(tags, t)
           /\ tags' = tags \cup {[id |-> t, project |-> e.project, name |-> name]}
           /\ links' = links \cup {[kind |-> r.kind, owner |-> r.id, tag |-> t]}
    BY <1>8 DEF AttachTag
  <2> DEFINE tag == [id |-> t, project |-> e.project, name |-> name]
             link == [kind |-> r.kind, owner |-> r.id, tag |-> t]
  <2>3. tag.id = t /\ link.kind = r.kind /\ link.owner = r.id
    OBVIOUS
  <2>4. tag \in tags \/ \A u \in tags : u.id # t
    <3>1. \A u \in tags : u.id \in Ids
      BY DEF TypeOK, TagRow
    <3> QED
      BY <2>2, <3>1, NextIdIsFresh
  <2>5. tags' = tags \cup {tag} /\ links' = links \cup {link}
    BY <2>2
  <2> HIDE DEF tag, link
  \* The new link is r's, and an old link has an old tag.
  <2>6. ASSUME NEW x \in recs, x # r, NEW other \in TagNames
        PROVE  Tagged(x, other)' <=> Tagged(x, other)
    <3>1. Tagged(x, other) => Tagged(x, other)'
      BY <2>5 DEF Tagged
    <3>2. ASSUME Tagged(x, other)'
          PROVE  Tagged(x, other)
      <4>1. PICK l \in links', u \in tags' : /\ l.kind = x.kind /\ l.owner = x.id
                                             /\ u.id = l.tag /\ u.name = other
        BY <3>2 DEF Tagged
      <4>2. l \in links
        BY <4>1, <2>3, <2>5, <2>6 DEF UniqueIds
      <4>3. PICK y \in tags : y.id = l.tag
        BY <4>2 DEF NoOrphans
      <4>4. u \in tags
        BY <4>1, <4>3, <2>3, <2>4, <2>5
      <4> QED
        BY <4>1, <4>2, <4>4 DEF Tagged
    <3> QED
      BY <3>1, <3>2
  <2>7. ASSUME NEW d \in envs, NEW kind \in Kinds, NEW filter \in Filters,
               d.id \notin {e.id}
        PROVE  Shown(kind, d.id, filter)' = Shown(kind, d.id, filter)
    <3>1. \A x \in recs : x.env = d.id => x # r
      BY <2>1, <2>7
    <3> QED
      BY <3>1, <2>1, <2>6, ShownStays
  <2> QED
    BY <2>1, <2>7, <1>k
<1>9. ASSUME NEW ts \in Stamps, NEW r \in recs, NEW e \in envs, NEW t \in tags,
             DetachTag(r, e, t, ts)
      PROVE  StampCoversContentStep
  <2> DEFINE link == [kind |-> r.kind, owner |-> r.id, tag |-> t.id]
  <2>1. /\ Touch({e.id}, ts) /\ recs' = recs /\ tags' = tags /\ e.id = r.env
        /\ links' = links \ {link}
    BY <1>9 DEF DetachTag
  <2>2. link.kind = r.kind /\ link.owner = r.id
    OBVIOUS
  <2> HIDE DEF link
  <2>3. ASSUME NEW x \in recs, x # r, NEW name \in TagNames
        PROVE  Tagged(x, name)' <=> Tagged(x, name)
    <3>1. \A l \in links : l.kind = x.kind /\ l.owner = x.id => l \in links'
      BY <2>1, <2>2, <2>3 DEF UniqueIds
    <3> QED
      BY <3>1, <2>1 DEF Tagged
  <2>4. ASSUME NEW d \in envs, NEW kind \in Kinds, NEW filter \in Filters,
               d.id \notin {e.id}
        PROVE  Shown(kind, d.id, filter)' = Shown(kind, d.id, filter)
    <3>1. \A x \in recs : x.env = d.id => x # r
      BY <2>1, <2>4
    <3> QED
      BY <3>1, <2>1, <2>3, ShownStays
  <2> QED
    BY <2>1, <2>4, <1>k
<1>10. ASSUME NEW ts \in Stamps, NEW t \in tags, DeleteTag(t, ts)
       PROVE  StampCoversContentStep
  <2> DEFINE ids == {e.id : e \in {x \in envs : x.project = t.project}}
  <2>1. /\ Touch(ids, ts) /\ recs' = recs /\ tags' = tags \ {t}
        /\ links' = {l \in links : /\ \E x \in recs' : x.kind = l.kind /\ x.id = l.owner
                                   /\ \E u \in tags' : u.id = l.tag}
    BY <1>10 DEF DeleteTag, TouchProject, CascadeLinks
  <2>2. \A d \in envs : d.id \notin ids => d.project # t.project
    OBVIOUS
  <2> HIDE DEF ids
  <2>3. ASSUME NEW d \in envs, d.id \notin ids, NEW x \in recs, x.env = d.id,
               NEW name \in TagNames
        PROVE  Tagged(x, name)' <=> Tagged(x, name)
    <3>1. Tagged(x, name)' => Tagged(x, name)
      BY <2>1 DEF Tagged
    <3>2. ASSUME Tagged(x, name)
          PROVE  Tagged(x, name)'
      <4>1. PICK l \in links, u \in tags : /\ l.kind = x.kind /\ l.owner = x.id
                                           /\ u.id = l.tag /\ u.name = name
        BY <3>2 DEF Tagged
      <4>2. u.project = d.project
        BY <4>1, <2>3 DEF TagsStayInProject
      <4>3. u \in tags'
        BY <4>2, <2>1, <2>2, <2>3
      <4>4. l \in links'
        BY <4>1, <4>3, <2>1
      <4> QED
        BY <4>1, <4>3, <4>4 DEF Tagged
    <3> QED
      BY <3>1, <3>2
  <2>4. ASSUME NEW d \in envs, NEW kind \in Kinds, NEW filter \in Filters,
               d.id \notin ids
        PROVE  Shown(kind, d.id, filter)' = Shown(kind, d.id, filter)
    BY <2>1, <2>3, <2>4, ShownStays
  <2> QED
    BY <2>1, <2>4, <1>k
<1> QED
  BY <1>1, <1>2, <1>3, <1>4, <1>5, <1>6, <1>7, <1>8, <1>9, <1>10 DEF Next

\* The stamp of an environment goes strictly up with every write that changes
\* what a listing of its flags or configs shows, under any ?tag= filter, and never
\* goes down while the environment lives, whatever the clock says.
THEOREM StampCorrect == Spec => StampCoversContent
<1>1. Init => TypeOK /\ Referential
  BY InitType, InitReferential
<1>2. TypeOK /\ Referential /\ [Next]_vars => TypeOK' /\ Referential'
  BY StepType, StepReferential
<1>3. TypeOK /\ Referential /\ [Next]_vars => [StampCoversContentStep]_vars
  BY StepStamp
<1> QED
  BY <1>1, <1>2, <1>3, PTL DEF Spec, StampCoversContent
-----------------------------------------------------------------------------
(***************************************************************************)
(* The refinement.  Besides the references, it takes that a project has at *)
(* most one tag of a name: a tag that is deleted leaves no other that the  *)
(* filter finds.                                                           *)
(***************************************************************************)
TagNamesUnique ==
    \A t, u \in tags : t.project = u.project /\ t.name = u.name => t = u

ViewInv == TypeOK /\ Referential /\ TagNamesUnique

LEMMA StepTagNames == TypeOK /\ TagNamesUnique /\ [Next]_vars => TagNamesUnique'
<1> SUFFICES ASSUME TypeOK, TagNamesUnique, [Next]_vars
             PROVE  TagNamesUnique'
  OBVIOUS
<1>1. ASSUME NEW ts \in Stamps, NEW r \in recs, NEW e \in envs, NEW name \in TagNames,
             AttachTag(r, e, name, ts)
      PROVE  TagNamesUnique'
  <2>1. PICK t \in Ids :
           /\ \/ [id |-> t, project |-> e.project, name |-> name] \in tags
              \/ \A x \in tags : ~ (x.project = e.project /\ x.name = name)
           /\ tags' = tags \cup {[id |-> t, project |-> e.project, name |-> name]}
    BY <1>1 DEF AttachTag
  <2> QED
    BY <2>1 DEF TagNamesUnique
<1>2. CASE tags' \subseteq tags
  BY <1>2 DEF TagNamesUnique
<1> QED
  BY <1>1, <1>2 DEF Next, vars, CreateProject, DeleteProject, CreateEnvironment,
     DeleteEnvironment, CreateRecord, UpdateRecord, DeleteRecord, DetachTag, DeleteTag

LEMMA ViewInvariant == Spec => []ViewInv
<1>1. Init => ViewInv
  BY InitType, InitReferential DEF Init, ViewInv, TagNamesUnique
<1>2. ViewInv /\ [Next]_vars => ViewInv'
  BY StepType, StepReferential, StepTagNames DEF ViewInv
<1> QED
  BY <1>1, <1>2, PTL DEF Spec
-----------------------------------------------------------------------------
Listings == [key : Keys, val : Values, ver : Versions]

LEMMA ListingType ==
    ASSUME TypeOK, NEW kind, NEW env, NEW filter
    PROVE  Shown(kind, env, filter) \in SUBSET Listings
BY DEF TypeOK, RecRow, Shown, Listings

LEMMA StampOfRow ==
    ASSUME UniqueIds, NEW e \in envs, e.id = Observed
    PROVE  Exists /\ StampOf = e.stamp
<1>1. Exists
  BY DEF Exists
<1>2. (CHOOSE f \in envs : f.id = Observed) = e
  BY DEF UniqueIds
<1> QED
  BY <1>1, <1>2 DEF StampOf

LEMMA StampOfRowAfter ==
    ASSUME UniqueIds', NEW e \in envs', e.id = Observed
    PROVE  Exists' /\ StampOf' = e.stamp
<1>1. Exists'
  BY DEF Exists
<1>2. (CHOOSE f \in envs' : f.id = Observed) = e
  BY DEF UniqueIds
<1> QED
  BY <1>1, <1>2 DEF StampOf

LEMMA NobodysListing ==
    ASSUME NoOrphans, ~ Exists
    PROVE  ContentOf = Env!Nothing /\ StampOf = 0
<1>1. ASSUME NEW kind, NEW filter
      PROVE  Shown(kind, Observed, filter) = {}
  BY DEF NoOrphans, Exists, Shown
<1> QED
  BY <1>1 DEF ContentOf, Env!Nothing, Env!Kinds, Kinds, StampOf

LEMMA NobodysListingAfter ==
    ASSUME NoOrphans', ~ Exists'
    PROVE  ContentOf' = Env!Nothing /\ StampOf' = 0
<1>1. ASSUME NEW kind, NEW filter
      PROVE  Shown(kind, Observed, filter)' = {}
  BY DEF NoOrphans, Exists, Shown
<1> QED
  BY <1>1 DEF ContentOf, Env!Nothing, Env!Kinds, Kinds, StampOf
-----------------------------------------------------------------------------
\* A listing depends on the records of its table and environment, and on their tags.
LEMMA ListingStays ==
    ASSUME NEW kind \in Kinds, NEW env,
           \A x \in recs : x.kind = kind /\ x.env = env => x \in recs',
           \A x \in recs' : x.kind = kind /\ x.env = env => x \in recs,
           \A x \in recs, name \in TagNames :
              x.kind = kind /\ x.env = env => (Tagged(x, name)' <=> Tagged(x, name)),
           NEW filter \in Filters
    PROVE  Shown(kind, env, filter)' = Shown(kind, env, filter)
<1> DEFINE Listed == {x \in recs : /\ x.kind = kind /\ x.env = env
                                   /\ filter # NoTag => Tagged(x, filter)}
<1>1. filter # NoTag => filter \in TagNames
  BY DEF Filters
<1>2. Listed' = Listed
  BY <1>1
<1> QED
  BY <1>2 DEF Shown

\* A write of one record leaves the other table alone, in every environment.
OneTable(kind) ==
    \A env : \A other \in Kinds, filter \in Filters :
       other # kind => Shown(other, env, filter)' = Shown(other, env, filter)

LEMMA OtherTableStays ==
    ASSUME NEW kind \in Kinds,
           \A x \in recs : x.kind # kind => x \in recs',
           \A x \in recs' : x.kind # kind => x \in recs,
           \A l \in links : l.kind # kind => l \in links',
           \A l \in links' : l.kind # kind => l \in links,
           tags \subseteq tags', NoOrphans, UniqueIds'
    PROVE  OneTable(kind)
<1> SUFFICES ASSUME NEW other \in Kinds, NEW env, NEW filter \in Filters, other # kind
             PROVE  Shown(other, env, filter)' = Shown(other, env, filter)
  BY DEF OneTable
<1>1. ASSUME NEW x \in recs, NEW name \in TagNames, x.kind = other
      PROVE  Tagged(x, name)' <=> Tagged(x, name)
  <2>1. Tagged(x, name) => Tagged(x, name)'
    BY <1>1 DEF Tagged
  <2>2. ASSUME Tagged(x, name)'
        PROVE  Tagged(x, name)
    <3>1. PICK l \in links', u \in tags' : /\ l.kind = x.kind /\ l.owner = x.id
                                           /\ u.id = l.tag /\ u.name = name
      BY <2>2 DEF Tagged
    <3>2. l \in links
      BY <1>1, <3>1
    <3>3. PICK t \in tags : t.id = l.tag
      BY <3>2 DEF NoOrphans
    <3>4. t = u
      BY <3>1, <3>3 DEF UniqueIds
    <3> QED
      BY <3>1, <3>2, <3>3, <3>4 DEF Tagged
  <2> QED
    BY <2>1, <2>2
<1>2. /\ \A x \in recs : x.kind = other /\ x.env = env => x \in recs'
      /\ \A x \in recs' : x.kind = other /\ x.env = env => x \in recs
  OBVIOUS
<1> QED
  BY <1>1, <1>2, ListingStays

LEMMA RecordWrites ==
    ASSUME ViewInv, UniqueIds',
           NEW ts \in Stamps,
           \/ \E kind \in Kinds, e \in envs, key \in Keys, val \in Values :
                 CreateRecord(kind, e, key, val, ts)
           \/ \E r \in recs, val \in Values, expected \in 0 .. MaxVersion :
                 UpdateRecord(r, val, expected, ts)
           \/ \E r \in recs, expected \in 0 .. MaxVersion : DeleteRecord(r, expected, ts)
           \/ \E r \in recs, e \in envs, name \in TagNames : AttachTag(r, e, name, ts)
           \/ \E r \in recs, e \in envs, t \in tags : DetachTag(r, e, t, ts)
    PROVE  \E kind \in Kinds : OneTable(kind)
<1>1. NoOrphans /\ \A r \in recs : r.kind \in Kinds
  BY DEF ViewInv, Referential, TypeOK, RecRow
<1>2. ASSUME NEW kind \in Kinds, NEW e \in envs, NEW key \in Keys, NEW val \in Values,
             CreateRecord(kind, e, key, val, ts)
      PROVE  OneTable(kind)
  <2>1. /\ tags' = tags /\ links' = links
        /\ \E id \in Ids : recs' = recs \cup {[kind |-> kind, id |-> id, env |-> e.id,
                                               key |-> key, val |-> val, ver |-> 1]}
    BY <1>2 DEF CreateRecord
  <2> QED
    BY <1>1, <2>1, OtherTableStays
<1>3. ASSUME NEW r \in recs, NEW val \in Values, NEW expected \in 0 .. MaxVersion,
             UpdateRecord(r, val, expected, ts)
      PROVE  OneTable(r.kind)
  <2> DEFINE new == [r EXCEPT !.val = val, !.ver = @ + 1]
  <2>1. tags' = tags /\ links' = links /\ recs' = (recs \ {r}) \cup {new}
    BY <1>3 DEF UpdateRecord
  <2>2. new.kind = r.kind
    BY DEF ViewInv, TypeOK, RecRow
  <2> HIDE DEF new
  <2> QED
    BY <1>1, <2>1, <2>2, OtherTableStays
<1>4. ASSUME NEW r \in recs, NEW expected \in 0 .. MaxVersion, DeleteRecord(r, expected, ts)
      PROVE  OneTable(r.kind)
  <2>1. /\ tags' = tags /\ recs' = recs \ {r}
        /\ links' = {l \in links : /\ \E x \in recs' : x.kind = l.kind /\ x.id = l.owner
                                   /\ \E t \in tags' : t.id = l.tag}
    BY <1>4 DEF DeleteRecord, CascadeLinks
  <2>2. \A l \in links : l.kind # r.kind => l \in links'
    BY <1>1, <2>1 DEF NoOrphans
  <2> QED
    BY <1>1, <2>1, <2>2, OtherTableStays
<1>5. ASSUME NEW r \in recs, NEW e \in envs, NEW name \in TagNames, AttachTag(r, e, name, ts)
      PROVE  OneTable(r.kind)
  <2>1. recs' = recs
    BY <1>5 DEF AttachTag
  <2>2. PICK t \in Ids :
           /\ tags' = tags \cup {[id |-> t, project |-> e.project, name |-> name]}
           /\ links' = links \cup {[kind |-> r.kind, owner |-> r.id, tag |-> t]}
    BY <1>5 DEF AttachTag
  <2> QED
    BY <1>1, <2>1, <2>2, OtherTableStays
<1>6. ASSUME NEW r \in recs, NEW e \in envs, NEW t \in tags, DetachTag(r, e, t, ts)
      PROVE  OneTable(r.kind)
  <2>1. /\ recs' = recs /\ tags' = tags
        /\ links' = links \ {[kind |-> r.kind, owner |-> r.id, tag |-> t.id]}
    BY <1>6 DEF DetachTag
  <2> QED
    BY <1>1, <2>1, OtherTableStays
<1> QED
  BY <1>1, <1>2, <1>3, <1>4, <1>5, <1>6

\* A deleted tag goes from the listings that its name filters, and from no others.
LEMMA TagRemoved ==
    ASSUME ViewInv, NEW t \in tags, NEW ts \in Stamps, DeleteTag(t, ts),
           NEW e \in envs, e.project = t.project, NEW kind \in Kinds, NEW filter \in Filters
    PROVE  Shown(kind, e.id, filter)' =
              IF filter = t.name THEN {} ELSE Shown(kind, e.id, filter)
<1>1. /\ recs' = recs /\ tags' = tags \ {t}
      /\ links' = {l \in links : /\ \E x \in recs' : x.kind = l.kind /\ x.id = l.owner
                                 /\ \E u \in tags' : u.id = l.tag}
  BY DEF DeleteTag, CascadeLinks
<1>2. t.name # NoTag
  BY TagsHaveNames DEF ViewInv, TypeOK, TagRow
<1>3. CASE filter = t.name
  <2>1. ASSUME NEW x \in recs, x.env = e.id, Tagged(x, filter)'
        PROVE  FALSE
    <3>1. PICK l \in links', u \in tags' : /\ l.kind = x.kind /\ l.owner = x.id
                                           /\ u.id = l.tag /\ u.name = filter
      BY <2>1 DEF Tagged
    <3>2. u.project = t.project
      BY <1>1, <2>1, <3>1 DEF ViewInv, Referential, TagsStayInProject
    <3> QED
      BY <1>1, <1>3, <3>1, <3>2 DEF ViewInv, TagNamesUnique
  <2> QED
    BY <1>1, <1>2, <1>3, <2>1 DEF Shown
<1>4. CASE filter # t.name
  <2>1. ASSUME NEW x \in recs, NEW name \in TagNames, name # t.name
        PROVE  Tagged(x, name)' <=> Tagged(x, name)
    <3>1. Tagged(x, name)' => Tagged(x, name)
      BY <1>1 DEF Tagged
    <3>2. ASSUME Tagged(x, name)
          PROVE  Tagged(x, name)'
      <4>1. PICK l \in links, u \in tags : /\ l.kind = x.kind /\ l.owner = x.id
                                           /\ u.id = l.tag /\ u.name = name
        BY <3>2 DEF Tagged
      <4>2. u \in tags'
        BY <1>1, <2>1, <4>1
      <4>3. l \in links'
        BY <1>1, <4>1, <4>2
      <4> QED
        BY <4>1, <4>2, <4>3 DEF Tagged
    <3> QED
      BY <3>1, <3>2
  <2> DEFINE Listed == {x \in recs : /\ x.kind = kind /\ x.env = e.id
                                     /\ filter # NoTag => Tagged(x, filter)}
  <2>2. filter # NoTag => filter \in TagNames
    BY DEF Filters
  <2>3. Listed' = Listed
    BY <1>1, <1>4, <2>1, <2>2
  <2> QED
    BY <1>4, <2>3 DEF Shown
<1> QED
  BY <1>3, <1>4
-----------------------------------------------------------------------------
\* An environment that was not there before is the only thing that is new.
LEMMA Births ==
    ASSUME TypeOK, Next, NEW f \in envs', \A e \in envs : e.id # f.id
    PROVE  UNCHANGED <<recs, tags, links>>
<1>1. envs \subseteq EnvRow
  BY DEF TypeOK
<1>2. ASSUME NEW ids, NEW ts \in Stamps, Touch(ids, ts)
      PROVE  FALSE
  BY <1>1, <1>2, TouchKeeps
<1>3. ~ envs' \subseteq envs
  OBVIOUS
<1>4. PICK ts \in Stamps :
        \/ \E slug \in ProjectSlugs : CreateProject(slug, ts)
        \/ \E p \in projects : DeleteProject(p)
        \/ \E p \in projects, slug \in EnvSlugs : CreateEnvironment(p, slug, ts)
        \/ \E e \in envs : DeleteEnvironment(e)
        \/ \E ids : Touch(ids, ts)
  BY Zenon DEF Next, CreateRecord, UpdateRecord, DeleteRecord, AttachTag, DetachTag,
     DeleteTag, TouchProject
<1>5. ~ \E ids : Touch(ids, ts)
  BY <1>2
<1>6. ~ (\E p \in projects : DeleteProject(p)) /\ ~ (\E e \in envs : DeleteEnvironment(e))
  BY <1>3 DEF DeleteProject, DeleteEnvironment
<1> QED
  BY <1>4, <1>5, <1>6 DEF CreateProject, CreateEnvironment

LEMMA SameContent ==
    ASSUME \A kind \in Kinds, filter \in Filters :
              Shown(kind, Observed, filter)' = Shown(kind, Observed, filter)
    PROVE  ContentOf' = ContentOf
BY DEF ContentOf

LEMMA Observes ==
    /\ Env!Kinds = Kinds /\ Env!Stamps = Stamps
    /\ Env!Views = [Filters -> SUBSET Listings]
BY DEF Env!Kinds, Kinds, Env!Stamps, Stamps, Env!Views, Listings

\* A write of one record of the environment, at most.
LEMMA ChangeRefines ==
    ASSUME ViewInv', NEW kind \in Kinds, OneTable(kind),
           Exists, Exists', StampOf' \in Stamps, StampOf' > StampOf
    PROVE  Env!StoreNext
<1> DEFINE view == [filter \in Filters |-> Shown(kind, Observed, filter)']
<1>1. view \in Env!Views
  <2>1. \A filter : Shown(kind, Observed, filter)' \in SUBSET Listings
    BY DEF ViewInv, TypeOK, RecRow, Shown, Listings
  <2> QED
    BY <2>1, Observes
<1>2. ContentOf' = [ContentOf EXCEPT ![kind] = view]
  <2>1. \A other \in Kinds, filter \in Filters :
           other # kind => Shown(other, Observed, filter)' = Shown(other, Observed, filter)
    BY DEF OneTable
  <2> QED
    BY <2>1 DEF ContentOf
<1>3. ContentOf' \in {[ContentOf EXCEPT ![kind] = v] : v \in Env!Views}
  BY <1>1, <1>2
<1>4. StampOf' \in {s \in Env!Stamps : s > StampOf}
  BY Observes
<1>5. Env!Change(kind)
  BY <1>3, <1>4 DEF Env!Change
<1> QED
  BY <1>5, Observes DEF Env!StoreNext

LEMMA RemoveTagRefines ==
    ASSUME ViewInv, NEW t \in tags, NEW ts \in Stamps, DeleteTag(t, ts),
           NEW e \in envs, e.id = Observed, e.project = t.project,
           Exists, Exists', StampOf' \in Stamps, StampOf' > StampOf
    PROVE  Env!StoreNext
<1>1. t.name \in Filters /\ t.name # NoTag
  BY TagsHaveNames DEF ViewInv, TypeOK, TagRow, Filters
<1>2. \A kind \in Kinds, filter \in Filters :
         Shown(kind, Observed, filter)' =
            IF filter = t.name THEN {} ELSE Shown(kind, Observed, filter)
  BY TagRemoved
<1>3. ContentOf' = [kind \in Env!Kinds |-> [ContentOf[kind] EXCEPT ![t.name] = {}]]
  BY <1>1, <1>2, Observes DEF ContentOf
<1>4. StampOf' \in {s \in Env!Stamps : s > StampOf}
  BY Observes
<1>5. Env!RemoveTag(t.name)
  BY <1>1, <1>3, <1>4 DEF Env!RemoveTag
<1> QED
  BY <1>1, <1>5 DEF Env!StoreNext

LEMMA SurvivorRefines ==
    ASSUME ViewInv, ViewInv', Next, NEW e \in envs, NEW f \in envs',
           e.id = Observed, f.id = Observed
    PROVE  Env!StoreNext \/ UNCHANGED <<Exists, StampOf, ContentOf>>
<1>1. UniqueIds /\ UniqueIds' /\ envs \subseteq EnvRow /\ envs' \subseteq EnvRow
  BY DEF ViewInv, Referential, TypeOK
<1>2. /\ Exists /\ StampOf = e.stamp
      /\ Exists' /\ StampOf' = f.stamp
  BY <1>1, StampOfRow, StampOfRowAfter
<1>3. /\ f.stamp >= e.stamp
      /\ (\E kind \in Kinds, filter \in Filters :
             Shown(kind, Observed, filter)' # Shown(kind, Observed, filter))
         => f.stamp > e.stamp
  BY StepStamp DEF ViewInv, StampCoversContentStep
<1>4. e.stamp \in Stamps /\ f.stamp \in Stamps /\ e.stamp \in Int /\ f.stamp \in Int
  BY <1>1, StorageBounds DEF EnvRow, Stamps
<1>5. CASE f.stamp = e.stamp
  <2>1. ContentOf' = ContentOf
    BY <1>3, <1>4, <1>5, SameContent
  <2> QED
    BY <1>2, <1>5, <2>1
<1>6. CASE f.stamp > e.stamp
  <2>1. f \notin envs
    BY <1>1, <1>4, <1>6 DEF UniqueIds
  <2>2. e \notin envs'
    BY <1>1, <1>4, <1>6 DEF UniqueIds
  <2>3. /\ \A slug \in ProjectSlugs, ts \in Stamps : ~ CreateProject(slug, ts)
        /\ \A p \in projects, slug \in EnvSlugs, ts \in Stamps : ~ CreateEnvironment(p, slug, ts)
        /\ \A p \in projects : ~ DeleteProject(p)
        /\ \A d \in envs : ~ DeleteEnvironment(d)
    BY <2>1, <2>2 DEF CreateProject, CreateEnvironment, DeleteProject, DeleteEnvironment
  <2>4. PICK ts \in Stamps :
           \/ \E kind \in Kinds, d \in envs, key \in Keys, val \in Values :
                 CreateRecord(kind, d, key, val, ts)
           \/ \E r \in recs, val \in Values, expected \in 0 .. MaxVersion :
                 UpdateRecord(r, val, expected, ts)
           \/ \E r \in recs, expected \in 0 .. MaxVersion : DeleteRecord(r, expected, ts)
           \/ \E r \in recs, d \in envs, name \in TagNames : AttachTag(r, d, name, ts)
           \/ \E r \in recs, d \in envs, t \in tags : DetachTag(r, d, t, ts)
           \/ \E t \in tags : DeleteTag(t, ts)
    BY <2>3 DEF Next
  <2>5. CASE \E t \in tags : DeleteTag(t, ts)
    <3>1. PICK t \in tags : DeleteTag(t, ts)
      BY <2>5
    <3>2. e.project = t.project
      <4> DEFINE ids == {x.id : x \in {d \in envs : d.project = t.project}}
      <4>1. Touch(ids, ts)
        BY <3>1 DEF DeleteTag, TouchProject
      <4>2. e.id \in ids => e.project = t.project
        BY <1>1 DEF UniqueIds
      <4> HIDE DEF ids
      <4>3. PICK d \in envs :
               /\ f.id = d.id
               /\ f = IF d.id \in ids THEN [d EXCEPT !.stamp = Bumped(@, ts)] ELSE d
        BY <1>1, <4>1, TouchKeeps
      <4>4. d = e
        BY <1>1, <4>3 DEF UniqueIds
      <4> QED
        BY <2>1, <4>2, <4>3, <4>4
    <3> QED
      BY <1>2, <1>4, <1>6, <3>1, <3>2, RemoveTagRefines
  <2>6. CASE ~ \E t \in tags : DeleteTag(t, ts)
    <3>1. \E kind \in Kinds : OneTable(kind)
      BY <1>1, <2>4, <2>6, RecordWrites
    <3> QED
      BY <1>2, <1>4, <1>6, <3>1, ChangeRefines
  <2> QED
    BY <2>5, <2>6
<1> QED
  BY <1>3, <1>4, <1>5, <1>6

LEMMA StepRefines ==
    ASSUME ViewInv, ViewInv', [Next]_vars
    PROVE  [Env!StoreNext]_(Env!storeVars)
<1> SUFFICES Env!StoreNext \/ UNCHANGED <<Exists, StampOf, ContentOf>>
  BY DEF Env!storeVars
<1>1. NoOrphans /\ NoOrphans' /\ UniqueIds'
  BY DEF ViewInv, Referential
<1>2. CASE UNCHANGED vars
  BY <1>2 DEF vars, Exists, StampOf, ContentOf, Shown, Tagged
<1>3. CASE Next /\ ~ Exists /\ ~ Exists'
  <2>1. /\ ContentOf = Env!Nothing /\ StampOf = 0
        /\ ContentOf' = Env!Nothing /\ StampOf' = 0
    BY <1>1, <1>3, NobodysListing, NobodysListingAfter
  <2>2. Exists' = Exists
    BY <1>3 DEF Exists
  <2> QED
    BY <2>1, <2>2
<1>4. CASE Next /\ ~ Exists /\ Exists'
  <2>1. PICK f \in envs' : f.id = Observed
    BY <1>4 DEF Exists
  <2>2. UNCHANGED <<recs, tags, links>>
    BY <1>4, <2>1, Births DEF ViewInv, Exists
  <2>3. ContentOf' = ContentOf
    BY <2>2 DEF ContentOf, Shown, Tagged
  <2>4. StampOf' \in Env!Stamps
    <3>1. StampOf' = f.stamp
      BY <1>1, <2>1, StampOfRowAfter
    <3> QED
      BY <2>1, <3>1, Observes DEF ViewInv, TypeOK, EnvRow
  <2> QED
    BY <1>4, <2>3, <2>4 DEF Env!StoreNext, Env!Create
<1>5. CASE Next /\ Exists /\ ~ Exists'
  <2>1. ContentOf' = Env!Nothing /\ StampOf' = 0
    BY <1>1, <1>5, NobodysListingAfter
  <2>2. Exists' = FALSE
    BY <1>5 DEF Exists
  <2>3. Env!Delete
    BY <1>5, <2>1, <2>2 DEF Env!Delete
  <2> QED
    BY <2>3 DEF Env!StoreNext
<1>6. CASE Next /\ Exists /\ Exists'
  BY <1>6, SurvivorRefines DEF Exists
<1> QED
  BY <1>2, <1>3, <1>4, <1>5, <1>6

\* What the rows of one environment id show its readers, whichever id it is and whatever
\* is written anywhere else in the tables, behaves as EnvStore says.
THEOREM ImplementsEnvStoreCorrect == Spec => ImplementsEnvStore
<1>1. Init => Env!StoreInit
  <2> SUFFICES ASSUME Init
               PROVE  Env!StoreInit
    OBVIOUS
  <2>1. NoOrphans /\ ~ Exists
    BY DEF Init, NoOrphans, Exists
  <2> QED
    BY <2>1, NobodysListing DEF Env!StoreInit
<1>2. ViewInv /\ ViewInv' /\ [Next]_vars => [Env!StoreNext]_(Env!storeVars)
  BY StepRefines
<1> QED
  BY <1>1, <1>2, ViewInvariant, PTL DEF Spec, ImplementsEnvStore, Env!StoreSpec
=============================================================================
