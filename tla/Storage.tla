------------------------------ MODULE Storage ------------------------------
(***************************************************************************)
(* The tables behind a project (internal/db): projects, environments,     *)
(* flags, configs, tags and the flag_tags / config_tags links.  Every      *)
(* write function of the package is one transaction on a single write      *)
(* connection opened with _txlock=immediate, so it is one atomic action    *)
(* here; a call that ends in an error rolls back and is a disabled action. *)
(*                                                                         *)
(* A table is a set of rows.  Flags and configs differ only in the table   *)
(* they live in, so a row of either is a record tagged with its kind.      *)
(***************************************************************************)
EXTENDS Integers

CONSTANTS
    ProjectSlugs,        \* slugs a caller may ask for
    EnvSlugs,
    DefaultEnvironment,  \* "prod": the environment a project is born with
    Keys,                \* flag and config keys
    Values,              \* a flag's bool, a config's JSON document
    TagNames,
    MaxId,               \* bound: ids a table can hand out
    MaxVersion,          \* bound: versions of one record
    MaxStamp             \* bound: environment stamps and clock readings

ASSUME StorageBounds ==
    /\ MaxId \in Nat
    /\ MaxVersion \in Nat \ {0}
    /\ MaxStamp \in Nat

ASSUME DefaultIsSlug == DefaultEnvironment \in EnvSlugs

VARIABLES
    projects,  \* [id, slug]
    envs,      \* [id, project, slug, stamp]; stamp is the updated_at column
    recs,      \* feature_flags and configs: [kind, id, env, key, val, ver]
    tags,      \* [id, project, name]
    links      \* flag_tags and config_tags: [kind, owner, tag]

vars == <<projects, envs, recs, tags, links>>

Kinds    == {"flag", "config"}
Ids      == 1 .. MaxId
Versions == 1 .. MaxVersion
Stamps   == 0 .. MaxStamp

\* An unfiltered request carries the empty string, which is no tag's name.
NoTag   == ""
Filters == TagNames \cup {NoTag}

ASSUME TagsHaveNames == NoTag \notin TagNames

ProjectRow == [id : Ids, slug : ProjectSlugs]
EnvRow     == [id : Ids, project : Ids, slug : EnvSlugs, stamp : Stamps]
RecRow     == [kind : Kinds, id : Ids, env : Ids, key : Keys, val : Values,
               ver : Versions]
TagRow     == [id : Ids, project : Ids, name : TagNames]
LinkRow    == [kind : Kinds, owner : Ids, tag : Ids]

-----------------------------------------------------------------------------
(* What SQLite and the helpers of the package provide.                     *)

\* INTEGER PRIMARY KEY without AUTOINCREMENT: one more than the largest id
\* in the table, so the id of a deleted newest row is handed out again.
IsNextId(table, id) ==
    /\ \A row \in table : row.id < id
    /\ id = 1 \/ \E row \in table : row.id = id - 1

OfKind(kind) == {r \in recs : r.kind = kind}

\* Variants of Bumped, which the properties must tell from it: the stamp is the
\* time alone; the stamp is the time since the last write.
BumpedToClock(stamp, ts) == IF ts > stamp THEN ts ELSE stamp
BumpedToAge(stamp, ts) == ts - stamp

\* touchEnv: MAX(ts, updated_at + 1).
Bumped(stamp, ts) == IF ts > stamp + 1 THEN ts ELSE stamp + 1

\* The environments with their stamps moved; disabled at the bound.
Touch(ids, ts) ==
    /\ \A e \in envs : e.id \in ids => Bumped(e.stamp, ts) <= MaxStamp
    /\ envs' = {IF e.id \in ids THEN [e EXCEPT !.stamp = Bumped(@, ts)] ELSE e :
                   e \in envs}

\* A variant of TouchProject: the write is reported to one environment only.
TouchOneOf(project, ts) ==
    \E e \in envs : e.project = project /\ Touch({e.id}, ts)

TouchProject(project, ts) ==
    Touch({e.id : e \in {x \in envs : x.project = project}}, ts)

\* A variant of CascadeLinks: the links of a deleted record stay.
CascadeTagLinks ==
    links' = {l \in links : \E t \in tags' : t.id = l.tag}

\* ON DELETE CASCADE towards the link tables: a link goes when the record it
\* hangs on or the tag it names goes.
CascadeLinks ==
    links' = {l \in links :
                 /\ \E r \in recs' : r.kind = l.kind /\ r.id = l.owner
                 /\ \E t \in tags' : t.id = l.tag}

\* ... and from an environment to its records.
CascadeRecs == recs' = {r \in recs : \E e \in envs' : e.id = r.env}

-----------------------------------------------------------------------------
(* projects.go *)

CreateProject(slug, ts) ==
    /\ \A p \in projects : p.slug # slug
    /\ \E p \in Ids, e \in Ids :
          /\ IsNextId(projects, p)
          /\ IsNextId(envs, e)
          /\ projects' = projects \cup {[id |-> p, slug |-> slug]}
          /\ envs' = envs \cup {[id |-> e, project |-> p,
                                 slug |-> DefaultEnvironment, stamp |-> ts]}
    /\ UNCHANGED <<recs, tags, links>>

DeleteProject(p) ==
    /\ p \in projects
    /\ projects' = projects \ {p}
    /\ envs' = {e \in envs : e.project # p.id}
    /\ tags' = {t \in tags : t.project # p.id}
    /\ CascadeRecs
    /\ CascadeLinks

CreateEnvironment(p, slug, ts) ==
    /\ p \in projects
    /\ \A e \in envs : ~ (e.project = p.id /\ e.slug = slug)
    /\ \E e \in Ids :
          /\ IsNextId(envs, e)
          /\ envs' = envs \cup {[id |-> e, project |-> p.id, slug |-> slug,
                                 stamp |-> ts]}
    /\ UNCHANGED <<projects, recs, tags, links>>

DeleteEnvironment(e) ==
    /\ e \in envs
    /\ envs' = envs \ {e}
    /\ UNCHANGED <<projects, tags>>
    /\ CascadeRecs
    /\ CascadeLinks

-----------------------------------------------------------------------------
(* flags.go, configs.go *)

CreateRecord(kind, e, key, val, ts) ==
    /\ e \in envs
    /\ \A r \in OfKind(kind) : ~ (r.env = e.id /\ r.key = key)
    /\ \E r \in Ids :
          /\ IsNextId(OfKind(kind), r)
          /\ recs' = recs \cup {[kind |-> kind, id |-> r, env |-> e.id,
                                 key |-> key, val |-> val, ver |-> 1]}
    /\ Touch({e.id}, ts)
    /\ UNCHANGED <<projects, tags, links>>

\* The optimistic lock; a caller that passes 0 or less skips it.
VersionAccepted(r, expected) == expected > 0 => r.ver = expected

UpdateRecord(r, val, expected, ts) ==
    /\ r \in recs
    /\ VersionAccepted(r, expected)
    /\ r.ver < MaxVersion
    /\ recs' = (recs \ {r}) \cup {[r EXCEPT !.val = val, !.ver = @ + 1]}
    /\ Touch({r.env}, ts)
    /\ UNCHANGED <<projects, tags, links>>

DeleteRecord(r, expected, ts) ==
    /\ r \in recs
    /\ VersionAccepted(r, expected)
    /\ recs' = recs \ {r}
    /\ Touch({r.env}, ts)
    /\ UNCHANGED <<projects, tags>>
    /\ CascadeLinks

-----------------------------------------------------------------------------
(* tags.go *)

\* attachTag: the tag is created on the project at its first use, the link is
\* INSERT OR IGNORE, and the stamp of this one environment moves even when
\* the link was already there.
AttachTag(r, e, name, ts) ==
    /\ r \in recs
    /\ e \in envs /\ e.id = r.env
    /\ \E t \in Ids :
          /\ \/ [id |-> t, project |-> e.project, name |-> name] \in tags
             \/ /\ \A x \in tags : ~ (x.project = e.project /\ x.name = name)
                /\ IsNextId(tags, t)
          /\ tags' = tags \cup {[id |-> t, project |-> e.project, name |-> name]}
          /\ links' = links \cup {[kind |-> r.kind, owner |-> r.id, tag |-> t]}
    /\ Touch({e.id}, ts)
    /\ UNCHANGED <<projects, recs>>

\* detachTag: an absent link is ErrNotFound.  The tag stays on the project.
DetachTag(r, e, t, ts) ==
    /\ r \in recs
    /\ e \in envs /\ e.id = r.env
    /\ t \in tags /\ t.project = e.project
    /\ [kind |-> r.kind, owner |-> r.id, tag |-> t.id] \in links
    /\ links' = links \ {[kind |-> r.kind, owner |-> r.id, tag |-> t.id]}
    /\ Touch({e.id}, ts)
    /\ UNCHANGED <<projects, recs, tags>>

DeleteTag(t, ts) ==
    /\ t \in tags
    /\ TouchProject(t.project, ts)
    /\ tags' = tags \ {t}
    /\ UNCHANGED <<projects, recs>>
    /\ CascadeLinks

-----------------------------------------------------------------------------
Init ==
    /\ projects = {}
    /\ envs = {}
    /\ recs = {}
    /\ tags = {}
    /\ links = {}

\* ts is whatever time.Now().Unix() returned: it has second resolution, it is
\* read before the write lock is waited for in the Create functions, and the
\* wall clock may be stepped back, so nothing relates two readings.
Next ==
    \E ts \in Stamps :
       \/ \E slug \in ProjectSlugs : CreateProject(slug, ts)
       \/ \E p \in projects : DeleteProject(p)
       \/ \E p \in projects, slug \in EnvSlugs : CreateEnvironment(p, slug, ts)
       \/ \E e \in envs : DeleteEnvironment(e)
       \/ \E kind \in Kinds, e \in envs, key \in Keys, val \in Values :
             CreateRecord(kind, e, key, val, ts)
       \/ \E r \in recs, val \in Values, expected \in 0 .. MaxVersion :
             UpdateRecord(r, val, expected, ts)
       \/ \E r \in recs, expected \in 0 .. MaxVersion :
             DeleteRecord(r, expected, ts)
       \/ \E r \in recs, e \in envs, name \in TagNames : AttachTag(r, e, name, ts)
       \/ \E r \in recs, e \in envs, t \in tags : DetachTag(r, e, t, ts)
       \/ \E t \in tags : DeleteTag(t, ts)

Spec == Init /\ [][Next]_vars

-----------------------------------------------------------------------------
(* What the readers see. *)

\* filterClauses matches a tag by its NAME, through the links alone: nothing
\* in the query says that the tag belongs to the environment's project.
Tagged(r, name) ==
    \E l \in links, t \in tags :
       /\ l.kind = r.kind /\ l.owner = r.id
       /\ t.id = l.tag /\ t.name = name

\* ListFlagsTagged / ListConfigsTagged with ?tag=, and with no filter; the
\* single-record endpoints also show the version.
Shown(kind, env, filter) ==
    {[key |-> r.key, val |-> r.val, ver |-> r.ver] :
        r \in {x \in recs : /\ x.kind = kind /\ x.env = env
                            /\ filter # NoTag => Tagged(x, filter)}}

\* ListTagsForEnvironment, behind GET /v1/tags.
TagList(e) == {t.name : t \in {x \in tags : x.project = e.project}}

-----------------------------------------------------------------------------
(* Properties *)

\* Every table holds rows of its own shape.
TypeOK ==
    /\ projects \subseteq ProjectRow
    /\ envs \subseteq EnvRow
    /\ recs \subseteq RecRow
    /\ tags \subseteq TagRow
    /\ links \subseteq LinkRow

\* An id names one row of its table, although ids are handed out again.
UniqueIds ==
    /\ \A p, q \in projects : p.id = q.id => p = q
    /\ \A e, f \in envs : e.id = f.id => e = f
    /\ \A r, s \in recs : r.kind = s.kind /\ r.id = s.id => r = s
    /\ \A t, u \in tags : t.id = u.id => t = u

\* No row outlives the row it refers to.
NoOrphans ==
    /\ \A e \in envs : \E p \in projects : p.id = e.project
    /\ \A r \in recs : \E e \in envs : e.id = r.env
    /\ \A t \in tags : \E p \in projects : p.id = t.project
    /\ \A l \in links :
          /\ \E r \in recs : r.kind = l.kind /\ r.id = l.owner
          /\ \E t \in tags : t.id = l.tag

\* A record only carries tags of its own project.  No constraint of the schema
\* says so and filterClauses depends on it: with ids handed out again, a link
\* that survived its record or its tag would tag a stranger's record.
TagsStayInProject ==
    \A l \in links, r \in recs, t \in tags, e \in envs :
       (/\ r.kind = l.kind /\ r.id = l.owner
        /\ t.id = l.tag /\ e.id = r.env) => t.project = e.project

\* The three together: what every query of the package takes for granted.
Referential == UniqueIds /\ NoOrphans /\ TagsStayInProject

\* The stamp of an environment that survives a step never goes down, and it
\* goes strictly up whenever anything an ETag stands for changes: the flags or
\* the configs of the environment, or their values or versions, under any
\* ?tag= filter (etag.go, and the comment of touchEnv in db.go).
StampCoversContentStep ==
    \A e \in envs, f \in envs' :
       e.id = f.id =>
          /\ f.stamp >= e.stamp
          /\ (\E kind \in Kinds, filter \in Filters :
                 Shown(kind, e.id, filter)' # Shown(kind, e.id, filter))
             => f.stamp > e.stamp

StampCoversContent == [][StampCoversContentStep]_vars

\* What etag.go:9-12 says of the ETag that GET /v1/tags sends as well: "Any
\* write anywhere under the environment bumps that column, so a stable ETag
\* means "nothing you can see has changed"".
StampCoversTagList ==
    [][\A e \in envs, f \in envs' :
          e.id = f.id /\ TagList(e)' # TagList(e) => f.stamp > e.stamp]_vars
=============================================================================
