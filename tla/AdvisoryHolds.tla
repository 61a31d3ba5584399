---------------------------- MODULE AdvisoryHolds ----------------------------
(***************************************************************************)
(* The advisory hold guard (src/scripts/advisory_hold_guard.py).  A hold   *)
(* lets an advisory through for one version of a crate until a date.  The  *)
(* ignore that does so is by id alone, so the guard compares the holds     *)
(* with Cargo.lock and the ignore lists, which people edit as days pass.   *)
(* Names and ids are model values.                                         *)
(***************************************************************************)
EXTENDS Integers, Sequences, FiniteSets

CONSTANTS
  Crates, Packages,  \* names; the packages in question: [name, version]
  Resolves,          \* lock files: package -> the packages it depends on
  Advisories, Crate, Kind, Patched,  \* ids; the crate, kind and patched ranges of each
  HoldDays,          \* how many days a hold is written for
  MaxHolds, MaxDay,  \* bounds on the holds and the days
  Bare               \* no version: a dependency written by its name alone

(* A pre-release identifier is <<0, n>> for the number n, <<1, n>> for the *)
(* n-th of the words; a release has none.                                  *)
Identifier == {0, 1} \X Nat
Version == [core : Nat \X Nat \X Nat, pre : Seq(Identifier)]
Comparators == (SUBSET [op : {">=", "<=", ">", "<", "="}, bound : Version]) \ {{}}

ASSUME HoldsAssumption ==
  /\ Packages \subseteq [name : Crates, version : Version \ {Bare}]
  /\ \A l \in Resolves : /\ DOMAIN l \subseteq Packages
                         /\ \A p \in DOMAIN l : l[p] \subseteq DOMAIN l
  /\ \A a \in Advisories : Patched[a] \subseteq Comparators
  /\ HoldDays \subseteq Nat /\ MaxHolds \in Nat /\ MaxDay \in Nat

-----------------------------------------------------------------------------
CoreBefore(c, d) ==
  \/ c[1] < d[1]
  \/ c[1] = d[1] /\ c[2] < d[2]
  \/ c[1] = d[1] /\ c[2] = d[2] /\ c[3] < d[3]

IdentifierBefore(i, j) == i[1] < j[1] \/ (i[1] = j[1] /\ i[2] < j[2])

(* The first identifiers that differ decide, or else the shorter is first. *)
IdentifiersBefore(p, q) ==
  \/ Len(p) < Len(q) /\ \A i \in 1..Len(p) : p[i] = q[i]
  \/ \E k \in 1..Len(p) : /\ k <= Len(q) /\ IdentifierBefore(p[k], q[k])
                          /\ \A i \in 1..(k - 1) : p[i] = q[i]

PreBefore(p, q) == p # <<>> /\ (q = <<>> \/ IdentifiersBefore(p, q))

(* v sorts before w; a pre-release before its release. *)
Before(v, w) ==
  CoreBefore(v.core, w.core) \/ (v.core = w.core /\ PreBefore(v.pre, w.pre))

Compares(v, op, w) ==
  CASE op = ">=" -> ~Before(v, w)
    [] op = "<=" -> ~Before(w, v)
    [] op = ">"  -> Before(w, v)
    [] op = "<"  -> Before(v, w)
    [] op = "="  -> ~Before(v, w) /\ ~Before(w, v)

InRange(v, range) ==
  /\ v.pre # <<>> => \E c \in range : c.bound.pre # <<>> /\ c.bound.core = v.core
  /\ \A c \in range : Compares(v, c.op, c.bound)

-----------------------------------------------------------------------------
VARIABLES
  lock,     \* Cargo.lock: package -> the packages it depends on
  holds,    \* advisory_holds.toml
  denied,   \* the ids ignored in deny.toml
  audited,  \* the ids ignored in .cargo/audit.toml
  today

holdsVars == <<lock, holds, denied, audited, today>>

VersionsOf(name) == {p \in DOMAIN lock : p.name = name}

(* Cargo writes a dependency without its version if the crate has only one. *)
Written(q) ==
  {[name |-> p.name, version |-> IF VersionsOf(p.name) = {p} THEN Bare ELSE p.version]
     : p \in lock[q]}

(* Mutant of DependentsOf: a dependency written by its name is passed over. *)
DependentsNamed(p) ==
  {q \in DOMAIN lock : \E d \in Written(q) : d.name = p.name /\ d.version = p.version}

DependentsOf(p) ==
  {q \in DOMAIN lock : \E d \in Written(q) :
     /\ d.name = p.name
     /\ d.version = p.version \/ (d.version = Bare /\ VersionsOf(p.name) = {p})}

(* A hold whose advisory is ignored, whose version is in the lock file with *)
(* the dependents it names, and which has not expired.                      *)
Exact(h) ==
  /\ today <= h.expires
  /\ h.id \in denied /\ (Kind[h.id] = "vulnerability" => h.id \in audited)
  /\ h.package \in DOMAIN lock /\ DependentsOf(h.package) = h.dependents

(* Another version of a held crate is held as well, or fixed. *)
Accounted(p) ==
  LET mine == {h \in holds : Crate[h.id] = p.name} IN
  mine # {} => \/ \E h \in mine : h.package = p
               \/ \E h \in mine : \E r \in Patched[h.id] : InRange(p.version, r)

(* check() returns 0. *)
Passes ==
  /\ DOMAIN lock # {} /\ holds # {}
  /\ \A h \in holds : Exact(h)
  /\ \A p \in DOMAIN lock : Accounted(p)

HoldsInit ==
  lock \in Resolves /\ holds = {} /\ denied = {} /\ audited = {} /\ today = 0

(* Someone updates the dependencies, ... *)
Resolve ==
  /\ lock' \in Resolves
  /\ UNCHANGED <<holds, denied, audited, today>>

(* ... writes a hold for the lock file of the day, ... *)
WriteHold(id, p, days) ==
  /\ p.name = Crate[id] /\ Cardinality(holds) < MaxHolds
  /\ holds' = holds \cup {[id |-> id, package |-> p, dependents |-> DependentsOf(p),
                           expires |-> today + days]}
  /\ UNCHANGED <<lock, denied, audited, today>>

(* ... removes one, or edits the ignore lists. *)
RemoveHold(h) ==
  /\ holds' = holds \ {h}
  /\ UNCHANGED <<lock, denied, audited, today>>

EditIgnores ==
  /\ denied' \in SUBSET Advisories /\ audited' \in SUBSET Advisories
  /\ UNCHANGED <<lock, holds, today>>

NextDay ==
  /\ today < MaxDay /\ today' = today + 1
  /\ UNCHANGED <<lock, holds, denied, audited>>

HoldsNext ==
  \/ Resolve \/ EditIgnores \/ NextDay
  \/ \E id \in Advisories, p \in DOMAIN lock, days \in HoldDays : WriteHold(id, p, days)
  \/ \E h \in holds : RemoveHold(h)

HoldsSpec == HoldsInit /\ [][HoldsNext]_holdsVars

-----------------------------------------------------------------------------
Affected(p, id) ==
  p.name = Crate[id] /\ ~ \E r \in Patched[id] : InRange(p.version, r)

(* A guard that passes lets the ignores of the held advisories hide no     *)
(* more than is held (advisory_hold_guard.py:4-22): a locked package that  *)
(* such an advisory affects has a hold of its own that is in date, and the *)
(* packages it names are the ones that depend on it.  Except in a crate    *)
(* with holds on two advisories, whose versions and ranges the guard takes *)
(* together, whichever advisory they are of (:109, :127).                  *)
HidesNothing ==
  Passes => \A h \in holds, p \in DOMAIN lock : Affected(p, h.id) =>
    \/ \E g \in holds : /\ g.id = h.id /\ g.package = p /\ today <= g.expires
                        /\ g.dependents = {q \in DOMAIN lock : p \in lock[q]}
    \/ \E g \in holds : g.id # h.id /\ Crate[g.id] = Crate[h.id]
=============================================================================
