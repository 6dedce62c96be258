---------------------------- MODULE EntitySaving ----------------------------
(***************************************************************************)
(* The life of entities: a unit of work of each app instance adds, loads,  *)
(* changes and removes entities, the interceptors of DRN give them ids,    *)
(* entity ids and stamps, and the database checks keys and stamps when it  *)
(* writes.  Saves fail before or after the database has written, and are   *)
(* tried again; processes crash and start again, possibly with another key *)
(* ring.                                                                   *)
(*                                                                         *)
(* A process is named by its app instance id: no two run with the same one *)
(* at the same time, and one that starts again does so after the last time *)
(* unit it used.  Ids within a process are those of SequenceManager: per   *)
(* entity type, a fresh sequence number of the unit.  Each type has a      *)
(* table of its own.  External: Entity Framework tracks the entities, and  *)
(* the database writes all changes of a save or none.                      *)
(***************************************************************************)
EXTENDS SourceKnownIds, SourceKnownEntityIds, Sequences, FiniteSets

CONSTANTS
  AppId,        \* NexusAppSettings.AppId
  Configs,      \* the settings to start with: a key ring, UseSecureSourceKnownIds
  FirstConfig,  \* the settings of the first deployment
  MaxTracked,   \* bound: MaxTracked[p] entities in a unit of work of p
  MaxLoaded,    \* bound: an entity is loaded as one of the first MaxLoaded
  MaxObjects,   \* bound: entities ever added
  MaxReadings,  \* bound: times that each process marks a modified entity
  MaxTime,      \* bound: the time unit
  MaxFaults     \* bound: MaxFaults[p] crashes, cancelled saves and lost
                \* connections of p

ASSUME SavingAssumption ==
  /\ AppId \in AppIds
  /\ Ids = SourceKnownIdSet
  /\ \A c \in Configs : c.ring \in Seq(Keys) \ {<<>>} /\ c.secure \in BOOLEAN
  /\ FirstConfig \in Configs
  /\ MaxTime \in TimeStamps

VARIABLES
  now,       \* the time unit that all processes see
  up,        \* the processes that run
  config,    \* config[p]: the settings p started with
  lastId,    \* lastId[p][type]: time and sequence number p used last
  tracked,   \* tracked[p]: the entries of the change tracker, in order
  saving,    \* the processes whose save waits for the database
  rows,      \* the rows of all tables
  readings,  \* how often each process read the system clock for ModifiedAt
  objects,   \* history: how many entities were added
  faults,    \* history: how many faults each process had
  known      \* history: the entity ids given out, and for which entity

vars == <<now, up, config, lastId, tracked, saving, rows, readings, objects,
          faults, known>>

Processes == AppInstanceIds

Unset == 0 \* an id that is not set

EmptyGuid == CHOOSE b \in Blocks : /\ ~b.content.version
                                   /\ b.content.variant = OtherVariant

(* Stamps are only compared: the readings of the clock differ from each    *)
(* other and from the beginnings of time units, which CreatedAt gives.     *)
NoStamp == <<>>
Reading(p, n) == <<p, n>>
CreatedAt(id) == <<-1, ParseId(id).ts>>

Entry(o, type, id, guid, state, stamp, version) ==
  [object |-> o, type |-> type, id |-> id, guid |-> guid, state |-> state,
   modifiedAt |-> stamp, original |-> stamp, seen |-> version]

(* The unit of work of p may be used: no save of it is under way.          *)
Working(p) == p \in up \ saving

EntityIdFor(c, id, type) ==
  IF c.secure THEN GenerateSecure(c.ring[1], id, type)
              ELSE GeneratePlain(c.ring[1], id, type)

GenerateFails(c, id, type) == c.secure /\ Jackpot(c.ring[1], id, type)

Handed(p, o, id, type, guid) ==
  [guid |-> guid, key |-> config[p].ring[1], secure |-> config[p].secure,
   id |-> id, type |-> type, object |-> o]

(* SequenceManager: the next number of the unit, the first of a new one.   *)
Following(p, type) ==
  IF lastId[p][type].ts < now THEN [ts |-> now, seq |-> 0]
  ELSE [lastId[p][type] EXCEPT !.seq = @ + 1]

(* Next: it waits for the next unit when the numbers are used up.          *)
MayUseNext(p, type) == Following(p, type).seq \in SequenceIds

NextId(p, type) == Generate(now, AppId, p, Following(p, type).seq)

UseNext(p, type) == lastId' = [lastId EXCEPT ![p][type] = Following(p, type)]

Init ==
  /\ now = 0
  /\ up = Processes
  /\ config = [p \in Processes |-> FirstConfig]
  /\ lastId = [p \in Processes |-> [t \in EntityTypes |-> [ts |-> -1, seq |-> 0]]]
  /\ tracked = [p \in Processes |-> <<>>]
  /\ saving = {}
  /\ rows = {}
  /\ readings = [p \in Processes |-> 0]
  /\ objects = 0
  /\ faults = [p \in Processes |-> 0]
  /\ known = {}

Tick ==
  /\ now < MaxTime
  /\ now' = now + 1
  /\ UNCHANGED <<up, config, lastId, tracked, saving, rows, readings, objects, faults,
                 known>>

-----------------------------------------------------------------------------
(* The unit of work.                                                       *)

(* Repository.Add: tracking an entity calls the value generator.           *)
Add(p, type) ==
  /\ Working(p) /\ Len(tracked[p]) < MaxTracked[p]
  /\ objects < MaxObjects
  /\ MayUseNext(p, type)
  /\ UseNext(p, type)
  /\ objects' = objects + 1
  /\ tracked' = [tracked EXCEPT ![p] = Append(@,
       Entry(objects', type, NextId(p, type), EmptyGuid, "Added", NoStamp, 0))]
  /\ UNCHANGED <<now, up, config, saving, rows, readings, faults, known>>

Matching(r, id, type) == r.id = id /\ r.type = type

(* A client asks for an entity by an entity id it was given: GetAsync and  *)
(* the materialization of the row.                                         *)
Get(p, h) ==
  /\ Working(p) /\ Len(tracked[p]) < MaxLoaded
  /\ LET parsed == Parse(config[p].ring, h.guid) IN
     /\ parsed.valid
     /\ \A i \in 1..Len(tracked[p]) :
          ~Matching(tracked[p][i], parsed.id, parsed.type)
     /\ ~GenerateFails(config[p], parsed.id, parsed.type)
     /\ \E r \in rows :
          /\ Matching(r, parsed.id, parsed.type)
          /\ LET guid == EntityIdFor(config[p], r.id, r.type) IN
             /\ tracked' = [tracked EXCEPT ![p] = Append(@,
                  Entry(r.object, r.type, r.id, guid, "Unchanged",
                        r.modifiedAt, r.version))]
             /\ known' = known \cup {Handed(p, r.object, r.id, r.type, guid)}
  /\ UNCHANGED <<now, up, config, lastId, saving, rows, readings, objects, faults>>

(* Repository.DeleteAsync by id, which neither loads nor checks a stamp.   *)
DeleteById(p, h) ==
  /\ Working(p)
  /\ LET parsed == Parse(config[p].ring, h.guid)
     IN /\ parsed.valid
        /\ rows' = {r \in rows : ~Matching(r, parsed.id, parsed.type)}
  /\ UNCHANGED <<now, up, config, lastId, tracked, saving, readings, objects, faults,
                 known>>

Edit(p, i) ==
  /\ Working(p)
  /\ tracked[p][i].state = "Unchanged"
  /\ tracked' = [tracked EXCEPT ![p][i].state = "Modified"]
  /\ UNCHANGED <<now, up, config, lastId, saving, rows, readings, objects, faults,
                 known>>

(* Repository.Remove.                                                      *)
Remove(p, i) ==
  /\ Working(p)
  /\ tracked[p][i].state \in {"Unchanged", "Modified"}
  /\ tracked' = [tracked EXCEPT ![p][i].state = "Deleted"]
  /\ UNCHANGED <<now, up, config, lastId, saving, rows, readings, objects, faults,
                 known>>

(* The scope of the unit of work ends.                                     *)
Leave(p) ==
  /\ Working(p) /\ tracked[p] # <<>>
  /\ tracked' = [tracked EXCEPT ![p] = <<>>]
  /\ UNCHANGED <<now, up, config, lastId, saving, rows, readings, objects, faults,
                 known>>

-----------------------------------------------------------------------------
(* SaveChangesAsync: the interceptor marks the entities without giving up  *)
(* its thread, then the save waits for the database.                       *)

(* Mutant: every attempt takes a new id.                                   *)
NeedsIdAlways(e) == e.state = "Added"

(* Only an id whose fields are all 0 still counts as not set.              *)
NeedsId(e) == e.state = "Added" /\ e.id = Unset

NeedsGuid(e) == e.state = "Added" /\ e.guid = EmptyGuid

IdOf(p, e) == IF NeedsId(e) THEN NextId(p, e.type) ELSE e.id

Throws(p, e) == NeedsGuid(e) /\ GenerateFails(config[p], IdOf(p, e), e.type)

(* The readings of the clock for the entries up to i.                      *)
ModifiedUpTo(p, i) ==
  Cardinality({j \in 1..i : tracked[p][j].state = "Modified"})

(* Mutant: a modified entity keeps its stamp.                              *)
StampKept(p, i) == tracked[p][i].modifiedAt

Stamp(p, i) == Reading(p, readings[p] + ModifiedUpTo(p, i))

(* MarkEntities, one entry: an added entity keeps the id and the entity id *)
(* it has, a modified one gets the time.                                   *)
Marked(p, i) ==
  LET e == tracked[p][i]
      id == IdOf(p, e)
      guid == IF NeedsGuid(e) THEN EntityIdFor(config[p], id, e.type) ELSE e.guid
  IN CASE e.state = "Added" ->
            [e EXCEPT !.id = id, !.guid = guid, !.modifiedAt = CreatedAt(id)]
       [] e.state = "Modified" -> [e EXCEPT !.modifiedAt = Stamp(p, i)]
       [] OTHER -> e

(* Entries are marked up to the first that throws; what is marked stays so.*)
(* A save without changes has no effect and is left out.                   *)
Save(p) ==
  /\ Working(p)
  /\ \E i \in 1..Len(tracked[p]) : tracked[p][i].state # "Unchanged"
  /\ readings' = [readings EXCEPT ![p] = @ + ModifiedUpTo(p, Len(tracked[p]))]
  /\ readings'[p] <= MaxReadings
  /\ LET N == Len(tracked[p])
         Reached(i) == \A j \in 1..i : ~Throws(p, tracked[p][j])
         unset == {i \in 1..N : NeedsId(tracked[p][i])}
         marks == [i \in 1..N |-> IF Reached(i) THEN Marked(p, i) ELSE tracked[p][i]]
     IN /\ \A i \in unset : MayUseNext(p, tracked[p][i].type)
        /\ lastId' = [lastId EXCEPT ![p] = [t \in EntityTypes |->
             IF \E i \in unset : tracked[p][i].type = t THEN Following(p, t) ELSE @[t]]]
        /\ tracked' = [tracked EXCEPT ![p] = marks]
        /\ known' = known \cup
             {Handed(p, marks[i].object, marks[i].id, marks[i].type, marks[i].guid) :
                i \in {j \in 1..N : Reached(j) /\ marks[j].state = "Added"}}
        /\ saving' = IF Reached(N) THEN saving \cup {p} ELSE saving
  /\ UNCHANGED <<now, up, config, rows, objects, faults>>

(* What the database checks: keys are free, and a row that is updated or   *)
(* deleted still has the stamp it was read with.                           *)
Entries(p) == {tracked[p][i] : i \in 1..Len(tracked[p])}

Writable(p) ==
  \A e \in Entries(p) :
    /\ e.state = "Added" => \A r \in rows : ~Matching(r, e.id, e.type)
    /\ e.state \in {"Modified", "Deleted"} =>
         \E r \in rows : Matching(r, e.id, e.type) /\ r.modifiedAt = e.original

(* The version of a row counts what was written to it; the code knows only *)
(* the stamp.                                                              *)
Version(e) == IF e.state = "Unchanged" THEN e.seen ELSE e.seen + 1

Row(e, version) == [object |-> e.object, type |-> e.type, id |-> e.id,
                    modifiedAt |-> e.modifiedAt, version |-> version]

RowOf(e) == CHOOSE r \in rows : Matching(r, e.id, e.type)

Written(p) ==
  LET changed == {e \in Entries(p) : e.state # "Unchanged"} IN
  {r \in rows : \A e \in changed : ~Matching(r, e.id, e.type)}
    \cup {Row(e, 1) : e \in {x \in changed : x.state = "Added"}}
    \cup {Row(e, RowOf(e).version + 1) : e \in {x \in changed : x.state = "Modified"}}

Settle(e) == [e EXCEPT !.state = "Unchanged", !.original = e.modifiedAt,
                       !.seen = Version(e)]

(* The entries but the deleted ones, in their order.                       *)
Settled(entries) ==
  LET kept == {i \in 1..Len(entries) : entries[i].state # "Deleted"}
      N == Cardinality(kept)
      order == CHOOSE f \in [1..N -> kept] :
                 \A i, j \in 1..N : i < j => f[i] < f[j]
  IN [i \in 1..N |-> Settle(entries[order[i]])]

Commit(p) ==
  /\ p \in saving /\ Writable(p)
  /\ rows' = Written(p)
  /\ tracked' = [tracked EXCEPT ![p] = Settled(@)]
  /\ saving' = saving \ {p}
  /\ UNCHANGED <<now, up, config, lastId, readings, objects, faults, known>>

Fault(p) == faults[p] < MaxFaults[p] /\ faults' = [faults EXCEPT ![p] = @ + 1]

(* The database writes, and the answer is lost.                            *)
CommitUnanswered(p) ==
  /\ p \in saving /\ Writable(p)
  /\ Fault(p)
  /\ rows' = Written(p)
  /\ saving' = saving \ {p}
  /\ UNCHANGED <<now, up, config, lastId, tracked, readings, objects, known>>

(* A key is taken or a stamp has changed, or the save is cancelled or      *)
(* loses its connection before the database has written.                   *)
SaveThrows(p) ==
  /\ p \in saving
  /\ IF Writable(p) THEN Fault(p) ELSE faults' = faults
  /\ saving' = saving \ {p}
  /\ UNCHANGED <<now, up, config, lastId, tracked, rows, readings, objects,
                 known>>

-----------------------------------------------------------------------------
(* Processes.                                                              *)

Crash(p) ==
  /\ p \in up
  /\ Fault(p)
  /\ up' = up \ {p}
  /\ tracked' = [tracked EXCEPT ![p] = <<>>]
  /\ saving' = saving \ {p}
  /\ UNCHANGED <<now, config, lastId, rows, readings, objects, known>>

(* The generators of the new process know nothing of the old ones.         *)
Start(p) ==
  /\ p \notin up
  /\ \A t \in EntityTypes : lastId[p][t].ts < now
  /\ up' = up \cup {p}
  /\ \E c \in Configs : config' = [config EXCEPT ![p] = c]
  /\ lastId' = [lastId EXCEPT ![p] = [t \in EntityTypes |-> [ts |-> -1, seq |-> 0]]]
  /\ UNCHANGED <<now, tracked, saving, rows, readings, objects, faults, known>>

SaveStep(p) ==
  Save(p) \/ Commit(p) \/ CommitUnanswered(p) \/ SaveThrows(p)

Next ==
  \/ Tick
  \/ \E p \in Processes :
       \/ \E t \in EntityTypes : Add(p, t)
       \/ \E h \in known : Get(p, h) \/ DeleteById(p, h)
       \/ \E i \in 1..Len(tracked[p]) : Edit(p, i) \/ Remove(p, i)
       \/ Leave(p) \/ SaveStep(p)
       \/ Crash(p) \/ Start(p)

Spec == Init /\ [][Next]_vars

-----------------------------------------------------------------------------
Named(x) == [object |-> x.object, type |-> x.type, id |-> x.id]

Namings ==
  {Named(x) : x \in rows \cup known \cup UNION {Entries(p) : p \in Processes}}

(* An id stands for one entity of its type for ever, and an entity has one *)
(* id: no entity is stored twice, however often its save is tried again,   *)
(* no two entities get the same id, also across instances and restarts,    *)
(* and no id a client still holds comes to mean another entity.            *)
IdIsIdentity ==
  \A x, y \in {n \in Namings : n.id # Unset} :
    x.type = y.type => (x.id = y.id <=> x.object = y.object)

(* An entity id that was given out is read back, in every process that has *)
(* its key, as the id and type of its entity, in the form it was made in:  *)
(* whatever the settings of the process that made it and of the one that   *)
(* reads it.                                                               *)
EntityIdsAreRead ==
  \A h \in known : \A p \in up :
    (\E i \in DOMAIN config[p].ring : config[p].ring[i] = h.key)
      => Parse(config[p].ring, h.guid) = Valid(h.id, h.type, h.secure)

(* No key takes an entity id that was handed out under another one for one *)
(* of its own: the check of 32 bits of MAC leaves that to chance.          *)
NoCoincidence ==
  \A h \in known : \A k \in Keys \ {h.key} : ~ParseWithKey(k, h.guid).valid

(* A save replaces or deletes only what its unit of work has read: no      *)
(* update of another one is lost in between.                               *)
NoLostUpdate ==
  [][\A p \in Processes :
       p \in saving /\ p \notin saving' =>
         \A r \in rows \ rows' :
           \E e \in Entries(p) : Matching(r, e.id, e.type) /\ e.seen = r.version
    ]_vars

=============================================================================
