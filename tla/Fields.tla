-------------------------------- MODULE Fields --------------------------------
(***************************************************************************)
(* The fields an administrator defines and their values at sightings:       *)
(* internal/records/fields.go, its handlers, and the requests that write    *)
(* values: an upload, a new sighting and the editing of one.                *)
(*                                                                          *)
(* Nothing is written in a transaction: definitions are read, changed,      *)
(* deleted and created anew between the statements of a request, and the    *)
(* values of a request are written one by one until one is refused.         *)
(***************************************************************************)
EXTENDS Naturals, FiniteSets

CONSTANTS
  FieldIds,      \* primary keys of custom_fields
  FieldKeys,     \* their keys, unique in use
  Texts,         \* values as normalised
  Numbers,       \* those that a number, date or yes/no accepts
  FieldSightings,
  Writers,       \* requests in progress
  Blank,         \* what NormalizeFieldValue makes of an empty value
  Definitions,   \* the definitions administrators ask for
  Maps,          \* the maps that requests send
  NoField, Deleted, NoValue, NoSighting

\* The three types that differ in what they accept.
FieldTypes == {"text", "number", "select"}
FieldDef   == [key: FieldKeys, type: FieldTypes, options: SUBSET Texts, required: BOOLEAN]
\* A map that came with a request: Absent for the keys that are not in it.
Absent == NoValue
FieldMap == [FieldKeys -> Texts \cup {Blank, Absent}]

ASSUME FieldsAssumption ==
  /\ Definitions \subseteq FieldDef /\ Maps \subseteq FieldMap
  /\ Numbers \subseteq Texts /\ Blank \notin Texts /\ NoValue \notin Texts \cup {Blank}
  /\ NoField \notin FieldDef /\ Deleted \notin FieldDef /\ NoField # Deleted
  /\ NoSighting \notin FieldSightings

VARIABLES
  field,         \* table custom_fields
  value,         \* table sighting_field_values
  present,       \* sightings that are there
  gone,          \* and those that were: no key is used twice
  writer,        \* requests
  offered        \* history: values that a definition has accepted at some time

fieldVars == <<field, value, present, gone, writer, offered>>

Defined == {d \in FieldIds : field[d] \in FieldDef}

Writer == [step: {"idle", "insert", "load", "write", "redefine"},
           sighting: FieldSightings \cup {NoSighting}, id: FieldIds \cup {NoField},
           map: FieldMap, defs: [FieldIds -> FieldDef \cup {NoField, Deleted}],
           must: SUBSET FieldIds, options: SUBSET Texts]

NoFields == [d \in FieldIds |-> NoField]
NoMap    == [k \in FieldKeys |-> Absent]
IdleWriter == [step |-> "idle", sighting |-> NoSighting, id |-> NoField, map |-> NoMap,
               defs |-> NoFields, must |-> {}, options |-> {}]

FieldsInit ==
  /\ field = NoFields
  /\ value = [s \in FieldSightings |-> [d \in FieldIds |-> NoValue]]
  /\ present = {} /\ gone = {}
  /\ writer = [q \in Writers |-> IdleWriter]
  /\ offered = {}

-----------------------------------------------------------------------------
\* Definitions

\* NormalizeFieldValue
Accepts(def, v) ==
  CASE def.type = "text"   -> TRUE
    [] def.type = "number" -> v \in Numbers
    [] def.type = "select" -> v \in def.options

Offers(d, def) == {<<d, v>> : v \in {v \in Texts : Accepts(def, v)}}

cleanOptions(opts, type) == IF type = "select" THEN opts ELSE {}

CreateField(d, def) ==
  /\ field[d] = NoField
  /\ def.options = cleanOptions(def.options, def.type)
  /\ def.type = "select" => def.options # {}
  /\ \A e \in Defined : field[e].key # def.key
  /\ field' = [field EXCEPT ![d] = def]
  /\ offered' = offered \cup Offers(d, def)
  /\ UNCHANGED <<value, present, gone, writer>>

\* UpdateField: the row is read, and options that are missing taken from it ...
UpdateRead(q, d, opts) ==
  /\ writer[q].step = "idle" /\ d \in Defined
  /\ writer' = [writer EXCEPT ![q] = [IdleWriter EXCEPT !.step = "redefine", !.id = d,
       !.options = LET kept == cleanOptions(opts, field[d].type)
                   IN  IF field[d].type = "select" /\ kept = {} THEN field[d].options ELSE kept]]
  /\ UNCHANGED <<field, value, present, gone, offered>>

\* What it changes; type and key stay.
Redefined(def, opts, required) == [def EXCEPT !.options = opts, !.required = required]

\* Nobody is to have filled in what is changed or deleted after he was checked.
Released(d) == [q \in Writers |-> [writer[q] EXCEPT !.must = @ \ {d}]]

\* ... and written; a row deleted since is not missed.
UpdateWrite(q, required) ==
  LET d   == writer[q].id
      new == Redefined(field[d], writer[q].options, required)
  IN  /\ writer[q].step = "redefine"
      /\ IF d \notin Defined THEN UNCHANGED <<field, offered>>
         ELSE /\ field' = [field EXCEPT ![d] = new]
              /\ offered' = offered \cup Offers(d, new)
      /\ writer' = [Released(d) EXCEPT ![q] = IdleWriter]
      /\ UNCHANGED <<value, present, gone>>

\* The values go with the definition.
DeleteField(d) ==
  /\ d \in Defined
  /\ field' = [field EXCEPT ![d] = Deleted]
  /\ value' = [s \in FieldSightings |-> [value[s] EXCEPT ![d] = NoValue]]
  /\ writer' = Released(d)
  /\ UNCHANGED <<present, gone, offered>>

-----------------------------------------------------------------------------
\* Values

ByKey(defs, k) == {d \in FieldIds : defs[d] \in FieldDef /\ defs[d].key = k}
Required(defs) == {d \in FieldIds : defs[d] \in FieldDef /\ defs[d].required}
Sent(map)      == {k \in FieldKeys : map[k] # Absent}

\* Mutant: only the key is looked at.
RefusedKey(defs, k, raw) == ByKey(defs, k) = {}

\* Every value sent is one the definition accepts, or is blank.
Refused(defs, k, raw) ==
  \/ ByKey(defs, k) = {}
  \/ raw # Blank /\ \E d \in ByKey(defs, k) : ~Accepts(defs[d], raw)

\* Mutant: what is not sent is not looked at.
CheckFieldValuesSent(defs, map) ==
  /\ \A k \in Sent(map) : ~Refused(defs, k, map[k])
  /\ \A d \in Required(defs) : map[defs[d].key] # Blank

CheckFieldValues(defs, map) ==
  /\ \A k \in Sent(map) : ~Refused(defs, k, map[k])
  /\ \A d \in Required(defs) : map[defs[d].key] \in Texts

\* savePhoto with a map: checked first, then the photo is stored.
UploadCheck(q, map) ==
  /\ writer[q].step = "idle"
  /\ CheckFieldValues(field, map)
  /\ writer' = [writer EXCEPT ![q] = [IdleWriter EXCEPT !.step = "insert", !.map = map,
                                        !.must = Required(field)]]
  /\ UNCHANGED <<field, value, present, gone, offered>>

InsertSighting(q, s) ==
  /\ writer[q].step = "insert" /\ s \notin present \cup gone
  /\ present' = present \cup {s}
  /\ writer' = [writer EXCEPT ![q].step = "load", ![q].sighting = s]
  /\ UNCHANGED <<field, value, gone, offered>>

\* addSighting: the map is not checked as a whole.
AddSighting(q, s, map) ==
  /\ writer[q].step = "idle" /\ s \notin present \cup gone
  /\ present' = present \cup {s}
  /\ writer' = [writer EXCEPT ![q] = [IdleWriter EXCEPT !.step = "load", !.sighting = s,
                                        !.map = map]]
  /\ UNCHANGED <<field, value, gone, offered>>

\* patchSighting, of what is there.
EditSighting(q, s, map) ==
  /\ writer[q].step = "idle" /\ s \in present
  /\ writer' = [writer EXCEPT ![q] = [IdleWriter EXCEPT !.step = "load", !.sighting = s,
                                        !.map = map]]
  /\ UNCHANGED <<field, value, present, gone, offered>>

\* SetSightingFields reads the sighting and all definitions ...
LoadFields(q) ==
  /\ writer[q].step = "load"
  /\ writer' = [writer EXCEPT ![q] =
       IF writer[q].sighting \in present THEN [@ EXCEPT !.step = "write", !.defs = field]
       ELSE IdleWriter]
  /\ UNCHANGED <<field, value, present, gone, offered>>

EndWriter(q) == writer' = [writer EXCEPT ![q] = IdleWriter] /\ UNCHANGED value

\* The foreign keys hold where the rows are still there.
Insertable(s, d) == s \in present /\ d \in Defined

Written(q, k, s, d, v) ==
  /\ value' = [value EXCEPT ![s][d] = v]
  /\ writer' = [writer EXCEPT ![q].map[k] = Absent]

\* ... and takes the values one by one, in the order of a Go map, by what it has
\* read: the first that is refused ends it, and what is written stays.
WriteValue(q, k) ==
  LET w == writer[q]
      d == CHOOSE d \in ByKey(w.defs, k) : TRUE
  IN  /\ w.step = "write" /\ k \in Sent(w.map)
      /\ IF \/ Refused(w.defs, k, w.map[k])
            \/ w.map[k] = Blank /\ w.defs[d].required
            \/ w.map[k] # Blank /\ ~Insertable(w.sighting, d)
         THEN EndWriter(q)
         ELSE Written(q, k, w.sighting, d, IF w.map[k] = Blank THEN NoValue ELSE w.map[k])
      /\ UNCHANGED <<field, present, gone, offered>>

\* All are written: the request is answered.
Answers(q)    == writer[q].step = "write" /\ Sent(writer[q].map) = {}
Answer(q) == Answers(q) /\ EndWriter(q) /\ UNCHANGED <<field, present, gone, offered>>

\* A statement fails, or the client leaves.
FieldsCut(q) ==
  /\ writer[q].step # "idle"
  /\ EndWriter(q)
  /\ UNCHANGED <<field, present, gone, offered>>

DeleteSighting(s) ==
  /\ s \in present
  /\ present' = present \ {s} /\ gone' = gone \cup {s}
  /\ value' = [value EXCEPT ![s] = [d \in FieldIds |-> NoValue]]
  /\ UNCHANGED <<field, writer, offered>>

FieldsNext ==
  \/ \E d \in FieldIds : \E def \in Definitions : CreateField(d, def)
  \/ \E d \in FieldIds : DeleteField(d)
  \/ \E q \in Writers, d \in FieldIds, opts \in SUBSET Texts : UpdateRead(q, d, opts)
  \/ \E q \in Writers, required \in BOOLEAN : UpdateWrite(q, required)
  \/ \E q \in Writers, map \in Maps : UploadCheck(q, map)
  \/ \E q \in Writers, s \in FieldSightings : InsertSighting(q, s)
  \/ \E q \in Writers, s \in FieldSightings, map \in Maps :
       AddSighting(q, s, map) \/ EditSighting(q, s, map)
  \/ \E q \in Writers : LoadFields(q) \/ Answer(q) \/ FieldsCut(q)
  \/ \E q \in Writers, k \in FieldKeys : WriteValue(q, k)
  \/ \E s \in FieldSightings : DeleteSighting(s)

FieldsSpec == FieldsInit /\ [][FieldsNext]_fieldVars

-----------------------------------------------------------------------------
\* Properties

\* The type invariant.
FieldsTypeOK ==
  /\ field \in [FieldIds -> FieldDef \cup {NoField, Deleted}]
  /\ value \in [FieldSightings -> [FieldIds -> Texts \cup {NoValue}]]
  /\ present \subseteq FieldSightings /\ gone \subseteq FieldSightings
  /\ writer \in [Writers -> Writer]
  /\ offered \subseteq FieldIds \X Texts

\* A value that is stored belongs to a field and a sighting that are there, and
\* the field has accepted it at some time: definitions change while values are
\* checked against what was read of them, and are created anew.
OfferedValue ==
  \A s \in FieldSightings, d \in FieldIds :
    value[s][d] # NoValue => s \in present /\ d \in Defined /\ <<d, value[s][d]>> \in offered

\* An upload with a map of fields that is answered with success has filled in
\* what was required when it was checked, but for fields that were changed or
\* deleted since, and unless the sighting is gone, whatever others write to it.
UploadComplete ==
  \A q \in Writers : Answers(q) /\ writer[q].sighting \in present =>
    \A d \in writer[q].must : value[writer[q].sighting][d] # NoValue
================================================================================
