------------------------------ MODULE RecordsProofs ------------------------------
(***************************************************************************)
(* Proofs about Fields, for any numbers of fields, sightings and requests   *)
(* and any values, definitions and maps; about Import with Geocode, for any *)
(* callers, places, archives and imports; and about Search, for any stock,  *)
(* filters and sizes of pages.                                              *)
(***************************************************************************)
EXTENDS Fields, Import, Search, FiniteSetTheorems, WellFoundedInduction, TLAPS

-----------------------------------------------------------------------------
\* Least and greatest elements, and counting along a function

\* A set of naturals that is not empty has a least element.
LEMMA LeastExists ==
  ASSUME NEW S \in SUBSET Nat, S # {}
  PROVE  \E m \in S : \A j \in S : m <= j
<1>. DEFINE R == OpToRel(<, Nat)
<1>1. IsWellFoundedOn(R, Nat)
  BY NatLessThanWellFounded, Zenon
<1>2. R = {ss \in Nat \X Nat : ss[1] < ss[2]}
  BY Zenon DEF OpToRel
<1>. HIDE DEF R
<1>3. \E m \in S : \A j \in S : ~(<<j, m>> \in R)
  BY <1>1, WFMin, Zenon
<1>4. PICK m \in S : \A j \in S : ~(<<j, m>> \in R)
  BY <1>3, Zenon
<1>5. ASSUME NEW j \in S PROVE m <= j
  <2>1. <<j, m>> \in Nat \X Nat /\ <<j, m>>[1] = j /\ <<j, m>>[2] = m
    OBVIOUS
  <2>2. ~(j < m)
    BY <1>2, <1>4, <2>1
  <2>3. j \in Nat /\ m \in Nat
    OBVIOUS
  <2>. QED BY <2>2, <2>3
<1>. QED BY <1>5

\* A set of naturals below a bound has a greatest element.
LEMMA GreatestExists ==
  ASSUME NEW n \in Nat, NEW S \in SUBSET (0..n), S # {}
  PROVE  \E m \in S : \A j \in S : j <= m
<1>. DEFINE T == {n - i : i \in S}
<1>1. T \in SUBSET Nat
  <2>1. \A i \in S : n - i \in Nat
    OBVIOUS
  <2>. QED BY <2>1
<1>2. T # {}
  OBVIOUS
<1>. HIDE DEF T
<1>3. PICK t \in T : \A j \in T : t <= j
  BY <1>1, <1>2, LeastExists
<1>4. PICK m \in S : t = n - m
  BY DEF T
<1>5. ASSUME NEW j \in S PROVE j <= m
  <2>1. t <= n - j
    BY <1>3 DEF T
  <2>2. m \in Nat /\ j \in Nat
    OBVIOUS
  <2>. QED BY <1>4, <2>1, <2>2
<1>. QED BY <1>5

\* A finite set that is not empty has an element that no other comes before.
LEMMA FirstExists ==
  ASSUME NEW S, IsFiniteSet(S), S # {}, NEW R,
         \A a \in S : <<a, a>> \notin R,
         \A a, b, c \in S : <<a, b>> \in R /\ <<b, c>> \in R => <<a, c>> \in R
  PROVE  \E a \in S : \A b \in S : <<b, a>> \notin R
<1>. DEFINE before(a) == {b \in S : <<b, a>> \in R}
            N == {Cardinality(before(a)) : a \in S}
<1>1. \A a \in S : IsFiniteSet(before(a)) /\ Cardinality(before(a)) \in Nat
  BY FS_Subset, FS_CardinalityType
<1>. HIDE DEF before
<1>2. N \in SUBSET Nat /\ N # {}
  BY <1>1
<1>3. PICK n \in N : \A j \in N : n <= j
  <2>. HIDE DEF N
  <2>. QED BY <1>2, LeastExists
<1>4. PICK a \in S : n = Cardinality(before(a))
  BY <1>3
<1>5. ASSUME NEW b \in S, <<b, a>> \in R PROVE FALSE
  <2>1. before(b) \in SUBSET before(a) /\ b \in before(a) /\ b \notin before(b)
    BY <1>5 DEF before
  <2>2. Cardinality(before(b)) <= Cardinality(before(a)) /\ Cardinality(before(b)) # Cardinality(before(a))
    BY <1>1, <2>1, FS_Subset
  <2>3. Cardinality(before(a)) <= Cardinality(before(b))
    BY <1>3, <1>4
  <2>. QED BY <1>1, <2>2, <2>3
<1>. QED BY <1>5

\* Two finite sets, between which a function is one-to-one, have as many elements.
LEMMA OneToOne ==
  ASSUME NEW S, IsFiniteSet(S), NEW T, NEW f \in [S -> T],
         \A a, b \in S : f[a] = f[b] => a = b,
         \A t \in T : \E a \in S : f[a] = t
  PROVE  IsFiniteSet(T) /\ Cardinality(T) = Cardinality(S)
<1>1. f \in Surjection(S, T) /\ f \in Injection(S, T)
  BY DEF Surjection, Injection, IsInjective
<1>. QED BY <1>1, FS_Surjection

-----------------------------------------------------------------------------
\* Fields

\* What a definition accepts now has been offered.
FieldsOffered == \A d \in Defined : Offers(d, field[d]) \subseteq offered

\* So has what a request has read of it, which may be another definition by now.
ReadOffered ==
  \A q \in Writers, d \in FieldIds :
    writer[q].defs[d] \in FieldDef => Offers(d, writer[q].defs[d]) \subseteq offered

IInv == FieldsTypeOK /\ FieldsOffered /\ ReadOffered /\ OfferedValue

-----------------------------------------------------------------------------
LEMMA IdleType == IdleWriter \in Writer /\ IdleWriter.defs = NoFields /\ NoMap \in FieldMap
BY DEF IdleWriter, Writer, NoFields, NoMap, FieldMap, Absent

LEMMA NoFieldIsNoDef == NoField \notin FieldDef /\ Deleted \notin FieldDef /\ NoValue \notin Texts
BY FieldsAssumption DEF FieldsAssumption

LEMMA InitOK == FieldsInit => IInv
<1>. SUFFICES ASSUME FieldsInit PROVE IInv
  OBVIOUS
<1>. USE IdleType, NoFieldIsNoDef DEF FieldsInit
<1>1. FieldsTypeOK
  BY DEF FieldsTypeOK, NoFields
<1>2. FieldsOffered
  BY DEF FieldsOffered, Defined, NoFields
<1>3. ReadOffered
  BY DEF ReadOffered, NoFields
<1>4. OfferedValue
  BY DEF OfferedValue
<1>. QED BY <1>1, <1>2, <1>3, <1>4 DEF IInv

\* A value that is not refused is blank or offered by the one definition it is for.
LEMMA AcceptedOffered ==
  ASSUME NEW defs \in [FieldIds -> FieldDef \cup {NoField, Deleted}], NEW S,
         \A d \in FieldIds : defs[d] \in FieldDef => Offers(d, defs[d]) \subseteq S,
         NEW k \in FieldKeys, NEW raw \in Texts, ~Refused(defs, k, raw)
  PROVE  LET d == CHOOSE d \in ByKey(defs, k) : TRUE
         IN  d \in FieldIds /\ <<d, raw>> \in S
<1>. DEFINE d == CHOOSE d \in ByKey(defs, k) : TRUE
<1>1. d \in ByKey(defs, k)
  BY DEF Refused
<1>2. d \in FieldIds /\ defs[d] \in FieldDef
  BY <1>1 DEF ByKey
<1>3. Accepts(defs[d], raw)
  BY <1>1, FieldsAssumption DEF Refused, FieldsAssumption
<1>4. <<d, raw>> \in Offers(d, defs[d])
  BY <1>3 DEF Offers
<1>. QED BY <1>2, <1>4

-----------------------------------------------------------------------------
\* The steps, by what they leave alone

\* Requests that only read, begin or end keep everything but the requests.
LEMMA OnlyWriter ==
  ASSUME IInv, writer' \in [Writers -> Writer],
         UNCHANGED <<field, value, gone, offered>>,
         present' \subseteq FieldSightings, present \subseteq present',
         \A q \in Writers : writer'[q].defs \in {writer[q].defs, NoFields, field}
  PROVE  IInv'
<1>. USE DEF IInv
<1>1. FieldsTypeOK'
  BY DEF FieldsTypeOK
<1>2. FieldsOffered'
  BY DEF FieldsOffered, Defined, Offers
<1>3. ReadOffered'
  <2>. SUFFICES ASSUME NEW q \in Writers, NEW d \in FieldIds, writer'[q].defs[d] \in FieldDef
                PROVE  Offers(d, writer'[q].defs[d]) \subseteq offered
    BY DEF ReadOffered
  <2>1. CASE writer'[q].defs = writer[q].defs
    BY <2>1 DEF ReadOffered
  <2>2. CASE writer'[q].defs = NoFields
    BY <2>2, NoFieldIsNoDef DEF NoFields
  <2>3. CASE writer'[q].defs = field
    BY <2>3 DEF FieldsOffered, Defined
  <2>. QED BY <2>1, <2>2, <2>3
<1>4. OfferedValue'
  BY DEF OfferedValue, Defined
<1>. QED BY <1>1, <1>2, <1>3, <1>4

\* A definition that is written is offered from then on.
LEMMA NewDefinition ==
  ASSUME IInv, NEW d \in FieldIds, NEW def \in FieldDef,
         field' = [field EXCEPT ![d] = def], offered' = offered \cup Offers(d, def),
         writer' \in [Writers -> Writer],
         \A q \in Writers : writer'[q].defs \in {writer[q].defs, NoFields},
         UNCHANGED <<value, present, gone>>
  PROVE  IInv'
<1>. USE DEF IInv
<1>1. FieldsTypeOK'
  BY DEF FieldsTypeOK, Offers
<1>2. FieldsOffered'
  BY DEF FieldsOffered, Defined, FieldsTypeOK
<1>3. ReadOffered'
  <2>. SUFFICES ASSUME NEW q \in Writers, NEW e \in FieldIds, writer'[q].defs[e] \in FieldDef
                PROVE  Offers(e, writer'[q].defs[e]) \subseteq offered'
    BY DEF ReadOffered
  <2>1. CASE writer'[q].defs = writer[q].defs
    BY <2>1 DEF ReadOffered
  <2>2. CASE writer'[q].defs = NoFields
    BY <2>2, NoFieldIsNoDef DEF NoFields
  <2>. QED BY <2>1, <2>2
<1>4. OfferedValue'
  BY DEF OfferedValue, Defined, FieldsTypeOK
<1>. QED BY <1>1, <1>2, <1>3, <1>4

LEMMA CreateFieldOK ==
  ASSUME IInv, NEW d \in FieldIds, NEW def \in Definitions, CreateField(d, def)
  PROVE  IInv'
<1>1. def \in FieldDef
  BY FieldsAssumption DEF FieldsAssumption
<1>. QED BY <1>1, NewDefinition DEF CreateField, IInv, FieldsTypeOK

\* Releasing a request changes only what it must have filled in.
LEMMA ReleasedType ==
  ASSUME writer \in [Writers -> Writer], NEW d
  PROVE  /\ Released(d) \in [Writers -> Writer]
         /\ \A q \in Writers : Released(d)[q].defs = writer[q].defs
BY DEF Released, Writer

LEMMA UpdateReadOK ==
  ASSUME IInv, NEW q \in Writers, NEW d \in FieldIds, NEW opts \in SUBSET Texts,
         UpdateRead(q, d, opts)
  PROVE  IInv'
<1>. DEFINE kept == cleanOptions(opts, field[d].type)
            new  == IF field[d].type = "select" /\ kept = {} THEN field[d].options ELSE kept
<1>1. field[d] \in FieldDef
  BY DEF UpdateRead, Defined
<1>2. new \in SUBSET Texts
  BY <1>1 DEF FieldDef, cleanOptions
<1>3. writer' = [writer EXCEPT ![q] = [IdleWriter EXCEPT !.step = "redefine", !.id = d, !.options = new]]
  BY DEF UpdateRead
<1>4. /\ [IdleWriter EXCEPT !.step = "redefine", !.id = d, !.options = new] \in Writer
      /\ [IdleWriter EXCEPT !.step = "redefine", !.id = d, !.options = new].defs = NoFields
  BY <1>2, IdleType DEF Writer
<1>5. writer' \in [Writers -> Writer]
  BY <1>3, <1>4 DEF IInv, FieldsTypeOK
<1>6. \A p \in Writers : writer'[p].defs \in {writer[p].defs, NoFields}
  BY <1>3, <1>4 DEF IInv, FieldsTypeOK
<1>. QED BY <1>5, <1>6, OnlyWriter DEF UpdateRead, IInv, FieldsTypeOK

LEMMA UpdateWriteOK ==
  ASSUME IInv, NEW q \in Writers, NEW required \in BOOLEAN, UpdateWrite(q, required)
  PROVE  IInv'
<1>. DEFINE d   == writer[q].id
            new == Redefined(field[d], writer[q].options, required)
<1>1. writer \in [Writers -> Writer]
  BY DEF IInv, FieldsTypeOK
<1>2. /\ Released(d) \in [Writers -> Writer]
      /\ \A p \in Writers : Released(d)[p].defs = writer[p].defs
  BY <1>1, ReleasedType
<1>3. writer' = [Released(d) EXCEPT ![q] = IdleWriter]
  BY DEF UpdateWrite
<1>4. writer' \in [Writers -> Writer]
  BY <1>2, <1>3, IdleType
<1>5. \A p \in Writers : writer'[p].defs \in {writer[p].defs, NoFields}
  BY <1>2, <1>3, IdleType
<1>6. CASE d \notin Defined
  BY <1>4, <1>5, <1>6, OnlyWriter DEF UpdateWrite, IInv, FieldsTypeOK
<1>7. CASE d \in Defined
  <2>1. d \in FieldIds /\ field[d] \in FieldDef
    BY <1>7 DEF Defined
  <2>2. writer[q].options \in SUBSET Texts
    BY <1>1 DEF Writer
  <2>3. new \in FieldDef
    BY <2>1, <2>2 DEF Redefined, FieldDef
  <2>4. field' = [field EXCEPT ![d] = new] /\ offered' = offered \cup Offers(d, new)
        /\ UNCHANGED <<value, present, gone>>
    BY <1>7 DEF UpdateWrite
  <2>. QED BY <1>4, <1>5, <2>1, <2>3, <2>4, NewDefinition
<1>. QED BY <1>6, <1>7

LEMMA DeleteFieldOK == ASSUME IInv, NEW d \in FieldIds, DeleteField(d) PROVE IInv'
<1>. USE DEF IInv
<1>1. /\ writer' \in [Writers -> Writer]
      /\ \A q \in Writers : writer'[q].defs = writer[q].defs
  BY ReleasedType DEF FieldsTypeOK, DeleteField
<1>2. FieldsTypeOK'
  BY <1>1 DEF FieldsTypeOK, DeleteField
<1>3. FieldsOffered'
  BY NoFieldIsNoDef DEF FieldsOffered, Defined, DeleteField, FieldsTypeOK, Offers
<1>4. ReadOffered'
  BY <1>1 DEF ReadOffered, DeleteField, Offers
<1>5. OfferedValue'
  BY DEF OfferedValue, Defined, DeleteField, FieldsTypeOK
<1>. QED BY <1>2, <1>3, <1>4, <1>5

LEMMA DeleteSightingOK ==
  ASSUME IInv, NEW s \in FieldSightings, DeleteSighting(s)
  PROVE  IInv'
<1>. USE DEF IInv
<1>1. FieldsTypeOK'
  BY DEF FieldsTypeOK, DeleteSighting
<1>2. FieldsOffered' /\ ReadOffered'
  BY DEF FieldsOffered, ReadOffered, Defined, DeleteSighting, Offers
<1>3. OfferedValue'
  BY DEF OfferedValue, Defined, DeleteSighting, FieldsTypeOK
<1>. QED BY <1>1, <1>2, <1>3

-----------------------------------------------------------------------------
\* The requests that write values

LEMMA UploadCheckOK ==
  ASSUME IInv, NEW q \in Writers, NEW map \in Maps, UploadCheck(q, map)
  PROVE  IInv'
<1>. DEFINE w == [IdleWriter EXCEPT !.step = "insert", !.map = map, !.must = Required(field)]
<1>1. w \in Writer /\ w.defs = NoFields
  BY IdleType, FieldsAssumption DEF Writer, Required, FieldsAssumption
<1>2. writer' = [writer EXCEPT ![q] = w]
  BY DEF UploadCheck
<1>. QED BY <1>1, <1>2, OnlyWriter DEF UploadCheck, IInv, FieldsTypeOK

LEMMA InsertSightingOK ==
  ASSUME IInv, NEW q \in Writers, NEW s \in FieldSightings, InsertSighting(q, s)
  PROVE  IInv'
<1>. DEFINE w == [writer[q] EXCEPT !.step = "load", !.sighting = s]
<1>1. w \in Writer /\ w.defs = writer[q].defs
  BY ZenonT(60) DEF IInv, FieldsTypeOK, Writer
<1>2. writer' = [writer EXCEPT ![q] = w]
  BY DEF InsertSighting, IInv, FieldsTypeOK, Writer
<1>. QED BY <1>1, <1>2, OnlyWriter DEF InsertSighting, IInv, FieldsTypeOK

LEMMA AddOrEditOK ==
  ASSUME IInv, NEW q \in Writers, NEW s \in FieldSightings, NEW map \in Maps,
         AddSighting(q, s, map) \/ EditSighting(q, s, map)
  PROVE  IInv'
<1>. DEFINE w == [IdleWriter EXCEPT !.step = "load", !.sighting = s, !.map = map]
<1>1. w \in Writer /\ w.defs = NoFields
  BY IdleType, FieldsAssumption DEF Writer, FieldsAssumption
<1>2. writer' = [writer EXCEPT ![q] = w]
  BY DEF AddSighting, EditSighting
<1>. QED BY <1>1, <1>2, OnlyWriter DEF AddSighting, EditSighting, IInv, FieldsTypeOK

LEMMA LoadFieldsOK == ASSUME IInv, NEW q \in Writers, LoadFields(q) PROVE IInv'
<1>. DEFINE w == [writer[q] EXCEPT !.step = "write", !.defs = field]
<1>1. w \in Writer /\ w.defs = field
  BY DEF IInv, FieldsTypeOK, Writer
<1>2. writer' = [writer EXCEPT ![q] = w] \/ writer' = [writer EXCEPT ![q] = IdleWriter]
  BY DEF LoadFields, IInv, FieldsTypeOK
<1>3. /\ writer' \in [Writers -> Writer]
      /\ \A p \in Writers : writer'[p].defs \in {writer[p].defs, NoFields, field}
  BY <1>1, <1>2, IdleType DEF IInv, FieldsTypeOK
<1>. QED BY <1>3, OnlyWriter DEF LoadFields, IInv, FieldsTypeOK

LEMMA EndOK ==
  ASSUME IInv, NEW q \in Writers, EndWriter(q), UNCHANGED <<field, present, gone, offered>>
  PROVE  IInv'
BY IdleType, OnlyWriter DEF EndWriter, IInv, FieldsTypeOK

\* A value is written: nothing, or one that the field has offered.
LEMMA WrittenOK ==
  ASSUME IInv, NEW q \in Writers, NEW k \in FieldKeys, NEW s,
         NEW d \in FieldIds, NEW v \in Texts \cup {NoValue},
         v # NoValue => s \in present /\ d \in Defined /\ <<d, v>> \in offered,
         Written(q, k, s, d, v), UNCHANGED <<field, present, gone, offered>>
  PROVE  IInv'
<1>. USE DEF IInv
<1>. DEFINE w == [writer[q] EXCEPT !.map[k] = Absent]
<1>1. w \in Writer /\ w.defs = writer[q].defs
  BY ZenonT(60) DEF FieldsTypeOK, Writer, FieldMap, Absent
<1>2. writer' = [writer EXCEPT ![q] = w]
  BY DEF Written, FieldsTypeOK, Writer
<1>3. value' \in [FieldSightings -> [FieldIds -> Texts \cup {NoValue}]]
  BY DEF Written, FieldsTypeOK
<1>4. FieldsTypeOK'
  BY <1>1, <1>2, <1>3 DEF FieldsTypeOK
<1>5. FieldsOffered'
  BY DEF FieldsOffered, Defined, Offers
<1>6. ReadOffered'
  BY <1>1, <1>2 DEF ReadOffered, Offers, FieldsTypeOK
<1>7. OfferedValue'
  <2>. SUFFICES ASSUME NEW t \in FieldSightings, NEW e \in FieldIds, value'[t][e] # NoValue
                PROVE  t \in present /\ e \in Defined /\ <<e, value'[t][e]>> \in offered
    BY DEF OfferedValue, Defined
  <2>1. CASE t = s /\ e = d
    BY <2>1 DEF Written, FieldsTypeOK
  <2>2. CASE ~(t = s /\ e = d)
    <3>1. value'[t][e] = value[t][e]
      BY <2>2 DEF Written, FieldsTypeOK
    <3>. QED BY <3>1 DEF OfferedValue
  <2>. QED BY <2>1, <2>2
<1>. QED BY <1>4, <1>5, <1>6, <1>7

LEMMA WriteValueOK ==
  ASSUME IInv, NEW q \in Writers, NEW k \in FieldKeys, WriteValue(q, k)
  PROVE  IInv'
<1>. DEFINE w == writer[q]
            d == CHOOSE d \in ByKey(w.defs, k) : TRUE
<1>1. w \in Writer /\ w.map[k] \in Texts \cup {Blank} /\ UNCHANGED <<field, present, gone, offered>>
  BY DEF WriteValue, Sent, IInv, FieldsTypeOK, Writer, FieldMap, Absent
<1>2. CASE EndWriter(q)
  BY <1>1, <1>2, EndOK
<1>3. CASE ~EndWriter(q)
  <2>1. ~Refused(w.defs, k, w.map[k])
    BY <1>3 DEF WriteValue
  <2>2. d \in FieldIds
    BY <2>1 DEF Refused, ByKey
  <2>3. CASE w.map[k] = Blank
    <3>1. Written(q, k, w.sighting, d, NoValue)
      BY <1>3, <2>1, <2>3 DEF WriteValue
    <3>. QED BY <1>1, <2>2, <3>1, WrittenOK DEF Writer
  <2>4. CASE w.map[k] # Blank
    <3>1. Written(q, k, w.sighting, d, w.map[k]) /\ Insertable(w.sighting, d)
      BY <1>3, <2>1, <2>4 DEF WriteValue
    <3>2. w.map[k] \in Texts
      BY <1>1, <2>4
    <3>3. w.defs \in [FieldIds -> FieldDef \cup {NoField, Deleted}]
      BY <1>1 DEF Writer
    <3>4. \A e \in FieldIds : w.defs[e] \in FieldDef => Offers(e, w.defs[e]) \subseteq offered
      BY DEF IInv, ReadOffered
    <3>5. <<d, w.map[k]>> \in offered
      BY <2>1, <3>2, <3>3, <3>4, AcceptedOffered
    <3>6. w.sighting \in present /\ d \in Defined /\ w.sighting \in FieldSightings
      BY <3>1 DEF Insertable, IInv, FieldsTypeOK
    <3>. QED BY <1>1, <2>2, <3>1, <3>2, <3>5, <3>6, WrittenOK
  <2>. QED BY <2>3, <2>4
<1>. QED BY <1>2, <1>3

-----------------------------------------------------------------------------
LEMMA NextOK == ASSUME IInv, [FieldsNext]_fieldVars PROVE IInv'
<1>1. CASE UNCHANGED fieldVars
  BY <1>1 DEF fieldVars, IInv, FieldsTypeOK, FieldsOffered, ReadOffered, OfferedValue, Defined, Offers
<1>2. CASE FieldsNext
  <2>1. ASSUME NEW d \in FieldIds, NEW def \in Definitions, CreateField(d, def) PROVE IInv'
    BY <2>1, CreateFieldOK
  <2>2. ASSUME NEW d \in FieldIds, DeleteField(d) PROVE IInv'
    BY <2>2, DeleteFieldOK
  <2>3. ASSUME NEW q \in Writers, NEW d \in FieldIds, NEW opts \in SUBSET Texts,
               UpdateRead(q, d, opts) PROVE IInv'
    BY <2>3, UpdateReadOK
  <2>4. ASSUME NEW q \in Writers, NEW required \in BOOLEAN, UpdateWrite(q, required) PROVE IInv'
    BY <2>4, UpdateWriteOK
  <2>5. ASSUME NEW q \in Writers, NEW map \in Maps, UploadCheck(q, map) PROVE IInv'
    BY <2>5, UploadCheckOK
  <2>6. ASSUME NEW q \in Writers, NEW s \in FieldSightings, InsertSighting(q, s) PROVE IInv'
    BY <2>6, InsertSightingOK
  <2>7. ASSUME NEW q \in Writers, NEW s \in FieldSightings, NEW map \in Maps,
               AddSighting(q, s, map) \/ EditSighting(q, s, map) PROVE IInv'
    BY <2>7, AddOrEditOK
  <2>8. ASSUME NEW q \in Writers, LoadFields(q) \/ Answer(q) \/ FieldsCut(q) PROVE IInv'
    BY <2>8, LoadFieldsOK, EndOK DEF Answer, FieldsCut
  <2>9. ASSUME NEW q \in Writers, NEW k \in FieldKeys, WriteValue(q, k) PROVE IInv'
    BY <2>9, WriteValueOK
  <2>10. ASSUME NEW s \in FieldSightings, DeleteSighting(s) PROVE IInv'
    BY <2>10, DeleteSightingOK
  <2>. QED BY <1>2, <2>1, <2>2, <2>3, <2>4, <2>5, <2>6, <2>7, <2>8, <2>9, <2>10 DEF FieldsNext
<1>. QED BY <1>1, <1>2

LEMMA Invariance == FieldsSpec => []IInv
BY InitOK, NextOK, PTL DEF FieldsSpec

\* The types of the tables, the requests and what they hold in memory.
THEOREM TypeCorrect == FieldsSpec => []FieldsTypeOK
BY Invariance, PTL DEF IInv

\* A stored value belongs to a field and a sighting that are there, and the field
\* has offered it: the definitions that SetSightingFields has read may be changed,
\* deleted and created anew while it writes.
THEOREM StoredWasOffered == FieldsSpec => []OfferedValue
BY Invariance, PTL DEF IInv

-----------------------------------------------------------------------------
\* What an upload must have filled in

\* Two definitions with the same key are one, in the table and where it was read.
UniqueKeys(defs) ==
  \A d, e \in FieldIds : defs[d] \in FieldDef /\ defs[e] \in FieldDef /\ defs[d].key = defs[e].key
                         => d = e

KeysOK == UniqueKeys(field) /\ \A q \in Writers : UniqueKeys(writer[q].defs)

\* Only requests that have a sighting write values, and it has been there.
AtSighting(w) == w.step \in {"load", "write"}
UsedOK == \A q \in Writers : AtSighting(writer[q]) => writer[q].sighting \in present \cup gone

\* A field that an upload must fill in is as it was checked, and what is sent for it
\* is still to be written or stored.
MustOK ==
  \A q \in Writers : \A d \in writer[q].must :
    /\ d \in Defined /\ field[d].required
    /\ writer[q].step \in {"insert", "load", "write"}
    /\ \/ writer[q].map[field[d].key] \in Texts
       \/ writer[q].step = "write" /\ (writer[q].sighting \in present =>
                                         value[writer[q].sighting][d] # NoValue)

\* Whoever writes values of the same sighting has read these fields since: nobody
\* knew the sighting before.
ReadMust ==
  \A q, p \in Writers :
    AtSighting(writer[q]) /\ writer[p].step = "write" /\ writer[p].sighting = writer[q].sighting
    => \A d \in writer[q].must : writer[p].defs[d] = field[d]

UInv == KeysOK /\ UsedOK /\ MustOK /\ ReadMust

LEMMA UInit == FieldsInit => UInv
<1>. SUFFICES ASSUME FieldsInit PROVE UInv
  OBVIOUS
<1>1. \A q \in Writers : writer[q].step = "idle" /\ writer[q].must = {} /\ writer[q].defs = NoFields
  BY DEF FieldsInit, IdleWriter
<1>. QED BY <1>1, NoFieldIsNoDef
         DEF UInv, KeysOK, UniqueKeys, UsedOK, AtSighting, MustOK, ReadMust, FieldsInit, NoFields

\* A request whose only change is that it must fill in less, or that begins or ends
\* without anything it must fill in.
Lesser(w, old) ==
  \/ /\ w.step = old.step /\ w.sighting = old.sighting /\ w.map = old.map /\ w.defs = old.defs
     /\ w.must \subseteq old.must
  \/ /\ w.step \in {"idle", "redefine"} /\ w.must = {} /\ w.defs = NoFields

\* Definitions are written: whoever must fill in one of them is released.
LEMMA DefinitionsWritten ==
  ASSUME IInv, UInv, field' \in [FieldIds -> FieldDef \cup {NoField, Deleted}],
         UniqueKeys(field'),
         \A q \in Writers : Lesser(writer'[q], writer[q]),
         \A q \in Writers : \A d \in writer'[q].must : field'[d] = field[d],
         \A s \in FieldSightings : \A d \in FieldIds :
           field'[d] = field[d] => value'[s][d] = value[s][d],
         UNCHANGED <<present, gone>>
  PROVE  UInv'
<1>. USE DEF UInv
<1>1. KeysOK'
  BY NoFieldIsNoDef DEF KeysOK, UniqueKeys, Lesser, NoFields
<1>2. UsedOK'
  BY DEF UsedOK, AtSighting, Lesser
<1>3. MustOK'
  <2>. SUFFICES ASSUME NEW q \in Writers, NEW d \in writer'[q].must
                PROVE  /\ d \in Defined' /\ field'[d].required
                       /\ writer'[q].step \in {"insert", "load", "write"}
                       /\ \/ writer'[q].map[field'[d].key] \in Texts
                          \/ /\ writer'[q].step = "write"
                             /\ writer'[q].sighting \in present' =>
                                  value'[writer'[q].sighting][d] # NoValue
    BY DEF MustOK
  <2>1. /\ writer'[q].step = writer[q].step /\ writer'[q].sighting = writer[q].sighting
        /\ writer'[q].map = writer[q].map /\ d \in writer[q].must
    BY DEF Lesser
  <2>2. field'[d] = field[d] /\ d \in Defined /\ d \in FieldIds
    BY <2>1 DEF MustOK, Defined
  <2>. QED BY <2>1, <2>2 DEF MustOK, Defined, IInv, FieldsTypeOK
<1>4. ReadMust'
  BY DEF ReadMust, Lesser, AtSighting
<1>. QED BY <1>1, <1>2, <1>3, <1>4

LEMMA CreateFieldU ==
  ASSUME IInv, UInv, NEW d \in FieldIds, NEW def \in Definitions, CreateField(d, def)
  PROVE  UInv'
<1>1. def \in FieldDef
  BY FieldsAssumption DEF FieldsAssumption
<1>2. UniqueKeys(field')
  BY <1>1 DEF UniqueKeys, CreateField, UInv, KeysOK, Defined, IInv, FieldsTypeOK
<1>3. \A q \in Writers : \A e \in writer'[q].must : field'[e] = field[e]
  BY NoFieldIsNoDef DEF CreateField, UInv, MustOK, Defined, IInv, FieldsTypeOK
<1>. QED BY <1>1, <1>2, <1>3, DefinitionsWritten DEF CreateField, Lesser, IInv, FieldsTypeOK

LEMMA UpdateWriteU ==
  ASSUME IInv, UInv, NEW q \in Writers, NEW required \in BOOLEAN, UpdateWrite(q, required)
  PROVE  UInv'
<1>. DEFINE d   == writer[q].id
            new == Redefined(field[d], writer[q].options, required)
<1>. USE DEF IInv, FieldsTypeOK
<1>0. IInv'
  BY UpdateWriteOK
<1>1. \A p \in Writers : Lesser(writer'[p], writer[p]) /\ d \notin writer'[p].must
  BY DEF UpdateWrite, Released, Lesser, IdleWriter, Writer
<1>2. UniqueKeys(field') /\ \A e \in FieldIds : e # d => field'[e] = field[e]
  <2>1. CASE d \notin Defined
    BY <2>1 DEF UpdateWrite, UInv, KeysOK
  <2>2. CASE d \in Defined
    <3>1. field' = [field EXCEPT ![d] = new] /\ field[d] \in FieldDef /\ d \in FieldIds
      BY <2>2 DEF UpdateWrite, Defined
    <3>2. new.key = field[d].key
      BY <3>1 DEF Redefined, FieldDef
    <3>. QED BY <3>1, <3>2 DEF UInv, KeysOK, UniqueKeys
  <2>. QED BY <2>1, <2>2
<1>3. \A p \in Writers : \A e \in writer'[p].must : field'[e] = field[e]
  BY <1>0, <1>1, <1>2 DEF Writer
<1>. QED BY <1>0, <1>1, <1>2, <1>3, DefinitionsWritten DEF UpdateWrite

LEMMA DeleteFieldU == ASSUME IInv, UInv, NEW d \in FieldIds, DeleteField(d) PROVE UInv'
<1>. USE DEF IInv, FieldsTypeOK
<1>1. \A p \in Writers : Lesser(writer'[p], writer[p]) /\ d \notin writer'[p].must
  BY DEF DeleteField, Released, Lesser, Writer
<1>2. UniqueKeys(field') /\ \A e \in FieldIds : e # d => field'[e] = field[e]
  BY NoFieldIsNoDef DEF DeleteField, UInv, KeysOK, UniqueKeys
<1>3. \A p \in Writers : \A e \in writer'[p].must : field'[e] = field[e]
  BY <1>1, <1>2, DeleteFieldOK DEF Writer
<1>4. \A s \in FieldSightings : \A e \in FieldIds : field'[e] = field[e] => value'[s][e] = value[s][e]
  BY NoFieldIsNoDef DEF DeleteField, Defined
<1>. QED BY <1>1, <1>2, <1>3, <1>4, DeleteFieldOK, DefinitionsWritten DEF DeleteField

\* A request begins with nothing it must fill in, ends, or goes on as it was; no
\* value of a sighting that is there changes.
LEMMA RequestsOnly ==
  ASSUME IInv, UInv, UNCHANGED <<field, value>>,
         present' \subseteq present, present' \cup gone' = present \cup gone,
         \A q \in Writers :
           \/ Lesser(writer'[q], writer[q])
           \/ /\ writer'[q].step = "load" /\ writer'[q].must = {} /\ writer'[q].defs = NoFields
              /\ writer'[q].sighting \in present
  PROVE  UInv'
<1>. USE DEF UInv
<1>1. KeysOK'
  BY NoFieldIsNoDef DEF KeysOK, UniqueKeys, Lesser, NoFields
<1>2. UsedOK'
  BY DEF UsedOK, AtSighting, Lesser
<1>3. MustOK'
  BY DEF MustOK, Defined, Lesser
<1>4. ReadMust'
  BY DEF ReadMust, Lesser, AtSighting
<1>. QED BY <1>1, <1>2, <1>3, <1>4

LEMMA EndU ==
  ASSUME IInv, UInv, NEW q \in Writers, EndWriter(q), UNCHANGED <<field, present, gone>>
  PROVE  UInv'
<1>1. \A p \in Writers : Lesser(writer'[p], writer[p])
  BY DEF EndWriter, Lesser, IdleWriter, IInv, FieldsTypeOK
<1>. QED BY <1>1, RequestsOnly DEF EndWriter

LEMMA UpdateReadU ==
  ASSUME IInv, UInv, NEW q \in Writers, NEW d \in FieldIds, NEW opts, UpdateRead(q, d, opts)
  PROVE  UInv'
<1>1. \A p \in Writers : Lesser(writer'[p], writer[p])
  BY DEF UpdateRead, Lesser, IdleWriter, IInv, FieldsTypeOK
<1>. QED BY <1>1, RequestsOnly DEF UpdateRead

LEMMA EditU ==
  ASSUME IInv, UInv, NEW q \in Writers, NEW s \in FieldSightings, NEW map \in Maps,
         EditSighting(q, s, map)
  PROVE  UInv'
<1>1. \A p \in Writers :
        \/ Lesser(writer'[p], writer[p])
        \/ /\ writer'[p].step = "load" /\ writer'[p].must = {} /\ writer'[p].defs = NoFields
           /\ writer'[p].sighting \in present
  BY DEF EditSighting, Lesser, IdleWriter, IInv, FieldsTypeOK
<1>. QED BY <1>1, RequestsOnly DEF EditSighting

LEMMA UploadCheckU ==
  ASSUME IInv, UInv, NEW q \in Writers, NEW map \in Maps, UploadCheck(q, map)
  PROVE  UInv'
<1>. USE DEF UInv
<1>1. /\ \A p \in Writers \ {q} : writer'[p] = writer[p]
      /\ writer'[q].step = "insert" /\ writer'[q].map = map
      /\ writer'[q].must = Required(field) /\ writer'[q].defs = NoFields
  BY DEF UploadCheck, IdleWriter, IInv, FieldsTypeOK
<1>2. \A d \in Required(field) : map[field[d].key] \in Texts
  BY DEF UploadCheck, CheckFieldValues
<1>3. KeysOK'
  BY <1>1, NoFieldIsNoDef DEF KeysOK, UniqueKeys, NoFields, UploadCheck
<1>4. UsedOK' /\ ReadMust'
  BY <1>1 DEF UsedOK, ReadMust, AtSighting, UploadCheck
<1>5. MustOK'
  BY <1>1, <1>2 DEF MustOK, Required, Defined, UploadCheck
<1>. QED BY <1>3, <1>4, <1>5

\* A sighting that is inserted is unknown to every other request.
LEMMA InsertedU ==
  ASSUME IInv, UInv, NEW q \in Writers, NEW s \in FieldSightings,
         s \notin present \cup gone, present' = present \cup {s},
         UNCHANGED <<field, value, gone>>,
         \A p \in Writers \ {q} : writer'[p] = writer[p],
         writer'[q].step = "load", writer'[q].sighting = s,
         writer'[q].defs \in {writer[q].defs, NoFields},
         \/ writer'[q].must = {}
         \/ /\ writer[q].step = "insert" /\ writer'[q].must = writer[q].must
            /\ writer'[q].map = writer[q].map
  PROVE  UInv'
<1>. USE DEF UInv
<1>1. KeysOK'
  BY NoFieldIsNoDef DEF KeysOK, UniqueKeys, NoFields
<1>2. UsedOK'
  BY DEF UsedOK, AtSighting
<1>3. MustOK'
  <2>1. ASSUME NEW p \in Writers \ {q} PROVE writer'[p].step = "write" =>
               (writer'[p].sighting \in present' => writer[p].sighting \in present)
    BY DEF UsedOK, AtSighting
  <2>. QED BY <2>1 DEF MustOK, Defined
<1>4. ReadMust'
  <2>1. \A p \in Writers \ {q} : writer'[p].step = "write" => writer'[p].sighting # s
    BY DEF UsedOK, AtSighting
  <2>. QED BY <2>1 DEF ReadMust, AtSighting
<1>. QED BY <1>1, <1>2, <1>3, <1>4

LEMMA InsertOrAddU ==
  ASSUME IInv, UInv, NEW q \in Writers, NEW s \in FieldSightings,
         InsertSighting(q, s) \/ \E map \in Maps : AddSighting(q, s, map)
  PROVE  UInv'
<1>1. CASE InsertSighting(q, s)
  <2>1. writer' = [writer EXCEPT ![q] = [writer[q] EXCEPT !.step = "load", !.sighting = s]]
    BY <1>1 DEF InsertSighting, IInv, FieldsTypeOK, Writer
  <2>2. writer[q] \in Writer
    BY DEF IInv, FieldsTypeOK
  <2>. QED BY <1>1, <2>1, <2>2, InsertedU DEF InsertSighting, IInv, FieldsTypeOK, Writer
<1>2. CASE \E map \in Maps : AddSighting(q, s, map)
  <2>1. PICK map \in Maps : AddSighting(q, s, map)
    BY <1>2
  <2>2. writer' = [writer EXCEPT ![q] = [IdleWriter EXCEPT !.step = "load", !.sighting = s, !.map = map]]
    BY <2>1 DEF AddSighting
  <2>3. /\ \A p \in Writers \ {q} : writer'[p] = writer[p]
        /\ writer'[q].step = "load" /\ writer'[q].sighting = s
        /\ writer'[q].defs = NoFields /\ writer'[q].must = {}
    BY <2>2 DEF IdleWriter, IInv, FieldsTypeOK
  <2>. QED BY <2>1, <2>3, InsertedU DEF AddSighting
<1>. QED BY <1>1, <1>2

LEMMA LoadFieldsU == ASSUME IInv, UInv, NEW q \in Writers, LoadFields(q) PROVE UInv'
<1>. USE DEF UInv
<1>1. CASE writer[q].sighting \notin present
  <2>1. \A p \in Writers : Lesser(writer'[p], writer[p])
    BY <1>1 DEF LoadFields, Lesser, IdleWriter, IInv, FieldsTypeOK
  <2>. QED BY <2>1, RequestsOnly DEF LoadFields
<1>2. CASE writer[q].sighting \in present
  <2>1. writer' = [writer EXCEPT ![q] = [writer[q] EXCEPT !.step = "write", !.defs = field]]
    BY <1>2 DEF LoadFields, IInv, FieldsTypeOK
  <2>2. writer[q] \in Writer
    BY DEF IInv, FieldsTypeOK
  <2>3. /\ \A p \in Writers \ {q} : writer'[p] = writer[p]
        /\ writer'[q].step = "write" /\ writer'[q].sighting = writer[q].sighting
        /\ writer'[q].map = writer[q].map /\ writer'[q].must = writer[q].must
        /\ writer'[q].defs = field /\ writer[q].step = "load"
    <3>. DEFINE w == [writer[q] EXCEPT !.step = "write", !.defs = field]
    <3>1. /\ w.step = "write" /\ w.sighting = writer[q].sighting /\ w.map = writer[q].map
          /\ w.must = writer[q].must /\ w.defs = field
      BY <2>2 DEF Writer
    <3>. QED BY <2>1, <3>1 DEF LoadFields, IInv, FieldsTypeOK
  <2>4. KeysOK'
    BY <2>3 DEF KeysOK, UniqueKeys, LoadFields
  <2>5. UsedOK' /\ MustOK'
    BY <2>3 DEF UsedOK, MustOK, AtSighting, Defined, LoadFields
  <2>6. ReadMust'
    BY <2>3 DEF ReadMust, AtSighting, LoadFields
  <2>. QED BY <2>4, <2>5, <2>6
<1>. QED BY <1>1, <1>2

LEMMA DeleteSightingU ==
  ASSUME IInv, UInv, NEW s \in FieldSightings, DeleteSighting(s)
  PROVE  UInv'
<1>. USE DEF UInv, DeleteSighting
<1>1. KeysOK' /\ ReadMust'
  BY DEF KeysOK, ReadMust, UniqueKeys, AtSighting
<1>2. UsedOK'
  BY DEF UsedOK, AtSighting
<1>3. MustOK'
  <2>1. \A t \in present' : value'[t] = value[t]
    BY DEF IInv, FieldsTypeOK
  <2>. QED BY <2>1 DEF MustOK, Defined
<1>. QED BY <1>1, <1>2, <1>3

\* A value is written, or taken away where it is not required.
LEMMA WrittenU ==
  ASSUME IInv, UInv, NEW q \in Writers, NEW k \in FieldKeys, NEW d \in FieldIds,
         NEW v \in Texts \cup {NoValue},
         writer[q].step = "write", writer[q].sighting \in FieldSightings,
         writer[q].defs[d] \in FieldDef, writer[q].defs[d].key = k,
         v = NoValue => ~writer[q].defs[d].required /\ writer[q].map[k] = Blank,
         Written(q, k, writer[q].sighting, d, v), UNCHANGED <<field, present, gone>>
  PROVE  UInv'
<1>. USE DEF UInv
<1>. DEFINE s == writer[q].sighting
<1>1. writer[q] \in Writer
  BY DEF IInv, FieldsTypeOK
<1>2. writer' = [writer EXCEPT ![q] = [writer[q] EXCEPT !.map[k] = Absent]]
  BY <1>1 DEF Written, IInv, FieldsTypeOK, Writer
<1>3. /\ \A p \in Writers \ {q} : writer'[p] = writer[p]
      /\ writer'[q].step = "write" /\ writer'[q].sighting = s
      /\ writer'[q].must = writer[q].must /\ writer'[q].defs = writer[q].defs
      /\ \A j \in FieldKeys \ {k} : writer'[q].map[j] = writer[q].map[j]
  BY <1>1, <1>2 DEF Writer, FieldMap, IInv, FieldsTypeOK
<1>4. /\ value'[s][d] = v
      /\ \A t \in FieldSightings : \A e \in FieldIds : ~(t = s /\ e = d) => value'[t][e] = value[t][e]
  BY DEF Written, IInv, FieldsTypeOK
<1>5. KeysOK' /\ UsedOK' /\ ReadMust'
  BY <1>3 DEF KeysOK, UniqueKeys, UsedOK, ReadMust, AtSighting
<1>6. ASSUME NEW p \in Writers, NEW e \in writer'[p].must
      PROVE  /\ e \in Defined' /\ field'[e].required
             /\ writer'[p].step \in {"insert", "load", "write"}
             /\ \/ writer'[p].map[field'[e].key] \in Texts
                \/ /\ writer'[p].step = "write"
                   /\ writer'[p].sighting \in present' => value'[writer'[p].sighting][e] # NoValue
  <2>1. /\ e \in writer[p].must /\ e \in Defined /\ field[e].required /\ e \in FieldIds
        /\ field[e].key \in FieldKeys
        /\ writer'[p].step = writer[p].step /\ writer'[p].sighting = writer[p].sighting
    BY <1>3 DEF MustOK, Defined, FieldDef
  <2>2. ~(p = q /\ field[e].key = k) => writer'[p].map[field[e].key] = writer[p].map[field[e].key]
    BY <1>3, <2>1
  <2>3. AtSighting(writer[p]) /\ writer[p].sighting = s => writer[q].defs[e] = field[e]
    BY <2>1 DEF ReadMust
  <2>4. CASE writer[p].step = "write" /\ writer[p].sighting = s /\ e = d
    <3>1. v # NoValue
      BY <2>1, <2>3, <2>4 DEF AtSighting
    <3>. QED BY <1>4, <2>1, <2>4, <3>1 DEF Defined
  <2>5. CASE p = q /\ e # d
    <3>1. field[e].key # k
      BY <2>1, <2>3, <2>5 DEF KeysOK, UniqueKeys, AtSighting, Defined
    <3>. QED BY <1>4, <2>1, <2>2, <2>5, <3>1 DEF MustOK, Defined, IInv, FieldsTypeOK
  <2>6. CASE p # q /\ ~(writer[p].step = "write" /\ writer[p].sighting = s /\ e = d)
    BY <1>4, <2>1, <2>2, <2>6 DEF MustOK, Defined, IInv, FieldsTypeOK
  <2>. QED BY <2>4, <2>5, <2>6
<1>. QED BY <1>5, <1>6 DEF MustOK

LEMMA WriteValueU ==
  ASSUME IInv, UInv, NEW q \in Writers, NEW k \in FieldKeys, WriteValue(q, k)
  PROVE  UInv'
<1>. DEFINE w == writer[q]
            d == CHOOSE d \in ByKey(w.defs, k) : TRUE
            v == IF w.map[k] = Blank THEN NoValue ELSE w.map[k]
<1>1. CASE EndWriter(q)
  BY <1>1, EndU DEF WriteValue
<1>2. CASE ~EndWriter(q)
  <2>1. /\ w \in Writer /\ w.step = "write" /\ k \in Sent(w.map)
        /\ ~Refused(w.defs, k, w.map[k])
        /\ w.map[k] = Blank => ~w.defs[d].required
        /\ Written(q, k, w.sighting, d, v) /\ UNCHANGED <<field, present, gone>>
    BY <1>2 DEF WriteValue, IInv, FieldsTypeOK
  <2>2. d \in FieldIds /\ w.defs[d] \in FieldDef /\ w.defs[d].key = k
    BY <2>1 DEF Refused, ByKey
  <2>3. w.map[k] \in Texts \cup {Blank}
    BY <2>1 DEF Sent, Writer, FieldMap, Absent
  <2>4. w.sighting \in FieldSightings
    BY <2>1 DEF UInv, UsedOK, AtSighting, IInv, FieldsTypeOK
  <2>5. v \in Texts \cup {NoValue} /\ (v = NoValue => w.map[k] = Blank)
    BY <2>3, NoFieldIsNoDef
  <2>. QED BY <2>1, <2>2, <2>4, <2>5, WrittenU
<1>. QED BY <1>1, <1>2

-----------------------------------------------------------------------------
LEMMA UNext == ASSUME IInv, UInv, [FieldsNext]_fieldVars PROVE UInv'
<1>1. CASE UNCHANGED fieldVars
  BY <1>1 DEF fieldVars, UInv, KeysOK, UniqueKeys, UsedOK, AtSighting, MustOK, ReadMust, Defined
<1>2. CASE FieldsNext
  <2>1. ASSUME NEW d \in FieldIds, NEW def \in Definitions, CreateField(d, def) PROVE UInv'
    BY <2>1, CreateFieldU
  <2>2. ASSUME NEW d \in FieldIds, DeleteField(d) PROVE UInv'
    BY <2>2, DeleteFieldU
  <2>3. ASSUME NEW q \in Writers, NEW d \in FieldIds, NEW opts \in SUBSET Texts,
               UpdateRead(q, d, opts) PROVE UInv'
    BY <2>3, UpdateReadU
  <2>4. ASSUME NEW q \in Writers, NEW required \in BOOLEAN, UpdateWrite(q, required) PROVE UInv'
    BY <2>4, UpdateWriteU
  <2>5. ASSUME NEW q \in Writers, NEW map \in Maps, UploadCheck(q, map) PROVE UInv'
    BY <2>5, UploadCheckU
  <2>6. ASSUME NEW q \in Writers, NEW s \in FieldSightings, InsertSighting(q, s) PROVE UInv'
    BY <2>6, InsertOrAddU
  <2>7. ASSUME NEW q \in Writers, NEW s \in FieldSightings, NEW map \in Maps,
               AddSighting(q, s, map) \/ EditSighting(q, s, map) PROVE UInv'
    BY <2>7, InsertOrAddU, EditU
  <2>8. ASSUME NEW q \in Writers, LoadFields(q) \/ Answer(q) \/ FieldsCut(q) PROVE UInv'
    BY <2>8, LoadFieldsU, EndU DEF Answer, FieldsCut
  <2>9. ASSUME NEW q \in Writers, NEW k \in FieldKeys, WriteValue(q, k) PROVE UInv'
    BY <2>9, WriteValueU
  <2>10. ASSUME NEW s \in FieldSightings, DeleteSighting(s) PROVE UInv'
    BY <2>10, DeleteSightingU
  <2>. QED BY <1>2, <2>1, <2>2, <2>3, <2>4, <2>5, <2>6, <2>7, <2>8, <2>9, <2>10 DEF FieldsNext
<1>. QED BY <1>1, <1>2

\* An upload that is answered with success has filled in the fields it had to,
\* whatever becomes of the definitions and whoever else writes to its sighting.
THEOREM UploadFillsIn == FieldsSpec => []UploadComplete
<1>1. IInv /\ UInv => UploadComplete
  BY NoFieldIsNoDef
     DEF UInv, MustOK, UploadComplete, Answers, Sent, Absent, IInv, FieldsTypeOK, Defined, FieldDef
<1>. QED BY <1>1, Invariance, UInit, UNext, PTL DEF FieldsSpec

-----------------------------------------------------------------------------
\* Slots and addresses

\* Who waits waits for a time; what is remembered was found at, or given for, the
\* place it is remembered for.
WaitsOK  == \A q \in Waiting : lookup[q].left > 0
CacheOK  == cache.address # NoPlace => cache.address \in Places /\ cache.address = cache.at

GInv == GeoTypeOK /\ SlotsApart /\ WaitsOK /\ CacheOK /\ AddressNear

LEMMA NoLookupType == NoLookup \in Lookup /\ NoLookup.step = "idle" /\ NoLookup.address = NoPlace
BY DEF NoLookup, Lookup, Address

LEMMA GapIsPositive == MinGap \in Nat /\ MinGap > 0
BY GeocodeAssumption DEF GeocodeAssumption

LEMMA GeoInitOK == GeoInit => GInv
BY NoLookupType DEF GeoInit, GInv, GeoTypeOK, Cached, Address, SlotsApart, Waiting, WaitsOK, CacheOK, AddressNear

\* What must hold of the caller who has moved, when the others stay as they are.
LEMMA Moved ==
  ASSUME GInv, NEW q \in Callers, NEW r \in Lookup, lookup' = [lookup EXCEPT ![q] = r],
         r.address # NoPlace => <<r.address, r.place>> \in Near,
         cache' \in Cached, CacheOK',
         \/ r.step # "wait" /\ ahead' = ahead
         \/ r.step # "wait" /\ ahead' = ahead + MinGap
         \/ r.left = ahead /\ ahead > 0 /\ ahead' = ahead + MinGap
  PROVE  GInv'
<1>. USE GapIsPositive DEF GInv, GeoTypeOK
<1>1. GeoTypeOK'
  OBVIOUS
<1>2. \A o \in Callers : o # q => lookup'[o] = lookup[o]
  OBVIOUS
<1>3. lookup'[q] = r /\ ahead \in Nat /\ ahead' \in Nat /\ ahead' >= ahead
  OBVIOUS
<1>4. \A o \in Callers : lookup[o].left \in Nat /\ lookup'[o].left \in Nat
  BY <1>1 DEF Lookup
<1>5. AddressNear'
  BY <1>2, <1>3 DEF AddressNear
<1>6. WaitsOK'
  BY <1>2, <1>3 DEF WaitsOK, Waiting
<1>7. SlotsApart'
  <2>1. ASSUME NEW o \in Waiting', NEW p \in Waiting' \ {o}
        PROVE  /\ lookup'[o].left + MinGap <= ahead'
               /\ \/ lookup'[o].left >= lookup'[p].left + MinGap
                  \/ lookup'[p].left >= lookup'[o].left + MinGap
    <3>1. CASE o # q /\ p # q
      BY <1>2, <1>3, <1>4, <3>1 DEF SlotsApart, Waiting
    <3>2. CASE o = q
      BY <1>2, <1>3, <1>4, <3>2 DEF SlotsApart, Waiting
    <3>3. CASE p = q
      BY <1>2, <1>3, <1>4, <3>3 DEF SlotsApart, Waiting
    <3>. QED BY <3>1, <3>2, <3>3
  <2>2. ASSUME NEW o \in Waiting' PROVE lookup'[o].left + MinGap <= ahead'
    <3>1. CASE o # q
      BY <1>2, <1>3, <1>4, <3>1 DEF SlotsApart, Waiting
    <3>2. CASE o = q
      BY <1>3, <3>2 DEF Waiting
    <3>. QED BY <3>1, <3>2
  <2>. QED BY <2>1, <2>2 DEF SlotsApart
<1>. QED BY <1>1, <1>5, <1>6, <1>7

\* A slot is taken.
LEMMA SlotOK ==
  ASSUME GInv, NEW q \in Callers, NEW r \in Lookup, waitGeocodeSlot(q, r), UNCHANGED cache,
         r.address = NoPlace
  PROVE  GInv'
<1>. DEFINE step == IF ahead = 0 THEN "ask" ELSE "wait"
            x == [r EXCEPT !.step = step, !.left = ahead]
<1>1. lookup' = [lookup EXCEPT ![q] = x] /\ ahead' = ahead + MinGap
  BY DEF waitGeocodeSlot
<1>2. ahead \in Nat /\ step \in {"ask", "wait"} /\ (step = "wait" => ahead > 0)
  BY DEF GInv, GeoTypeOK
<1>. HIDE DEF step
<1>3. x \in Lookup /\ x.address = NoPlace /\ x.left = ahead /\ x.step = step
  BY <1>2 DEF Lookup
<1>. HIDE DEF x
<1>. QED BY <1>1, <1>2, <1>3, Moved DEF GInv, GeoTypeOK, CacheOK

LEMMA LookupOK == ASSUME GInv, NEW q \in Callers, NEW p \in Places, lookupAddress(q, p) PROVE GInv'
<1>1. CASE cachedAddressNear(p) = NoPlace
  <2>1. [NoLookup EXCEPT !.place = p, !.keeps = TRUE] \in Lookup
    BY DEF NoLookup, Lookup, Address
  <2>2. [NoLookup EXCEPT !.place = p, !.keeps = TRUE].address = NoPlace
    BY DEF NoLookup
  <2>. QED BY <1>1, <2>1, <2>2, SlotOK DEF lookupAddress
<1>2. CASE cachedAddressNear(p) # NoPlace
  <2>. DEFINE a == cachedAddressNear(p)
              x == [NoLookup EXCEPT !.step = "done", !.place = p, !.address = a]
  <2>1. a \in Places /\ <<a, p>> \in Near
    BY <1>2 DEF cachedAddressNear, GInv, CacheOK
  <2>2. lookup' = [lookup EXCEPT ![q] = x] /\ UNCHANGED <<ahead, cache>>
    BY <1>2 DEF lookupAddress, Reuse
  <2>. HIDE DEF a
  <2>3. x \in Lookup /\ x.step = "done" /\ x.address = a /\ x.place = p
    BY <2>1 DEF NoLookup, Lookup, Address
  <2>. HIDE DEF x
  <2>. QED BY <2>1, <2>2, <2>3, Moved DEF GInv, GeoTypeOK, CacheOK
<1>. QED BY <1>1, <1>2

LEMMA ShowOK == ASSUME GInv, NEW q \in Callers, ShowAddress(q) PROVE GInv'
BY NoLookupType, SlotOK DEF ShowAddress

LEMMA CancelledOK == ASSUME GInv, NEW q \in Callers, SlotCancelled(q) PROVE GInv'
<1>. DEFINE x == [lookup[q] EXCEPT !.step = "done", !.left = 0]
<1>1. lookup[q] \in Lookup
  BY DEF GInv, GeoTypeOK
<1>2. lookup' = [lookup EXCEPT ![q] = x] /\ UNCHANGED <<ahead, cache>>
  BY <1>1 DEF SlotCancelled, GInv, GeoTypeOK
<1>3. x \in Lookup /\ x.step = "done" /\ x.address = lookup[q].address /\ x.place = lookup[q].place
  BY <1>1 DEF Lookup
<1>. HIDE DEF x
<1>. QED BY <1>2, <1>3, Moved DEF GInv, GeoTypeOK, CacheOK, AddressNear

LEMMA FoundOK ==
  ASSUME GInv, NEW q \in Callers, NEW found \in Address, fetchNominatimHit(q, found) PROVE GInv'
<1>. DEFINE x == [lookup[q] EXCEPT !.step = "done", !.address = found]
<1>1. lookup[q] \in Lookup
  BY DEF GInv, GeoTypeOK
<1>2. lookup' = [lookup EXCEPT ![q] = x] /\ UNCHANGED ahead
  BY <1>1 DEF fetchNominatimHit, GInv, GeoTypeOK
<1>3. x \in Lookup /\ x.step = "done" /\ x.address = found /\ x.place = lookup[q].place
  BY <1>1 DEF Lookup
<1>. HIDE DEF x
<1>4. found # NoPlace => found = lookup[q].place /\ found \in Places /\ <<found, found>> \in Near
  BY GeocodeAssumption DEF fetchNominatimHit, Address, GeocodeAssumption
<1>5. cache' \in Cached /\ CacheOK'
  <2>1. CASE lookup[q].keeps /\ found # NoPlace
    BY <1>4, <2>1 DEF fetchNominatimHit, rememberResolvedAddress, Cached, Address, CacheOK
  <2>2. CASE ~(lookup[q].keeps /\ found # NoPlace)
    BY <2>2 DEF fetchNominatimHit, GInv, GeoTypeOK, CacheOK
  <2>. QED BY <2>1, <2>2
<1>. QED BY <1>2, <1>3, <1>4, <1>5, Moved

LEMMA LookupEndsOK == ASSUME GInv, NEW q \in Callers, LookupEnds(q) PROVE GInv'
BY NoLookupType, Moved DEF LookupEnds, GInv, GeoTypeOK, CacheOK

LEMMA SuppliedOK == ASSUME GInv, NEW p \in Places, Supplied(p) PROVE GInv'
BY DEF Supplied, rememberResolvedAddress, GInv, GeoTypeOK, Cached, Address, SlotsApart, Waiting, WaitsOK,
       CacheOK, AddressNear

\* The slots that are waited for come nearer together.
LEMMA TickOK == ASSUME GInv, GeoTick PROVE GInv'
<1>. USE GapIsPositive
<1>1. \A q \in Callers : lookup[q] \in Lookup /\ lookup[q].left \in Nat
  BY DEF GInv, GeoTypeOK, Lookup
<1>. DEFINE later(r) == [r EXCEPT !.left = r.left - 1]
            due(r)   == [r EXCEPT !.left = 0, !.step = "ask"]
<1>2. \A q \in Callers :
        lookup'[q] = IF lookup[q].left > 1 THEN later(lookup[q])
                     ELSE IF lookup[q].left = 1 THEN due(lookup[q]) ELSE lookup[q]
  BY DEF GeoTick
<1>10. ASSUME NEW r \in Lookup
       PROVE  /\ r.left > 1 => /\ later(r) \in Lookup /\ later(r).step = r.step /\ later(r).left = r.left - 1
                               /\ later(r).address = r.address /\ later(r).place = r.place
              /\ due(r) \in Lookup /\ due(r).step = "ask"
              /\ due(r).address = r.address /\ due(r).place = r.place
  <2>1. r.left \in Nat /\ (r.left > 1 => r.left - 1 \in Nat)
    BY DEF Lookup
  <2>2. r.left > 1 => later(r) \in Lookup
    BY <2>1 DEF Lookup
  <2>3. /\ later(r).step = r.step /\ later(r).left = r.left - 1
        /\ later(r).address = r.address /\ later(r).place = r.place
    BY DEF Lookup
  <2>4. due(r) \in Lookup
    BY DEF Lookup
  <2>5. due(r).step = "ask" /\ due(r).address = r.address /\ due(r).place = r.place
    BY DEF Lookup
  <2>. QED BY <2>2, <2>3, <2>4, <2>5
<1>. HIDE DEF later, due
<1>11. ASSUME NEW q \in Callers
       PROVE  /\ lookup'[q] \in Lookup
              /\ lookup'[q].address = lookup[q].address /\ lookup'[q].place = lookup[q].place
              /\ lookup'[q].step = "wait" =>
                   \/ lookup[q].step = "wait" /\ lookup[q].left > 1 /\ lookup'[q].left = lookup[q].left - 1
                   \/ lookup[q].step = "wait" /\ lookup[q].left = 0
  <2>1. CASE lookup[q].left > 1
    BY <1>1, <1>2, <1>10, <2>1
  <2>2. CASE lookup[q].left = 1
    BY <1>1, <1>2, <1>10, <2>2
  <2>3. CASE lookup[q].left = 0
    BY <1>1, <1>2, <2>3
  <2>. QED BY <1>1, <2>1, <2>2, <2>3
<1>3. \A q \in Waiting' : /\ q \in Waiting /\ lookup[q].left \in Nat /\ lookup[q].left > 1
                          /\ lookup'[q].left = lookup[q].left - 1
  BY <1>1, <1>11 DEF Waiting, GInv, WaitsOK
<1>4. ahead \in Nat /\ ahead > 0 /\ ahead' = ahead - 1 /\ cache' = cache
  BY DEF GeoTick, GInv, GeoTypeOK
<1>5. GeoTypeOK'
  <2>1. lookup' = [q \in Callers |-> lookup'[q]]
    BY DEF GeoTick
  <2>. QED BY <1>4, <1>11, <2>1 DEF GInv, GeoTypeOK
<1>6. SlotsApart'
  BY <1>3, <1>4 DEF SlotsApart, GInv
<1>7. WaitsOK' /\ CacheOK'
  BY <1>3, <1>4 DEF WaitsOK, CacheOK, GInv
<1>8. AddressNear'
  BY <1>11 DEF AddressNear, GInv
<1>. QED BY <1>5, <1>6, <1>7, <1>8 DEF GInv

LEMMA SameGeo == ASSUME GInv, UNCHANGED geoVars PROVE GInv'
BY DEF geoVars, GInv, GeoTypeOK, SlotsApart, Waiting, WaitsOK, CacheOK, AddressNear

LEMMA ImportNextOK == ASSUME GInv, [ImportNext]_<<geoVars, importVars, storedBy>> PROVE GInv'
<1>0. Importers \subseteq Callers
  BY ImportAssumption DEF ImportAssumption
<1>1. ASSUME NEW q \in Importers,
             Begin(q) \/ Check(q) \/ Insert(q) \/ ReadStored(q) \/ ItemFails(q) \/ Cut(q)
      PROVE  GInv'
  BY <1>1, SameGeo DEF Begin, Check, Insert, ReadStored, ItemFails, Cut
<1>2. ASSUME NEW q \in Importers, AskAddress(q) PROVE GInv'
  BY <1>0, <1>2, SameGeo, LookupOK DEF AskAddress
<1>3. ASSUME NEW q \in Importers, GotAddress(q) PROVE GInv'
  BY <1>0, <1>3, LookupEndsOK DEF GotAddress
<1>4. ASSUME NEW q \in Callers, OtherCall(q) \/ Served(q) PROVE GInv'
  BY <1>4, ShowOK, LookupEndsOK, CancelledOK, FoundOK DEF OtherCall, Served
<1>5. ASSUME NEW c \in Contents, DeletePhoto(c) PROVE GInv'
  BY <1>5, SameGeo DEF DeletePhoto
<1>6. CASE UNCHANGED <<geoVars, importVars, storedBy>>
  BY <1>6, SameGeo
<1>. QED BY <1>1, <1>2, <1>3, <1>4, <1>5, <1>6, SuppliedOK, TickOK DEF ImportNext

LEMMA GeoInvariance == ImportSpec => []GInv
BY GeoInitOK, ImportNextOK, PTL DEF ImportSpec

\* However many callers reserve slots, wait for them and give up, requests to the
\* service stay apart.
THEOREM SlotsStayApart == ImportSpec => []SlotsApart
<1>1. GInv => SlotsApart
  BY DEF GInv
<1>. QED BY <1>1, GeoInvariance, PTL

\* No sequence of lookups, reuses and supplied addresses carries an address further
\* than from one place to another near it.
THEOREM AddressesAreNear == ImportSpec => []AddressNear
<1>1. GInv => AddressNear
  BY DEF GInv
<1>. QED BY <1>1, GeoInvariance, PTL

-----------------------------------------------------------------------------
\* Imports

\* An import: what it has still to save, and what it has reported.
ImportRequest == [step: Steps, archive: Archives \cup {<<>>}, todo: SUBSET Nat,
            out: Seq([entry: Nat, outcome: Outcome]), cut: BOOLEAN]

ImportTypeOK == import \in [Importers -> ImportRequest]

\* Every entry that is saved is either still to do or reported, and that once.
Divided(r) ==
  IF r.archive = <<>> THEN r.todo = {}
  ELSE /\ ~RefusedZip(r.archive)
       /\ r.todo \subseteq Wanted(r.archive)
       /\ \A n \in DOMAIN r.out : r.out[n].entry \in Wanted(r.archive) \ r.todo
       /\ \A m, n \in DOMAIN r.out : m # n => r.out[m].entry # r.out[n].entry
       /\ Len(r.out) + Cardinality(r.todo) = Cardinality(Wanted(r.archive))
AllDivided == \A q \in Importers : Divided(import[q])

\* What is reported has been stored; so has every photo that is there.
ReportsTrue ==
  \A q \in Importers :
    /\ \A n \in OutcomesOf(q, "imported") : <<ItemOf(q, n).content, q>> \in storedBy
    /\ \A n \in OutcomesOf(q, "skipped") :
         \E by \in Importers : <<ItemOf(q, n).content, by>> \in storedBy
PhotosStored == \A c \in photos : \E by \in Importers : <<c, by>> \in storedBy
ReadIsStored == \A q \in Importers : Busy(q, "read") => <<Current(q).content, q>> \in storedBy

\* What an import has stored it has reported, or is about to.
Reported(q, c) ==
  \E n \in OutcomesOf(q, "imported") \cup OutcomesOf(q, "unread") : ItemOf(q, n).content = c
StoredReported ==
  \A q \in Importers, c \in Contents : <<c, q>> \in storedBy =>
    Reported(q, c) \/ (Busy(q, "read") /\ Current(q).content = c)

ImportIInv == /\ ImportTypeOK /\ AllDivided /\ ReportsTrue /\ PhotosStored /\ ReadIsStored
              /\ StoredReported

-----------------------------------------------------------------------------
LEMMA NoImportType ==
  /\ NoImport \in ImportRequest /\ NoImport.archive = <<>> /\ NoImport.todo = {}
  /\ NoImport.out = <<>> /\ NoImport.step = "idle"
BY DEF NoImport, ImportRequest, Steps

LEMMA ImportInitOK == ImportInit => ImportIInv
<1>. SUFFICES ASSUME ImportInit PROVE ImportIInv
  OBVIOUS
<1>. USE NoImportType DEF ImportInit
<1>1. ImportTypeOK /\ AllDivided
  BY DEF ImportTypeOK, AllDivided, Divided
<1>2. ReportsTrue
  BY DEF ReportsTrue, OutcomesOf
<1>3. PhotosStored /\ ReadIsStored /\ StoredReported
  BY DEF PhotosStored, ReadIsStored, StoredReported, Busy
<1>. QED BY <1>1, <1>2, <1>3 DEF ImportIInv

\* The last index.json of an archive that is not refused lists entries.
LEMMA IndexType ==
  ASSUME NEW z \in Archives, ~RefusedZip(z)
  PROVE  IndexOf(z) \in Seq(Entry)
<1>. DEFINE M == Members(z, "index")
<1>1. z \in Seq(Member)
  BY ImportAssumption DEF ImportAssumption
<1>2. M # {} /\ M \in SUBSET (0..Len(z)) /\ Len(z) \in Nat
  BY <1>1 DEF RefusedZip, Members
<1>3. \A i \in M : z[i].entries \in Seq(Entry)
  <2>1. ASSUME NEW i \in M PROVE z[i] \in [kind: {"index"}, entries: Seq(Entry)]
    <3>1. z[i] \in Member /\ z[i].kind = "index"
      BY <1>1 DEF Members
    <3>. QED BY <3>1 DEF Member
  <2>. QED BY <2>1
<1>. HIDE DEF M
<1>4. \E i \in M : \A j \in M : j <= i
  BY <1>2, GreatestExists
<1>5. IndexOf(z) = z[CHOOSE i \in M : \A j \in M : j <= i].entries
  BY DEF IndexOf, M
<1>. QED BY <1>3, <1>4, <1>5

LEMMA ItemsType ==
  ASSUME NEW z \in Archives, ~RefusedZip(z)
  PROVE  /\ Len(IndexOf(z)) \in Nat /\ DOMAIN IndexOf(z) = 1..Len(IndexOf(z))
         /\ Wanted(z) \subseteq 1..Len(IndexOf(z)) /\ Wanted(z) \subseteq Nat
         /\ IsFiniteSet(Wanted(z)) /\ Cardinality(Wanted(z)) \in Nat
<1>1. Len(IndexOf(z)) \in Nat /\ DOMAIN IndexOf(z) = 1..Len(IndexOf(z))
  BY IndexType
<1>2. Wanted(z) \in SUBSET (1..Len(IndexOf(z)))
  BY <1>1 DEF Wanted
<1>3. IsFiniteSet(1..Len(IndexOf(z)))
  BY <1>1, FS_Interval
<1>. QED BY <1>1, <1>2, <1>3, FS_Subset, FS_CardinalityType

LEMMA FirstType ==
  ASSUME ImportTypeOK, NEW q \in Importers, import[q].todo # {}
  PROVE  First(q) \in import[q].todo
<1>1. import[q].todo \in SUBSET Nat
  BY DEF ImportTypeOK, ImportRequest
<1>2. \E i \in import[q].todo : \A j \in import[q].todo : i <= j
  BY <1>1, LeastExists
<1>. QED BY <1>2 DEF First

LEMMA SameDivided ==
  ASSUME NEW r, NEW t, Divided(r), t.archive = r.archive, t.todo = r.todo, t.out = r.out
  PROVE  Divided(t)
<1>1. CASE r.archive = <<>>
  BY <1>1 DEF Divided
<1>2. CASE r.archive # <<>>
  BY <1>2 DEF Divided
<1>. QED BY <1>1, <1>2

\* A step after which every import has what it had to do and has reported.
LEMMA SameWork ==
  ASSUME ImportIInv, ImportTypeOK', PhotosStored', storedBy \subseteq storedBy',
         \A q \in Importers :
           /\ import'[q].archive = import[q].archive /\ import'[q].todo = import[q].todo
           /\ import'[q].out = import[q].out
           /\ import'[q].step = "read" /\ import[q].todo # {}
                => import[q].step = "read" \/ <<Current(q).content, q>> \in storedBy'
           /\ \A c \in Contents : <<c, q>> \in storedBy' =>
                \/ <<c, q>> \in storedBy /\ (Busy(q, "read") => Busy(q, "read")')
                \/ Busy(q, "read")' /\ Current(q).content = c
  PROVE  ImportIInv'
<1>1. AllDivided'
  <2>1. ASSUME NEW q \in Importers PROVE Divided(import'[q])
    <3>1. Divided(import[q])
      BY DEF ImportIInv, AllDivided
    <3>. QED BY <2>1, <3>1, SameDivided
  <2>. QED BY <2>1 DEF AllDivided
<1>2. \A q \in Importers : /\ First(q)' = First(q) /\ Current(q)' = Current(q)
                           /\ \A n : ItemOf(q, n)' = ItemOf(q, n)
                           /\ \A o : OutcomesOf(q, o)' = OutcomesOf(q, o)
  BY DEF First, Current, ItemOf, OutcomesOf
<1>3. ReportsTrue'
  <2>1. SUFFICES ASSUME NEW q \in Importers
                 PROVE  /\ \A n \in OutcomesOf(q, "imported")' : <<ItemOf(q, n)'.content, q>> \in storedBy'
                        /\ \A n \in OutcomesOf(q, "skipped")' :
                             \E by \in Importers : <<ItemOf(q, n)'.content, by>> \in storedBy'
    BY DEF ReportsTrue
  <2>. QED BY <1>2 DEF ImportIInv, ReportsTrue
<1>4. ReadIsStored'
  <2>1. SUFFICES ASSUME NEW q \in Importers, import'[q].step = "read", import'[q].todo # {}
                 PROVE  <<Current(q)'.content, q>> \in storedBy'
    BY DEF ReadIsStored, Busy
  <2>. QED BY <1>2, <2>1 DEF ImportIInv, ReadIsStored, Busy
<1>5. StoredReported'
  <2>1. SUFFICES ASSUME NEW q \in Importers, NEW c \in Contents, <<c, q>> \in storedBy'
                 PROVE  Reported(q, c)' \/ (Busy(q, "read")' /\ Current(q)'.content = c)
    BY DEF StoredReported
  <2>2. Reported(q, c)' <=> Reported(q, c)
    BY <1>2 DEF Reported
  <2>3. \/ <<c, q>> \in storedBy /\ (Busy(q, "read") => Busy(q, "read")')
        \/ Busy(q, "read")' /\ Current(q).content = c
    BY <2>1
  <2>. QED BY <1>2, <2>2, <2>3 DEF ImportIInv, StoredReported
<1>. QED BY <1>1, <1>3, <1>4, <1>5 DEF ImportIInv

LEMMA SameImports ==
  ASSUME ImportIInv, UNCHANGED import, UNCHANGED storedBy, photos' \subseteq photos
  PROVE  ImportIInv'
<1>1. ImportTypeOK' /\ PhotosStored'
  BY DEF ImportIInv, ImportTypeOK, PhotosStored
<1>. QED BY <1>1, SameWork DEF Busy

LEMMA GotoOK ==
  ASSUME ImportIInv, NEW q \in Importers, NEW step \in Steps, Goto(q, step), PhotosStored',
         import[q].step # "read", import[q].todo # {},
         \/ UNCHANGED storedBy /\ step # "read"
         \/ storedBy' = storedBy \cup {<<Current(q).content, q>>} /\ step = "read"
  PROVE  ImportIInv'
<1>1. import[q] \in ImportRequest /\ import \in [Importers -> ImportRequest]
  BY DEF ImportIInv, ImportTypeOK
<1>. DEFINE r == [import[q] EXCEPT !.step = step]
<1>2. r \in ImportRequest /\ r.archive = import[q].archive /\ r.todo = import[q].todo
      /\ r.out = import[q].out /\ r.step = step
  BY <1>1 DEF ImportRequest
<1>3. import' = [import EXCEPT ![q] = r]
  BY <1>1 DEF Goto
<1>. HIDE DEF r
<1>4. ImportTypeOK'
  BY <1>1, <1>2, <1>3 DEF ImportTypeOK
<1>5. ASSUME NEW o \in Importers, o # q
      PROVE  /\ import'[o] = import[o] /\ Busy(o, "read")' = Busy(o, "read")
             /\ \A c : <<c, o>> \in storedBy' => <<c, o>> \in storedBy
  BY <1>1, <1>3, <1>5 DEF Busy
<1>6. Busy(q, "read")' <=> step = "read"
  BY <1>1, <1>2, <1>3 DEF Busy
<1>7. /\ import'[q] = r /\ ~Busy(q, "read")
      /\ \A c : <<c, q>> \in storedBy' =>
                \/ <<c, q>> \in storedBy
                \/ step = "read" /\ Current(q).content = c
  BY <1>1, <1>3 DEF Busy
<1>8. storedBy \subseteq storedBy' /\ (step = "read" => <<Current(q).content, q>> \in storedBy')
  OBVIOUS
<1>9. ASSUME NEW o \in Importers
      PROVE  /\ import'[o].archive = import[o].archive /\ import'[o].todo = import[o].todo
             /\ import'[o].out = import[o].out
             /\ import'[o].step = "read" /\ import[o].todo # {}
                  => import[o].step = "read" \/ <<Current(o).content, o>> \in storedBy'
             /\ \A c \in Contents : <<c, o>> \in storedBy' =>
                  \/ <<c, o>> \in storedBy /\ (Busy(o, "read") => Busy(o, "read")')
                  \/ Busy(o, "read")' /\ Current(o).content = c
  <2>1. CASE o = q
    BY <1>2, <1>6, <1>7, <1>8, <2>1
  <2>2. CASE o # q
    BY <1>5, <2>2
  <2>. QED BY <2>1, <2>2
<1>. QED BY <1>4, <1>8, <1>9, SameWork

LEMMA CutOK == ASSUME ImportIInv, NEW q \in Importers, Cut(q) PROVE ImportIInv'
<1>1. import[q] \in ImportRequest /\ import \in [Importers -> ImportRequest]
  BY DEF ImportIInv, ImportTypeOK
<1>. DEFINE r == [import[q] EXCEPT !.cut = TRUE]
<1>2. r \in ImportRequest /\ r.archive = import[q].archive /\ r.todo = import[q].todo
      /\ r.out = import[q].out /\ r.step = import[q].step
  BY <1>1 DEF ImportRequest
<1>3. import' = [import EXCEPT ![q] = r] /\ UNCHANGED <<photos, storedBy>>
  BY <1>1 DEF Cut
<1>. HIDE DEF r
<1>4. ImportTypeOK' /\ PhotosStored'
  BY <1>1, <1>2, <1>3 DEF ImportTypeOK, ImportIInv, PhotosStored
<1>5. \A o \in Importers : Busy(o, "read")' = Busy(o, "read")
  BY <1>1, <1>2, <1>3 DEF Busy
<1>. QED BY <1>1, <1>2, <1>3, <1>4, <1>5, SameWork

\* An import begins with all entries to do and none reported.
LEMMA BeginOK == ASSUME ImportIInv, NEW q \in Importers, Begin(q) PROVE ImportIInv'
<1>1. PICK z \in Archives :
        /\ ~RefusedZip(z)
        /\ import' = [import EXCEPT ![q] = [NoImport EXCEPT !.step = "address",
                       !.archive = z, !.todo = Wanted(z)]]
  BY DEF Begin
<1>2. Wanted(z) \subseteq Nat /\ Cardinality(Wanted(z)) \in Nat
  BY <1>1, ItemsType
<1>3. import \in [Importers -> ImportRequest] /\ UNCHANGED <<photos, storedBy>>
  BY DEF ImportIInv, ImportTypeOK, Begin
<1>. DEFINE r == [NoImport EXCEPT !.step = "address", !.archive = z, !.todo = Wanted(z)]
<1>4. r \in ImportRequest /\ r.archive = z /\ r.todo = Wanted(z) /\ r.out = <<>> /\ r.step = "address"
  BY <1>2, NoImportType DEF ImportRequest, Steps
<1>5. import' = [import EXCEPT ![q] = r]
  BY <1>1
<1>. HIDE DEF r
<1>6. ImportTypeOK' /\ PhotosStored'
  BY <1>3, <1>4, <1>5 DEF ImportTypeOK, ImportIInv, PhotosStored
<1>7. \A o \in Importers : o # q => import'[o] = import[o]
  BY <1>3, <1>5
<1>8. import'[q] = r
  BY <1>3, <1>5
<1>9. AllDivided'
  <2>1. z # <<>>
    BY <1>1 DEF RefusedZip, Members
  <2>2. Len(r.out) = 0 /\ DOMAIN r.out = {}
    BY <1>4
  <2>3. Divided(r)
    BY <1>1, <1>2, <1>4, <2>1, <2>2 DEF Divided
  <2>. QED BY <1>7, <1>8, <2>3 DEF AllDivided, ImportIInv
<1>10. ReportsTrue'
  <2>1. \A o : OutcomesOf(q, o)' = {}
    BY <1>4, <1>8 DEF OutcomesOf
  <2>2. \A p \in Importers : p # q => /\ \A o : OutcomesOf(p, o)' = OutcomesOf(p, o)
                                      /\ \A n : ItemOf(p, n)' = ItemOf(p, n)
    BY <1>7 DEF OutcomesOf, ItemOf
  <2>. QED BY <1>3, <2>1, <2>2 DEF ReportsTrue, ImportIInv
<1>11. ReadIsStored'
  BY <1>3, <1>4, <1>7, <1>8 DEF ReadIsStored, Busy, Current, First, ImportIInv
<1>12. StoredReported'
  <2>1. \A c \in Contents : <<c, q>> \notin storedBy
    <3>1. import[q] = NoImport
      BY DEF Begin
    <3>2. \A o : OutcomesOf(q, o) = {}
      BY <3>1, NoImportType DEF OutcomesOf
    <3>3. ~Busy(q, "read")
      BY <3>1, NoImportType DEF Busy
    <3>. QED BY <3>2, <3>3 DEF ImportIInv, StoredReported, Reported
  <2>2. \A p \in Importers : p # q => /\ \A c : Reported(p, c)' <=> Reported(p, c)
                                      /\ Busy(p, "read")' <=> Busy(p, "read")
                                      /\ Current(p)' = Current(p)
    BY <1>7 DEF Reported, OutcomesOf, ItemOf, Busy, Current, First
  <2>. QED BY <1>3, <2>1, <2>2 DEF ImportIInv, StoredReported
<1>. QED BY <1>6, <1>9, <1>10, <1>11, <1>12 DEF ImportIInv

\* One entry is reported, and truly.
LEMMA CountOK ==
  ASSUME ImportIInv, NEW q \in Importers, import[q].todo # {}, NEW outcome \in Outcome,
         Count(q, outcome), UNCHANGED <<photos, storedBy>>,
         outcome = "imported" => <<Current(q).content, q>> \in storedBy,
         outcome = "skipped" => \E by \in Importers : <<Current(q).content, by>> \in storedBy,
         import[q].step = "read" => outcome \in {"imported", "unread"}
  PROVE  ImportIInv'
<1>. DEFINE i == First(q)
            report == [entry |-> i, outcome |-> outcome]
            r == [import[q] EXCEPT !.step = "address", !.todo = @ \ {i}, !.out = Append(@, report)]
<1>1. /\ import[q] \in ImportRequest /\ import \in [Importers -> ImportRequest]
      /\ import[q].todo \in SUBSET Nat /\ import[q].out \in Seq([entry: Nat, outcome: Outcome])
  BY DEF ImportIInv, ImportTypeOK, ImportRequest
<1>2. i \in import[q].todo /\ i \in Nat
  BY <1>1, FirstType DEF ImportIInv
<1>3. import' = [import EXCEPT ![q] = r]
  BY <1>1 DEF Count
<1>. HIDE DEF i
<1>4. report \in [entry: Nat, outcome: Outcome] /\ report.entry = i /\ report.outcome = outcome
  BY <1>2
<1>. HIDE DEF report
<1>5. /\ r \in ImportRequest /\ r.archive = import[q].archive /\ r.todo = import[q].todo \ {i}
      /\ r.out = Append(import[q].out, report) /\ r.step = "address"
  <2>1. Append(import[q].out, report) \in Seq([entry: Nat, outcome: Outcome])
    BY <1>1, <1>4
  <2>2. import[q].todo \ {i} \in SUBSET Nat
    BY <1>1
  <2>. QED BY <1>1, <2>1, <2>2 DEF ImportRequest, Steps
<1>. HIDE DEF r
<1>6. ImportTypeOK' /\ PhotosStored'
  BY <1>1, <1>3, <1>5 DEF ImportTypeOK, ImportIInv, PhotosStored
<1>7. /\ \A o \in Importers : o # q => import'[o] = import[o]
      /\ import'[q] = r
  BY <1>1, <1>3
<1>8. /\ Len(r.out) = Len(import[q].out) + 1 /\ DOMAIN import[q].out = 1..Len(import[q].out)
      /\ Len(import[q].out) \in Nat /\ DOMAIN r.out = 1..(Len(import[q].out) + 1)
      /\ \A n \in 1..Len(import[q].out) : r.out[n] = import[q].out[n]
      /\ r.out[Len(import[q].out) + 1] = report
  BY <1>1, <1>4, <1>5
<1>9. import[q].archive # <<>> /\ Divided(import[q])
  BY <1>2 DEF ImportIInv, AllDivided, Divided
<1>10. Divided(r)
  <2>. DEFINE z == import[q].archive
  <2>1. /\ ~RefusedZip(z) /\ import[q].todo \subseteq Wanted(z)
        /\ \A n \in DOMAIN import[q].out : import[q].out[n].entry \in Wanted(z) \ import[q].todo
        /\ \A m, n \in DOMAIN import[q].out : m # n => import[q].out[m].entry # import[q].out[n].entry
        /\ Len(import[q].out) + Cardinality(import[q].todo) = Cardinality(Wanted(z))
    BY <1>9 DEF Divided
  <2>2. z \in Archives
    BY <1>1, <1>9 DEF ImportRequest
  <2>. HIDE DEF z
  <2>3. IsFiniteSet(import[q].todo) /\ Cardinality(import[q].todo) \in Nat
    BY <2>1, <2>2, ItemsType, FS_Subset, FS_CardinalityType
  <2>4. Cardinality(r.todo) = Cardinality(import[q].todo) - 1
    <3>1. Cardinality(import[q].todo \ {i}) = Cardinality(import[q].todo) - 1
      BY <1>2, <2>3, FS_RemoveElement
    <3>. QED BY <1>5, <3>1
  <2>5. Len(r.out) + Cardinality(r.todo) = Cardinality(Wanted(z))
    <3>1. Len(r.out) = Len(import[q].out) + 1 /\ Len(import[q].out) \in Nat
      BY <1>8
    <3>2. Len(import[q].out) + Cardinality(import[q].todo) = Cardinality(Wanted(z))
      BY <2>1
    <3>. QED BY <2>3, <2>4, <3>1, <3>2
  <2>6. \A n \in DOMAIN r.out : r.out[n].entry \in Wanted(z) \ r.todo
    BY <1>2, <1>4, <1>5, <1>8, <2>1
  <2>7. \A m, n \in DOMAIN r.out : m # n => r.out[m].entry # r.out[n].entry
    <3>1. ASSUME NEW n \in 1..Len(import[q].out)
          PROVE  r.out[n].entry = import[q].out[n].entry /\ r.out[n].entry # i
      BY <1>2, <1>8, <2>1
    <3>2. r.out[Len(import[q].out) + 1].entry = i
      BY <1>4, <1>8
    <3>3. \A n \in DOMAIN r.out : n \in 1..Len(import[q].out) \/ n = Len(import[q].out) + 1
      BY <1>8
    <3>. SUFFICES ASSUME NEW m \in DOMAIN r.out, NEW n \in DOMAIN r.out, m # n
                  PROVE  r.out[m].entry # r.out[n].entry
      OBVIOUS
    <3>4. CASE m \in 1..Len(import[q].out) /\ n \in 1..Len(import[q].out)
      <4>1. import[q].out[m].entry # import[q].out[n].entry
        BY <1>8, <2>1, <3>4
      <4>. QED BY <3>1, <3>4, <4>1
    <3>5. CASE m \in 1..Len(import[q].out) /\ n = Len(import[q].out) + 1
      BY <3>1, <3>2, <3>5
    <3>6. CASE m = Len(import[q].out) + 1 /\ n \in 1..Len(import[q].out)
      BY <3>1, <3>2, <3>6
    <3>. QED BY <3>3, <3>4, <3>5, <3>6
  <2>8. r.archive = z /\ z # <<>> /\ r.todo \subseteq Wanted(z)
    BY <1>5, <1>9, <2>1 DEF z
  <2>. QED BY <2>1, <2>5, <2>6, <2>7, <2>8 DEF Divided
<1>11. AllDivided'
  BY <1>7, <1>10 DEF AllDivided, ImportIInv
<1>12. ReportsTrue'
  <2>1. \A p \in Importers : p # q => /\ \A o : OutcomesOf(p, o)' = OutcomesOf(p, o)
                                      /\ \A n : ItemOf(p, n)' = ItemOf(p, n)
    BY <1>7 DEF OutcomesOf, ItemOf
  <2>2. ASSUME NEW o, NEW n \in OutcomesOf(q, o)'
        PROVE  \/ n \in OutcomesOf(q, o) /\ ItemOf(q, n)' = ItemOf(q, n)
               \/ o = outcome /\ ItemOf(q, n)' = Current(q)
    <3>1. n \in DOMAIN r.out /\ r.out[n].outcome = o
      BY <1>7, <2>2 DEF OutcomesOf
    <3>2. ItemOf(q, n)' = catalogItem(import[q].archive, r.out[n].entry)
      BY <1>5, <1>7 DEF ItemOf
    <3>3. CASE n \in 1..Len(import[q].out)
      BY <1>8, <3>1, <3>2, <3>3 DEF OutcomesOf, ItemOf
    <3>4. CASE n = Len(import[q].out) + 1
      BY <1>4, <1>8, <3>1, <3>2, <3>4 DEF Current, i
    <3>. QED BY <1>8, <3>1, <3>3, <3>4, SMTT(30)
  <2>3. /\ \A n \in OutcomesOf(q, "imported")' : <<ItemOf(q, n)'.content, q>> \in storedBy
        /\ \A n \in OutcomesOf(q, "skipped")' :
             \E by \in Importers : <<ItemOf(q, n)'.content, by>> \in storedBy
    BY <2>2 DEF ReportsTrue, ImportIInv
  <2>. QED BY <2>1, <2>3 DEF ReportsTrue, ImportIInv
<1>13. ReadIsStored'
  <2>1. ~Busy(q, "read")'
    BY <1>5, <1>7 DEF Busy
  <2>2. \A p \in Importers : p # q => Busy(p, "read")' = Busy(p, "read") /\ Current(p)' = Current(p)
    BY <1>7 DEF Busy, Current, First
  <2>. QED BY <2>1, <2>2 DEF ReadIsStored, ImportIInv
<1>14. StoredReported'
  <2>1. \A p \in Importers : p # q => /\ \A c : Reported(p, c)' <=> Reported(p, c)
                                      /\ Busy(p, "read")' <=> Busy(p, "read")
                                      /\ Current(p)' = Current(p)
    BY <1>7 DEF Reported, OutcomesOf, ItemOf, Busy, Current, First
  <2>2. ASSUME NEW c \in Contents, Reported(q, c) PROVE Reported(q, c)'
    <3>1. PICK n \in OutcomesOf(q, "imported") \cup OutcomesOf(q, "unread") :
                 ItemOf(q, n).content = c
      BY <2>2 DEF Reported
    <3>2. n \in DOMAIN r.out /\ r.out[n] = import[q].out[n]
      BY <1>8, <3>1 DEF OutcomesOf
    <3>3. ItemOf(q, n)' = ItemOf(q, n)
      BY <1>5, <1>7, <3>2 DEF ItemOf
    <3>4. n \in OutcomesOf(q, "imported")' \cup OutcomesOf(q, "unread")'
      BY <1>7, <3>1, <3>2 DEF OutcomesOf
    <3>. QED BY <3>1, <3>3, <3>4 DEF Reported
  <2>3. ASSUME import[q].step = "read", NEW c, Current(q).content = c PROVE Reported(q, c)'
    <3>1. PICK n \in DOMAIN r.out : r.out[n] = report
      BY <1>8
    <3>2. ItemOf(q, n)' = Current(q)
      BY <1>4, <1>5, <1>7, <3>1 DEF ItemOf, Current, i
    <3>3. n \in OutcomesOf(q, "imported")' \cup OutcomesOf(q, "unread")'
      BY <1>4, <1>7, <2>3, <3>1 DEF OutcomesOf
    <3>. QED BY <2>3, <3>2, <3>3 DEF Reported
  <2>4. ASSUME NEW p \in Importers, NEW c \in Contents, <<c, p>> \in storedBy
        PROVE  Reported(p, c)' \/ (Busy(p, "read")' /\ Current(p)'.content = c)
    <3>1. Reported(p, c) \/ (Busy(p, "read") /\ Current(p).content = c)
      BY <2>4 DEF ImportIInv, StoredReported
    <3>2. CASE p = q
      <4>1. CASE Reported(q, c)
        BY <2>2, <3>2, <4>1
      <4>2. CASE Busy(q, "read") /\ Current(q).content = c
        BY <2>3, <3>2, <4>2 DEF Busy
      <4>. QED BY <3>1, <3>2, <4>1, <4>2
    <3>3. CASE p # q
      BY <2>1, <3>1, <3>3
    <3>. QED BY <3>2, <3>3
  <2>. QED BY <2>4 DEF StoredReported
<1>. QED BY <1>6, <1>11, <1>12, <1>13, <1>14 DEF ImportIInv

LEMMA CheckOK == ASSUME ImportIInv, NEW q \in Importers, Check(q) PROVE ImportIInv'
<1>. USE DEF Check
<1>1. UNCHANGED <<photos, storedBy>> /\ import[q].todo # {} /\ PhotosStored'
  BY DEF Busy, ImportIInv, PhotosStored
<1>. import[q].step = "check"
  BY DEF Busy
<1>2. CASE Count(q, "error")
  BY <1>1, <1>2, CountOK DEF Outcome
<1>3. CASE Current(q).content \in photos /\ Count(q, "skipped")
  <2>1. \E by \in Importers : <<Current(q).content, by>> \in storedBy
    BY <1>3 DEF ImportIInv, PhotosStored
  <2>. QED BY <1>1, <1>3, <2>1, CountOK DEF Outcome
<1>4. CASE Goto(q, "insert")
  BY <1>1, <1>4, GotoOK DEF Steps
<1>. QED BY <1>2, <1>3, <1>4

LEMMA InsertOK == ASSUME ImportIInv, NEW q \in Importers, Insert(q) PROVE ImportIInv'
<1>. USE DEF Insert
<1>1. import[q].todo # {} /\ import[q].step = "insert"
  BY DEF Busy
<1>2. CASE Count(q, "error") /\ UNCHANGED <<photos, storedBy>>
  BY <1>1, <1>2, CountOK DEF Outcome
<1>3. CASE Current(q).content \in photos /\ Conflict(q)
  <2>1. \E by \in Importers : <<Current(q).content, by>> \in storedBy
    BY <1>3 DEF ImportIInv, PhotosStored
  <2>. QED BY <1>1, <1>3, <2>1, CountOK DEF Conflict, Outcome
<1>4. CASE /\ photos' = photos \cup {Current(q).content}
           /\ storedBy' = storedBy \cup {<<Current(q).content, q>>}
           /\ Goto(q, "read")
  <2>1. PhotosStored' /\ storedBy \subseteq storedBy' /\ <<Current(q).content, q>> \in storedBy'
    BY <1>4 DEF ImportIInv, PhotosStored
  <2>. QED BY <1>1, <1>4, <2>1, GotoOK DEF Steps
<1>. QED BY <1>2, <1>3, <1>4

LEMMA ReadStoredOK == ASSUME ImportIInv, NEW q \in Importers, ReadStored(q) PROVE ImportIInv'
<1>. USE DEF ReadStored
<1>1. UNCHANGED <<photos, storedBy>> /\ import[q].todo # {}
  BY DEF Busy
<1>2. <<Current(q).content, q>> \in storedBy
  BY DEF ImportIInv, ReadIsStored
<1>3. CASE Count(q, "unread")
  BY <1>1, <1>3, CountOK DEF Outcome
<1>4. CASE Count(q, "imported")
  BY <1>1, <1>2, <1>4, CountOK DEF Outcome
<1>. QED BY <1>3, <1>4

LEMMA AskAddressOK ==
  ASSUME ImportIInv, NEW q \in Importers, AskAddress(q) \/ GotAddress(q) PROVE ImportIInv'
<1>1. /\ UNCHANGED <<photos, storedBy>> /\ PhotosStored'
      /\ import[q].step = "address" /\ import[q].todo # {}
      /\ Goto(q, "check") \/ UNCHANGED import
  BY DEF AskAddress, GotAddress, Busy, ImportIInv, PhotosStored
<1>. QED BY <1>1, GotoOK, SameImports DEF Steps

LEMMA ItemFailsOK == ASSUME ImportIInv, NEW q \in Importers, ItemFails(q) PROVE ImportIInv'
BY CountOK DEF ItemFails, Busy, Outcome

LEMMA ImportStepOK ==
  ASSUME ImportIInv, [ImportNext]_<<geoVars, importVars, storedBy>> PROVE ImportIInv'
<1>1. CASE \E q \in Importers : \/ Begin(q) \/ AskAddress(q) \/ GotAddress(q) \/ Check(q)
                                \/ Insert(q) \/ ReadStored(q) \/ ItemFails(q) \/ Cut(q)
  BY <1>1, BeginOK, AskAddressOK, CheckOK, InsertOK, ReadStoredOK, ItemFailsOK, CutOK
<1>2. CASE \E c \in Contents : DeletePhoto(c)
  BY <1>2, SameImports DEF DeletePhoto
<1>3. CASE UNCHANGED <<importVars, storedBy>>
  BY <1>3, SameImports DEF importVars
<1>. QED BY <1>1, <1>2, <1>3 DEF ImportNext, OtherCall, Served

LEMMA ImportInvariance == ImportSpec => []ImportIInv
BY ImportInitOK, ImportStepOK, PTL DEF ImportSpec

\* Of an archive each entry is either saved or reported as not to be saved.
LEMMA EntriesCounted ==
  ASSUME NEW z \in Archives, ~RefusedZip(z)
  PROVE  /\ Cardinality(Wanted(z)) + Issues(z) = Len(IndexOf(z)) + Cardinality(Unlisted(z))
         /\ Issues(z) \in Nat
<1>. DEFINE D == 1..Len(IndexOf(z))
            rest == {i \in DOMAIN IndexOf(z) : ~Saves(z, i)}
<1>1. Len(IndexOf(z)) \in Nat /\ DOMAIN IndexOf(z) = D /\ Wanted(z) \subseteq D
      /\ IsFiniteSet(Wanted(z)) /\ Cardinality(Wanted(z)) \in Nat
  BY ItemsType
<1>2. IsFiniteSet(D) /\ Cardinality(D) = Len(IndexOf(z))
  <2>1. /\ IsFiniteSet(1..Len(IndexOf(z)))
        /\ Cardinality(1..Len(IndexOf(z))) =
             IF 1 > Len(IndexOf(z)) THEN 0 ELSE Len(IndexOf(z)) - 1 + 1
    <3>1. 1 \in Int /\ Len(IndexOf(z)) \in Int
      BY <1>1
    <3>. QED BY <3>1, FS_Interval
  <2>. QED BY <1>1, <2>1
<1>3. rest = D \ Wanted(z) /\ D \cap Wanted(z) = Wanted(z)
  BY <1>1 DEF Wanted
<1>. HIDE DEF D, rest
<1>4. Cardinality(rest) = Cardinality(D) - Cardinality(Wanted(z))
  <2>1. Cardinality(D \ Wanted(z)) = Cardinality(D) - Cardinality(D \cap Wanted(z))
    BY <1>2, FS_Difference
  <2>. QED BY <1>3, <2>1
<1>5. Cardinality(Unlisted(z)) \in Nat
  <2>1. z \in Seq(Member)
    BY ImportAssumption DEF ImportAssumption
  <2>2. Unlisted(z) \in SUBSET (1..Len(z)) /\ Len(z) \in Nat
    BY <2>1 DEF Unlisted, Members
  <2>3. IsFiniteSet(1..Len(z))
    BY <2>2, FS_Interval
  <2>. QED BY <2>2, <2>3, FS_Subset, FS_CardinalityType
<1>6. Issues(z) = Cardinality(rest) + Cardinality(Unlisted(z))
  BY DEF Issues, rest
<1>7. Cardinality(rest) \in Nat
  BY <1>2, <1>3, FS_Subset, FS_CardinalityType
<1>. QED BY <1>1, <1>2, <1>4, <1>5, <1>6, <1>7

\* Entries that are saved have different names.
LEMMA NamesDiffer ==
  ASSUME NEW z \in Archives, ~RefusedZip(z), NEW i \in Wanted(z), NEW j \in Wanted(z), i # j
  PROVE  catalogItem(z, i).name # catalogItem(z, j).name
<1>1. i \in Nat /\ j \in Nat /\ i >= 1 /\ j >= 1
  BY ItemsType
<1>2. catalogItem(z, i).name = IndexOf(z)[i].name /\ catalogItem(z, j).name = IndexOf(z)[j].name
  BY DEF catalogItem
<1>3. CASE i < j
  BY <1>1, <1>2, <1>3 DEF Wanted, Saves
<1>4. CASE j < i
  BY <1>1, <1>2, <1>4 DEF Wanted, Saves
<1>. QED BY <1>1, <1>3, <1>4

LEMMA ElementsOf ==
  ASSUME NEW R, NEW s \in Seq(R), NEW D, D = 1..Len(s) PROVE \A n \in D : s[n] \in R
OBVIOUS

\* Every report is of one of the four kinds.
LEMMA OutcomesCounted ==
  ASSUME NEW q \in Importers, import[q] \in ImportRequest
  PROVE  /\ \A o : IsFiniteSet(OutcomesOf(q, o)) /\ Cardinality(OutcomesOf(q, o)) \in Nat
         /\ Len(import[q].out) \in Nat
         /\ Len(import[q].out)
              = Cardinality(OutcomesOf(q, "imported")) + Cardinality(OutcomesOf(q, "skipped"))
                + Cardinality(OutcomesOf(q, "error")) + Cardinality(OutcomesOf(q, "unread"))
<1>. DEFINE out == import[q].out
            D == DOMAIN out
            O(o) == OutcomesOf(q, o)
<1>1. out \in Seq([entry: Nat, outcome: Outcome]) /\ D = 1..Len(out) /\ Len(out) \in Nat
  BY DEF ImportRequest
<1>2. IsFiniteSet(D) /\ Cardinality(D) = Len(out)
  <2>1. /\ IsFiniteSet(1..Len(out))
        /\ Cardinality(1..Len(out)) = IF 1 > Len(out) THEN 0 ELSE Len(out) - 1 + 1
    <3>1. 1 \in Int /\ Len(out) \in Int
      BY <1>1
    <3>. QED BY <3>1, FS_Interval
  <2>. QED BY <1>1, <2>1
<1>3. \A o : O(o) \subseteq D
  BY DEF OutcomesOf
<1>4. \A o : IsFiniteSet(O(o)) /\ Cardinality(O(o)) \in Nat
  BY <1>2, <1>3, FS_Subset, FS_CardinalityType
<1>5. D = (O("imported") \cup O("skipped")) \cup (O("error") \cup O("unread"))
  <2>1. \A n \in D : out[n] \in [entry: Nat, outcome: Outcome]
    BY <1>1, ElementsOf
  <2>. QED BY <2>1 DEF Outcome, OutcomesOf
<1>6. /\ O("imported") \cap O("skipped") = {} /\ O("error") \cap O("unread") = {}
      /\ (O("imported") \cup O("skipped")) \cap (O("error") \cup O("unread")) = {}
  BY DEF OutcomesOf
<1>. HIDE DEF O, D, out
<1>7. /\ Cardinality(O("imported") \cup O("skipped"))
           = Cardinality(O("imported")) + Cardinality(O("skipped"))
      /\ IsFiniteSet(O("imported") \cup O("skipped"))
  <2>1. Cardinality(O("imported") \cup O("skipped"))
          = Cardinality(O("imported")) + Cardinality(O("skipped")) - Cardinality({})
    BY <1>4, <1>6, FS_Union
  <2>2. IsFiniteSet(O("imported") \cup O("skipped"))
    BY <1>4, FS_Union
  <2>. QED BY <1>4, <2>1, <2>2, FS_EmptySet
<1>8. /\ Cardinality(O("error") \cup O("unread"))
           = Cardinality(O("error")) + Cardinality(O("unread"))
      /\ IsFiniteSet(O("error") \cup O("unread"))
  <2>1. Cardinality(O("error") \cup O("unread"))
          = Cardinality(O("error")) + Cardinality(O("unread")) - Cardinality({})
    BY <1>4, <1>6, FS_Union
  <2>2. IsFiniteSet(O("error") \cup O("unread"))
    BY <1>4, FS_Union
  <2>. QED BY <1>4, <2>1, <2>2, FS_EmptySet
<1>9. Cardinality(D) = Cardinality(O("imported") \cup O("skipped"))
                       + Cardinality(O("error") \cup O("unread"))
  <2>1. Cardinality(D) = Cardinality(O("imported") \cup O("skipped"))
                         + Cardinality(O("error") \cup O("unread")) - Cardinality({})
    BY <1>5, <1>6, <1>7, <1>8, FS_Union
  <2>2. /\ Cardinality(O("imported") \cup O("skipped")) \in Nat
        /\ Cardinality(O("error") \cup O("unread")) \in Nat
    BY <1>7, <1>8, FS_CardinalityType
  <2>. QED BY <2>1, <2>2, FS_EmptySet
<1>10. Len(out) = Cardinality(O("imported")) + Cardinality(O("skipped"))
                  + Cardinality(O("error")) + Cardinality(O("unread"))
  BY <1>2, <1>4, <1>7, <1>8, <1>9
<1>. QED BY <1>1, <1>4, <1>10 DEF O, out

\* The answer to an import tells the truth about the archive and about the photos
\* stored, for any archives and any number of imports of the same photos at the same
\* time, whatever is deleted meanwhile and whenever a request is cut.
THEOREM ImportsAreAnswered == ImportSpec => []ImportAnswered
<1>1. ImportIInv => ImportAnswered
  <2>. SUFFICES ASSUME ImportIInv, NEW q \in Importers, Answered(q)
                PROVE  LET z == import[q].archive
                           answer == ImportAnswer(q)
                       IN  /\ answer.status = 200 =>
                                answer.imported + answer.skipped + answer.errors
                                  = Len(IndexOf(z)) + Cardinality(Unlisted(z))
                           /\ \A m, n \in DOMAIN import[q].out :
                                m # n => ItemOf(q, m).name # ItemOf(q, n).name
                           /\ \A n \in OutcomesOf(q, "imported") : <<ItemOf(q, n).content, q>> \in storedBy
                           /\ \A n \in OutcomesOf(q, "skipped") :
                                \E by \in Importers : <<ItemOf(q, n).content, by>> \in storedBy
                           /\ \A c \in Contents : <<c, q>> \in storedBy =>
                                \/ /\ answer.status = 200
                                   /\ \E n \in OutcomesOf(q, "imported") : ItemOf(q, n).content = c
                                \/ \E n \in OutcomesOf(q, "unread") : ItemOf(q, n).content = c
    BY DEF ImportAnswered
  <2>. DEFINE z == import[q].archive
              imported == Cardinality(OutcomesOf(q, "imported"))
              skipped  == Cardinality(OutcomesOf(q, "skipped"))
              failed == Cardinality(OutcomesOf(q, "error")) + Cardinality(OutcomesOf(q, "unread"))
  <2>1. import[q] \in ImportRequest
    BY DEF ImportIInv, ImportTypeOK
  <2>2. z \in Archives /\ import[q].todo = {} /\ z # <<>> /\ Divided(import[q])
    BY <2>1 DEF ImportIInv, ImportRequest, Answered, AllDivided
  <2>3. /\ ~RefusedZip(z) /\ Len(import[q].out) + Cardinality({}) = Cardinality(Wanted(z))
        /\ \A n \in DOMAIN import[q].out : import[q].out[n].entry \in Wanted(z)
        /\ \A m, n \in DOMAIN import[q].out : m # n => import[q].out[m].entry # import[q].out[n].entry
    BY <2>2 DEF Divided
  <2>4. /\ imported \in Nat /\ skipped \in Nat /\ failed \in Nat
        /\ Len(import[q].out) = imported + skipped + failed
    BY <2>1, OutcomesCounted
  <2>5. imported + skipped + (failed + Issues(z)) = Len(IndexOf(z)) + Cardinality(Unlisted(z))
    <3>1. Len(import[q].out) = Cardinality(Wanted(z))
      BY <2>3, <2>4, FS_EmptySet
    <3>2. Len(import[q].out) + Issues(z) = Len(IndexOf(z)) + Cardinality(Unlisted(z))
      BY <2>2, <2>3, <3>1, EntriesCounted
    <3>3. Issues(z) \in Nat
      BY <2>2, <2>3, EntriesCounted
    <3>. QED BY <2>4, <3>2, <3>3
  <2>6. \A m, n \in DOMAIN import[q].out : m # n => ItemOf(q, m).name # ItemOf(q, n).name
    BY <2>2, <2>3, NamesDiffer DEF ItemOf
  <2>. HIDE DEF imported, skipped, failed
  <2>7. ImportAnswer(q) = IF imported = 0 /\ skipped = 0
                    THEN [status |-> 400, imported |-> 0, skipped |-> 0, errors |-> 0]
                    ELSE [status |-> 200, imported |-> imported, skipped |-> skipped,
                          errors |-> failed + Issues(z)]
    BY DEF ImportAnswer, imported, skipped, failed
  <2>8. ImportAnswer(q).status = 200 =>
          ImportAnswer(q).imported + ImportAnswer(q).skipped + ImportAnswer(q).errors
            = Len(IndexOf(z)) + Cardinality(Unlisted(z))
    BY <2>5, <2>7
  <2>9. ASSUME NEW n \in OutcomesOf(q, "imported") PROVE ImportAnswer(q).status = 200
    <3>1. imported # 0
      BY <2>1, <2>9, OutcomesCounted, FS_EmptySet DEF imported
    <3>. QED BY <2>7, <3>1
  <2>10. \A c \in Contents : <<c, q>> \in storedBy =>
           \/ ImportAnswer(q).status = 200 /\ \E n \in OutcomesOf(q, "imported") : ItemOf(q, n).content = c
           \/ \E n \in OutcomesOf(q, "unread") : ItemOf(q, n).content = c
    BY <2>2, <2>9 DEF ImportIInv, StoredReported, Reported, Busy
  <2>. QED BY <2>6, <2>8, <2>10 DEF ImportIInv, ReportsTrue
<1>. QED BY <1>1, ImportInvariance, PTL

-----------------------------------------------------------------------------
\* Search

StockOK ==
  /\ photoRow \in [PhotoIds -> PhotoRow \cup {NoRow}]
  /\ sightingRow \in [SightingIds -> SightingRow \cup {NoRow}]
  /\ \A s \in SightingIds : sightingRow[s] # NoRow => Of[s] \in Photos

LEMMA PhotosOfFinite ==
  ASSUME NEW M \in SUBSET SightingIds
  PROVE  /\ IsFiniteSet(M) /\ Cardinality(M) \in Nat
         /\ IsFiniteSet({Of[s] : s \in M}) /\ Cardinality({Of[s] : s \in M}) \in Nat
         /\ {Of[s] : s \in M} \subseteq PhotoIds
<1>. DEFINE f == [s \in M |-> Of[s]]
            T == {Of[s] : s \in M}
<1>1. IsFiniteSet(M) /\ Cardinality(M) \in Nat
  BY SearchAssumption, FS_Subset, FS_CardinalityType DEF SearchAssumption
<1>2. f \in Surjection(M, T)
  BY DEF Surjection
<1>3. IsFiniteSet(T) /\ Cardinality(T) \in Nat
  BY <1>1, <1>2, FS_Surjection, FS_CardinalityType
<1>4. T \subseteq PhotoIds
  BY SearchAssumption DEF SearchAssumption
<1>. QED BY <1>1, <1>3, <1>4

\* What matches has a row; where vectors are compared, it has one.
LEMMA MatchType ==
  ASSUME StockOK, NEW r \in Request
  PROVE  /\ Matching(r) \subseteq SightingIds
         /\ \A s \in Matching(r) : /\ sightingRow[s] \in SightingRow /\ Of[s] \in Photos
                                   /\ r.vector # NoVector => Closeness(r, s) \in Nat
<1>1. Matching(r) \subseteq SightingIds
  BY DEF Matching
<1>2. ASSUME NEW s \in Matching(r)
      PROVE  sightingRow[s] \in SightingRow /\ Of[s] \in Photos
  BY <1>2 DEF Matching, StockOK
<1>3. ASSUME NEW s \in Matching(r), r.vector # NoVector
      PROVE  Closeness(r, s) \in Nat
  <2>1. r.vector \in Vectors
    BY <1>3 DEF Request
  <2>2. sightingRow[s].vector \in Vectors
    BY <1>2, <1>3 DEF Matching, SightingRow
  <2>3. Score[<<r.vector, sightingRow[s].vector>>] \in Scores
    BY <2>1, <2>2, SearchAssumption DEF SearchAssumption
  <2>. QED BY <2>3, SearchAssumption DEF SearchAssumption, Closeness
<1>. QED BY <1>1, <1>2, <1>3

\* Every photo that is found is shown by exactly one of its sightings.
LEMMA OneHit ==
  ASSUME StockOK, NEW r \in Request
  PROVE  /\ Hits(r) \subseteq Matching(r)
         /\ \A s, t \in Hits(r) : Of[s] = Of[t] => s = t
         /\ \A s \in Matching(r) : \E t \in Hits(r) : Of[t] = Of[s]
<1>. DEFINE M == Matching(r)
<1>1. M \subseteq SightingIds /\ SightingIds \subseteq Nat
  BY MatchType, SearchAssumption DEF SearchAssumption
<1>2. \A s \in M : r.vector # NoVector => Closeness(r, s) \in Nat
  BY MatchType
<1>. HIDE DEF M
<1>3. Hits(r) = {s \in M : \A t \in M : Of[t] = Of[s] => Prefers(r, s, t)}
  BY DEF M, Hits
<1>4. \A s, t \in M : Prefers(r, s, t) /\ Prefers(r, t, s) => s = t
  BY <1>1, <1>2 DEF Prefers
<1>5. ASSUME NEW s \in M PROVE \E t \in Hits(r) : Of[t] = Of[s]
  <2>. DEFINE S == {t \in M : Of[t] = Of[s]}
              R == {x \in M \X M : x[1] # x[2] /\ Prefers(r, x[1], x[2])}
  <2>1. IsFiniteSet(S) /\ S # {}
    BY <1>1, PhotosOfFinite
  <2>2. \A a, b \in M : <<a, b>> \in R <=> a # b /\ Prefers(r, a, b)
    OBVIOUS
  <2>3. \A a \in S : <<a, a>> \notin R
    BY <2>2
  <2>4. \A a, b, c \in S : <<a, b>> \in R /\ <<b, c>> \in R => <<a, c>> \in R
    <3>1. \A a, b, c \in M : Prefers(r, a, b) /\ Prefers(r, b, c) => Prefers(r, a, c)
      BY <1>1, <1>2 DEF Prefers
    <3>. QED BY <2>2, <1>4, <3>1
  <2>. HIDE DEF R, S
  <2>5. PICK t \in S : \A b \in S : <<b, t>> \notin R
    BY <2>1, <2>3, <2>4, FirstExists
  <2>6. \A a, b \in M : Prefers(r, a, b) \/ Prefers(r, b, a)
    BY <1>1, <1>2 DEF Prefers
  <2>7. \A b \in S : Prefers(r, t, b)
    BY <2>2, <2>5, <2>6 DEF S
  <2>. QED BY <1>3, <2>7 DEF S
<1>. QED BY <1>3, <1>4, <1>5 DEF M

\* Counting hits of some photos is counting the photos.
LEMMA HitsCounted ==
  ASSUME StockOK, NEW r \in Request, NEW Q
  PROVE  Cardinality({s \in Hits(r) : Of[s] \in Q}) = Cardinality(PhotosFound(r) \cap Q)
<1>. DEFINE S == {s \in Hits(r) : Of[s] \in Q}
            f == [s \in S |-> Of[s]]
<1>1. S \subseteq SightingIds /\ IsFiniteSet(S)
  BY OneHit, MatchType, PhotosOfFinite
<1>2. f \in [S -> PhotosFound(r) \cap Q]
  BY OneHit DEF PhotosFound
<1>3. \A a, b \in S : f[a] = f[b] => a = b
  BY OneHit
<1>4. \A t \in PhotosFound(r) \cap Q : \E a \in S : f[a] = t
  BY OneHit DEF PhotosFound
<1>. HIDE DEF f, S
<1>5. Cardinality(PhotosFound(r) \cap Q) = Cardinality(S)
  BY <1>1, <1>2, <1>3, <1>4, OneToOne
<1>. QED BY <1>5 DEF S

LEMMA FoundFinite ==
  ASSUME NEW r
  PROVE  /\ IsFiniteSet(PhotosFound(r)) /\ Cardinality(PhotosFound(r)) \in Nat
         /\ PhotosFound(r) \subseteq PhotoIds
         /\ IsFiniteSet(Hits(r)) /\ Cardinality(Hits(r)) \in Nat
         /\ Hits(r) \subseteq SightingIds
<1>1. Matching(r) \subseteq SightingIds /\ Hits(r) \subseteq SightingIds
  BY DEF Matching, Hits
<1>. QED BY <1>1, PhotosOfFinite DEF PhotosFound

\* Where a photo stands in the list.
Before(r, p) == {q \in PhotosFound(r) : <<q, p>> \in InOrder(r)}

LEMMA InOrderIs ==
  ASSUME NEW r
  PROVE  \A q, p : <<q, p>> \in InOrder(r) <=>
           \E t, u \in Hits(r) : Ahead(r, t, u) /\ q = Of[t] /\ p = Of[u]
<1>. DEFINE X == {x \in Hits(r) \X Hits(r) : Ahead(r, x[1], x[2])}
<1>1. InOrder(r) = {<<Of[x[1]], Of[x[2]]>> : x \in X}
  BY Zenon DEF InOrder
<1>2. \A x \in X : x[1] \in Hits(r) /\ x[2] \in Hits(r) /\ Ahead(r, x[1], x[2])
  OBVIOUS
<1>3. \A t, u \in Hits(r) : Ahead(r, t, u) => <<t, u>> \in X /\ <<t, u>>[1] = t /\ <<t, u>>[2] = u
  OBVIOUS
<1>. HIDE DEF X
<1>4. ASSUME NEW q, NEW p, <<q, p>> \in InOrder(r)
      PROVE  \E t, u \in Hits(r) : Ahead(r, t, u) /\ q = Of[t] /\ p = Of[u]
  <2>1. PICK x \in X : <<q, p>> = <<Of[x[1]], Of[x[2]]>>
    BY <1>1, <1>4
  <2>. QED BY <1>2, <2>1
<1>5. ASSUME NEW t \in Hits(r), NEW u \in Hits(r), Ahead(r, t, u)
      PROVE  <<Of[t], Of[u]>> \in InOrder(r)
  <2>1. PICK x \in X : x[1] = t /\ x[2] = u
    BY <1>3, <1>5
  <2>2. <<Of[x[1]], Of[x[2]]>> \in InOrder(r)
    BY <1>1, Zenon
  <2>. QED BY <2>1, <2>2, Zenon
<1>6. ASSUME NEW q, NEW p
      PROVE  <<q, p>> \in InOrder(r) <=> \E t, u \in Hits(r) : Ahead(r, t, u) /\ q = Of[t] /\ p = Of[u]
  <2>1. ASSUME <<q, p>> \in InOrder(r)
        PROVE  \E t, u \in Hits(r) : Ahead(r, t, u) /\ q = Of[t] /\ p = Of[u]
    BY <1>4, <2>1
  <2>2. ASSUME NEW t \in Hits(r), NEW u \in Hits(r), Ahead(r, t, u), q = Of[t], p = Of[u]
        PROVE  <<q, p>> \in InOrder(r)
    BY <1>5, <2>2
  <2>. QED BY <2>1, <2>2
<1>. QED BY <1>6, Zenon

LEMMA RankOfPhoto ==
  ASSUME StockOK, NEW r \in Request, NEW s \in Hits(r)
  PROVE  Cardinality({t \in Hits(r) : Ahead(r, t, s)}) = Cardinality(Before(r, Of[s]))
<1>. DEFINE S == {t \in Hits(r) : Ahead(r, t, s)}
            f == [t \in S |-> Of[t]]
<1>1. IsFiniteSet(S)
  BY FoundFinite, FS_Subset
<1>3. f \in [S -> Before(r, Of[s])]
  BY OneHit, InOrderIs DEF PhotosFound, Before
<1>4. \A a, b \in S : f[a] = f[b] => a = b
  BY OneHit
<1>5. \A t \in Before(r, Of[s]) : \E a \in S : f[a] = t
  BY OneHit, InOrderIs DEF PhotosFound, Before
<1>. HIDE DEF f, S
<1>6. Cardinality(Before(r, Of[s])) = Cardinality(S)
  BY <1>1, <1>3, <1>4, <1>5, OneToOne
<1>. QED BY <1>6 DEF S
-----------------------------------------------------------------------------
\* How far the photos that stayed are read.
Covered == IF reading.step = "read" THEN reading.offset + request.limit ELSE reading.offset

KeptFound    == reading.kept \subseteq PhotosFound(request)
KeptRead     == \A p \in reading.kept :
                  Cardinality(Before(request, p)) < Covered => p \in PhotosRead
CountCurrent == reading.step = "page" /\ ~reading.late
                  => Cardinality(PhotosFound(request)) <= reading.total
InOnePiece   == request.kind # "pages" /\ reading.step \in {"count", "page"}
                  => reading.offset = 0 /\ reading.got = {}
IdleRead     == reading.step = "idle" => reading.kept = {}

SearchTypeOK == StockOK /\ request \in Request /\ reading \in Reading

SearchIInv == /\ SearchTypeOK /\ IdleRead /\ InOnePiece
              /\ KeptFound /\ KeptRead /\ CountCurrent /\ ReadingComplete

LEMMA NumbersType ==
  /\ PhotoIds \subseteq Nat /\ SightingIds \subseteq Nat /\ Days \subseteq Nat /\ Spots \subseteq Nat
  /\ Motifs \subseteq Nat /\ Scores \subseteq Nat
  /\ DefaultLimit \in Nat /\ ListMax \in Nat /\ MapLimit \in Nat /\ ExportMax \in Nat
  /\ SimilarMax \in Nat /\ Today \in Nat /\ FollowUpAfter \in Nat /\ Radius \in Nat
  /\ NearbyMax \in Nat /\ PlacesMax \in Nat /\ SummaryTop \in Nat
BY SearchAssumption DEF SearchAssumption

LEMMA AskType ==
  ASSUME NEW kind \in {"pages", "map", "export", "similar"}, NEW f \in Filter,
         NEW vector \in Vectors \cup {NoVector}, NEW min \in Nat,
         NEW excluded \in SightingIds \cup {NoExclusion}, NEW limit, NEW forExport \in BOOLEAN
  PROVE  /\ Ask(kind, f, vector, min, excluded, limit, forExport) \in Request
         /\ Ask(kind, f, vector, min, excluded, limit, forExport).kind = kind
<1>1. applyListLimit(limit, forExport) \in Nat
  BY NumbersType DEF applyListLimit
<1>. QED BY <1>1 DEF Ask, Request

LEMMA EverythingType == Everything \in Filter
BY DEF Everything, Filter

LEMMA NoRequestType == NoRequest \in Request /\ NotReading \in Reading
BY EverythingType, AskType DEF NoRequest, listWithOptionalSemantic, NotReading, Reading

LEMMA SearchInitOK == SearchInit => SearchIInv
<1>. SUFFICES ASSUME SearchInit PROVE SearchIInv
  OBVIOUS
<1>1. StockOK
  BY DEF SearchInit, StockOK, Photos
<1>2. SearchTypeOK
  BY <1>1, NoRequestType DEF SearchInit, SearchTypeOK
<1>3. reading.step = "idle" /\ reading.kept = {}
  BY DEF SearchInit, NotReading
<1>. QED BY <1>2, <1>3 DEF SearchIInv, IdleRead, InOnePiece, KeptFound, KeptRead, CountCurrent,
                           ReadingComplete, Finished

\* While nobody writes, the same photos are found in the same order.
LEMMA SameStock ==
  ASSUME UNCHANGED_Stock, UNCHANGED request
  PROVE  /\ PhotosFound(request)' = PhotosFound(request)
         /\ \A p : Before(request, p)' = Before(request, p)
<1>. USE DEF UNCHANGED_Stock
<1>1. Matching(request)' = Matching(request)
  BY DEF Matching, buildWhere, Catalogued, Sightings, SeenAt, Closeness, Excluded
<1>2. Hits(request)' = Hits(request)
  BY <1>1 DEF Hits, Prefers, Closeness
<1>3. \A s, t : Ahead(request, s, t)' = Ahead(request, s, t)
  BY DEF Ahead, Prefers, Closeness, SeenAt
<1>4. PhotosFound(request)' = PhotosFound(request)
  BY <1>1 DEF PhotosFound
<1>5. InOrder(request)' = InOrder(request)
  BY <1>2, <1>3 DEF InOrder
<1>. QED BY <1>4, <1>5 DEF Before

LEMMA StockKept == ASSUME StockOK, UNCHANGED_Stock PROVE StockOK'
BY DEF StockOK, UNCHANGED_Stock, Photos

LEMMA BeginsOK ==
  ASSUME SearchIInv, NEW r \in Request, Begins(r)
  PROVE  SearchIInv'
<1>1. StockOK'
  BY StockKept DEF Begins, SearchIInv, SearchTypeOK
<1>2. reading' \in Reading /\ reading'.step = "count" /\ reading'.kept = {}
      /\ reading'.offset = 0 /\ reading'.got = {}
  BY DEF Begins, NotReading, Reading
<1>3. SearchTypeOK'
  BY <1>1, <1>2 DEF SearchTypeOK, Begins
<1>. QED BY <1>2, <1>3 DEF SearchIInv, IdleRead, InOnePiece, KeptFound, KeptRead, CountCurrent,
                           ReadingComplete, Finished

LEMMA AskForOK == ASSUME SearchIInv, AskFor PROVE SearchIInv'
<1>1. PICK a \in Questions :
        \/ \E size \in PageSizes : Begins(listWithOptionalSemantic(a.filter, a.vector, a.min, size))
        \/ Begins(MapPoints(a.filter, a.vector, a.min))
        \/ Begins(loadExportItems(a.filter, a.vector, a.min))
  BY DEF AskFor
<1>2. a.filter \in Filter /\ a.vector \in Vectors \cup {NoVector} /\ a.min \in Nat
  BY SearchAssumption, NumbersType DEF SearchAssumption
<1>3. [a.filter EXCEPT !.gps = {TRUE}] \in Filter
  BY <1>2 DEF Filter
<1>4. \A size : listWithOptionalSemantic(a.filter, a.vector, a.min, size) \in Request
  BY <1>2, AskType DEF listWithOptionalSemantic
<1>5. MapPoints(a.filter, a.vector, a.min) \in Request
  BY <1>2, <1>3, AskType DEF MapPoints
<1>6. loadExportItems(a.filter, a.vector, a.min) \in Request
  BY <1>2, AskType DEF loadExportItems
<1>. QED BY <1>1, <1>4, <1>5, <1>6, BeginsOK

LEMMA AskSimilarOK == ASSUME SearchIInv, AskSimilar PROVE SearchIInv'
<1>1. PICK s \in SightingIds, a \in Questions : sightingRow[s] # NoRow /\ Begins(Similar(s, a.min))
  BY DEF AskSimilar
<1>2. sightingRow[s].vector \in Vectors \cup {NoVector} /\ a.min \in Nat
  BY <1>1, SearchAssumption, NumbersType
  DEF SearchAssumption, SearchIInv, SearchTypeOK, StockOK, SightingRow
<1>3. Similar(s, a.min) \in Request
  BY <1>2, AskType, EverythingType DEF Similar
<1>. QED BY <1>1, <1>3, BeginsOK

\* No photo comes before itself.
LEMMA NotBeforeItself ==
  ASSUME StockOK, NEW r \in Request, NEW p PROVE p \notin Before(r, p)
<1>1. SUFFICES ASSUME NEW t \in Hits(r), NEW u \in Hits(r), Ahead(r, t, u), Of[t] = Of[u]
               PROVE  FALSE
  BY InOrderIs DEF Before
<1>2. t = u
  BY <1>1, OneHit
<1>3. t \in Nat /\ SeenAt(Of[t]) \in Nat /\ photoRow[Of[t]].uploaded \in Nat
  <2>1. Of[t] \in Photos /\ Of[t] \in PhotoIds /\ t \in SightingIds
    BY OneHit, MatchType, SearchAssumption DEF SearchAssumption
  <2>2. photoRow[Of[t]] \in PhotoRow
    BY <2>1 DEF StockOK, Photos
  <2>. QED BY <2>1, <2>2, NumbersType DEF PhotoRow, SeenAt
<1>. QED BY <1>1, <1>2, <1>3 DEF Ahead

LEMMA BeforeFound ==
  ASSUME StockOK, NEW r \in Request, NEW p \in PhotosFound(r)
  PROVE  /\ Cardinality(Before(r, p)) \in Nat
         /\ Cardinality(Before(r, p)) < Cardinality(PhotosFound(r))
<1>1. Before(r, p) \in SUBSET PhotosFound(r) /\ Before(r, p) # PhotosFound(r)
  BY NotBeforeItself DEF Before
<1>. QED BY <1>1, FoundFinite, FS_Subset, FS_CardinalityType

LEMMA CountHitsOK == ASSUME SearchIInv, CountHits PROVE SearchIInv'
<1>. USE DEF CountHits
<1>1. StockOK' /\ UNCHANGED request
  BY StockKept DEF SearchIInv, SearchTypeOK
<1>2. /\ PhotosFound(request)' = PhotosFound(request)
      /\ \A p : Before(request, p)' = Before(request, p)
  BY SameStock
<1>3. /\ Cardinality(PhotosFound(request)) \in Nat /\ PhotosFound(request) \subseteq PhotoIds
      /\ \A p \in PhotosFound(request) : Cardinality(Before(request, p)) \in Nat
  BY FoundFinite, BeforeFound DEF SearchIInv, SearchTypeOK
<1>4. reading \in Reading /\ reading.step = "count"
  BY DEF SearchIInv, SearchTypeOK
<1>5. /\ reading' \in Reading /\ reading'.step = "page" /\ reading'.got = reading.got
      /\ reading'.offset = reading.offset /\ reading'.total = Cardinality(PhotosFound(request))
      /\ reading'.kept = IF reading.offset = 0 THEN PhotosFound(request) ELSE reading.kept
  BY <1>3, <1>4 DEF Reading
<1>6. SearchTypeOK'
  BY <1>1, <1>5 DEF SearchTypeOK, SearchIInv
<1>7. IdleRead' /\ InOnePiece' /\ ReadingComplete'
  BY <1>1, <1>4, <1>5 DEF SearchIInv, IdleRead, InOnePiece, ReadingComplete, Finished
<1>8. KeptFound'
  BY <1>2, <1>5 DEF SearchIInv, KeptFound
<1>9. CountCurrent'
  BY <1>2, <1>3, <1>5 DEF CountCurrent
<1>10. KeptRead'
  <2>1. SUFFICES ASSUME NEW p \in reading'.kept, Cardinality(Before(request, p)) < reading.offset
                 PROVE  p \in PhotosRead
    BY <1>2, <1>5 DEF KeptRead, Covered, PhotosRead
  <2>2. reading.offset # 0
    BY <1>3, <1>5, <2>1
  <2>. QED BY <1>4, <1>5, <2>1, <2>2 DEF SearchIInv, KeptRead, Covered
<1>. QED BY <1>6, <1>7, <1>8, <1>9, <1>10 DEF SearchIInv

\* Once a page is read, every photo up to its end is.
LEMMA PageRead ==
  ASSUME SearchIInv, reading.step = "page", NEW p \in reading.kept,
         Cardinality(Before(request, p)) < reading.offset + request.limit
  PROVE  p \in {Of[s] : s \in reading.got \cup Page(request, reading.offset)}
<1>1. StockOK /\ request \in Request /\ request.limit \in Nat /\ reading.offset \in Nat
  BY DEF SearchIInv, SearchTypeOK, Request, Reading
<1>2. p \in PhotosFound(request)
  BY DEF SearchIInv, KeptFound
<1>3. PICK s \in Hits(request) : Of[s] = p
  BY <1>1, <1>2, OneHit DEF PhotosFound
<1>4. Cardinality({t \in Hits(request) : Ahead(request, t, s)}) = Cardinality(Before(request, p))
  BY <1>1, <1>3, RankOfPhoto
<1>5. Cardinality(Before(request, p)) \in Nat
  BY <1>1, <1>2, BeforeFound
<1>6. CASE Cardinality(Before(request, p)) < reading.offset
  BY <1>6 DEF SearchIInv, KeptRead, Covered, PhotosRead
<1>7. CASE ~(Cardinality(Before(request, p)) < reading.offset)
  <2>1. Cardinality(Before(request, p)) \in reading.offset..(reading.offset + request.limit - 1)
    BY <1>1, <1>5, <1>7
  <2>2. s \in Page(request, reading.offset)
    BY <1>3, <1>4, <2>1 DEF Page
  <2>. QED BY <1>3, <2>2
<1>. QED BY <1>6, <1>7

\* A page that is as large as all that is found shows all of it.
LEMMA WholePage ==
  ASSUME StockOK, NEW r \in Request, NEW offset,
         Cardinality(PhotosFound(r)) <= Cardinality(Page(r, offset))
  PROVE  Page(r, offset) = Hits(r)
<1>1. Page(r, offset) \in SUBSET Hits(r)
  BY DEF Page
<1>2. Cardinality(Hits(r)) = Cardinality(PhotosFound(r))
  <2>1. {s \in Hits(r) : Of[s] \in PhotosFound(r)} = Hits(r)
        /\ PhotosFound(r) \cap PhotosFound(r) = PhotosFound(r)
    BY OneHit DEF PhotosFound
  <2>2. Cardinality({s \in Hits(r) : Of[s] \in PhotosFound(r)})
          = Cardinality(PhotosFound(r) \cap PhotosFound(r))
    BY HitsCounted
  <2>. QED BY <2>1, <2>2
<1>. QED BY <1>1, <1>2, FoundFinite, FS_Subset, FS_CardinalityType

LEMMA ReadPageOK == ASSUME SearchIInv, ReadPage PROVE SearchIInv'
<1>. USE DEF ReadPage
<1>1. StockOK /\ StockOK' /\ UNCHANGED request /\ request \in Request /\ request.limit \in Nat
  BY StockKept DEF SearchIInv, SearchTypeOK, Request
<1>2. /\ PhotosFound(request)' = PhotosFound(request)
      /\ \A p : Before(request, p)' = Before(request, p)
  BY SameStock
<1>3. reading \in Reading /\ reading.step = "page" /\ Page(request, reading.offset) \subseteq SightingIds
  BY FoundFinite DEF SearchIInv, SearchTypeOK, Page
<1>4. /\ reading' \in Reading /\ reading'.step = "read" /\ reading'.late = reading.late
      /\ reading'.offset = reading.offset /\ reading'.total = reading.total
      /\ reading'.kept = reading.kept /\ reading'.got = reading.got \cup Page(request, reading.offset)
  BY <1>3 DEF Reading
<1>5. SearchTypeOK'
  BY <1>1, <1>4 DEF SearchTypeOK
<1>6. IdleRead' /\ InOnePiece' /\ CountCurrent'
  BY <1>4 DEF IdleRead, InOnePiece, CountCurrent
<1>7. KeptFound'
  BY <1>2, <1>4 DEF SearchIInv, KeptFound
<1>8. \A p \in reading.kept :
        Cardinality(Before(request, p)) < reading.offset + request.limit => p \in PhotosRead'
  BY <1>3, <1>4, PageRead DEF PhotosRead
<1>9. KeptRead'
  BY <1>1, <1>2, <1>4, <1>8 DEF KeptRead, Covered
<1>10. ASSUME Finished', ~reading.late PROVE reading.kept \subseteq PhotosRead'
  <2>1. Cardinality(PhotosFound(request)) <= reading.total /\ Cardinality(PhotosFound(request)) \in Nat
    BY <1>3, <1>10, FoundFinite DEF SearchIInv, CountCurrent
  <2>2. reading.kept \subseteq PhotosFound(request)
    BY DEF SearchIInv, KeptFound
  <2>3. CASE LastPage'
    <3>1. reading.offset + request.limit >= reading.total
      BY <1>1, <1>4, <2>3 DEF LastPage
    <3>2. \A p \in reading.kept : Cardinality(Before(request, p)) < reading.offset + request.limit
      BY <1>1, <1>3, <2>1, <2>2, <3>1, BeforeFound DEF Reading
    <3>. QED BY <1>8, <3>2
  <2>4. CASE request'.kind = "export" /\ reading'.total <= Cardinality(reading'.got)
    <3>1. reading.got = {} /\ reading'.got = Page(request, reading.offset)
      BY <1>1, <1>3, <1>4, <2>4 DEF SearchIInv, InOnePiece
    <3>2. Cardinality(Page(request, reading.offset)) \in Nat
      BY FoundFinite, FS_Subset, FS_CardinalityType DEF Page
    <3>3. reading'.got = Hits(request)
      BY <1>1, <1>3, <1>4, <2>1, <2>4, <3>1, <3>2, WholePage DEF Reading
    <3>. QED BY <1>1, <2>2, <3>3, OneHit DEF PhotosFound, PhotosRead
  <2>. QED BY <1>10, <2>3, <2>4 DEF Finished
<1>11. ReadingComplete'
  BY <1>4, <1>10 DEF ReadingComplete
<1>. QED BY <1>5, <1>6, <1>7, <1>9, <1>11 DEF SearchIInv

LEMMA TurnPageOK == ASSUME SearchIInv, TurnPage PROVE SearchIInv'
<1>. USE DEF TurnPage
<1>1. StockOK' /\ UNCHANGED request /\ request.limit \in Nat
  BY StockKept DEF SearchIInv, SearchTypeOK, Request
<1>2. /\ PhotosFound(request)' = PhotosFound(request)
      /\ \A p : Before(request, p)' = Before(request, p)
  BY SameStock
<1>3. reading \in Reading /\ reading.step = "read" /\ request.kind = "pages"
  BY DEF SearchIInv, SearchTypeOK
<1>4. /\ reading' \in Reading /\ reading'.step = "count" /\ reading'.kept = reading.kept
      /\ reading'.got = reading.got /\ reading'.offset = reading.offset + request.limit
  <2>1. reading.offset + request.limit \in Nat
    BY <1>1, <1>3 DEF Reading
  <2>2. reading' = [reading EXCEPT !.step = "count", !.offset = reading.offset + request.limit]
    OBVIOUS
  <2>. HIDE DEF TurnPage
  <2>. QED BY <1>3, <2>1, <2>2 DEF Reading
<1>5. SearchTypeOK'
  BY <1>1, <1>4 DEF SearchTypeOK, SearchIInv
<1>6. IdleRead' /\ InOnePiece' /\ CountCurrent' /\ ReadingComplete'
  BY <1>1, <1>3, <1>4 DEF IdleRead, InOnePiece, CountCurrent, ReadingComplete, Finished
<1>7. KeptFound'
  BY <1>2, <1>4 DEF SearchIInv, KeptFound
<1>8. KeptRead'
  BY <1>2, <1>3, <1>4 DEF SearchIInv, KeptRead, Covered, PhotosRead
<1>. QED BY <1>5, <1>6, <1>7, <1>8 DEF SearchIInv

LEMMA EndReadingOK == ASSUME SearchIInv, EndReading PROVE SearchIInv'
<1>1. StockOK'
  BY StockKept DEF SearchIInv, SearchTypeOK, EndReading
<1>2. SearchTypeOK'
  BY <1>1, NoRequestType DEF SearchTypeOK, EndReading
<1>3. reading'.step = "idle" /\ reading'.kept = {}
  BY DEF EndReading, NotReading
<1>. QED BY <1>2, <1>3 DEF SearchIInv, IdleRead, InOnePiece, KeptFound, KeptRead, CountCurrent,
                           ReadingComplete, Finished

\* What is found, after a step as before it, is finite.
LEMMA FoundFiniteNext ==
  /\ IsFiniteSet(PhotosFound(request)') /\ Cardinality(PhotosFound(request)') \in Nat
  /\ \A p : IsFiniteSet(Before(request, p)')
<1>1. Matching(request)' \subseteq SightingIds
  BY DEF Matching
<1>2. PhotosFound(request)' = {Of[s] : s \in Matching(request)'}
  BY DEF PhotosFound
<1>3. IsFiniteSet(PhotosFound(request)') /\ Cardinality(PhotosFound(request)') \in Nat
  BY <1>1, <1>2, PhotosOfFinite
<1>4. \A p : Before(request, p)' \subseteq PhotosFound(request)'
  BY DEF Before
<1>. QED BY <1>3, <1>4, FS_Subset

\* Whatever others do to the stock, what the reader has of it stays true.
LEMMA ObservedOK ==
  ASSUME SearchIInv, StockOK', Observed PROVE SearchIInv'
<1>1. UNCHANGED request /\ request \in Request /\ reading \in Reading /\ request.limit \in Nat
  BY DEF Observed, SearchIInv, SearchTypeOK, Request
<1>2. CASE reading.step = "idle"
  <2>1. UNCHANGED reading /\ reading.kept = {}
    BY <1>2 DEF Observed, SearchIInv, IdleRead
  <2>. QED BY <1>1, <1>2, <2>1
       DEF SearchIInv, SearchTypeOK, IdleRead, InOnePiece, KeptFound, KeptRead, CountCurrent,
           ReadingComplete, Finished
<1>3. CASE reading.step # "idle"
  <2>1. /\ reading' \in Reading /\ reading'.step = reading.step /\ reading'.got = reading.got
        /\ reading'.offset = reading.offset /\ reading'.total = reading.total
        /\ reading'.kept = (IF reading.kept = {} \/ Disturbed THEN {} ELSE reading.kept)
        /\ reading'.late = (reading.late \/ (reading.step = "page"
                              /\ ~(PhotosFound(request)' \subseteq PhotosFound(request))))
    BY <1>1, <1>3 DEF Observed, Reading
  <2>2. ~reading'.late => /\ ~reading.late
                          /\ reading.step = "page" => PhotosFound(request)' \subseteq PhotosFound(request)
    BY <2>1
  <2>3. /\ reading'.kept \subseteq reading.kept
        /\ \A p \in reading'.kept :
             /\ PhotosFound(request) \subseteq PhotosFound(request)'
             /\ InOrder(request) \subseteq InOrder(request)'
    BY <2>1 DEF Disturbed
  <2>4. SearchTypeOK'
    BY <1>1, <2>1 DEF SearchTypeOK
  <2>5. IdleRead' /\ InOnePiece'
    BY <1>1, <1>3, <2>1 DEF SearchIInv, IdleRead, InOnePiece
  <2>6. KeptFound'
    BY <2>3 DEF SearchIInv, KeptFound
  <2>7. KeptRead'
    <3>1. SUFFICES ASSUME NEW p \in reading'.kept, Cardinality(Before(request, p)') < Covered'
                   PROVE  p \in PhotosRead'
      BY DEF KeptRead
    <3>2. Before(request, p) \subseteq Before(request, p)'
      BY <2>3 DEF Before
    <3>3. Cardinality(Before(request, p)) <= Cardinality(Before(request, p)')
      BY <3>2, FoundFiniteNext, FS_Subset
    <3>4. Covered' = Covered /\ Covered \in Nat /\ PhotosRead' = PhotosRead
      BY <1>1, <2>1 DEF Covered, PhotosRead, Reading
    <3>5. Cardinality(Before(request, p)) \in Nat /\ Cardinality(Before(request, p)') \in Nat
      BY <3>2, FoundFiniteNext, FS_Subset, FS_CardinalityType
    <3>6. Cardinality(Before(request, p)) < Covered
      BY <3>1, <3>3, <3>4, <3>5
    <3>. QED BY <2>3, <3>4, <3>6 DEF SearchIInv, KeptRead
  <2>8. CountCurrent'
    <3>1. SUFFICES ASSUME reading.step = "page", ~reading'.late
                   PROVE  Cardinality(PhotosFound(request)') <= reading.total
      BY <2>1 DEF CountCurrent
    <3>2. Cardinality(PhotosFound(request)) <= reading.total
      BY <2>2, <3>1 DEF SearchIInv, CountCurrent
    <3>3. Cardinality(PhotosFound(request)') <= Cardinality(PhotosFound(request))
      BY <2>2, <3>1, FoundFinite, FS_Subset
    <3>. QED BY <1>1, <3>2, <3>3, FoundFinite, FoundFiniteNext DEF Reading
  <2>9. ReadingComplete'
    <3>1. Finished' => Finished
      BY <1>1, <2>1 DEF Finished, LastPage
    <3>2. PhotosRead' = PhotosRead
      BY <2>1 DEF PhotosRead
    <3>. QED BY <2>2, <2>3, <3>1, <3>2 DEF SearchIInv, ReadingComplete
  <2>. QED BY <2>4, <2>5, <2>6, <2>7, <2>8, <2>9 DEF SearchIInv
<1>. QED BY <1>2, <1>3

LEMMA RowsType ==
  /\ \A p \in PhotoIds : PhotoRows[p] \subseteq PhotoRow
  /\ \A s \in SightingIds : SightingRows[s] \subseteq SightingRow
  /\ NoRow \notin PhotoRow /\ NoRow \notin SightingRow
BY SearchAssumption DEF SearchAssumption

LEMMA InsertPhotoOK ==
  ASSUME SearchIInv, NEW p \in PhotoIds, NEW row \in PhotoRows[p], NEW s \in SightingIds,
         NEW first \in SightingRows[s], InsertPhoto(p, row, s, first)
  PROVE  SearchIInv'
<1>1. StockOK'
  BY RowsType, SearchAssumption
  DEF SearchIInv, SearchTypeOK, StockOK, Photos, InsertPhoto, SearchAssumption
<1>. QED BY <1>1, ObservedOK DEF InsertPhoto

LEMMA UpdatePhotoOK ==
  ASSUME SearchIInv, NEW p \in PhotoIds, NEW row \in PhotoRows[p], UpdatePhoto(p, row)
  PROVE  SearchIInv'
<1>1. StockOK'
  BY RowsType, SearchAssumption
  DEF SearchIInv, SearchTypeOK, StockOK, Photos, UpdatePhoto, SearchAssumption
<1>. QED BY <1>1, ObservedOK DEF UpdatePhoto

LEMMA DeletePhotoRowOK ==
  ASSUME SearchIInv, NEW p \in PhotoIds, DeletePhotoRow(p) PROVE SearchIInv'
<1>1. StockOK'
  BY SearchAssumption
  DEF SearchIInv, SearchTypeOK, StockOK, Photos, DeletePhotoRow, SearchAssumption
<1>. QED BY <1>1, ObservedOK DEF DeletePhotoRow

LEMMA WriteSightingOK ==
  ASSUME SearchIInv, NEW s \in SightingIds, NEW row \in SightingRows[s], WriteSighting(s, row)
  PROVE  SearchIInv'
<1>1. StockOK'
  BY RowsType DEF SearchIInv, SearchTypeOK, StockOK, Photos, WriteSighting
<1>. QED BY <1>1, ObservedOK DEF WriteSighting

LEMMA DropSightingOK ==
  ASSUME SearchIInv, NEW s \in SightingIds, DropSighting(s) PROVE SearchIInv'
<1>1. StockOK'
  BY DEF SearchIInv, SearchTypeOK, StockOK, Photos, DropSighting
<1>. QED BY <1>1, ObservedOK DEF DropSighting

LEMMA SearchNextOK == ASSUME SearchIInv, [SearchNext]_searchVars PROVE SearchIInv'
<1>1. CASE UNCHANGED searchVars
  <2>1. UNCHANGED_Stock /\ UNCHANGED request /\ UNCHANGED reading
    BY <1>1 DEF searchVars, UNCHANGED_Stock
  <2>2. /\ PhotosFound(request)' = PhotosFound(request)
        /\ \A p : Before(request, p)' = Before(request, p)
    BY <2>1, SameStock
  <2>3. SearchTypeOK'
    BY <2>1, StockKept DEF SearchTypeOK, SearchIInv
  <2>. QED BY <2>1, <2>2, <2>3
       DEF SearchIInv, IdleRead, InOnePiece, KeptFound, KeptRead, Covered, CountCurrent,
           ReadingComplete, Finished, LastPage, PhotosRead
<1>2. CASE \E p \in PhotoIds : \E row \in PhotoRows[p] :
             \/ UpdatePhoto(p, row)
             \/ \E s \in SightingIds : \E first \in SightingRows[s] : InsertPhoto(p, row, s, first)
  BY <1>2, UpdatePhotoOK, InsertPhotoOK
<1>3. CASE \E s \in SightingIds : \/ DropSighting(s)
                                  \/ \E row \in SightingRows[s] : WriteSighting(s, row)
  BY <1>3, DropSightingOK, WriteSightingOK
<1>4. CASE \E p \in PhotoIds : DeletePhotoRow(p)
  BY <1>4, DeletePhotoRowOK
<1>. QED BY <1>1, <1>2, <1>3, <1>4, AskForOK, AskSimilarOK, CountHitsOK, ReadPageOK, TurnPageOK,
            EndReadingOK DEF SearchNext

LEMMA SearchInvariance == SearchSpec => []SearchIInv
BY SearchInitOK, SearchNextOK, PTL DEF SearchSpec

\* Whoever has turned the pages to the last, or holds an export that is not marked
\* as truncated, has every photo that matched all the time, for any stock, filter
\* and size of a page and whatever others add, correct and delete meanwhile.
THEOREM PagesAreComplete == SearchSpec => []ReadingComplete
BY SearchInvariance, PTL DEF SearchIInv
-----------------------------------------------------------------------------
\* The sightings a filter lets pass, where nothing is compared by vector.
Passing(f) == {s \in SightingIds : sightingRow[s] # NoRow /\ buildWhere(f, FALSE, s)}

LEMMA TextMatching ==
  ASSUME NEW r, r.vector = NoVector
  PROVE  Matching(r) = Passing(r.filter)
BY DEF Matching, Passing

LEMMA SummaryCounts ==
  ASSUME NEW items, NEW total
  PROVE  LET summary == Summarize(items, total)
         IN  /\ summary.truncated = (total > Cardinality(items))
             /\ summary.withGPS = Cardinality({s \in items : photoRow[Of[s]].spot # NoSpot})
             /\ \A d \in Days : summary.months[d] = Cardinality({s \in items : SeenAt(Of[s]) = d})
             /\ \A m \in Motifs :
                  summary.motifs[m] = Cardinality({s \in items : sightingRow[s].motif = m})
             /\ summary.hotspots =
                  [k \in Cells |-> Cardinality({s \in items : AtCell(s, k)})]
BY DEF Summarize, Counted

LEMMA NarrowedDays ==
  ASSUME NEW f \in Filter, NEW d
  PROVE  Passing([f EXCEPT !.days = @ \cap {d}]) = {s \in Passing(f) : SeenAt(Of[s]) = d}
BY DEF Filter, Passing, buildWhere

LEMMA Narrowed ==
  ASSUME NEW f \in Filter
  PROVE  /\ \A d : Passing([f EXCEPT !.days = @ \cap {d}])
                     = {s \in Passing(f) : SeenAt(Of[s]) = d}
         /\ Passing([f EXCEPT !.gps = @ \cap {TRUE}])
              = {s \in Passing(f) : photoRow[Of[s]].spot # NoSpot}
         /\ \A H : Passing([f EXCEPT !.near = @ \cap H])
                     = {s \in Passing(f) : photoRow[Of[s]].spot \in H}
         /\ \A m : Passing([f EXCEPT !.motifs = @ \cap {m}])
                     = {s \in Passing(f) : sightingRow[s].motif = m}
<1>1. ASSUME NEW d
      PROVE  Passing([f EXCEPT !.days = @ \cap {d}]) = {s \in Passing(f) : SeenAt(Of[s]) = d}
  BY NarrowedDays
<1>2. Passing([f EXCEPT !.gps = @ \cap {TRUE}]) = {s \in Passing(f) : photoRow[Of[s]].spot # NoSpot}
  BY DEF Filter, Passing, buildWhere
<1>3. ASSUME NEW H
      PROVE  Passing([f EXCEPT !.near = @ \cap H]) = {s \in Passing(f) : photoRow[Of[s]].spot \in H}
  BY DEF Filter, Passing, buildWhere
<1>4. ASSUME NEW m
      PROVE  Passing([f EXCEPT !.motifs = @ \cap {m}]) = {s \in Passing(f) : sightingRow[s].motif = m}
  BY DEF Filter, Passing, buildWhere
<1>. QED BY <1>1, <1>2, <1>3, <1>4

LEMMA TotalIs ==
  ASSUME NEW f PROVE Total(f) = Cardinality({Of[s] : s \in Passing(f)})
<1>. DEFINE l == listWithOptionalSemantic(f, NoVector, 0, 0)
<1>1. l.vector = NoVector /\ l.filter = f
  BY DEF listWithOptionalSemantic, Ask
<1>. HIDE DEF l
<1>2. PhotosFound(l) = {Of[s] : s \in Passing(f)}
  BY <1>1, TextMatching DEF PhotosFound
<1>. QED BY <1>2 DEF Total, l

\* A list under one condition more has as many photos as there are hits that meet it.
LEMMA TotalOfHits ==
  ASSUME StockOK, NEW r \in Request, r.vector = NoVector, NEW Q, NEW g,
         Passing(g) = {s \in Passing(r.filter) : Of[s] \in Q}
  PROVE  Total(g) = Cardinality({s \in Hits(r) : Of[s] \in Q})
<1>1. PhotosFound(r) = {Of[s] : s \in Passing(r.filter)}
  BY TextMatching DEF PhotosFound
<1>2. {Of[s] : s \in Passing(g)} = PhotosFound(r) \cap Q
  BY <1>1
<1>. QED BY <1>2, TotalIs, HitsCounted

\* What is left out of the most frequent is not more frequent than what is shown.
LEMMA TopIsMostFrequent ==
  ASSUME NEW S \in SUBSET Nat, NEW counts \in [S -> Nat], IsFiniteSet({k \in S : counts[k] > 0}),
         NEW h \in topHotspots(counts), NEW o \in S \ topHotspots(counts)
  PROVE  counts[h] >= counts[o]
<1>. DEFINE better(k) == {j \in S : counts[j] > counts[k] \/ (counts[j] = counts[k] /\ j < k)}
<1>1. topHotspots(counts) = {k \in S : counts[k] > 0 /\ Cardinality(better(k)) < SummaryTop}
  BY DEF topHotspots
<1>2. h \in S /\ o \in S /\ counts[h] \in Nat /\ counts[o] \in Nat /\ counts[h] > 0
  BY <1>1
<1>3. SUFFICES ASSUME counts[o] > counts[h] PROVE FALSE
  BY <1>2
<1>4. better(h) \in SUBSET {k \in S : counts[k] > 0}
  <2>1. ASSUME NEW j \in better(h) PROVE j \in S /\ counts[j] > 0
    <3>1. j \in S /\ counts[j] \in Nat /\ (counts[j] > counts[h] \/ counts[j] = counts[h])
      BY <2>1
    <3>. QED BY <1>2, <3>1
  <2>. QED BY <2>1
<1>5. better(o) \in SUBSET better(h)
  <2>1. ASSUME NEW j \in better(o) PROVE j \in better(h)
    <3>1. j \in S /\ counts[j] \in Nat /\ (counts[j] > counts[o] \/ counts[j] = counts[o])
      BY <2>1
    <3>. QED BY <1>2, <1>3, <3>1
  <2>. QED BY <2>1
<1>. HIDE DEF better
<1>6. IsFiniteSet(better(h)) /\ IsFiniteSet(better(o)) /\ Cardinality(better(o)) <= Cardinality(better(h))
      /\ Cardinality(better(h)) \in Nat /\ Cardinality(better(o)) \in Nat
  BY <1>4, <1>5, FS_Subset, FS_CardinalityType
<1>7. Cardinality(better(o)) < SummaryTop
  BY <1>1, <1>6, NumbersType
<1>8. counts[o] > 0
  BY <1>2, <1>3
<1>. QED BY <1>1, <1>2, <1>7, <1>8

\* A position lies around the point of its cell.
LEMMA CellsAreNear ==
  /\ Cells \subseteq Nat
  /\ \A v \in Spots : v \in Around(gridKey(v) * Cell)
<1>1. Spots \subseteq Nat /\ Cell \in Nat \ {0}
  BY SearchAssumption DEF SearchAssumption
<1>2. ASSUME NEW v \in Nat
      PROVE  /\ gridKey(v) \in Nat /\ gridKey(v) * Cell \in Nat
             /\ gridKey(v) * Cell <= v + Cell /\ v <= gridKey(v) * Cell + Cell
  <2>. DEFINE k == (2 * v + Cell) \div (2 * Cell)
              c == k * Cell
  <2>1. k \in Nat /\ (2 * Cell) * k <= 2 * v + Cell /\ 2 * v + Cell < (2 * Cell) * k + 2 * Cell
    BY <1>1
  <2>2. c \in Nat /\ (2 * Cell) * k = 2 * c
    BY <1>1, <2>1
  <2>. HIDE DEF c, k
  <2>3. c <= v + Cell /\ v <= c + Cell
    BY <1>1, <2>1, <2>2
  <2>. QED BY <2>1, <2>2, <2>3 DEF gridKey, c, k
<1>3. Cells \subseteq Nat
  BY <1>1, <1>2 DEF Cells
<1>4. ASSUME NEW v \in Spots PROVE v \in Around(gridKey(v) * Cell)
  <2>. DEFINE c == gridKey(v) * Cell
  <2>1. c \in Nat /\ c <= v + Cell /\ v <= c + Cell /\ v \in Nat
    BY <1>1, <1>2
  <2>. HIDE DEF c
  <2>2. Distance(v, c) <= Cell
    BY <1>1, <2>1 DEF Distance
  <2>. QED BY <2>2 DEF Around, c
<1>. QED BY <1>3, <1>4

LEMMA SummaryOfAll ==
  ASSUME StockOK, NEW f \in Filters,
         ~Summarize(Page(loadExportItems(f, NoVector, 0), 0), Total(f)).truncated
  PROVE  LET r == loadExportItems(f, NoVector, 0)
         IN  /\ r \in Request /\ r.vector = NoVector /\ r.filter = f
             /\ Page(r, 0) = Hits(r)
<1>. DEFINE r == loadExportItems(f, NoVector, 0)
<1>1. r \in Request /\ r.vector = NoVector /\ r.filter = f
  <2>1. f \in Filter
    BY SearchAssumption DEF SearchAssumption
  <2>. QED BY <2>1, AskType DEF loadExportItems, Ask
<1>. HIDE DEF r
<1>2. ~(Total(f) > Cardinality(Page(r, 0)))
  BY SummaryCounts DEF r
<1>3. Total(f) = Cardinality(PhotosFound(r))
  BY <1>1, TotalIs, TextMatching DEF PhotosFound
<1>4. Cardinality(PhotosFound(r)) \in Nat /\ Cardinality(Page(r, 0)) \in Nat
  BY FoundFinite, FS_Subset, FS_CardinalityType DEF Page
<1>5. Page(r, 0) = Hits(r)
  BY <1>1, <1>2, <1>3, <1>4, WholePage
<1>. QED BY <1>1, <1>5 DEF r

\* A summary that holds all counts what the lists show: every fact of the tables.
LEMMA SummaryInStock == ASSUME StockOK PROVE SummaryAgrees
<1>1. SUFFICES ASSUME NEW f \in Filters,
                      ~Summarize(Page(loadExportItems(f, NoVector, 0), 0), Total(f)).truncated
               PROVE  LET r == loadExportItems(f, NoVector, 0)
                          summary == Summarize(Page(r, 0), Total(f))
                      IN  /\ \A d \in Days : summary.months[d] = Total([f EXCEPT !.days = @ \cap {d}])
                          /\ summary.withGPS = Total([f EXCEPT !.gps = @ \cap {TRUE}])
                          /\ \A k \in topHotspots(summary.hotspots) :
                               /\ summary.hotspots[k] <= Total([f EXCEPT !.near = @ \cap Around(k * Cell)])
                               /\ \A o \in Cells \ topHotspots(summary.hotspots) :
                                    summary.hotspots[k] >= summary.hotspots[o]
                          /\ \A m \in Motifs :
                               summary.motifs[m] <= Total([f EXCEPT !.motifs = @ \cap {m}])
  BY DEF SummaryAgrees
<1>. DEFINE r == loadExportItems(f, NoVector, 0)
            summary == Summarize(Hits(r), Total(f))
<1>2. r \in Request /\ r.vector = NoVector /\ r.filter = f /\ Page(r, 0) = Hits(r)
  BY <1>1, SummaryOfAll
<1>3. f \in Filter /\ Hits(r) \subseteq SightingIds /\ IsFiniteSet(Hits(r)) /\ Hits(r) \subseteq Matching(r)
  BY <1>2, SearchAssumption, FoundFinite, OneHit DEF SearchAssumption
<1>. HIDE DEF r
<1>4. /\ summary.withGPS = Cardinality({s \in Hits(r) : photoRow[Of[s]].spot # NoSpot})
      /\ \A d \in Days : summary.months[d] = Cardinality({s \in Hits(r) : SeenAt(Of[s]) = d})
      /\ \A m \in Motifs :
           summary.motifs[m] = Cardinality({s \in Hits(r) : sightingRow[s].motif = m})
      /\ summary.hotspots =
           [k \in Cells |-> Cardinality({s \in Hits(r) : AtCell(s, k)})]
  BY SummaryCounts
<1>. HIDE DEF summary
<1>5. ASSUME NEW d \in Days PROVE summary.months[d] = Total([f EXCEPT !.days = @ \cap {d}])
  <2>. DEFINE Q == {p \in PhotoIds : SeenAt(p) = d}
  <2>1. \A s \in SightingIds : Of[s] \in Q <=> SeenAt(Of[s]) = d
    BY SearchAssumption DEF SearchAssumption
  <2>2. Passing([f EXCEPT !.days = @ \cap {d}]) = {s \in Passing(f) : Of[s] \in Q}
    <3>1. Passing([f EXCEPT !.days = @ \cap {d}]) = {s \in Passing(f) : SeenAt(Of[s]) = d}
      BY <1>3, NarrowedDays
    <3>. QED BY <2>1, <3>1 DEF Passing
  <2>3. {s \in Hits(r) : Of[s] \in Q} = {s \in Hits(r) : SeenAt(Of[s]) = d}
    BY <1>3, <2>1
  <2>. HIDE DEF Q
  <2>4. Total([f EXCEPT !.days = @ \cap {d}]) = Cardinality({s \in Hits(r) : Of[s] \in Q})
    BY <1>2, <2>2, TotalOfHits, Zenon
  <2>. QED BY <1>4, <2>3, <2>4
<1>6. summary.withGPS = Total([f EXCEPT !.gps = @ \cap {TRUE}])
  <2>. DEFINE Q == {p \in PhotoIds : photoRow[p].spot # NoSpot}
  <2>1. \A s \in SightingIds : Of[s] \in Q <=> photoRow[Of[s]].spot # NoSpot
    BY SearchAssumption DEF SearchAssumption
  <2>2. Passing([f EXCEPT !.gps = @ \cap {TRUE}]) = {s \in Passing(f) : Of[s] \in Q}
    <3>1. Passing([f EXCEPT !.gps = @ \cap {TRUE}]) = {s \in Passing(f) : photoRow[Of[s]].spot # NoSpot}
      BY <1>3, Narrowed, Zenon
    <3>. QED BY <2>1, <3>1 DEF Passing
  <2>3. {s \in Hits(r) : Of[s] \in Q} = {s \in Hits(r) : photoRow[Of[s]].spot # NoSpot}
    BY <1>3, <2>1
  <2>. HIDE DEF Q
  <2>4. Total([f EXCEPT !.gps = @ \cap {TRUE}]) = Cardinality({s \in Hits(r) : Of[s] \in Q})
    BY <1>2, <2>2, TotalOfHits, Zenon
  <2>. QED BY <1>4, <2>3, <2>4
<1>7. ASSUME NEW k \in Cells
      PROVE  summary.hotspots[k] <= Total([f EXCEPT !.near = @ \cap Around(k * Cell)])
  <2>. DEFINE H == Around(k * Cell)
              Q == {p \in PhotoIds : photoRow[p].spot \in H}
              here == {s \in Hits(r) : AtCell(s, k)}
  <2>1. \A s \in SightingIds : Of[s] \in Q <=> photoRow[Of[s]].spot \in H
    BY SearchAssumption DEF SearchAssumption
  <2>2. Passing([f EXCEPT !.near = @ \cap H]) = {s \in Passing(f) : Of[s] \in Q}
    <3>1. Passing([f EXCEPT !.near = @ \cap H]) = {s \in Passing(f) : photoRow[Of[s]].spot \in H}
      <4>1. \A G : Passing([f EXCEPT !.near = @ \cap G])
                     = {s \in Passing(f) : photoRow[Of[s]].spot \in G}
        BY <1>3, Narrowed, ZenonT(30)
      <4>. QED BY <4>1, Zenon
    <3>. QED BY <2>1, <3>1 DEF Passing
  <2>3. here \subseteq {s \in Hits(r) : Of[s] \in Q}
    <3>1. ASSUME NEW s \in here PROVE photoRow[Of[s]].spot \in H
      <4>1. photoRow[Of[s]].spot # NoSpot /\ gridKey(photoRow[Of[s]].spot) = k
        BY <3>1 DEF AtCell
      <4>2. photoRow[Of[s]] \in PhotoRow
        BY <1>2, <1>3, MatchType DEF StockOK, Photos
      <4>3. photoRow[Of[s]].spot \in Spots
        BY <4>1, <4>2 DEF PhotoRow
      <4>. QED BY <4>1, <4>3, CellsAreNear
    <3>. QED BY <1>3, <2>1, <3>1
  <2>. HIDE DEF Q, H
  <2>4. Total([f EXCEPT !.near = @ \cap H]) = Cardinality({s \in Hits(r) : Of[s] \in Q})
    BY <1>2, <2>2, TotalOfHits, Zenon
  <2>5. Cardinality(here) <= Cardinality({s \in Hits(r) : Of[s] \in Q})
    <3>1. IsFiniteSet({s \in Hits(r) : Of[s] \in Q})
      BY <1>3, FS_Subset
    <3>. HIDE DEF here
    <3>. QED BY <2>3, <3>1, FS_Subset
  <2>. QED BY <1>4, <2>4, <2>5 DEF H
<1>8. ASSUME NEW h \in topHotspots(summary.hotspots), NEW o \in Cells \ topHotspots(summary.hotspots)
      PROVE  summary.hotspots[h] >= summary.hotspots[o]
  <2>. DEFINE counts == summary.hotspots
              cell == [s \in Hits(r) |-> gridKey(photoRow[Of[s]].spot)]
              K == {k \in Cells : counts[k] > 0}
  <2>1. \A k \in Cells : counts[k] = Cardinality({s \in Hits(r) : AtCell(s, k)})
                         /\ counts[k] \in Nat
    BY <1>3, <1>4, FS_Subset, FS_CardinalityType
  <2>2. counts \in [Cells -> Nat]
    BY <1>4, <2>1
  <2>3. \A k \in K : \E s \in Hits(r) : AtCell(s, k)
    BY <2>1, FS_EmptySet
  <2>4. K \in SUBSET {cell[s] : s \in Hits(r)}
    BY <2>3 DEF AtCell
  <2>5. IsFiniteSet({cell[s] : s \in Hits(r)})
    <3>1. cell \in Surjection(Hits(r), {cell[s] : s \in Hits(r)})
      BY DEF Surjection
    <3>. QED BY <1>3, <3>1, FS_Surjection
  <2>6. IsFiniteSet(K)
    BY <2>4, <2>5, FS_Subset
  <2>. HIDE DEF cell
  <2>. QED BY <1>8, <2>2, <2>6, CellsAreNear, TopIsMostFrequent
<1>9. ASSUME NEW m \in Motifs PROVE summary.motifs[m] <= Total([f EXCEPT !.motifs = @ \cap {m}])
  <2>. DEFINE S == {s \in Hits(r) : sightingRow[s].motif = m}
              T == {Of[s] : s \in {s \in Passing(f) : sightingRow[s].motif = m}}
              g == [s \in S |-> Of[s]]
  <2>1. S \subseteq Passing(f) /\ T \subseteq PhotoIds /\ IsFiniteSet(T)
    <3>1. S \subseteq Passing(f)
      BY <1>2, <1>3, TextMatching
    <3>2. {s \in Passing(f) : sightingRow[s].motif = m} \in SUBSET SightingIds
      BY DEF Passing
    <3>. QED BY <3>1, <3>2, PhotosOfFinite
  <2>2. g \in Injection(S, T)
    <3>1. g \in [S -> T]
      BY <2>1
    <3>2. \A a, b \in S : g[a] = g[b] => a = b
      BY <1>2, OneHit
    <3>. QED BY <3>1, <3>2 DEF Injection, IsInjective
  <2>3. Cardinality(S) <= Cardinality(T)
    <3>. HIDE DEF S, T, g
    <3>. QED BY <2>1, <2>2, FS_Injection
  <2>4. Total([f EXCEPT !.motifs = @ \cap {m}]) = Cardinality(T)
    <3>1. Passing([f EXCEPT !.motifs = @ \cap {m}]) = {s \in Passing(f) : sightingRow[s].motif = m}
      <4>1. \A n : Passing([f EXCEPT !.motifs = @ \cap {n}])
                     = {s \in Passing(f) : sightingRow[s].motif = n}
        BY <1>3, Narrowed, ZenonT(30)
      <4>. QED BY <4>1, Zenon
    <3>. QED BY <3>1, TotalIs
  <2>. QED BY <1>4, <2>3, <2>4
<1>10. \A k \in topHotspots(summary.hotspots) : k \in Cells
  BY <1>4 DEF topHotspots
<1>. QED BY <1>2, <1>5, <1>6, <1>7, <1>8, <1>9, <1>10 DEF r, summary

\* A summary that is not marked as truncated agrees with the lists under the same
\* filter and one condition more, by month, coordinates, motif and the cells of
\* places, whatever the stock holds.
THEOREM SummariesAgree == SearchSpec => []SummaryAgrees
BY SearchInvariance, SummaryInStock, PTL DEF SearchIInv, SearchTypeOK
-----------------------------------------------------------------------------
LEMMA SeenType ==
  ASSUME StockOK, NEW p \in Photos PROVE SeenAt(p) \in Days /\ SeenAt(p) \in Nat
<1>1. photoRow[p] \in PhotoRow
  BY DEF StockOK, Photos
<1>. QED BY <1>1, NumbersType DEF PhotoRow, SeenAt

\* Of some photos one is the last.
LEMMA LatestExists ==
  ASSUME StockOK, NEW P \in SUBSET Photos, IsFiniteSet(P), P # {}
  PROVE  \E d \in Days : (\E p \in P : SeenAt(p) = d) /\ (\A p \in P : SeenAt(p) <= d)
<1>. DEFINE R == {x \in P \X P : SeenAt(x[1]) > SeenAt(x[2])}
<1>1. \A a, b \in P : <<a, b>> \in R <=> SeenAt(a) > SeenAt(b)
  OBVIOUS
<1>2. \A a \in P : SeenAt(a) \in Nat /\ SeenAt(a) \in Days
  BY SeenType
<1>. HIDE DEF R
<1>3. \A a \in P : <<a, a>> \notin R
  BY <1>1, <1>2
<1>4. \A a, b, c \in P : <<a, b>> \in R /\ <<b, c>> \in R => <<a, c>> \in R
  BY <1>1, <1>2
<1>5. PICK a \in P : \A b \in P : <<b, a>> \notin R
  BY <1>3, <1>4, FirstExists
<1>6. ASSUME NEW b \in P PROVE SeenAt(b) <= SeenAt(a)
  <2>1. ~(SeenAt(b) > SeenAt(a))
    BY <1>1, <1>5
  <2>2. SeenAt(a) \in Nat /\ SeenAt(b) \in Nat
    BY <1>2
  <2>. QED BY <2>1, <2>2
<1>. QED BY <1>2, <1>6

\* A motif is marked exactly where no photo of it is recent.
LEMMA FollowUpIsDue ==
  ASSUME StockOK, NEW m, m # NoMotif, PhotosOf(m) # {}, NEW group
  PROVE  FollowUp(m, group) <=> Due(m)
<1>. DEFINE Last(d) == /\ \E p \in PhotosOf(m) : SeenAt(p) = d
                       /\ \A p \in PhotosOf(m) : SeenAt(p) <= d
<1>1. PhotosOf(m) \subseteq Photos /\ IsFiniteSet(PhotosOf(m))
  <2>1. {s \in SightingIds : sightingRow[s] # NoRow /\ sightingRow[s].motif = m} \in SUBSET SightingIds
    OBVIOUS
  <2>. QED BY <2>1, PhotosOfFinite DEF PhotosOf, StockOK
<1>2. \E d \in Days : Last(d)
  BY <1>1, LatestExists
<1>3. LastAt(m, group) = CHOOSE d \in Days : Last(d)
  BY DEF LastAt
<1>4. LastAt(m, group) \in Days /\ Last(LastAt(m, group))
  <2>. HIDE DEF Last
  <2>. QED BY <1>2, <1>3
<1>5. LastAt(m, group) \in Nat /\ \A p \in PhotosOf(m) : SeenAt(p) \in Nat
  BY <1>1, <1>4, NumbersType, SeenType
<1>. QED BY <1>4, <1>5, NumbersType DEF FollowUp, Due

LEMMA NearbyHitType ==
  ASSUME StockOK, NEW here \in Spots
  PROVE  /\ NearbyHits(here) \subseteq SightingIds /\ IsFiniteSet(NearbyHits(here))
         /\ \A s \in NearbyHits(here) : sightingRow[s] # NoRow /\ FarFrom(here, s) \in Nat
<1>1. ASSUME NEW s \in NearbyHits(here)
      PROVE  s \in SightingIds /\ sightingRow[s] # NoRow /\ Of[s] \in PhotosNear(here)
  BY DEF NearbyHits, Sightings
<1>2. ASSUME NEW s \in NearbyHits(here) PROVE FarFrom(here, s) \in Nat
  <2>1. photoRow[Of[s]] \in PhotoRow /\ photoRow[Of[s]].spot # NoSpot
    BY <1>1 DEF PhotosNear, Photos, StockOK
  <2>2. photoRow[Of[s]].spot \in Nat /\ here \in Nat
    BY <2>1, NumbersType DEF PhotoRow
  <2>. QED BY <2>2 DEF FarFrom, Distance
<1>. QED BY <1>1, <1>2, PhotosOfFinite

\* A group, and the place that it is shown as.
GroupOf(here, s) == {t \in NearbyHits(here) : SamePlace(s, t)}
Nearest(here, g) == CHOOSE s \in g : \A t \in g : FarFrom(here, s) <= FarFrom(here, t)
PlaceOf(here, g) ==
  [motif |-> sightingRow[Nearest(here, g)].motif, sighting |-> Nearest(here, g),
   distance |-> FarFrom(here, Nearest(here, g)), count |-> Cardinality(g),
   followUp |-> FollowUp(sightingRow[Nearest(here, g)].motif, g)]

LEMMA PlacesAre ==
  ASSUME NEW here
  PROVE  PlacesNear(here) = {PlaceOf(here, GroupOf(here, s)) : s \in NearbyHits(here)}
BY DEF PlacesNear, PlaceOf, GroupOf, Nearest

LEMMA NearestIs ==
  ASSUME StockOK, NEW here \in Spots, NEW s \in NearbyHits(here)
  PROVE  /\ Nearest(here, GroupOf(here, s)) \in GroupOf(here, s)
         /\ \A t \in GroupOf(here, s) :
              FarFrom(here, Nearest(here, GroupOf(here, s))) <= FarFrom(here, t)
<1>. DEFINE g == GroupOf(here, s)
            N == {FarFrom(here, t) : t \in g}
<1>1. s \in g /\ g \subseteq NearbyHits(here)
  BY DEF GroupOf, SamePlace
<1>2. \A t \in g : FarFrom(here, t) \in Nat
  BY <1>1, NearbyHitType
<1>. HIDE DEF g
<1>3. N \in SUBSET Nat /\ N # {}
  BY <1>1, <1>2
<1>4. PICK n \in N : \A j \in N : n <= j
  <2>. HIDE DEF N
  <2>. QED BY <1>3, LeastExists
<1>5. PICK t \in g : n = FarFrom(here, t)
  OBVIOUS
<1>6. \A u \in g : FarFrom(here, t) <= FarFrom(here, u)
  BY <1>4, <1>5
<1>7. Nearest(here, g) \in g /\ \A u \in g : FarFrom(here, Nearest(here, g)) <= FarFrom(here, u)
  BY <1>6 DEF Nearest
<1>. QED BY <1>7 DEF g

LEMMA PlaceType ==
  ASSUME StockOK, NEW here \in Spots, NEW s \in NearbyHits(here)
  PROVE  LET a == PlaceOf(here, GroupOf(here, s))
         IN  /\ a.sighting \in SightingIds /\ a.sighting \in Nat /\ a.distance \in Nat
             /\ a.followUp \in BOOLEAN /\ SamePlace(s, a.sighting) /\ SamePlace(a.sighting, s)
             /\ a.distance <= FarFrom(here, s)
             /\ a.motif = sightingRow[s].motif
             /\ a.followUp <=> a.motif # NoMotif /\ Due(a.motif)
<1>. DEFINE g == GroupOf(here, s)
            n == Nearest(here, g)
<1>1. n \in NearbyHits(here) /\ SamePlace(s, n) /\ s \in g
  BY NearestIs DEF GroupOf, SamePlace
<1>2. FarFrom(here, n) <= FarFrom(here, s)
  BY <1>1, NearestIs
<1>3. n \in SightingIds /\ n \in Nat /\ sightingRow[n] # NoRow /\ FarFrom(here, n) \in Nat
  BY <1>1, NearbyHitType, NumbersType
<1>. HIDE DEF g, n
<1>4. SamePlace(n, s) /\ sightingRow[n].motif = sightingRow[s].motif
  BY <1>1 DEF SamePlace
<1>5. FollowUp(sightingRow[n].motif, g)
        <=> sightingRow[n].motif # NoMotif /\ Due(sightingRow[n].motif)
  <2>1. CASE sightingRow[n].motif = NoMotif
    BY <2>1 DEF FollowUp
  <2>2. CASE sightingRow[n].motif # NoMotif
    <3>1. Of[n] \in PhotosOf(sightingRow[n].motif)
      BY <1>3 DEF PhotosOf
    <3>. QED BY <2>2, <3>1, FollowUpIsDue
  <2>. QED BY <2>1, <2>2
<1>6. FollowUp(sightingRow[n].motif, g) \in BOOLEAN
  BY DEF FollowUp
<1>. DEFINE a == PlaceOf(here, g)
<1>7. a.sighting = n /\ a.distance = FarFrom(here, n) /\ a.motif = sightingRow[n].motif
      /\ a.followUp = FollowUp(sightingRow[n].motif, g)
  BY DEF PlaceOf, n
<1>. HIDE DEF a
<1>8. /\ a.sighting \in SightingIds /\ a.sighting \in Nat /\ a.distance \in Nat
      /\ a.followUp \in BOOLEAN /\ SamePlace(s, a.sighting) /\ SamePlace(a.sighting, s)
      /\ a.distance <= FarFrom(here, s)
      /\ a.motif = sightingRow[s].motif
      /\ a.followUp <=> a.motif # NoMotif /\ Due(a.motif)
  BY <1>1, <1>2, <1>3, <1>4, <1>5, <1>6, <1>7
<1>. QED BY <1>8 DEF a, g

\* What is left out does not come before what is shown.
LEMMA ShownFirst ==
  ASSUME StockOK, NEW here \in Spots, NEW a \in GroupNearby(here),
         NEW b \in PlacesNear(here) \ GroupNearby(here)
  PROVE  ~nearbyLess(b, a)
<1>. DEFINE P == PlacesNear(here)
            less(x) == {y \in P : nearbyLess(y, x)}
<1>1. SUFFICES ASSUME nearbyLess(b, a) PROVE FALSE
  OBVIOUS
<1>2. \A x \in P : x.sighting \in Nat /\ x.distance \in Nat /\ x.followUp \in BOOLEAN
  BY PlacesAre, PlaceType
<1>3. IsFiniteSet(P)
  <2>. DEFINE f == [s \in NearbyHits(here) |-> PlaceOf(here, GroupOf(here, s))]
  <2>1. f \in Surjection(NearbyHits(here), P)
    BY PlacesAre DEF Surjection
  <2>. QED BY <2>1, NearbyHitType, FS_Surjection
<1>4. a \in P /\ b \in P /\ Cardinality(less(a)) < PlacesMax /\ ~(Cardinality(less(b)) < PlacesMax)
  BY DEF GroupNearby
<1>5. \A x \in P : nearbyLess(x, b) => nearbyLess(x, a)
  BY <1>1, <1>2, <1>4 DEF nearbyLess
<1>6. less(b) \in SUBSET less(a)
  BY <1>5
<1>. HIDE DEF P
<1>7. Cardinality(less(b)) <= Cardinality(less(a)) /\ Cardinality(less(a)) \in Nat
      /\ Cardinality(less(b)) \in Nat
  BY <1>3, <1>6, FS_Subset, FS_CardinalityType
<1>. QED BY <1>4, <1>7, NumbersType

LEMMA NearbyInStock == ASSUME StockOK PROVE NearbyDue
<1>1. SUFFICES ASSUME NEW here \in Spots
               PROVE  LET shown == GroupNearby(here)
                      IN  /\ \A a \in shown : a.followUp <=> a.motif # NoMotif /\ Due(a.motif)
                          /\ \A s \in NearbyHits(here) :
                               \/ \E a \in shown : SamePlace(a.sighting, s) /\ a.distance <= FarFrom(here, s)
                               \/ \A a \in shown :
                                    LET m == sightingRow[s].motif
                                        due == m # NoMotif /\ Due(m)
                                    IN  /\ due => a.followUp
                                        /\ due = a.followUp => a.distance <= FarFrom(here, s)
  BY DEF NearbyDue
<1>2. ASSUME NEW a \in GroupNearby(here)
      PROVE  /\ a.followUp <=> a.motif # NoMotif /\ Due(a.motif)
             /\ a.followUp \in BOOLEAN /\ a.distance \in Nat
  BY PlacesAre, PlaceType DEF GroupNearby
<1>3. ASSUME NEW s \in NearbyHits(here), NEW a \in GroupNearby(here),
             ~ \E x \in GroupNearby(here) : SamePlace(x.sighting, s) /\ x.distance <= FarFrom(here, s)
      PROVE  LET m == sightingRow[s].motif
                 due == m # NoMotif /\ Due(m)
             IN  /\ due => a.followUp
                 /\ due = a.followUp => a.distance <= FarFrom(here, s)
  <2>. DEFINE b == PlaceOf(here, GroupOf(here, s))
              due == sightingRow[s].motif # NoMotif /\ Due(sightingRow[s].motif)
  <2>1. /\ b.sighting \in Nat /\ b.distance \in Nat /\ b.followUp \in BOOLEAN
        /\ SamePlace(b.sighting, s) /\ b.distance <= FarFrom(here, s)
        /\ b.followUp <=> due
    BY PlaceType
  <2>2. b \in PlacesNear(here)
    BY PlacesAre
  <2>. HIDE DEF b
  <2>3. b \notin GroupNearby(here)
    BY <1>3, <2>1
  <2>4. ~nearbyLess(b, a)
    BY <2>2, <2>3, ShownFirst
  <2>5. due \in BOOLEAN /\ FarFrom(here, s) \in Nat
    BY NearbyHitType
  <2>. HIDE DEF due
  <2>6. /\ due => a.followUp
        /\ due = a.followUp => a.distance <= FarFrom(here, s)
    BY <1>2, <2>1, <2>4, <2>5 DEF nearbyLess
  <2>. QED BY <2>6 DEF due
<1>. QED BY <1>2, <1>3

\* Nearby, a motif is marked for a new photo exactly where no photo of it is recent,
\* and what is left out comes after what is shown, whatever the stock holds.
THEOREM NearbyIsDue == SearchSpec => []NearbyDue
BY SearchInvariance, NearbyInStock, PTL DEF SearchIInv, SearchTypeOK
================================================================================
