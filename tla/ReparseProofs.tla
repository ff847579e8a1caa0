---------------------------- MODULE ReparseProofs ----------------------------
(***************************************************************************)
(* What a configuration becomes after the rule-set files: the schema       *)
(* accepts its own output unchanged, and the router built from it takes    *)
(* for every request the rule the file asks for.                           *)
(***************************************************************************)
EXTENDS ReloadProofs

-----------------------------------------------------------------------------
(* Parsing a second time. What a reader converts (trimmed texts, lists of  *)
(* them, ports, maps with keys in lower case) it accepts, and leaves as it *)
(* is.                                                                     *)

\* A bound on the depth of a value.
LEMMA Shallower ==
  ASSUME NEW x
  PROVE  /\ Value2(x) => Value1(x)
         /\ Value3(x) => Value2(x)
         /\ Value4(x) => Value3(x)
         /\ Value5(x) => Value4(x)
         /\ Value6(x) => Value5(x)
         /\ Parsed(x) => Value6(x)
<1>1. \A y : Value2(y) => Value1(y)
  BY Zenon DEF Value2, Value1, IsValue, IsMap, Anything
<1>2. \A y : Value3(y) => Value2(y)
  <2> HIDE DEF Value1
  <2> QED BY <1>1, ZenonT(60) DEF Value3, Value2, IsValue, IsMap
<1>3. \A y : Value4(y) => Value3(y)
  BY <1>2, ZenonT(60) DEF Value4, Value3, IsValue, IsMap
<1>4. \A y : Value5(y) => Value4(y)
  BY <1>3, ZenonT(60) DEF Value5, Value4, IsValue, IsMap
<1>5. \A y : Value6(y) => Value5(y)
  BY <1>4, ZenonT(60) DEF Value6, Value5, IsValue, IsMap
<1>6. \A y : Parsed(y) => Value6(y)
  BY <1>5, ZenonT(60) DEF Parsed, Value6, IsValue, IsMap
<1> QED BY <1>1, <1>2, <1>3, <1>4, <1>5, <1>6

\* A field whose value is shallow enough to be a map, or a list of texts.
Fit(k, g) == g = Undef \/ IF k \in MapKeys /\ isRecord(g) THEN IsMap(g, Value2) ELSE Value2(g)

\* A record of such fields.
Fitting(x) == isRecord(x) => \A k : Fit(k, Get(x.o, k))

\* The records that are read have them.
LEMMA FieldsFit ==
  ASSUME NEW x, Value3(x)
  PROVE  Fitting(x)
<1> SUFFICES ASSUME isRecord(x), NEW k PROVE Fit(k, Get(x.o, k))
  BY DEF Fitting
<1>1. CASE k \notin DOMAIN x.o
  BY <1>1 DEF Get, Fit
<1>2. CASE k \in DOMAIN x.o
  <2>1. IF k \in MapKeys /\ isRecord(x.o[k]) THEN IsMap(x.o[k], Value2) ELSE Value2(x.o[k])
    BY <1>2, Zenon DEF Value3, IsValue, isRecord
  <2> HIDE DEF Value2, IsMap
  <2>2. Get(x.o, k) = x.o[k]
    BY <1>2 DEF Get
  <2> QED BY <2>1, <2>2, Zenon DEF Fit
<1> QED BY <1>1, <1>2

\* A text, and nothing else.
ProperText(y) == y = [t |-> "str", s |-> y.s] /\ y.s \in Words

\* A text of a document is one.
LEMMA TextIsProper ==
  ASSUME NEW y, Value1(y), IsText(y)
  PROVE  ProperText(y)
BY DEF Value1, IsValue, IsScalar, IsText, ProperText

\* A trimmed text is trimmed for good.
LEMMA TrimmedText ==
  ASSUME NEW y, ProperText(y)
  PROVE  /\ ProperText(TrimItem(y)) /\ TrimItem(y).s = Trim(y.s)
         /\ TrimItem(TrimItem(y)) = TrimItem(y)
         /\ Trim(Trim(y.s)) = Trim(y.s)
         /\ IsText(TrimItem(y)) <=> IsText(y)
<1>1. y.s \in Words /\ y = [t |-> "str", s |-> y.s]
  BY DEF ProperText
<1>2. /\ Trim(y.s) \in Words /\ Trim(y.s).w = y.s.w
      /\ Trim(Trim(y.s)) = Trim(y.s)
  BY <1>1, Zenon DEF Words, Trim
<1>3. TrimItem(y) = [t |-> "str", s |-> Trim(y.s)]
  BY <1>1 DEF TrimItem
<1>4. TrimItem(y).s = Trim(y.s) /\ TrimItem(y).t = "str" /\ y.t = "str"
  BY <1>1, <1>3
<1>5. ProperText(TrimItem(y))
  BY <1>2, <1>3, <1>4 DEF ProperText
<1>6. TrimItem(TrimItem(y)) = [t |-> "str", s |-> Trim(Trim(y.s))]
  <2>1. \A z, w : z = [t |-> "str", s |-> w] => TrimItem(z) = [t |-> "str", s |-> Trim(w)]
    BY DEF TrimItem
  <2> QED BY <1>3, <2>1
<1>7. Blank(Trim(y.s)) <=> Blank(y.s)
  BY <1>2, Zenon DEF Blank
<1>8. IsText(TrimItem(y)) <=> IsText(y)
  BY <1>4, <1>7 DEF IsText
<1> QED BY <1>2, <1>3, <1>4, <1>5, <1>6, <1>8

\* A list of texts.
ProperTexts(g) ==
  /\ g = Arr(g.a) /\ IsSequence(g.a)
  /\ \A i \in 1 .. Len(g.a) : ProperText(g.a[i]) /\ IsText(g.a[i])

\* A list of a document that has only texts is one.
LEMMA TextsAreProper ==
  ASSUME NEW g, Value2(g), g.t = "arr", AllTexts(g.a)
  PROVE  ProperTexts(g)
<1>1. g = Arr(g.a) /\ IsSequence(g.a) /\ \A y \in ToSet(g.a) : Value1(y)
  BY DEF Value2, IsValue
<1>2. DOMAIN g.a = 1 .. Len(g.a) /\ \A i \in 1 .. Len(g.a) : g.a[i] \in ToSet(g.a)
  BY <1>1, SequenceHas
<1>3. ASSUME NEW i \in 1 .. Len(g.a) PROVE ProperText(g.a[i]) /\ IsText(g.a[i])
  <2>1. IsText(g.a[i]) /\ Value1(g.a[i])
    BY <1>1, <1>2 DEF AllTexts
  <2> QED BY <2>1, TextIsProper
<1> QED BY <1>1, <1>3 DEF ProperTexts

\* Trimming a list of texts a second time changes nothing.
LEMMA TrimmedTwice ==
  ASSUME NEW g, ProperTexts(g)
  PROVE  LET v == TrimItems(g)
         IN  /\ ProperTexts(v) /\ v.t = "arr" /\ AllTexts(v.a) /\ TrimItems(v) = v
             /\ Len(v.a) = Len(g.a) /\ (v.a = <<>> => g.a = <<>>)
             /\ TrimmedTexts(v.a) = TrimmedTexts(g.a)
             /\ \A i \in 1 .. Len(g.a) : v.a[i] = TrimItem(g.a[i])
<1> DEFINE a == [i \in 1 .. Len(g.a) |-> TrimItem(g.a[i])]
           v == TrimItems(g)
<1>1. /\ g = Arr(g.a) /\ IsSequence(g.a) /\ Len(g.a) \in Nat /\ DOMAIN g.a = 1 .. Len(g.a)
      /\ \A i \in 1 .. Len(g.a) : ProperText(g.a[i]) /\ IsText(g.a[i])
  BY SequenceHas DEF ProperTexts
<1>2. Proper(g) /\ g.t = "arr"
  BY <1>1, ProperList, ArrIs
<1>3. v = Arr(a)
  BY <1>1, <1>2, Trimmed
<1>4. v.a = a /\ v.t = "arr"
  BY <1>3, ArrIs
<1>5. \A i \in 1 .. Len(g.a) :
         /\ ProperText(a[i]) /\ IsText(a[i]) /\ TrimItem(a[i]) = a[i]
         /\ Trim(a[i].s) = Trim(g.a[i].s)
  <2>1. ASSUME NEW i \in 1 .. Len(g.a)
        PROVE  /\ ProperText(a[i]) /\ IsText(a[i]) /\ TrimItem(a[i]) = a[i]
               /\ Trim(a[i].s) = Trim(g.a[i].s)
    <3>1. a[i] = TrimItem(g.a[i]) /\ ProperText(g.a[i]) /\ IsText(g.a[i])
      BY <1>1
    <3> HIDE DEF a
    <3> QED BY <3>1, TrimmedText
  <2> QED BY <2>1
<1>6. a = [i \in 1 .. Len(g.a) |-> a[i]] /\ DOMAIN a = 1 .. Len(g.a)
  OBVIOUS
<1>7. \A i \in 1 .. Len(g.a) : a[i] = TrimItem(g.a[i])
  OBVIOUS
<1> HIDE DEF a, v
<1>8. IsSequence(a) /\ Len(a) = Len(g.a)
  BY <1>1, <1>6, MappedSequence
<1>9. ProperTexts(v) /\ AllTexts(v.a)
  BY <1>3, <1>4, <1>5, <1>6, <1>8, Zenon DEF ProperTexts, AllTexts
<1>10. TrimItems(v) = v
  <2>1. Proper(v)
    BY <1>4, <1>3, <1>8, ProperList
  <2>2. TrimItems(v) = Arr([i \in DOMAIN v.a |-> TrimItem(v.a[i])])
    BY <1>4, <2>1, Trimmed
  <2>3. [i \in DOMAIN a |-> TrimItem(a[i])] = a
    BY <1>5, <1>6
  <2> QED BY <1>3, <1>4, <2>2, <2>3
<1>11. TrimmedTexts(v.a) = TrimmedTexts(g.a)
  BY <1>1, <1>4, <1>5, <1>6, Zenon DEF TrimmedTexts
<1>12. v.a = <<>> => g.a = <<>>
  <2> SUFFICES ASSUME v.a = <<>> PROVE g.a = <<>>
    OBVIOUS
  <2>1. Len(g.a) = 0
    BY <1>4, <1>8, EmptyIsSequence
  <2>2. 1 .. Len(g.a) = {} /\ 1 .. Len(<<>>) = {}
    BY <2>1, EmptyIsSequence
  <2> QED BY <1>1, <2>1, <2>2, EmptyIsSequence, SameLists
<1> QED BY <1>4, <1>7, <1>8, <1>9, <1>10, <1>11, <1>12 DEF v

\* The value of an entry of a map, trimmed.
TrimVal(x) == IF x.t = "arr" THEN TrimItems(x) ELSE TrimItem(x)
\* The entry, its key in lower case.
LowerEntry(e) == [key |-> Lower(e.key), val |-> TrimVal(e.val)]
\* The places of the entries that no later one overrides.
LastOnes(es) == Those([i \in DOMAIN es |-> i], {i \in DOMAIN es : LastOfKey(es, i)})
\* Those entries.
Chosen(es) == [n \in DOMAIN LastOnes(es) |-> es[LastOnes(es)[n]]]

\* What LowerKeys computes.
LEMMA LowerKeysAre ==
  ASSUME NEW es
  PROVE  LowerKeys(es) = Obj(Chosen([i \in DOMAIN es |-> LowerEntry(es[i])]))
BY Zenon DEF LowerKeys, Chosen, LastOnes, LowerEntry, TrimVal

\* An entry with a text or a list of texts.
ProperEntry(e) ==
  /\ e = [key |-> e.key, val |-> e.val] /\ e.key \in Words
  /\ (ProperText(e.val) /\ IsText(e.val)) \/ ProperTexts(e.val)

\* An entry in lower case is so for good.
LEMMA LoweredEntry ==
  ASSUME NEW e, ProperEntry(e)
  PROVE  /\ ProperEntry(LowerEntry(e)) /\ LowerEntry(LowerEntry(e)) = LowerEntry(e)
         /\ LowerEntry(e).val.t = e.val.t
<1>1. /\ e.key \in Words
      /\ (ProperText(e.val) /\ IsText(e.val)) \/ ProperTexts(e.val)
  BY DEF ProperEntry
<1>2. Lower(e.key) \in Words /\ Lower(Lower(e.key)) = Lower(e.key)
  BY <1>1, Zenon DEF Words, Lower
<1> DEFINE x == e.val
           v == TrimVal(e.val)
<1>3. CASE ProperTexts(x)
  <2>1. x.t = "arr"
    BY <1>3, ArrIs DEF ProperTexts
  <2>2. v = TrimItems(x)
    BY <2>1 DEF TrimVal
  <2>3. ProperTexts(v) /\ v.t = "arr" /\ TrimItems(v) = v
    BY <1>3, <2>2, TrimmedTwice
  <2> HIDE DEF v
  <2>4. TrimVal(v) = v
    BY <2>3 DEF TrimVal
  <2> HIDE DEF x
  <2>5. ProperTexts(v) /\ TrimVal(v) = v /\ v.t = x.t
    BY <2>1, <2>3, <2>4
  <2>6. LowerEntry(e) = [key |-> Lower(e.key), val |-> v]
    BY DEF v, x, LowerEntry
  <2>7. LowerEntry(e).key = Lower(e.key) /\ LowerEntry(e).val = v
    BY <2>6
  <2>8. LowerEntry(LowerEntry(e)) = [key |-> Lower(Lower(e.key)), val |-> TrimVal(v)]
    BY <2>7 DEF LowerEntry
  <2> QED BY <1>2, <2>5, <2>6, <2>7, <2>8 DEF ProperEntry, x
<1>4. CASE ProperText(x) /\ IsText(x)
  <2>1. x.t = "str"
    BY <1>4 DEF ProperText
  <2>2. v = TrimItem(x)
    BY <2>1 DEF TrimVal
  <2>3. ProperText(v) /\ IsText(v) /\ TrimItem(v) = v
    BY <1>4, <2>2, TrimmedText
  <2> HIDE DEF v
  <2>9. v.t = "str"
    BY <2>3 DEF ProperText
  <2>4. TrimVal(v) = v
    BY <2>3, <2>9 DEF TrimVal
  <2> HIDE DEF x
  <2>5. ProperText(v) /\ IsText(v) /\ TrimVal(v) = v /\ v.t = x.t
    BY <2>1, <2>3, <2>4, <2>9
  <2>6. LowerEntry(e) = [key |-> Lower(e.key), val |-> v]
    BY DEF v, x, LowerEntry
  <2>7. LowerEntry(e).key = Lower(e.key) /\ LowerEntry(e).val = v
    BY <2>6
  <2>8. LowerEntry(LowerEntry(e)) = [key |-> Lower(Lower(e.key)), val |-> TrimVal(v)]
    BY <2>7 DEF LowerEntry
  <2> QED BY <1>2, <2>5, <2>6, <2>7, <2>8 DEF ProperEntry, x
<1> QED BY <1>1, <1>3, <1>4

\* The places of a list.
LEMMA Numbered ==
  ASSUME NEW es, IsSequence(es)
  PROVE  LET ix == [i \in DOMAIN es |-> i]
         IN  IsSequence(ix) /\ ToSet(ix) = 1 .. Len(es) /\ IsInjective(ix)
<1> DEFINE ix == [i \in DOMAIN es |-> i]
<1>1. Len(es) \in Nat /\ DOMAIN es = 1 .. Len(es)
  BY SequenceHas
<1>2. ix = [i \in 1 .. Len(es) |-> i]
  BY <1>1
<1>3. ix = [i \in 1 .. Len(es) |-> ix[i]]
  BY <1>2
<1>4. IsInjective(ix)
  BY <1>1 DEF IsInjective
<1>5. ToSet(ix) = 1 .. Len(es)
  BY <1>2 DEF ToSet
<1>6. IsSequence(ix)
  <2> HIDE DEF ix
  <2> QED BY <1>1, <1>3, MappedSequence
<1> QED BY <1>4, <1>5, <1>6

\* No two entries that are left have the same key, and then all of them are left.
LEMMA ChosenAre ==
  ASSUME NEW es, IsSequence(es)
  PROVE  /\ IsSequence(Chosen(es))
         /\ \A i \in 1 .. Len(Chosen(es)) : \E j \in 1 .. Len(es) : Chosen(es)[i] = es[j]
         /\ \A i, j \in 1 .. Len(Chosen(es)) : Chosen(es)[i].key = Chosen(es)[j].key => i = j
         /\ (\A i, j \in 1 .. Len(es) : es[i].key = es[j].key => i = j) => Chosen(es) = es
<1> DEFINE ix == [i \in DOMAIN es |-> i]
           W == {i \in DOMAIN es : LastOfKey(es, i)}
           l == LastOnes(es)
           c == Chosen(es)
<1>1. Len(es) \in Nat /\ DOMAIN es = 1 .. Len(es)
  BY SequenceHas
<1>2. IsSequence(ix) /\ ToSet(ix) = 1 .. Len(es) /\ IsInjective(ix)
  BY Numbered
<1>3. l = Those(ix, W)
  BY DEF LastOnes
<1> HIDE DEF ix
<1>4. /\ IsSequence(l) /\ ToSet(l) = (1 .. Len(es)) \cap W /\ IsInjective(l)
      /\ 1 .. Len(es) \subseteq W => l = ix
  <2> HIDE DEF l, W
  <2> QED BY <1>2, <1>3, Filtered
<1>5. c = [n \in DOMAIN l |-> es[l[n]]]
  BY DEF Chosen
<1>6. \A i \in W : i \in 1 .. Len(es) /\ \A j \in 1 .. Len(es) : es[j].key = es[i].key => j <= i
  BY <1>1 DEF LastOfKey
<1> HIDE DEF W, l, c
<1>7. Len(l) \in Nat /\ DOMAIN l = 1 .. Len(l) /\ \A i \in 1 .. Len(l) : l[i] \in ToSet(l)
  BY <1>4, SequenceHas
<1>8. c = [n \in 1 .. Len(l) |-> c[n]] /\ \A n \in 1 .. Len(l) : c[n] = es[l[n]]
  BY <1>5, <1>7
<1>9. IsSequence(c) /\ Len(c) = Len(l)
  BY <1>7, <1>8, MappedSequence
<1>10. \A i \in 1 .. Len(c) : l[i] \in 1 .. Len(es) /\ l[i] \in W /\ c[i] = es[l[i]]
  BY <1>4, <1>7, <1>8, <1>9
<1>11. ASSUME NEW i \in 1 .. Len(c), NEW j \in 1 .. Len(c), c[i].key = c[j].key PROVE i = j
  <2>1. l[i] <= l[j] /\ l[j] <= l[i]
    BY <1>6, <1>10, <1>11
  <2>2. l[i] = l[j]
    BY <1>1, <1>10, <2>1
  <2>3. i \in DOMAIN l /\ j \in DOMAIN l
    BY <1>7, <1>9
  <2> QED BY <1>4, <2>2, <2>3 DEF IsInjective
<1>12. ASSUME \A i, j \in 1 .. Len(es) : es[i].key = es[j].key => i = j PROVE c = es
  <2>1. 1 .. Len(es) \subseteq W
    BY <1>1, <1>12 DEF W, LastOfKey
  <2>2. l = ix
    BY <1>4, <2>1
  <2>3. c = [n \in DOMAIN es |-> es[n]]
    BY <1>5, <2>2 DEF ix
  <2>4. es = [n \in 1 .. Len(es) |-> es[n]]
    BY SequenceHas
  <2> QED BY <1>1, <2>3, <2>4
<1> QED BY <1>9, <1>10, <1>11, <1>12 DEF c

\* A map of such entries.
ProperEntries(x) ==
  /\ x = Obj(x.o) /\ IsSequence(x.o)
  /\ \A i \in 1 .. Len(x.o) : ProperEntry(x.o[i])

\* Lowering the keys of a map a second time changes nothing.
LEMMA LoweredTwice ==
  ASSUME NEW x, ProperEntries(x)
  PROVE  LET v == LowerKeys(x.o)
         IN  /\ ProperEntries(v) /\ v.t = "obj" /\ LowerKeys(v.o) = v
             /\ \A i \in 1 .. Len(v.o) : \E j \in 1 .. Len(x.o) : v.o[i] = LowerEntry(x.o[j])
<1> DEFINE es == [i \in DOMAIN x.o |-> LowerEntry(x.o[i])]
           c == Chosen(es)
           v == LowerKeys(x.o)
           again == [i \in DOMAIN c |-> LowerEntry(c[i])]
<1>1. /\ Len(x.o) \in Nat /\ DOMAIN x.o = 1 .. Len(x.o)
      /\ \A i \in 1 .. Len(x.o) : ProperEntry(x.o[i])
  BY SequenceHas DEF ProperEntries
<1>2. es = [i \in 1 .. Len(x.o) |-> es[i]] /\ \A i \in 1 .. Len(x.o) : es[i] = LowerEntry(x.o[i])
  BY <1>1
<1>3. v = Obj(c)
  BY LowerKeysAre
<1> HIDE DEF v, es
<1>4. IsSequence(es) /\ Len(es) = Len(x.o)
  BY <1>1, <1>2, MappedSequence
<1>5. /\ IsSequence(c)
      /\ \A i \in 1 .. Len(c) : \E j \in 1 .. Len(es) : c[i] = es[j]
      /\ \A i, j \in 1 .. Len(c) : c[i].key = c[j].key => i = j
  BY <1>4, ChosenAre
<1> HIDE DEF c
<1>6. \A i \in 1 .. Len(c) : \E j \in 1 .. Len(x.o) : c[i] = LowerEntry(x.o[j])
  BY <1>2, <1>4, <1>5, Zenon
<1>7. \A i \in 1 .. Len(c) : ProperEntry(c[i]) /\ LowerEntry(c[i]) = c[i]
  BY <1>1, <1>6, LoweredEntry
<1>8. v.o = c /\ v.t = "obj"
  BY <1>3, ObjIs
<1>9. ProperEntries(v)
  BY <1>3, <1>5, <1>7, <1>8 DEF ProperEntries
<1>10. again = c
  <2>1. c = [i \in 1 .. Len(c) |-> c[i]] /\ DOMAIN c = 1 .. Len(c)
    BY <1>5, SequenceHas
  <2> QED BY <1>7, <2>1
<1>11. LowerKeys(v.o) = v
  <2>1. LowerKeys(c) = Obj(Chosen(again))
    BY LowerKeysAre
  <2> HIDE DEF again
  <2>2. Chosen(c) = c
    BY <1>5, ChosenAre
  <2> QED BY <1>3, <1>8, <1>10, <2>1, <2>2
<1> QED BY <1>6, <1>8, <1>9, <1>11 DEF v

\* What the list of component names may be.
LEMMA AcceptsParts ==
  ASSUME NEW f, f.kind = "parts", NEW x
  PROVE  Accepts(f, x) <=> /\ x.t = "arr" /\ AllTexts(x.a)
                           /\ IsInjective(TrimmedTexts(x.a))
                           /\ ToSet(TrimmedTexts(x.a)) \subseteq WordsOf(f.words)
BY DEF Accepts

\* What ports may be.
LEMMA AcceptsPorts ==
  ASSUME NEW f, f.kind = "ports", NEW x
  PROVE  Accepts(f, x) <=> AllIntsIn(IF x.t = "arr" THEN x.a ELSE <<x>>, 1, 65535)
BY DEF Accepts

\* What a map of texts may be.
LEMMA AcceptsMap ==
  ASSUME NEW f, f.kind = "map", NEW x
  PROVE  Accepts(f, x) <=> isRecord(x) /\ AllTexts([i \in DOMAIN x.o |-> x.o[i].val])
BY DEF Accepts

\* What a map of lists may be.
LEMMA AcceptsLists ==
  ASSUME NEW f, f.kind = "lists", NEW x
  PROVE  Accepts(f, x) <=> isRecord(x) /\ \A i \in DOMAIN x.o :
                              x.o[i].val.t = "arr" /\ AllTexts(x.o[i].val.a)
BY DEF Accepts

\* What each kind of field makes of its value.
LEMMA ConvertedIs ==
  ASSUME NEW f, NEW x
  PROVE  /\ f.kind \in {"texts", "some", "parts"} => Converted(f, x) = TrimItems(x)
         /\ f.kind = "ports" => Converted(f, x) = IF x.t = "arr" THEN x ELSE Arr(<<x>>)
         /\ f.kind \in {"map", "lists"} => Converted(f, x) = LowerKeys(x.o)
         /\ f.kind \notin Converting => Converted(f, x) = x
<1>1. f.kind \in {"texts", "some", "parts"} => Converted(f, x) = TrimItems(x)
  BY DEF Converted
<1>2. f.kind = "ports" => Converted(f, x) = IF x.t = "arr" THEN x ELSE Arr(<<x>>)
  BY DEF Converted
<1>3. f.kind \in {"map", "lists"} => Converted(f, x) = LowerKeys(x.o)
  BY DEF Converted
<1>4. f.kind \notin Converting => Converted(f, x) = x
  BY DEF Converted, Converting
<1> QED BY <1>1, <1>2, <1>3, <1>4

\* A list of texts that was converted is accepted and stays as it is.
LEMMA TextsAgain ==
  ASSUME NEW f, f.kind \in {"texts", "some", "parts"}, NEW k, NEW g, Fit(k, g), Accepts(f, g)
  PROVE  LET v == Converted(f, g)
         IN  ~IsUndef(v) /\ Accepts(f, v) /\ Converted(f, v) = v
<1> DEFINE v == TrimItems(g)
<1>1. g.t = "arr" /\ AllTexts(g.a)
  BY AcceptsTexts, AcceptsSome, AcceptsParts
<1>2. Value2(g)
  BY <1>1 DEF Fit, isRecord, Undef
<1>3. ProperTexts(g)
  BY <1>1, <1>2, TextsAreProper
<1>4. /\ v.t = "arr" /\ AllTexts(v.a) /\ TrimItems(v) = v /\ (v.a = <<>> => g.a = <<>>)
      /\ TrimmedTexts(v.a) = TrimmedTexts(g.a)
  BY <1>3, TrimmedTwice
<1> HIDE DEF v
<1>5. Accepts(f, v)
  BY <1>4, AcceptsTexts, AcceptsSome, AcceptsParts, Zenon
<1>6. Converted(f, g) = v /\ Converted(f, v) = v
  BY <1>4, ConvertedIs, Zenon DEF v
<1> QED BY <1>4, <1>5, <1>6 DEF IsUndef

\* So are ports.
LEMMA PortsAgain ==
  ASSUME NEW f, f.kind = "ports", NEW g, ~IsUndef(g), Accepts(f, g)
  PROVE  LET v == Converted(f, g)
         IN  ~IsUndef(v) /\ Accepts(f, v) /\ Converted(f, v) = v
<1>1. CASE g.t = "arr"
  <2>1. Converted(f, g) = g
    BY <1>1, ConvertedIs, Zenon
  <2> QED BY <2>1
<1>2. CASE g.t # "arr"
  <2> DEFINE v == Arr(<<g>>)
  <2>1. Converted(f, g) = v
    BY <1>2, ConvertedIs
  <2>2. v.t = "arr" /\ v.a = <<g>>
    BY ArrIs
  <2> HIDE DEF v
  <2>3. Converted(f, v) = v
    BY <2>2, ConvertedIs, Zenon
  <2>4. AllIntsIn(<<g>>, 1, 65535)
    BY <1>2, AcceptsPorts
  <2>5. Accepts(f, v) <=> AllIntsIn(IF v.t = "arr" THEN v.a ELSE <<v>>, 1, 65535)
    BY AcceptsPorts
  <2> QED BY <2>1, <2>2, <2>3, <2>4, <2>5 DEF IsUndef
<1> QED BY <1>1, <1>2

\* The entries of a map that is accepted.
LEMMA EntriesAreProper ==
  ASSUME NEW g, IsMap(g, Value2),
         \A i \in DOMAIN g.o : \/ IsText(g.o[i].val)
                               \/ g.o[i].val.t = "arr" /\ AllTexts(g.o[i].val.a)
  PROVE  ProperEntries(g)
<1>1. /\ g = Obj(g.o) /\ IsSequence(g.o)
      /\ \A e \in ToSet(g.o) : e = [key |-> e.key, val |-> e.val] /\ e.key \in Words /\ Value2(e.val)
  BY DEF IsMap
<1>2. DOMAIN g.o = 1 .. Len(g.o) /\ \A i \in 1 .. Len(g.o) : g.o[i] \in ToSet(g.o)
  BY <1>1, SequenceHas
<1>3. ASSUME NEW i \in 1 .. Len(g.o) PROVE ProperEntry(g.o[i])
  <2> DEFINE e == g.o[i]
  <2>1. /\ e = [key |-> e.key, val |-> e.val] /\ e.key \in Words /\ Value2(e.val)
        /\ IsText(e.val) \/ (e.val.t = "arr" /\ AllTexts(e.val.a))
    <3>1. g.o[i] \in ToSet(g.o) /\ i \in DOMAIN g.o
      BY <1>2
    <3>2. IsText(e.val) \/ (e.val.t = "arr" /\ AllTexts(e.val.a))
      BY <3>1
    <3> QED BY <1>1, <3>1, <3>2
  <2> HIDE DEF e
  <2>2. IsText(e.val) => ProperText(e.val)
    BY <2>1, Shallower, TextIsProper
  <2>3. e.val.t = "arr" /\ AllTexts(e.val.a) => ProperTexts(e.val)
    BY <2>1, TextsAreProper
  <2>4. ProperEntry(e)
    BY <2>1, <2>2, <2>3 DEF ProperEntry
  <2> QED BY <2>4 DEF e
<1> QED BY <1>1, <1>3 DEF ProperEntries

\* So is a map.
LEMMA MapsAgain ==
  ASSUME NEW f, f.kind \in {"map", "lists"}, NEW k \in MapKeys, NEW g, Fit(k, g), Accepts(f, g)
  PROVE  LET v == Converted(f, g)
         IN  /\ ~IsUndef(v) /\ Accepts(f, v) /\ Converted(f, v) = v
             /\ ProperEntries(v)
<1> DEFINE v == LowerKeys(g.o)
<1>1. /\ isRecord(g)
      /\ f.kind = "map" => \A i \in DOMAIN g.o : IsText(g.o[i].val)
      /\ f.kind = "lists" => \A i \in DOMAIN g.o : g.o[i].val.t = "arr" /\ AllTexts(g.o[i].val.a)
  <2>1. ASSUME f.kind = "map" PROVE isRecord(g) /\ \A i \in DOMAIN g.o : IsText(g.o[i].val)
    <3>1. isRecord(g) /\ AllTexts([i \in DOMAIN g.o |-> g.o[i].val])
      BY <2>1, AcceptsMap
    <3> QED BY <3>1, Zenon DEF AllTexts
  <2>2. ASSUME f.kind = "lists"
        PROVE  isRecord(g) /\ \A i \in DOMAIN g.o : g.o[i].val.t = "arr" /\ AllTexts(g.o[i].val.a)
    BY <2>2, AcceptsLists
  <2> QED BY <2>1, <2>2
<1>2. IsMap(g, Value2)
  BY <1>1 DEF Fit, isRecord, Undef
<1>3. ProperEntries(g)
  <2>1. \A i \in DOMAIN g.o : \/ IsText(g.o[i].val)
                              \/ g.o[i].val.t = "arr" /\ AllTexts(g.o[i].val.a)
    BY <1>1
  <2> QED BY <1>2, <2>1, EntriesAreProper
<1>4. /\ ProperEntries(v) /\ v.t = "obj" /\ LowerKeys(v.o) = v
      /\ \A i \in 1 .. Len(v.o) : \E j \in 1 .. Len(g.o) : v.o[i] = LowerEntry(g.o[j])
  BY <1>3, LoweredTwice, Zenon
<1> HIDE DEF v
<1>5. /\ DOMAIN g.o = 1 .. Len(g.o) /\ DOMAIN v.o = 1 .. Len(v.o)
      /\ \A i \in 1 .. Len(g.o) : ProperEntry(g.o[i])
      /\ \A i \in 1 .. Len(v.o) : ProperEntry(v.o[i])
  BY <1>3, <1>4, SequenceHas DEF ProperEntries
<1>6. ASSUME NEW i \in DOMAIN v.o
      PROVE  /\ (ProperText(v.o[i].val) /\ IsText(v.o[i].val)) \/ ProperTexts(v.o[i].val)
             /\ \E j \in DOMAIN g.o : v.o[i].val.t = g.o[j].val.t
  <2>1. PICK j \in 1 .. Len(g.o) : v.o[i] = LowerEntry(g.o[j])
    BY <1>4, <1>5
  <2>2. v.o[i].val.t = g.o[j].val.t
    BY <1>5, <2>1, LoweredEntry
  <2>3. ProperEntry(v.o[i])
    BY <1>5
  <2> QED BY <1>5, <2>2, <2>3 DEF ProperEntry
<1>7. \A x : ProperTexts(x) => x.t = "arr" /\ AllTexts(x.a)
  BY ArrIs, SequenceHas DEF ProperTexts, AllTexts
<1>8. \A x : IsText(x) => x.t = "str"
  BY DEF IsText
<1>9. Accepts(f, v)
  <2>1. CASE f.kind = "map"
    <3>1. \A i \in DOMAIN v.o : IsText(v.o[i].val)
      BY <1>1, <1>6, <1>7, <1>8, <2>1
    <3>2. AllTexts([i \in DOMAIN v.o |-> v.o[i].val])
      BY <3>1 DEF AllTexts
    <3> QED BY <1>4, <2>1, <3>2, AcceptsMap DEF isRecord
  <2>2. CASE f.kind = "lists"
    <3>1. \A i \in DOMAIN v.o : v.o[i].val.t = "arr" /\ AllTexts(v.o[i].val.a)
      BY <1>1, <1>6, <1>7, <1>8, <2>2
    <3> QED BY <1>4, <2>2, <3>1, AcceptsLists DEF isRecord
  <2> QED BY <2>1, <2>2
<1>10. Converted(f, g) = v /\ Converted(f, v) = v
  BY <1>4, ConvertedIs, Zenon DEF v
<1> QED BY <1>4, <1>9, <1>10 DEF IsUndef

\* Whatever a field accepts, it accepts what it made of it, and leaves it.
LEMMA AcceptedAgain ==
  ASSUME NEW f, NEW k, NEW g, Fit(k, g), ~IsUndef(g), Accepts(f, g),
         f.kind \in {"map", "lists"} => k \in MapKeys
  PROVE  LET v == Converted(f, g)
         IN  ~IsUndef(v) /\ Accepts(f, v) /\ Converted(f, v) = v
<1>1. CASE f.kind \in {"texts", "some", "parts"}
  BY <1>1, TextsAgain
<1>2. CASE f.kind = "ports"
  BY <1>2, PortsAgain
<1>3. CASE f.kind \in {"map", "lists"}
  BY <1>3, MapsAgain
<1>4. CASE f.kind \notin Converting
  BY <1>4, ConvertedIs, Zenon
<1> QED BY <1>1, <1>2, <1>3, <1>4 DEF Converting

-----------------------------------------------------------------------------
(* Fields. A field is lasting when it takes its own default; then it       *)
(* returns what it returned, whatever document it first read. A firm field *)
(* holds objects of lasting fields.                                        *)

\* A field with one name.
NoAlias(f) == f.alias = ""
\* A value that the field takes and does not change.
Stable(f, v) == ~IsUndef(v) /\ ~IsBad(v) /\ Accepts(f, v) /\ Converted(f, v) = v

\* A field that reads its own results as they are, its default included.
Lasting(k, f) ==
  /\ f.kind \notin Nested
  /\ f.kind \in {"map", "lists"} => k \in MapKeys
  /\ NoAlias(f) \/ (f.kind \notin Converting /\ ~IsUndef(f.def))
  /\ f.def = Undef \/ Stable(f, f.def)

\* A field that reads a value as that value, whatever stands beside it.
Fixed(k, f, v) == \A o : Get(o, k) = v => ReadField(o, k, f) = v

\* Undefined is no complaint.
LEMMA UndefIs == IsUndef(Undef) /\ ~IsBad(Undef)
BY DEF IsUndef, IsBad, Undef

\* A stable value is read as it is.
LEMMA ReadAgain ==
  ASSUME NEW k, NEW f, f.kind \notin Nested, NEW v, Stable(f, v)
  PROVE  Fixed(k, f, v)
<1> SUFFICES ASSUME NEW o, Get(o, k) = v PROVE ReadLeaf(o, k, f) = v
  BY FieldRead DEF Fixed
<1>1. ~IsUndef(Get(o, k))
  BY DEF Stable
<1>2. ReadLeaf(o, k, f) = ReadValue(f, v)
  BY <1>1, Zenon DEF ReadLeaf
<1>3. ReadValue(f, v) = v
  BY DEF ReadValue, Stable
<1> QED BY <1>2, <1>3

\* So is a field that is left out, if it has no default.
LEMMA UndefAgain ==
  ASSUME NEW k, NEW f, f.kind \notin Nested, NoAlias(f), ~f.must, f.def = Undef
  PROVE  Fixed(k, f, Undef)
<1> SUFFICES ASSUME NEW o, Get(o, k) = Undef PROVE ReadLeaf(o, k, f) = Undef
  BY FieldRead DEF Fixed
<1>1. ReadLeaf(o, k, f) = ReadValue(f, Undef)
  BY Zenon DEF ReadLeaf, NoAlias
<1>2. ReadValue(f, Undef) = Undef
  BY UndefIs DEF ReadValue
<1> QED BY <1>1, <1>2

\* A field is read under its name, unless it has another.
LEMMA LeafSource ==
  ASSUME NEW o, NEW k, NEW f
  PROVE  \E s : /\ ReadLeaf(o, k, f) = ReadValue(f, Get(o, s))
                /\ s = k \/ ~NoAlias(f)
BY Zenon DEF ReadLeaf, NoAlias

\* What a lasting field returns, it returns again.
LEMMA LeafFixed ==
  ASSUME NEW x, isRecord(x), Fitting(x), NEW k, NEW f, Lasting(k, f), ~IsBad(ReadField(x.o, k, f))
  PROVE  /\ Fixed(k, f, ReadField(x.o, k, f))
         /\ f.must => ~IsUndef(ReadField(x.o, k, f))
<1> DEFINE v == ReadField(x.o, k, f)
<1>1. f.kind \notin Nested /\ v = ReadLeaf(x.o, k, f)
  BY FieldRead DEF Lasting
<1>2. PICK s : v = ReadValue(f, Get(x.o, s)) /\ (s = k \/ ~NoAlias(f))
  BY <1>1, LeafSource
<1> DEFINE g == Get(x.o, s)
<1> HIDE DEF v, g
<1>3. ~IsBad(v) /\ v = ReadValue(f, g)
  BY <1>2 DEF v, g
<1>4. CASE IsUndef(g)
  <2>1. ~f.must /\ v = f.def
    BY <1>3, <1>4, LeafRead
  <2>2. CASE f.def = Undef
    <3>1. NoAlias(f)
      BY <2>2, UndefIs DEF Lasting
    <3> QED BY <1>1, <2>1, <2>2, <3>1, UndefAgain DEF v
  <2>3. CASE Stable(f, f.def)
    BY <1>1, <2>1, <2>3, ReadAgain DEF v
  <2> QED BY <2>2, <2>3 DEF Lasting
<1>5. CASE ~IsUndef(g)
  <2>1. Accepts(f, g) /\ v = Converted(f, g)
    BY <1>3, <1>5, LeafRead
  <2>2. ~IsUndef(v) /\ Accepts(f, v) /\ Converted(f, v) = v
    <3>1. CASE f.kind \notin Converting
      BY <1>5, <2>1, <3>1, ConvertedIs, Zenon
    <3>2. CASE f.kind \in Converting
      <4>1. NoAlias(f) /\ (f.kind \in {"map", "lists"} => k \in MapKeys)
        BY <3>2 DEF Lasting
      <4>2. Fit(k, g)
        BY <1>2, <4>1 DEF Fitting, g
      <4> QED BY <1>5, <2>1, <4>1, <4>2, AcceptedAgain
    <3> QED BY <3>1, <3>2
  <2>3. Stable(f, v)
    BY <1>3, <2>2 DEF Stable
  <2> QED BY <1>1, <2>2, <2>3, ReadAgain DEF v
<1> QED BY <1>4, <1>5

\* So with its default.
LEMMA DefaultFixed ==
  ASSUME NEW k, NEW f, Lasting(k, f), ~f.must
  PROVE  Fixed(k, f, f.def) /\ ~IsBad(f.def)
<1>1. CASE f.def = Undef
  BY <1>1, UndefAgain, UndefIs DEF Lasting
<1>2. CASE Stable(f, f.def)
  BY <1>2, ReadAgain DEF Lasting, Stable
<1> QED BY <1>1, <1>2 DEF Lasting

\* A record of fixed fields is parsed into itself.
LEMMA Rebuilt ==
  ASSUME NEW x, isRecord(x), NEW T,
         \A k \in DOMAIN T : /\ Fixed(k, T[k], Get(x.o, k)) /\ ~IsBad(Get(x.o, k))
                             /\ T[k].needed => ~IsUndef(Get(x.o, k))
  PROVE  ParseNode(x, T) = Obj([k \in DOMAIN T |-> Get(x.o, k)])
<1> DEFINE r == [k \in DOMAIN T |-> ReadField(x.o, k, T[k])]
<1>1. ParseNode(x, T) = Assembled(T, r)
  BY DEF ParseNode
<1>2. \A k \in DOMAIN T : r[k] = Get(x.o, k)
  BY DEF Fixed
<1>3. r = [k \in DOMAIN T |-> Get(x.o, k)]
  BY <1>2
<1> HIDE DEF r
<1>4. /\ \A k \in DOMAIN T : ~IsBad(r[k])
      /\ \A k \in DOMAIN T : T[k].needed => ~IsUndef(r[k])
  BY <1>2
<1>5. Assembled(T, r) = Obj(r)
  BY <1>4 DEF Assembled
<1> QED BY <1>1, <1>3, <1>5

\* The same for a function.
LEMMA SameNode ==
  ASSUME NEW r, NEW T, DOMAIN r = DOMAIN T, r = [k \in DOMAIN r |-> r[k]],
         \A k \in DOMAIN T : /\ Fixed(k, T[k], r[k]) /\ ~IsBad(r[k])
                             /\ T[k].needed => ~IsUndef(r[k])
  PROVE  ParseNode(Obj(r), T) = Obj(r)
<1>1. \A k \in DOMAIN T : Get(r, k) = r[k]
  BY DEF Get
<1> DEFINE x == Obj(r)
<1>2. x.o = r /\ isRecord(x)
  BY ObjIs DEF isRecord
<1> HIDE DEF x
<1>3. \A k \in DOMAIN T : /\ Fixed(k, T[k], Get(x.o, k)) /\ ~IsBad(Get(x.o, k))
                          /\ T[k].needed => ~IsUndef(Get(x.o, k))
  BY <1>1, <1>2
<1>4. ParseNode(x, T) = Obj([k \in DOMAIN T |-> Get(x.o, k)])
  BY <1>2, <1>3, Rebuilt
<1>5. [k \in DOMAIN T |-> Get(x.o, k)] = r
  BY <1>1, <1>2
<1> QED BY <1>4, <1>5 DEF x

\* A table without nested fields.
LEMMA FlatNode ==
  ASSUME NEW x, NEW T, \A k \in DOMAIN T : T[k].kind \notin Nested
  PROVE  ParseObject(x, T) = ParseNode(x, T)
<1>1. \A k \in DOMAIN T : ReadField(x.o, k, T[k]) = ReadLeaf(x.o, k, T[k])
  BY FieldRead
<1>2. [k \in DOMAIN T |-> ReadField(x.o, k, T[k])] = [k \in DOMAIN T |-> ReadLeaf(x.o, k, T[k])]
  BY <1>1
<1> QED BY <1>2 DEF ParseObject, ParseNode

\* A table whose fields all last.
FlatTable(T) == \A k \in DOMAIN T : Lasting(k, T[k])
\* A table none of whose fields has to be there.
Calm(T) == \A k \in DOMAIN T : ~T[k].must /\ ~T[k].needed

\* What such a table made of an item, it makes again.
LEMMA ItemAgain ==
  ASSUME NEW T, FlatTable(T), NEW x, Fitting(x), ReadItem(ParseObject(x, T))
  PROVE  ParseObject(ParseObject(x, T), T) = ParseObject(x, T)
<1> DEFINE y == ParseObject(x, T)
<1>1. \A k \in DOMAIN T : T[k].kind \notin Nested
  BY DEF FlatTable, Lasting
<1>2. /\ y = Obj(Leaves(x, T)) /\ isRecord(x)
      /\ \A k \in DOMAIN T : /\ y.o[k] = ReadLeaf(x.o, k, T[k])
                             /\ ~IsBad(ReadLeaf(x.o, k, T[k]))
                             /\ T[k].needed => ~IsUndef(ReadLeaf(x.o, k, T[k]))
  BY ItemIs
<1> HIDE DEF y
<1>3. DOMAIN Leaves(x, T) = DOMAIN T /\ Leaves(x, T) = [k \in DOMAIN Leaves(x, T) |-> Leaves(x, T)[k]]
      /\ \A k \in DOMAIN T : Leaves(x, T)[k] = ReadLeaf(x.o, k, T[k])
  BY DEF Leaves
<1>4. ASSUME NEW k \in DOMAIN T
      PROVE  Fixed(k, T[k], Leaves(x, T)[k])
  <2> DEFINE f == T[k]
  <2>1. Lasting(k, f) /\ f.kind \notin Nested
    BY <1>1 DEF FlatTable
  <2>2. ~IsBad(ReadLeaf(x.o, k, f)) /\ Leaves(x, T)[k] = ReadLeaf(x.o, k, f)
    BY <1>2, <1>3
  <2> HIDE DEF f
  <2>3. ReadField(x.o, k, f) = ReadLeaf(x.o, k, f)
    BY <2>1, FieldRead
  <2>4. Fixed(k, f, Leaves(x, T)[k])
    BY <1>2, <2>1, <2>2, <2>3, LeafFixed
  <2> QED BY <2>4 DEF f
<1>5. \A k \in DOMAIN T : /\ ~IsBad(Leaves(x, T)[k])
                          /\ T[k].needed => ~IsUndef(Leaves(x, T)[k])
  BY <1>2, <1>3
<1>6. ParseNode(y, T) = y
  BY <1>2, <1>3, <1>4, <1>5, SameNode
<1> QED BY <1>1, <1>6, FlatNode DEF y

\* The defaults of a table are parsed into themselves.
LEMMA DefaultsAgain ==
  ASSUME NEW T, FlatTable(T), Calm(T)
  PROVE  ParseObject(Defaults(T), T) = Defaults(T)
<1> DEFINE r == [k \in DOMAIN T |-> T[k].def]
<1>1. \A k \in DOMAIN T : T[k].kind \notin Nested
  BY DEF FlatTable, Lasting
<1>2. ASSUME NEW k \in DOMAIN T
      PROVE  Fixed(k, T[k], r[k]) /\ ~IsBad(r[k])
  <2> DEFINE f == T[k]
  <2>1. Lasting(k, f) /\ ~f.must /\ r[k] = f.def
    BY DEF FlatTable, Calm
  <2> HIDE DEF f, r
  <2>2. Fixed(k, f, r[k]) /\ ~IsBad(r[k])
    BY <2>1, DefaultFixed
  <2> QED BY <2>2 DEF f
<1>3. DOMAIN r = DOMAIN T /\ r = [k \in DOMAIN r |-> r[k]]
  OBVIOUS
<1>4. Defaults(T) = Obj(r)
  BY DEF Defaults
<1> HIDE DEF r
<1>5. \A k \in DOMAIN T : T[k].needed => ~IsUndef(r[k])
  BY DEF Calm
<1>6. ParseNode(Obj(r), T) = Obj(r)
  BY <1>2, <1>3, <1>5, SameNode
<1> QED BY <1>1, <1>4, <1>6, FlatNode

\* A field that holds objects of a flat table.
NestedFirm(k, f) ==
  /\ k \notin MapKeys /\ (f.must => f.needed)
  /\ \E T : /\ FlatTable(T)
            /\ \/ f = ListOf(T)
               \/ f = Section(T) /\ Calm(T)
               \/ f = Item(T) \/ f = Required(Item(T))

\* A field that reads its own results as they are, nested or not.
Firm(k, f) == Lasting(k, f) \/ NestedFirm(k, f)

\* The four kinds of nested field.
LEMMA NestedKinds ==
  ASSUME NEW T
  PROVE  /\ ListOf(T).kind = "list" /\ ListOf(T).table = T /\ ListOf(T).def = EmptyList /\ ~ListOf(T).must
         /\ Section(T).kind = "section" /\ Section(T).table = T /\ Section(T).def = Defaults(T)
         /\ ~Section(T).must
         /\ Item(T).kind = "item" /\ Item(T).table = T /\ Item(T).def = Undef /\ ~Item(T).must
         /\ Required(Item(T)).kind = "item" /\ Required(Item(T)).table = T
         /\ Required(Item(T)).def = Undef /\ Required(Item(T)).must
<1>1. ListOf(T).kind = "list" /\ ListOf(T).table = T /\ ListOf(T).def = EmptyList /\ ~ListOf(T).must
  BY DEF ListOf, Field
<1>2. /\ Section(T).kind = "section" /\ Section(T).table = T /\ Section(T).def = Defaults(T)
      /\ ~Section(T).must
  BY DEF Section, Field
<1>3. Item(T).kind = "item" /\ Item(T).table = T /\ Item(T).def = Undef /\ ~Item(T).must
  BY DEF Item, Field
<1>4. /\ Required(Item(T)).kind = "item" /\ Required(Item(T)).table = T
      /\ Required(Item(T)).def = Undef /\ Required(Item(T)).must
  BY DEF Required, Item, Field
<1> QED BY <1>1, <1>2, <1>3, <1>4

\* What a nested field reads.
LEMMA NestedRead ==
  ASSUME NEW o, NEW k, NEW f, f.kind \in Nested
  PROVE  /\ ReadField(o, k, f) = ParseNested(f, Get(o, k))
         /\ IsUndef(Get(o, k)) => ParseNested(f, Get(o, k)) = IF f.must THEN Bad ELSE f.def
         /\ ~IsUndef(Get(o, k)) /\ f.kind # "list" =>
               ParseNested(f, Get(o, k)) = ParseObject(Get(o, k), f.table)
         /\ ~IsUndef(Get(o, k)) /\ f.kind = "list" =>
               ParseNested(f, Get(o, k)) =
                  IF Get(o, k).t = "arr"
                  THEN Collected([i \in DOMAIN Get(o, k).a |-> ParseObject(Get(o, k).a[i], f.table)])
                  ELSE Bad
<1> DEFINE g == Get(o, k)
<1>1. ReadField(o, k, f) = ParseNested(f, g)
  BY DEF ReadField, Nested
<1> HIDE DEF g
<1>2. IsUndef(g) => ParseNested(f, g) = IF f.must THEN Bad ELSE f.def
  BY DEF ParseNested
<1>3. ~IsUndef(g) /\ f.kind # "list" => ParseNested(f, g) = ParseObject(g, f.table)
  BY DEF ParseNested
<1>4. ~IsUndef(g) /\ f.kind = "list" =>
         ParseNested(f, g) = IF g.t = "arr"
                             THEN Collected([i \in DOMAIN g.a |-> ParseObject(g.a[i], f.table)])
                             ELSE Bad
  BY DEF ParseNested
<1> QED BY <1>1, <1>2, <1>3, <1>4 DEF g

\* An object that is parsed into itself is fixed.
LEMMA ObjectFixed ==
  ASSUME NEW k, NEW f, f.kind \in {"section", "item"}, NEW v, ~IsUndef(v),
         ParseObject(v, f.table) = v
  PROVE  Fixed(k, f, v)
<1> SUFFICES ASSUME NEW o, Get(o, k) = v PROVE ReadField(o, k, f) = v
  BY DEF Fixed
<1>1. f.kind \in Nested /\ f.kind # "list"
  BY DEF Nested
<1>2. ReadField(o, k, f) = ParseObject(Get(o, k), f.table)
  BY <1>1, NestedRead, Zenon
<1> QED BY <1>2

\* So is a list of them.
LEMMA ListAgain ==
  ASSUME NEW T, FlatTable(T), NEW k, NEW v, v = Arr(v.a), IsSequence(v.a),
         \A y \in ToSet(v.a) : ReadItem(y) /\ ParseObject(y, T) = y
  PROVE  Fixed(k, ListOf(T), v)
<1> DEFINE rs == [i \in DOMAIN v.a |-> ParseObject(v.a[i], T)]
<1>1. /\ DOMAIN v.a = 1 .. Len(v.a) /\ v.a = [i \in 1 .. Len(v.a) |-> v.a[i]]
      /\ \A i \in 1 .. Len(v.a) : v.a[i] \in ToSet(v.a)
  BY SequenceHas
<1>2. rs = v.a
  BY <1>1
<1> HIDE DEF rs
<1>3. Collected(rs) = Arr(v.a)
  <2>1. \A i \in DOMAIN v.a : ~IsBad(v.a[i])
    BY <1>1 DEF ReadItem
  <2>2. Those(v.a, {r \in ToSet(v.a) : ~IsUndef(r)}) = v.a
    <3>1. ToSet(v.a) \subseteq {r \in ToSet(v.a) : ~IsUndef(r)}
      BY DEF ReadItem
    <3> QED BY <3>1, Filtered
  <2> QED BY <1>2, <2>1, <2>2 DEF Collected
<1>4. v.t = "arr" /\ ~IsUndef(v)
  BY ArrIs DEF IsUndef
<1> SUFFICES ASSUME NEW o, Get(o, k) = v PROVE ReadField(o, k, ListOf(T)) = v
  BY DEF Fixed
<1>5. ListOf(T).kind = "list" /\ ListOf(T).table = T
  BY NestedKinds
<1>6. ReadField(o, k, ListOf(T)) = Collected([i \in DOMAIN v.a |-> ParseObject(v.a[i], T)])
  <2> DEFINE f == ListOf(T)
  <2>1. f.kind = "list" /\ f.table = T /\ f.kind \in Nested
    BY <1>5 DEF Nested
  <2> HIDE DEF f
  <2>2. ReadField(o, k, f) = Collected([i \in DOMAIN v.a |-> ParseObject(v.a[i], f.table)])
    BY <1>4, <2>1, NestedRead
  <2> QED BY <2>1, <2>2 DEF f
<1> QED BY <1>2, <1>3, <1>6 DEF rs

\* A record that leaves room for two levels of tables.
Roomy(x) == isRecord(x) /\ Value5(x)

\* Its fields, and their items, are as they must be to be read.
LEMMA RoomyFields ==
  ASSUME NEW x, Roomy(x)
  PROVE  /\ Fitting(x)
         /\ \A k : k \notin MapKeys =>
               /\ Fitting(Get(x.o, k)) /\ Proper(Get(x.o, k))
               /\ \A y \in ToSet(ItemsOf(Get(x.o, k))) : Fitting(y)
<1>1. Fitting(x)
  BY Shallower, FieldsFit DEF Roomy
<1>2. ASSUME NEW k, k \notin MapKeys
      PROVE  /\ Fitting(Get(x.o, k)) /\ Proper(Get(x.o, k))
             /\ \A y \in ToSet(ItemsOf(Get(x.o, k))) : Fitting(y)
  <2> DEFINE g == Get(x.o, k)
  <2>1. Value4(g) \/ g = Undef
    BY <1>2, FieldOf DEF Roomy
  <2> HIDE DEF g
  <2>2. CASE Value4(g)
    <3>1. Fitting(g) /\ Proper(g)
      BY <2>2, Shallower, FieldsFit, ProperValue
    <3>2. CASE g.t = "arr"
      <4>1. ItemsOf(g) = g.a
        BY <3>2 DEF ItemsOf
      <4> QED BY <2>2, <3>1, <3>2, <4>1, ProperValue, FieldsFit DEF g
    <3>3. CASE g.t # "arr"
      <4>1. ItemsOf(g) = <<>> /\ ToSet(<<>>) = {}
        BY <3>3 DEF ItemsOf, ToSet
      <4> QED BY <3>1, <4>1 DEF g
    <3> QED BY <3>2, <3>3
  <2>3. CASE g = Undef
    <3>1. ItemsOf(g) = <<>> /\ ToSet(<<>>) = {}
      BY <2>3 DEF ItemsOf, ToSet, Undef
    <3>2. Fitting(g) /\ Proper(g)
      BY <2>3, ProperValue DEF Fitting, isRecord, Undef
    <3> QED BY <3>1, <3>2 DEF g
  <2> QED BY <2>1, <2>2, <2>3
<1> QED BY <1>1, <1>2

\* A nested field that is left out.
LEMMA AbsentItem ==
  ASSUME NEW k, NEW f, f.kind \in Nested, ~f.must, f.def = Undef
  PROVE  Fixed(k, f, Undef)
<1> SUFFICES ASSUME NEW o, Get(o, k) = Undef PROVE ReadField(o, k, f) = Undef
  BY DEF Fixed
<1>1. IsUndef(Get(o, k))
  BY UndefIs
<1> QED BY <1>1, NestedRead, Zenon

\* The list that a field read, it reads again.
LEMMA ListFixed ==
  ASSUME NEW x, Roomy(x), NEW k, k \notin MapKeys, NEW T, FlatTable(T),
         ~IsBad(ReadField(x.o, k, ListOf(T)))
  PROVE  Fixed(k, ListOf(T), ReadField(x.o, k, ListOf(T)))
<1> DEFINE v == ReadField(x.o, k, ListOf(T))
<1>1. /\ Proper(Get(x.o, k))
      /\ \A z \in ToSet(ItemsOf(Get(x.o, k))) : Fitting(z)
  BY RoomyFields
<1>2. /\ v = Arr(v.a) /\ IsSequence(v.a)
      /\ \A y \in ToSet(v.a) :
            ReadItem(y) /\ \E z \in ToSet(ItemsOf(Get(x.o, k))) : y = ParseObject(z, T)
  BY <1>1, ListRead
<1> HIDE DEF v
<1>3. \A y \in ToSet(v.a) : ReadItem(y) /\ ParseObject(y, T) = y
  BY <1>1, <1>2, ItemAgain
<1> QED BY <1>2, <1>3, ListAgain DEF v

\* The same for a section.
LEMMA SectionFixed ==
  ASSUME NEW x, Roomy(x), NEW k, k \notin MapKeys, NEW T, FlatTable(T), Calm(T),
         ~IsBad(ReadField(x.o, k, Section(T)))
  PROVE  Fixed(k, Section(T), ReadField(x.o, k, Section(T)))
<1> DEFINE v == ReadField(x.o, k, Section(T))
           g == Get(x.o, k)
<1>1. Section(T).kind = "section" /\ Section(T).table = T
  BY NestedKinds
<1>2. \/ v = Defaults(T)
      \/ v = ParseObject(g, T) /\ ~IsBad(ParseObject(g, T))
  BY SectionRead
<1>3. ~IsUndef(v) /\ ParseObject(v, T) = v
  <2>1. CASE v = Defaults(T)
    <3>1. ~IsUndef(Defaults(T))
      BY ObjIs DEF Defaults, IsUndef
    <3> HIDE DEF v
    <3> QED BY <2>1, <3>1, DefaultsAgain
  <2>2. CASE v = ParseObject(g, T) /\ ~IsBad(ParseObject(g, T))
    <3>1. Fitting(g)
      BY RoomyFields
    <3> HIDE DEF g
    <3>2. ParseObject(g, T) = Obj(Leaves(g, T))
      <4>1. \A i \in DOMAIN T : ~T[i].needed
        BY DEF Calm
      <4> QED BY <2>2, <4>1, ObjectRead
    <3>3. ReadItem(ParseObject(g, T))
      BY <2>2, <3>2, ObjIs DEF ReadItem, IsUndef
    <3> HIDE DEF v
    <3> QED BY <2>2, <3>1, <3>3, ItemAgain DEF ReadItem
  <2> QED BY <1>2, <2>1, <2>2
<1> HIDE DEF v, g
<1>4. Fixed(k, Section(T), v)
  <2> DEFINE f == Section(T)
  <2>1. f.kind \in {"section", "item"} /\ f.table = T
    BY <1>1
  <2> HIDE DEF f
  <2> QED BY <1>3, <2>1, ObjectFixed DEF f
<1> QED BY <1>4 DEF v

\* The same for a single object.
LEMMA ItemFixed ==
  ASSUME NEW x, Roomy(x), NEW k, k \notin MapKeys, NEW T, FlatTable(T),
         NEW f, f.kind = "item", f.table = T, f.def = Undef,
         ~IsBad(ReadField(x.o, k, f)), f.must => ~IsUndef(ReadField(x.o, k, f))
  PROVE  Fixed(k, f, ReadField(x.o, k, f))
<1> DEFINE v == ReadField(x.o, k, f)
           g == Get(x.o, k)
<1>1. f.kind \in Nested /\ f.kind # "list" /\ Fitting(g)
  BY RoomyFields DEF Nested
<1>2. \/ IsUndef(g) /\ v = (IF f.must THEN Bad ELSE f.def)
      \/ v = ParseObject(g, T)
  <2>1. v = ParseNested(f, g)
    BY <1>1, NestedRead, Zenon
  <2>2. IsUndef(g) => ParseNested(f, g) = IF f.must THEN Bad ELSE f.def
    BY <1>1, NestedRead, Zenon
  <2>3. ~IsUndef(g) => ParseNested(f, g) = ParseObject(g, T)
    BY <1>1, NestedRead, Zenon
  <2> HIDE DEF v, g
  <2> QED BY <2>1, <2>2, <2>3
<1> HIDE DEF v, g
<1>3. v = Undef \/ ReadItem(v)
  <2>1. CASE IsUndef(g) /\ v = (IF f.must THEN Bad ELSE f.def)
    BY <2>1 DEF v, IsBad, Bad
  <2>2. CASE v = ParseObject(g, T)
    <3>1. ~IsBad(ParseObject(g, T))
      BY <2>2 DEF v
    <3>2. v = Undef \/ v = Obj(Leaves(g, T))
      BY <2>2, <3>1, ObjectRead
    <3> QED BY <3>2, ObjIs DEF ReadItem, IsUndef, IsBad
  <2> QED BY <1>2, <2>1, <2>2
<1>4. CASE v = Undef
  <2>1. ~f.must
    BY <1>4, UndefIs DEF v
  <2> QED BY <1>1, <1>4, <2>1, AbsentItem DEF v
<1>5. CASE ReadItem(v)
  <2>1. v = ParseObject(g, T)
    BY <1>2, <1>5, UndefIs DEF ReadItem, IsBad, Bad
  <2>2. ParseObject(v, T) = v /\ ~IsUndef(v)
    BY <1>1, <1>5, <2>1, ItemAgain DEF ReadItem
  <2> QED BY <2>2, ObjectFixed DEF v
<1> QED BY <1>3, <1>4, <1>5

\* The same for any nested field.
LEMMA NestedFixed ==
  ASSUME NEW x, Roomy(x), NEW k, NEW f, NestedFirm(k, f), ~IsBad(ReadField(x.o, k, f)),
         f.needed => ~IsUndef(ReadField(x.o, k, f))
  PROVE  Fixed(k, f, ReadField(x.o, k, f))
<1>1. PICK T : /\ FlatTable(T)
               /\ \/ f = ListOf(T)
                  \/ f = Section(T) /\ Calm(T)
                  \/ f = Item(T) \/ f = Required(Item(T))
  BY DEF NestedFirm
<1>2. k \notin MapKeys /\ (f.must => ~IsUndef(ReadField(x.o, k, f)))
  BY DEF NestedFirm
<1>3. CASE f = ListOf(T)
  BY <1>1, <1>2, <1>3, ListFixed
<1>4. CASE f = Section(T) /\ Calm(T)
  BY <1>1, <1>2, <1>4, SectionFixed
<1>5. CASE f = Item(T) \/ f = Required(Item(T))
  <2>1. f.kind = "item" /\ f.table = T /\ f.def = Undef
    BY <1>5, NestedKinds
  <2> QED BY <1>1, <1>2, <2>1, ItemFixed
<1> QED BY <1>1, <1>3, <1>4, <1>5

\* A table whose fields are all firm.
FirmTable(T) == \A k \in DOMAIN T : Firm(k, T[k])

\* What each field of such a table read, it reads again.
LEMMA NodesFixed ==
  ASSUME NEW T, FirmTable(T), NEW x, Roomy(x), ReadItem(ParseNode(x, T))
  PROVE  /\ ParseNode(x, T) = Obj(Nodes(x, T)) /\ DOMAIN Nodes(x, T) = DOMAIN T
         /\ \A k \in DOMAIN T : /\ Fixed(k, T[k], Nodes(x, T)[k]) /\ ~IsBad(Nodes(x, T)[k])
                                /\ T[k].needed => ~IsUndef(Nodes(x, T)[k])
<1>1. ~IsBad(ParseNode(x, T)) /\ ParseNode(x, T) # Undef
  BY UndefIs DEF ReadItem
<1>2. /\ ParseNode(x, T) = Obj(Nodes(x, T))
      /\ \A k \in DOMAIN T : ~IsBad(Nodes(x, T)[k])
      /\ \A k \in DOMAIN T : T[k].needed => ~IsUndef(Nodes(x, T)[k])
  BY <1>1, NodeRead
<1>3. DOMAIN Nodes(x, T) = DOMAIN T /\ \A k \in DOMAIN T : Nodes(x, T)[k] = ReadField(x.o, k, T[k])
  BY DEF Nodes
<1>4. ASSUME NEW k \in DOMAIN T PROVE Fixed(k, T[k], Nodes(x, T)[k])
  <2> DEFINE f == T[k]
             v == Nodes(x, T)[k]
  <2>1. Firm(k, f) /\ v = ReadField(x.o, k, f) /\ ~IsBad(v)
    BY <1>2, <1>3 DEF FirmTable
  <2>2. f.needed => ~IsUndef(v)
    BY <1>2
  <2> HIDE DEF f, v
  <2>3. isRecord(x) /\ Fitting(x)
    BY RoomyFields DEF Roomy
  <2>4. Fixed(k, f, v)
    BY <2>1, <2>2, <2>3, LeafFixed, NestedFixed DEF Firm
  <2> QED BY <2>4 DEF f, v
<1> QED BY <1>2, <1>3, <1>4

\* So the table parses what it made into itself.
LEMMA NodeAgain ==
  ASSUME NEW T, FirmTable(T), NEW x, Roomy(x), ReadItem(ParseNode(x, T))
  PROVE  ParseNode(ParseNode(x, T), T) = ParseNode(x, T)
<1>1. Nodes(x, T) = [k \in DOMAIN Nodes(x, T) |-> Nodes(x, T)[k]]
  BY DEF Nodes
<1> QED BY <1>1, NodesFixed, SameNode

\* And its defaults.
LEMMA NodeDefaults ==
  ASSUME NEW T, FirmTable(T), Calm(T)
  PROVE  ParseNode(Defaults(T), T) = Defaults(T)
<1> DEFINE r == [k \in DOMAIN T |-> T[k].def]
<1>1. ASSUME NEW k \in DOMAIN T
      PROVE  Fixed(k, T[k], r[k]) /\ ~IsBad(r[k])
  <2> DEFINE f == T[k]
  <2>1. Firm(k, f) /\ ~f.must /\ r[k] = f.def
    BY DEF FirmTable, Calm
  <2> HIDE DEF f, r
  <2>2. Fixed(k, f, f.def) /\ ~IsBad(f.def)
    <3>1. CASE Lasting(k, f)
      BY <2>1, <3>1, DefaultFixed
    <3>2. CASE NestedFirm(k, f)
      <4>1. PICK U : /\ FlatTable(U)
                     /\ \/ f = ListOf(U)
                        \/ f = Section(U) /\ Calm(U)
                        \/ f = Item(U) \/ f = Required(Item(U))
        BY <3>2 DEF NestedFirm
      <4>2. CASE f = ListOf(U)
        <5>1. f.def = Arr(<<>>) /\ f.def.a = <<>>
          BY <4>2, NestedKinds, ArrIs DEF EmptyList
        <5>2. ToSet(<<>>) = {}
          BY DEF ToSet
        <5>3. Fixed(k, ListOf(U), f.def)
          BY <4>1, <5>1, <5>2, EmptyIsSequence, ListAgain
        <5> QED BY <4>2, <5>1, <5>3, ArrIs DEF IsBad
      <4>3. CASE f = Section(U) /\ Calm(U)
        <5>1. f.kind \in {"section", "item"} /\ f.table = U /\ f.def = Defaults(U)
          BY <4>3, NestedKinds
        <5>2. ParseObject(Defaults(U), U) = Defaults(U)
          BY <4>1, <4>3, DefaultsAgain
        <5>3. ~IsUndef(Defaults(U)) /\ ~IsBad(Defaults(U))
          BY ObjIs DEF Defaults, IsUndef, IsBad
        <5> QED BY <5>1, <5>2, <5>3, ObjectFixed
      <4>4. CASE f = Item(U) \/ f = Required(Item(U))
        <5>1. f.kind = "item" /\ f.def = Undef
          BY <4>4, NestedKinds
        <5> QED BY <2>1, <5>1, AbsentItem, UndefIs DEF Nested
      <4> QED BY <4>1, <4>2, <4>3, <4>4
    <3> QED BY <2>1, <3>1, <3>2 DEF Firm
  <2>3. Fixed(k, f, r[k]) /\ ~IsBad(r[k])
    BY <2>1, <2>2
  <2> QED BY <2>3 DEF f
<1>2. DOMAIN r = DOMAIN T /\ r = [k \in DOMAIN r |-> r[k]]
  OBVIOUS
<1>3. Defaults(T) = Obj(r)
  BY DEF Defaults
<1> HIDE DEF r
<1>4. \A k \in DOMAIN T : T[k].needed => ~IsUndef(r[k])
  BY DEF Calm
<1> QED BY <1>1, <1>2, <1>3, <1>4, SameNode

-----------------------------------------------------------------------------
(* The tables of the schema, field by field: each is lasting or firm.      *)

\* A field of a kind and a default, under one name.
Simple(f, kind, def) == f.kind = kind /\ f.def = def /\ NoAlias(f)

\* The fields of the schema are simple.
LEMMA SimpleFields ==
  /\ \A kind, def : Simple(Field(kind, def), kind, def)
  /\ Simple(OptText, "text", Undef) /\ Simple(OptFlag, "flag", Undef) /\ Simple(OptTexts, "texts", Undef)
  /\ \A lo, hi : Simple(OptInt(lo, hi), "int", Undef)
  /\ \A lo, hi, n : Simple(IntField(lo, hi, n), "int", Num(n))
  /\ \A w : Simple(TextField(w), "text", Str(w))
  /\ \A words : Simple(OptWord(words), "word", Undef)
  /\ \A words, w : Simple(Word(words, w), "word", Str(w))
<1> USE DEF Simple, NoAlias, Field
<1>1. \A kind, def : Simple(Field(kind, def), kind, def)
  OBVIOUS
<1>2. Simple(OptText, "text", Undef) /\ Simple(OptFlag, "flag", Undef) /\ Simple(OptTexts, "texts", Undef)
  BY DEF OptText, OptFlag, OptTexts
<1>3. \A lo, hi : Simple(OptInt(lo, hi), "int", Undef)
  BY DEF OptInt
<1>4. \A lo, hi, n : Simple(IntField(lo, hi, n), "int", Num(n))
  BY DEF IntField, OptInt
<1>5. \A w : Simple(TextField(w), "text", Str(w))
  BY DEF TextField
<1>6. \A words : Simple(OptWord(words), "word", Undef)
  BY DEF OptWord
<1>7. \A words, w : Simple(Word(words, w), "word", Str(w))
  BY DEF Word, OptWord
<1> HIDE DEF Simple
<1> QED BY <1>1, <1>2, <1>3, <1>4, <1>5, <1>6, <1>7, Zenon

\* The required ones too.
LEMMA RequiredFields ==
  /\ Simple(Required(OptText), "text", Undef)
  /\ \A lo, hi : Simple(Required(OptInt(lo, hi)), "int", Undef)
  /\ \A words : Simple(Required(OptWord(words)), "word", Undef)
  /\ Simple(Needed(OptTexts), "texts", Undef)
  /\ Simple(Needed(Field("some", Undef)), "some", Undef)
<1> USE DEF Simple, NoAlias, Field, Required, Needed
<1>1. Simple(Required(OptText), "text", Undef)
  BY DEF OptText
<1>2. \A lo, hi : Simple(Required(OptInt(lo, hi)), "int", Undef)
  BY DEF OptInt
<1>3. \A words : Simple(Required(OptWord(words)), "word", Undef)
  BY DEF OptWord
<1>4. Simple(Needed(OptTexts), "texts", Undef)
  BY DEF OptTexts
<1>5. Simple(Needed(Field("some", Undef)), "some", Undef)
  OBVIOUS
<1> HIDE DEF Simple
<1> QED BY <1>1, <1>2, <1>3, <1>4, <1>5, Zenon

\* A simple field lasts if it takes its own default.
LEMMA SimpleLasts ==
  ASSUME NEW k, NEW f, NEW kind, NEW def, Simple(f, kind, def), kind \notin Nested,
         kind \in {"map", "lists"} => k \in MapKeys, def = Undef \/ Stable(f, def)
  PROVE  Lasting(k, f)
BY DEF Simple, Lasting

\* A simple field without a default.
Absent(f) == \E kind : Simple(f, kind, Undef) /\ kind \notin Nested /\ kind \notin {"map", "lists"}

\* It lasts.
LEMMA AbsentLasts ==
  ASSUME NEW f, Absent(f), NEW k
  PROVE  Lasting(k, f)
<1>1. PICK kind : Simple(f, kind, Undef) /\ kind \notin Nested /\ kind \notin {"map", "lists"}
  BY DEF Absent
<1> QED BY <1>1, SimpleLasts

\* Those of the schema.
LEMMA AbsentFields ==
  /\ Absent(OptText) /\ Absent(OptFlag) /\ Absent(OptTexts) /\ Absent(Required(OptText))
  /\ \A lo, hi : Absent(OptInt(lo, hi)) /\ Absent(Required(OptInt(lo, hi)))
  /\ \A words : Absent(Required(OptWord(words)))
  /\ Absent(Needed(OptTexts)) /\ Absent(Needed(Field("some", Undef)))
  /\ Absent(Field("ports", Undef)) /\ Absent(Field("bytes", Undef))
<1>1. \A f, kind : Simple(f, kind, Undef) /\ kind \in {"text", "flag", "texts", "int", "word", "some", "ports", "bytes"}
                    => Absent(f)
  BY DEF Absent, Nested
<1>2. /\ Absent(OptText) /\ Absent(OptFlag) /\ Absent(OptTexts)
      /\ Absent(Field("ports", Undef)) /\ Absent(Field("bytes", Undef))
  BY <1>1, SimpleFields
<1>3. /\ Absent(Required(OptText)) /\ Absent(Needed(OptTexts)) /\ Absent(Needed(Field("some", Undef)))
  BY <1>1, RequiredFields
<1>4. \A lo, hi : Absent(OptInt(lo, hi)) /\ Absent(Required(OptInt(lo, hi)))
  BY <1>1, SimpleFields, RequiredFields
<1>5. \A words : Absent(Required(OptWord(words)))
  BY <1>1, RequiredFields
<1> QED BY <1>2, <1>3, <1>4, <1>5

\* A value that is accepted and not converted is stable.
LEMMA PlainStable ==
  ASSUME NEW f, f.kind \notin Converting, NEW v, ~IsUndef(v), ~IsBad(v), Accepts(f, v)
  PROVE  Stable(f, v)
BY ConvertedIs, Zenon DEF Stable

\* A number whose default is in its range lasts.
LEMMA NumberLasts ==
  ASSUME NEW lo \in Int, NEW hi \in Int, NEW n \in Int, lo <= n, n <= hi, NEW k
  PROVE  Lasting(k, IntField(lo, hi, n))
<1> DEFINE f == IntField(lo, hi, n)
           v == Num(n)
<1>1. Simple(f, "int", v)
  BY SimpleFields
<1>2. f.lo = lo /\ f.hi = hi
  BY DEF IntField, OptInt, Field
<1>3. v.t = "num" /\ v.n = n
  BY DEF Num
<1> HIDE DEF f, v
<1>4. f.kind = "int"
  BY <1>1 DEF Simple
<1>5. Accepts(f, v)
  BY <1>2, <1>3, <1>4, AcceptsInt DEF IsIntIn
<1>6. Stable(f, v)
  BY <1>3, <1>4, <1>5, PlainStable DEF Converting, IsUndef, IsBad
<1>7. Lasting(k, f)
  BY <1>1, <1>6, SimpleLasts DEF Nested
<1> QED BY <1>7 DEF f

\* So does a word whose default is one of those listed.
LEMMA WordLasts ==
  ASSUME NEW words, NEW w \in words, ~Blank(Text(w)), NEW k
  PROVE  Lasting(k, Word(words, w))
<1> DEFINE f == Word(words, w)
           v == Str(w)
<1>1. Simple(f, "word", v)
  BY SimpleFields
<1>2. f.words = words
  BY DEF Word, OptWord, Field
<1>3. v.t = "str" /\ v.s = Text(w)
  BY DEF Str
<1> HIDE DEF f, v
<1>4. f.kind = "word"
  BY <1>1 DEF Simple
<1>5. Accepts(f, v)
  BY <1>2, <1>3, <1>4, AcceptsWord DEF IsText, WordsOf
<1>6. Stable(f, v)
  BY <1>3, <1>4, <1>5, PlainStable DEF Converting, IsUndef, IsBad
<1>7. Lasting(k, f)
  BY <1>1, <1>6, SimpleLasts DEF Nested
<1> QED BY <1>7 DEF f

\* So does a text with a default.
LEMMA TextLasts ==
  ASSUME NEW w, ~Blank(Text(w)), NEW k
  PROVE  Lasting(k, TextField(w))
<1> DEFINE f == TextField(w)
           v == Str(w)
<1>1. Simple(f, "text", v)
  BY SimpleFields
<1>3. v.t = "str" /\ v.s = Text(w)
  BY DEF Str
<1> HIDE DEF f, v
<1>4. f.kind = "text"
  BY <1>1 DEF Simple
<1>5. Accepts(f, v)
  BY <1>3, <1>4, AcceptsText DEF IsText
<1>6. Stable(f, v)
  BY <1>3, <1>4, <1>5, PlainStable DEF Converting, IsUndef, IsBad
<1>7. Lasting(k, f)
  BY <1>1, <1>6, SimpleLasts DEF Nested
<1> QED BY <1>7 DEF f

\* So does a flag.
LEMMA FlagLasts ==
  ASSUME NEW b, NEW k
  PROVE  Lasting(k, Flag(b))
<1> DEFINE f == Flag(b)
           v == Bool(b)
<1>1. Simple(f, "flag", v)
  BY SimpleFields DEF Flag
<1>3. v.t = "bool"
  BY DEF Bool
<1> HIDE DEF f, v
<1>4. f.kind = "flag"
  BY <1>1 DEF Simple
<1>5. Accepts(f, v)
  BY <1>3, <1>4, AcceptsFlag
<1>6. Stable(f, v)
  BY <1>3, <1>4, <1>5, PlainStable DEF Converting, IsUndef, IsBad
<1>7. Lasting(k, f)
  BY <1>1, <1>6, SimpleLasts DEF Nested
<1> QED BY <1>7 DEF f

\* So do the options of a plugin.
LEMMA OptionsLast ==
  ASSUME NEW k
  PROVE  Lasting(k, OptionsField)
<1> DEFINE f == OptionsField
           v == Obj(<<>>)
<1>1. Simple(f, "options", v)
  BY SimpleFields DEF OptionsField
<1>3. v.t = "obj"
  BY ObjIs
<1> HIDE DEF f, v
<1>4. f.kind = "options"
  BY <1>1 DEF Simple
<1>5. Accepts(f, v)
  BY <1>3, <1>4 DEF Accepts, isRecord
<1>6. Stable(f, v)
  BY <1>3, <1>4, <1>5, PlainStable DEF Converting, IsUndef, IsBad
<1>7. Lasting(k, f)
  BY <1>1, <1>6, SimpleLasts DEF Nested
<1> QED BY <1>7 DEF f

\* The defaults of the schema are not blank.
LEMMA DefaultWords ==
  /\ ~Blank(Text("info")) /\ ~Blank(Text("127.0.0.1")) /\ ~Blank(Text("/metrics"))
  /\ ~Blank(Text("change-me")) /\ ~Blank(Text("sepigs0")) /\ ~Blank(Text("in-process"))
  /\ ~Blank(Text("legacy")) /\ ~Blank(Text("198.18.0.0/15")) /\ ~Blank(Text("system"))
  /\ ~Blank(Text("roundRobin"))
<1>1. ASSUME NEW w, w # "" PROVE ~Blank(Text(w))
  <2>1. Text(w).w = w
    BY DEF Text
  <2> QED BY <1>1, <2>1, Zenon DEF Blank
<1>2. /\ "info" # "" /\ "127.0.0.1" # "" /\ "/metrics" # "" /\ "change-me" # "" /\ "sepigs0" # ""
      /\ "in-process" # "" /\ "legacy" # "" /\ "198.18.0.0/15" # "" /\ "system" # ""
      /\ "roundRobin" # ""
  BY Zenon
<1> QED BY <1>1, <1>2, Zenon

\* A list without items.
LEMMA NoItems ==
  ASSUME NEW f
  PROVE  /\ \A a : IsSequence(a) /\ Len(a) = 0 => a = <<>>
         /\ DOMAIN <<>> = {} /\ ToSet(<<>>) = {} /\ [i \in DOMAIN <<>> |-> f[i]] = <<>>
<1>1. \A a : IsSequence(a) /\ Len(a) = 0 => a = <<>>
  <2> SUFFICES ASSUME NEW a, IsSequence(a), Len(a) = 0 PROVE a = <<>>
    OBVIOUS
  <2>1. 1 .. Len(a) = {}
    OBVIOUS
  <2> QED BY <2>1, EmptyIsSequence, SameLists
<1>2. DOMAIN <<>> = {} /\ ToSet(<<>>) = {}
  BY DEF ToSet
<1>3. [i \in DOMAIN <<>> |-> f[i]] = <<>>
  OBVIOUS
<1> QED BY <1>1, <1>2, <1>3

\* The empty list of texts is stable.
LEMMA EmptyTexts ==
  ASSUME NEW f, f.kind \in {"texts", "parts"}
  PROVE  Stable(f, EmptyList)
<1> DEFINE v == EmptyList
<1>1. v = Arr(v.a) /\ v.t = "arr" /\ v.a = <<>>
  BY ArrIs DEF EmptyList
<1> HIDE DEF v
<1>2. DOMAIN v.a = {} /\ IsSequence(v.a) /\ Len(v.a) = 0
  BY <1>1, NoItems, EmptyIsSequence
<1>3. AllTexts(v.a)
  BY <1>2 DEF AllTexts
<1>4. DOMAIN TrimmedTexts(v.a) = {}
  BY <1>2 DEF TrimmedTexts
<1>5. IsInjective(TrimmedTexts(v.a)) /\ ToSet(TrimmedTexts(v.a)) \subseteq WordsOf(f.words)
  BY <1>4 DEF IsInjective, ToSet
<1>6. Accepts(f, v)
  BY <1>1, <1>3, <1>5, AcceptsTexts, AcceptsParts
<1>7. TrimItems(v) = v
  <2>1. Proper(v)
    BY <1>1, <1>2, ProperList
  <2>2. /\ TrimItems(v) = Arr([i \in DOMAIN v.a |-> TrimItem(v.a[i])])
        /\ IsSequence(TrimItems(v).a) /\ Len(TrimItems(v).a) = 0
    BY <1>1, <1>2, <2>1, Trimmed, Zenon
  <2>3. TrimItems(v).a = <<>>
    BY <2>2, NoItems
  <2> QED BY <1>1, <2>2, <2>3, ArrIs
<1>8. Converted(f, v) = v
  BY <1>7, ConvertedIs, Zenon
<1>9. ~IsUndef(v) /\ ~IsBad(v)
  BY <1>1 DEF IsUndef, IsBad
<1> QED BY <1>6, <1>8, <1>9 DEF v, Stable

\* So is the empty map.
LEMMA EmptyMap ==
  ASSUME NEW f, f.kind \in {"map", "lists"}
  PROVE  Stable(f, Obj(<<>>))
<1> DEFINE x == Obj(<<>>)
           v == LowerKeys(x.o)
<1>1. x = Obj(x.o) /\ x.t = "obj" /\ x.o = <<>>
  BY ObjIs
<1> HIDE DEF x
<1>2. DOMAIN x.o = {} /\ IsSequence(x.o) /\ Len(x.o) = 0 /\ 1 .. Len(x.o) = {}
  BY <1>1, NoItems, EmptyIsSequence
<1>3. ProperEntries(x)
  BY <1>1, <1>2 DEF ProperEntries
<1>4. /\ ProperEntries(v)
      /\ \A i \in 1 .. Len(v.o) : \E j \in 1 .. Len(x.o) : v.o[i] = LowerEntry(x.o[j])
  BY <1>3, LoweredTwice
<1> HIDE DEF v
<1>5. v = Obj(v.o) /\ IsSequence(v.o) /\ 1 .. Len(v.o) = {}
  BY <1>2, <1>4 DEF ProperEntries
<1>6. Len(v.o) = 0
  <2>1. Len(v.o) \in Nat
    BY <1>5, SequenceHas
  <2>2. \A n \in Nat : 1 .. n = {} => n = 0
    <3> SUFFICES ASSUME NEW n \in Nat, n # 0 PROVE 1 \in 1 .. n
      OBVIOUS
    <3> QED OBVIOUS
  <2> QED BY <1>5, <2>1, <2>2, Zenon
<1>7. v = x
  BY <1>1, <1>5, <1>6, NoItems
<1>8. Accepts(f, x)
  <2>1. AllTexts([i \in DOMAIN x.o |-> x.o[i].val])
    BY <1>2 DEF AllTexts
  <2>2. isRecord(x) /\ \A i \in DOMAIN x.o : x.o[i].val.t = "arr" /\ AllTexts(x.o[i].val.a)
    BY <1>1, <1>2 DEF isRecord
  <2>3. CASE f.kind = "map"
    BY <2>1, <2>2, <2>3, AcceptsMap
  <2>4. CASE f.kind = "lists"
    BY <2>2, <2>4, AcceptsLists
  <2> QED BY <2>3, <2>4
<1>9. Converted(f, x) = x
  BY <1>7, ConvertedIs, Zenon DEF v
<1>10. ~IsUndef(x) /\ ~IsBad(x)
  BY <1>1 DEF IsUndef, IsBad
<1> QED BY <1>8, <1>9, <1>10 DEF x, Stable

\* The fields that have them for a default last.
LEMMA EmptyFields ==
  ASSUME NEW k
  PROVE  /\ Lasting(k, Field("texts", EmptyList))
         /\ Lasting(k, [Field("parts", EmptyList) EXCEPT !.words = TransactionalComponents])
         /\ k \in MapKeys => /\ Lasting(k, Field("map", Obj(<<>>)))
                             /\ Lasting(k, Field("lists", Obj(<<>>)))
<1>1. Lasting(k, Field("texts", EmptyList))
  <2> DEFINE f == Field("texts", EmptyList)
  <2>1. Simple(f, "texts", EmptyList)
    BY SimpleFields
  <2> HIDE DEF f
  <2>2. Stable(f, EmptyList)
    BY <2>1, EmptyTexts DEF Simple
  <2>3. Lasting(k, f)
    BY <2>1, <2>2, SimpleLasts DEF Nested
  <2> QED BY <2>3 DEF f
<1>2. Lasting(k, [Field("parts", EmptyList) EXCEPT !.words = TransactionalComponents])
  <2> DEFINE f == [Field("parts", EmptyList) EXCEPT !.words = TransactionalComponents]
  <2>1. Simple(f, "parts", EmptyList)
    BY DEF Simple, NoAlias, Field
  <2> HIDE DEF f
  <2>2. Stable(f, EmptyList)
    BY <2>1, EmptyTexts DEF Simple
  <2>3. Lasting(k, f)
    BY <2>1, <2>2, SimpleLasts DEF Nested
  <2> QED BY <2>3 DEF f
<1>3. ASSUME k \in MapKeys, NEW kind \in {"map", "lists"}
      PROVE  Lasting(k, Field(kind, Obj(<<>>)))
  <2> DEFINE f == Field(kind, Obj(<<>>))
             v == Obj(<<>>)
  <2>1. Simple(f, kind, v)
    BY SimpleFields
  <2> HIDE DEF f
  <2>2. Stable(f, v)
    BY <2>1, EmptyMap DEF Simple
  <2> HIDE DEF v
  <2>3. Lasting(k, f)
    BY <1>3, <2>1, <2>2, SimpleLasts DEF Nested
  <2> QED BY <2>3 DEF f, v
<1> QED BY <1>1, <1>2, <1>3

\* So does the path of the metrics.
LEMMA PathLasts ==
  ASSUME NEW k
  PROVE  Lasting(k, Field("path", Str("/metrics")))
<1> DEFINE f == Field("path", Str("/metrics"))
           v == Str("/metrics")
<1>1. Simple(f, "path", v)
  BY SimpleFields
<1>2. v.t = "str" /\ v.s = Text("/metrics") /\ ~v.s.pad /\ v.s.w = "/metrics"
  BY DEF Str, Text
<1> HIDE DEF f, v
<1>3. f.kind = "path"
  BY <1>1 DEF Simple
<1>4. IsText(v) /\ ~v.s.pad /\ v.s.w \in SlashWords
  BY <1>2, DefaultWords DEF IsText, SlashWords
<1>5. Accepts(f, v)
  BY <1>3, <1>4 DEF Accepts
<1>6. Stable(f, v)
  BY <1>2, <1>3, <1>5, PlainStable DEF Converting, IsUndef, IsBad
<1>7. Lasting(k, f)
  BY <1>1, <1>6, SimpleLasts DEF Nested
<1> QED BY <1>7 DEF f

\* So does the range of the fake addresses, which has a second name.
LEMMA RangeLasts ==
  ASSUME NEW k
  PROVE  Lasting(k, [TextField("198.18.0.0/15") EXCEPT !.alias = "cidr"])
<1> DEFINE f == [TextField("198.18.0.0/15") EXCEPT !.alias = "cidr"]
           v == Str("198.18.0.0/15")
<1>1. f.kind = "text" /\ f.def = v
  BY DEF TextField, Field
<1>2. v.t = "str" /\ v.s = Text("198.18.0.0/15")
  BY DEF Str
<1> HIDE DEF f, v
<1>3. Accepts(f, v)
  BY <1>1, <1>2, DefaultWords, AcceptsText DEF IsText
<1>4. Stable(f, v)
  BY <1>1, <1>2, <1>3, PlainStable DEF Converting, IsUndef, IsBad
<1>5. Lasting(k, f)
  BY <1>1, <1>4 DEF Lasting, Nested, Converting, Stable
<1> QED BY <1>5 DEF f

\* A field that does not have to be there.
Idle(f) == ~f.must /\ ~f.needed

\* The optional fields of the schema.
LEMMA IdleFields ==
  /\ \A kind, def : Idle(Field(kind, def))
  /\ Idle(OptText) /\ Idle(OptFlag) /\ Idle(OptTexts)
  /\ \A lo, hi : Idle(OptInt(lo, hi))
  /\ \A lo, hi, n : Idle(IntField(lo, hi, n))
  /\ \A w : Idle(TextField(w))
  /\ \A words, w : Idle(Word(words, w))
  /\ \A T : Idle(Section(T)) /\ Idle(ListOf(T)) /\ Idle(Item(T))
<1> USE DEF Idle, Field
<1>1. \A kind, def : Idle(Field(kind, def))
  OBVIOUS
<1>2. Idle(OptText) /\ Idle(OptFlag) /\ Idle(OptTexts)
  BY DEF OptText, OptFlag, OptTexts
<1>3. \A lo, hi : Idle(OptInt(lo, hi))
  BY DEF OptInt
<1>4. \A lo, hi, n : Idle(IntField(lo, hi, n))
  BY DEF IntField, OptInt
<1>5. \A w : Idle(TextField(w))
  BY DEF TextField
<1>6. \A words, w : Idle(Word(words, w))
  BY DEF Word, OptWord
<1>7. \A T : Idle(Section(T)) /\ Idle(ListOf(T)) /\ Idle(Item(T))
  BY DEF Section, ListOf, Item
<1> HIDE DEF Idle
<1> QED BY <1>1, <1>2, <1>3, <1>4, <1>5, <1>6, <1>7, Zenon

\* A lasting one.
Quiet(k, f) == Lasting(k, f) /\ Idle(f)

\* A flag that is on unless the file says otherwise.
On == Flag(TRUE)
\* One that is off.
Off == Flag(FALSE)

\* The quiet fields of the schema.
LEMMA QuietFields ==
  ASSUME NEW k
  PROVE  /\ Quiet(k, On) /\ Quiet(k, Off) /\ Quiet(k, OptText) /\ Quiet(k, OptFlag)
         /\ Quiet(k, OptionsField) /\ Quiet(k, Field("texts", EmptyList))
         /\ Quiet(k, TextField("127.0.0.1")) /\ Quiet(k, TextField("change-me"))
         /\ Quiet(k, TextField("sepigs0")) /\ Quiet(k, Field("path", Str("/metrics")))
         /\ Quiet(k, [TextField("198.18.0.0/15") EXCEPT !.alias = "cidr"])
         /\ Quiet(k, [Field("parts", EmptyList) EXCEPT !.words = TransactionalComponents])
         /\ k \in MapKeys => Quiet(k, Field("map", Obj(<<>>))) /\ Quiet(k, Field("lists", Obj(<<>>)))
<1>1. Lasting(k, On) /\ Lasting(k, Off)
  <2>1. Lasting(k, Flag(TRUE)) /\ Lasting(k, Flag(FALSE))
    BY FlagLasts, Zenon
  <2> QED BY <2>1, Zenon DEF On, Off
<1>2. Idle(On) /\ Idle(Off)
  <2>1. Idle(Field("flag", Bool(TRUE))) /\ Idle(Field("flag", Bool(FALSE)))
    BY IdleFields, Zenon
  <2> QED BY <2>1, Zenon DEF On, Off, Flag
<1>3. Lasting(k, OptText) /\ Lasting(k, OptFlag) /\ Idle(OptText) /\ Idle(OptFlag)
  BY AbsentFields, AbsentLasts, IdleFields
<1>4. /\ Lasting(k, OptionsField) /\ Lasting(k, Field("texts", EmptyList))
      /\ Idle(OptionsField) /\ Idle(Field("texts", EmptyList))
  BY OptionsLast, EmptyFields, IdleFields DEF OptionsField
<1>5. /\ Lasting(k, TextField("127.0.0.1")) /\ Lasting(k, TextField("change-me"))
      /\ Lasting(k, TextField("sepigs0"))
      /\ Idle(TextField("127.0.0.1")) /\ Idle(TextField("change-me")) /\ Idle(TextField("sepigs0"))
  BY DefaultWords, TextLasts, IdleFields
<1>6. Lasting(k, Field("path", Str("/metrics"))) /\ Idle(Field("path", Str("/metrics")))
  BY PathLasts, IdleFields
<1>7. /\ Lasting(k, [TextField("198.18.0.0/15") EXCEPT !.alias = "cidr"])
      /\ Idle([TextField("198.18.0.0/15") EXCEPT !.alias = "cidr"])
  <2>1. Idle([TextField("198.18.0.0/15") EXCEPT !.alias = "cidr"])
    BY DEF TextField, Field, Idle
  <2> QED BY <2>1, RangeLasts
<1>8. /\ Lasting(k, [Field("parts", EmptyList) EXCEPT !.words = TransactionalComponents])
      /\ Idle([Field("parts", EmptyList) EXCEPT !.words = TransactionalComponents])
  <2>1. Idle([Field("parts", EmptyList) EXCEPT !.words = TransactionalComponents])
    BY DEF Field, Idle
  <2> QED BY <2>1, EmptyFields
<1>9. k \in MapKeys => /\ Lasting(k, Field("map", Obj(<<>>))) /\ Lasting(k, Field("lists", Obj(<<>>)))
                       /\ Idle(Field("map", Obj(<<>>))) /\ Idle(Field("lists", Obj(<<>>)))
  BY EmptyFields, IdleFields
<1> QED BY <1>1, <1>2, <1>3, <1>4, <1>5, <1>6, <1>7, <1>8, <1>9 DEF Quiet

\* The commonest of them.
LEMMA QuietFlags ==
  ASSUME NEW k
  PROVE  Quiet(k, On) /\ Quiet(k, Off) /\ Quiet(k, OptText)
BY QuietFields

\* A number with a default.
LEMMA QuietNumber ==
  ASSUME NEW lo \in Int, NEW hi \in Int, NEW n \in Int, lo <= n, n <= hi, NEW k
  PROVE  Quiet(k, IntField(lo, hi, n))
BY NumberLasts, IdleFields DEF Quiet

\* A word with a default.
LEMMA QuietWord ==
  ASSUME NEW words, NEW w \in words, ~Blank(Text(w)), NEW k
  PROVE  Quiet(k, Word(words, w))
BY WordLasts, IdleFields DEF Quiet

\* A table of quiet fields.
QuietTable(T) == \A k \in DOMAIN T : Quiet(k, T[k])

\* It is flat and calm.
LEMMA QuietIs ==
  ASSUME NEW T, QuietTable(T)
  PROVE  FlatTable(T) /\ Calm(T)
BY Zenon DEF QuietTable, Quiet, FlatTable, Calm, Idle

\* The table of the limits.
LEMMA QuietLimits == QuietTable(LimitFields)
BY QuietNumber DEF LimitFields, QuietTable

\* The table of the log.
LEMMA QuietLog == QuietTable(LogFields)
BY QuietWord, DefaultWords DEF LogFields, QuietTable

\* The other sections without nested fields.
LEMMA QuietTables ==
  /\ QuietTable(WorkerFields) /\ QuietTable(QuicFields) /\ QuietTable(PoolFields)
  /\ QuietTable(HotReloadFields) /\ QuietTable(ProbingFields)
  /\ QuietTable(MetricsFields) /\ QuietTable(DashboardFields) /\ QuietTable(TunFields)
<1>1. QuietTable(WorkerFields)
  <2>1. WorkerFields = [enabled |-> Off, size |-> IntField(1, 128, 1),
                        taskTimeoutMs |-> IntField(1, 3600000, 30000)]
    BY DEF WorkerFields, Off
  <2> QED BY <2>1, QuietFlags, QuietNumber DEF QuietTable
<1>2. QuietTable(QuicFields)
  <2>1. QuicFields = [enabled |-> Off, handshakeTimeoutMs |-> IntField(1, 300000, 10000)]
    BY DEF QuicFields, Off
  <2> QED BY <2>1, QuietFlags, QuietNumber DEF QuietTable
<1>3. QuietTable(PoolFields)
  <2>1. PoolFields = [enabled |-> Off, maxIdlePerEndpoint |-> IntField(0, 10000, 8),
                      idleTimeoutMs |-> IntField(1, 3600000, 30000)]
    BY DEF PoolFields, Off
  <2> QED BY <2>1, QuietFlags, QuietNumber DEF QuietTable
<1>4. QuietTable(HotReloadFields)
  <2>1. HotReloadFields = [enabled |-> Off, debounceMs |-> IntField(10, 60000, 250)]
    BY DEF HotReloadFields, Off
  <2> QED BY <2>1, QuietFlags, QuietNumber DEF QuietTable
<1>5. QuietTable(ProbingFields)
  <2>1. ProbingFields = [
    enabled           |-> Off,
    intervalMs        |-> IntField(100, 3600000, 30000),
    timeoutMs         |-> IntField(1, 300000, 1000),
    maxConcurrency    |-> IntField(1, 1000, 4),
    budgetPerInterval |-> IntField(1, 1000000, 16),
    backoffBaseMs     |-> IntField(1, 3600000, 1000),
    backoffMaxMs      |-> IntField(1, 24 * 3600000, 60000)]
    BY DEF ProbingFields, Off
  <2> QED BY <2>1, QuietFlags, QuietNumber DEF QuietTable
<1>6. QuietTable(MetricsFields)
  <2>1. MetricsFields = [enabled |-> Off, listen |-> TextField("127.0.0.1"),
                         port |-> IntField(0, 65535, 19090), path |-> Field("path", Str("/metrics"))]
    BY DEF MetricsFields, Off
  <2>2. \A k : Quiet(k, TextField("127.0.0.1")) /\ Quiet(k, Field("path", Str("/metrics")))
    BY QuietFields
  <2> QED BY <2>1, <2>2, QuietFlags, QuietNumber DEF QuietTable
<1>7. QuietTable(DashboardFields)
  <2>1. DashboardFields = [
    enabled |-> Off, listen |-> TextField("127.0.0.1"), port |-> IntField(0, 65535, 19091),
    token |-> TextField("change-me"), rateLimitPerMinute |-> IntField(1, 100000, 120),
    cors |-> Off]
    BY DEF DashboardFields, Off
  <2>2. \A k : Quiet(k, TextField("127.0.0.1")) /\ Quiet(k, TextField("change-me"))
    BY QuietFields
  <2> QED BY <2>1, <2>2, QuietFlags, QuietNumber DEF QuietTable
<1>8. QuietTable(TunFields)
  <2>1. TunFields = [enabled |-> Off, experimental |-> On, name |-> TextField("sepigs0"),
                     mtu |-> IntField(576, 65535, 1500)]
    BY DEF TunFields, On, Off
  <2>2. \A k : Quiet(k, TextField("sepigs0"))
    BY QuietFields
  <2> QED BY <2>1, <2>2, QuietFlags, QuietNumber DEF QuietTable
<1> QED BY <1>1, <1>2, <1>3, <1>4, <1>5, <1>6, <1>7, <1>8

\* The sections within sections.
LEMMA QuietInnerTables ==
  /\ QuietTable(IsolationFields) /\ QuietTable(TransactionalFields) /\ QuietTable(GeoFields)
  /\ QuietTable(FakeIpFields) /\ QuietTable(DohFields)
  /\ QuietTable(InboundTlsFields) /\ QuietTable(OutboundTlsFields)
<1>1. QuietTable(IsolationFields)
  BY QuietNumber, QuietWord, DefaultWords DEF IsolationFields, QuietTable
<1>2. QuietTable(TransactionalFields)
  <2> DEFINE parts == [Field("parts", EmptyList) EXCEPT !.words = TransactionalComponents]
  <2>1. TransactionalFields = [enabledComponents |-> parts, timeoutMs |-> IntField(100, 60000, 5000),
                               shadowBeforeCommit |-> On, rollbackOnFailure |-> On]
    BY DEF TransactionalFields, On
  <2>2. \A k : Quiet(k, parts)
    BY QuietFields
  <2> HIDE DEF parts
  <2> QED BY <2>1, <2>2, QuietFlags, QuietNumber DEF QuietTable
<1>3. QuietTable(GeoFields)
  <2>1. \A k \in MapKeys : Quiet(k, Field("lists", Obj(<<>>)))
    BY QuietFields
  <2> DEFINE f == Field("lists", Obj(<<>>))
  <2>2. GeoFields = [geoip |-> f, geosite |-> f]
    BY DEF GeoFields
  <2> HIDE DEF f
  <2> QED BY <2>1, <2>2 DEF QuietTable, MapKeys, f
<1>4. QuietTable(FakeIpFields)
  <2> DEFINE range == [TextField("198.18.0.0/15") EXCEPT !.alias = "cidr"]
  <2>1. FakeIpFields = [enabled |-> Off, range |-> range, size |-> IntField(1, 131070, 65536),
                        ttlSeconds |-> IntField(1, 86400, 600), persistPath |-> OptText]
    BY DEF FakeIpFields, Off
  <2>2. \A k : Quiet(k, range)
    BY QuietFields
  <2> HIDE DEF range
  <2> QED BY <2>1, <2>2, QuietFlags, QuietNumber DEF QuietTable
<1>5. QuietTable(DohFields)
  <2>1. DohFields = [enabled |-> Off, endpoints |-> Field("texts", EmptyList),
                     timeoutMs |-> IntField(1, 30000, 1000)]
    BY DEF DohFields, Off
  <2>2. \A k : Quiet(k, Field("texts", EmptyList))
    BY QuietFields
  <2> QED BY <2>1, <2>2, QuietFlags, QuietNumber DEF QuietTable
<1>6. QuietTable(InboundTlsFields)
  <2>1. InboundTlsFields = [enabled |-> Off, certPath |-> OptText, keyPath |-> OptText]
    BY DEF InboundTlsFields, Off
  <2> QED BY <2>1, QuietFields DEF QuietTable
<1>7. QuietTable(OutboundTlsFields)
  <2>1. OutboundTlsFields = [enabled |-> On, rejectUnauthorized |-> On, serverName |-> OptText]
    BY DEF OutboundTlsFields, On
  <2> QED BY <2>1, QuietFields DEF QuietTable
<1> QED BY <1>1, <1>2, <1>3, <1>4, <1>5, <1>6, <1>7

\* The fields of an entry, needed or not.
LEMMA LastingFields ==
  ASSUME NEW k
  PROVE  /\ Lasting(k, OptText) /\ Lasting(k, OptFlag) /\ Lasting(k, OptTexts) /\ Lasting(k, Required(OptText))
         /\ \A lo, hi : Lasting(k, OptInt(lo, hi)) /\ Lasting(k, Required(OptInt(lo, hi)))
         /\ \A words : Lasting(k, Required(OptWord(words)))
         /\ Lasting(k, Needed(OptTexts)) /\ Lasting(k, Needed(Field("some", Undef)))
         /\ Lasting(k, Field("ports", Undef)) /\ Lasting(k, Field("bytes", Undef))
BY AbsentFields, AbsentLasts

\* Its flags and texts.
LEMMA LastingFlags ==
  ASSUME NEW k
  PROVE  Lasting(k, On) /\ Lasting(k, Off) /\ Lasting(k, Required(OptText)) /\ Lasting(k, OptText)
BY QuietFlags, LastingFields DEF Quiet

\* The tables of the entries of lists.
LEMMA FlatTables ==
  /\ FlatTable(AuthFields) /\ FlatTable(PluginModuleFields) /\ FlatTable(WasmFields)
  /\ FlatTable(UdpServerFields) /\ FlatTable(DnsRuleFields) /\ FlatTable(PeerFields)
  /\ FlatTable(RuleSetFileFields) /\ FlatTable(PolicyFields) /\ FlatTable(RuleFields)
  /\ FlatTable(InboundFields) /\ FlatTable(OutboundFields) /\ FlatTable(ServerFields)
<1>1. FlatTable(AuthFields)
  <2>1. AuthFields = [enabled |-> On, username |-> Required(OptText), password |-> Required(OptText)]
    BY DEF AuthFields, On
  <2> QED BY <2>1, LastingFlags DEF FlatTable
<1>2. FlatTable(PluginModuleFields)
  <2>1. PluginModuleFields = [tag |-> Required(OptText), path |-> Required(OptText),
                              manifest |-> OptText, enabled |-> On]
    BY DEF PluginModuleFields, On
  <2> QED BY <2>1, LastingFlags DEF FlatTable
<1>3. FlatTable(WasmFields)
  <2>1. WasmFields = [tag |-> Required(OptText), path |-> Required(OptText), enabled |-> On]
    BY DEF WasmFields, On
  <2> QED BY <2>1, LastingFlags DEF FlatTable
<1>4. FlatTable(UdpServerFields)
  <2>1. \A k : Lasting(k, Required(OptText))
    BY LastingFields
  <2>2. \A k : Lasting(k, IntField(1, 65535, 53)) /\ Lasting(k, IntField(1, 30000, 1000))
    BY NumberLasts
  <2> QED BY <2>1, <2>2 DEF UdpServerFields, FlatTable
<1>5. FlatTable(DnsRuleFields)
  BY LastingFields DEF DnsRuleFields, FlatTable
<1>6. FlatTable(PeerFields)
  BY LastingFields DEF PeerFields, PortField, FlatTable
<1>7. FlatTable(RuleSetFileFields)
  BY LastingFields DEF RuleSetFileFields, FlatTable
<1>8. FlatTable(PolicyFields)
  <2>1. \A k : /\ Lasting(k, Required(OptText)) /\ Lasting(k, Needed(Field("some", Undef)))
               /\ \A words : Lasting(k, Required(OptWord(words)))
    BY LastingFields
  <2>2. \A k : Lasting(k, Word({"roundRobin", "leastLatency", "random"}, "roundRobin"))
    BY WordLasts, DefaultWords
  <2>3. \A k : Lasting(k, IntField(1, 1000, 3)) /\ Lasting(k, IntField(1, 3600000, 30000))
    BY NumberLasts
  <2> QED BY <2>1, <2>2, <2>3 DEF PolicyFields, FlatTable
<1>9. FlatTable(RuleFields)
  BY LastingFields DEF RuleFields, FlatTable
<1>10. FlatTable(InboundFields)
  BY LastingFields DEF InboundFields, FlatTable
<1>11. FlatTable(OutboundFields)
  BY LastingFields DEF OutboundFields, FlatTable
<1>12. FlatTable(ServerFields)
  BY LastingFields DEF ServerFields, PortField, FlatTable
<1> QED BY <1>1, <1>2, <1>3, <1>4, <1>5, <1>6, <1>7, <1>8, <1>9, <1>10, <1>11, <1>12

\* A field that holds objects of a flat table is firm.
LEMMA NestedFirms ==
  ASSUME NEW k, k \notin MapKeys, NEW T, FlatTable(T)
  PROVE  /\ Firm(k, ListOf(T)) /\ Firm(k, Item(T)) /\ Firm(k, Required(Item(T)))
         /\ Calm(T) => Firm(k, Section(T))
<1>1. /\ ~ListOf(T).must /\ ~Section(T).must /\ ~Item(T).must
  BY NestedKinds
<1>2. Required(Item(T)).needed
  BY DEF Required, Item, Field
<1>3. NestedFirm(k, ListOf(T))
  BY <1>1 DEF NestedFirm
<1>4. NestedFirm(k, Item(T))
  BY <1>1 DEF NestedFirm
<1>5. NestedFirm(k, Required(Item(T)))
  BY <1>2 DEF NestedFirm
<1>6. Calm(T) => NestedFirm(k, Section(T))
  BY <1>1 DEF NestedFirm
<1> QED BY <1>3, <1>4, <1>5, <1>6 DEF Firm

\* A section that is parsed into itself, its defaults included.
FirmSection(T) == FirmTable(T) /\ Calm(T)

\* A quiet table makes one.
LEMMA QuietFirm ==
  ASSUME NEW T, QuietTable(T)
  PROVE  FirmSection(T)
BY QuietIs DEF FirmSection, FirmTable, FlatTable, Firm

\* A firm field that does not have to be there.
Settles(k, f) == Firm(k, f) /\ Idle(f)

\* A table of such fields makes a section.
LEMMA SettlesSection ==
  ASSUME NEW T, \A k \in DOMAIN T : Settles(k, T[k])
  PROVE  FirmSection(T)
BY Zenon DEF FirmSection, FirmTable, Calm, Settles, Idle

\* Nested sections and lists are such fields.
LEMMA SettlesNested ==
  ASSUME NEW k, k \notin MapKeys, NEW T
  PROVE  /\ QuietTable(T) => Settles(k, Section(T))
         /\ FlatTable(T) => Settles(k, ListOf(T))
BY QuietIs, NestedFirms, IdleFields DEF Settles

\* So are quiet ones.
LEMMA SettlesQuiet ==
  ASSUME NEW k, NEW f, Quiet(k, f)
  PROVE  Settles(k, f)
BY DEF Quiet, Settles, Firm

\* The sections with nested fields.
LEMMA FirmSections ==
  /\ FirmSection(ReloadFields) /\ FirmSection(PluginFields) /\ FirmSection(TransportFields)
  /\ FirmSection(ObservabilityFields) /\ FirmSection(DnsFields)
<1>1. FirmSection(ReloadFields)
  <2>1. Settles("mode", Word({"legacy", "transactional-experimental"}, "legacy"))
    BY QuietWord, DefaultWords, SettlesQuiet
  <2>2. Settles("transactional", Section(TransactionalFields))
    BY SettlesNested, QuietInnerTables DEF MapKeys
  <2>3. \A k \in DOMAIN ReloadFields : Settles(k, ReloadFields[k])
    BY <2>1, <2>2 DEF ReloadFields
  <2> QED BY <2>3, SettlesSection
<1>2. FirmSection(PluginFields)
  <2>1. /\ Settles("modules", ListOf(PluginModuleFields)) /\ Settles("wasm", ListOf(WasmFields))
        /\ Settles("isolation", Section(IsolationFields))
    BY SettlesNested, QuietInnerTables, FlatTables DEF MapKeys
  <2>2. \A k \in DOMAIN PluginFields : Settles(k, PluginFields[k])
    BY <2>1 DEF PluginFields
  <2> QED BY <2>2, SettlesSection
<1>3. FirmSection(TransportFields)
  <2>1. Settles("quic", Section(QuicFields))
    BY SettlesNested, QuietTables DEF MapKeys
  <2>2. \A k \in DOMAIN TransportFields : Settles(k, TransportFields[k])
    BY <2>1 DEF TransportFields
  <2> QED BY <2>2, SettlesSection
<1>4. FirmSection(ObservabilityFields)
  <2>1. Settles("metrics", Section(MetricsFields))
    BY SettlesNested, QuietTables DEF MapKeys
  <2>2. \A k \in DOMAIN ObservabilityFields : Settles(k, ObservabilityFields[k])
    BY <2>1 DEF ObservabilityFields
  <2> QED BY <2>2, SettlesSection
<1>5. FirmSection(DnsFields)
  <2>1. /\ Settles("udpServers", ListOf(UdpServerFields)) /\ Settles("rules", ListOf(DnsRuleFields))
        /\ Settles("fakeIp", Section(FakeIpFields)) /\ Settles("doh", Section(DohFields))
    BY SettlesNested, QuietInnerTables, FlatTables DEF MapKeys
  <2>2. Settles("strategy", Word({"system", "prefer-ipv4", "prefer-ipv6"}, "system"))
    BY QuietWord, DefaultWords, SettlesQuiet
  <2>3. /\ Settles("cacheTtlMs", IntField(1, 3600000, 60000))
        /\ Settles("cacheMaxEntries", IntField(1, 1000000, 4096))
        /\ Settles("negativeTtlMs", IntField(0, 300000, 5000))
    BY QuietNumber, SettlesQuiet
  <2>4. Settles("hosts", Field("map", Obj(<<>>))) /\ Settles("fallbackHosts", Field("map", Obj(<<>>)))
    <3>1. "hosts" \in MapKeys /\ "fallbackHosts" \in MapKeys
      BY DEF MapKeys
    <3>2. /\ Quiet("hosts", Field("map", Obj(<<>>))) /\ Quiet("fallbackHosts", Field("map", Obj(<<>>)))
      BY <3>1, QuietFields
    <3> QED BY <3>2, SettlesQuiet
  <2>5. \A k \in DOMAIN DnsFields : Settles(k, DnsFields[k])
    <3> DEFINE map == Field("map", Obj(<<>>))
    <3>1. DnsFields = [
             strategy        |-> Word({"system", "prefer-ipv4", "prefer-ipv6"}, "system"),
             cacheTtlMs      |-> IntField(1, 3600000, 60000),
             cacheMaxEntries |-> IntField(1, 1000000, 4096),
             negativeTtlMs   |-> IntField(0, 300000, 5000),
             hosts           |-> map,
             fallbackHosts   |-> map,
             udpServers      |-> ListOf(UdpServerFields),
             rules           |-> ListOf(DnsRuleFields),
             fakeIp          |-> Section(FakeIpFields),
             doh             |-> Section(DohFields)]
      BY DEF DnsFields
    <3>2. Settles("hosts", map) /\ Settles("fallbackHosts", map)
      BY <2>4
    <3> HIDE DEF map
    <3> QED BY <2>1, <2>2, <2>3, <3>1, <3>2
  <2> QED BY <2>5, SettlesSection
<1> QED BY <1>1, <1>2, <1>3, <1>4, <1>5

\* Every section of the configuration.
LEMMA AllSectionsFirm ==
  \A k \in SectionKeys : FirmSection(SectionFields[k])
<1>1. /\ FirmSection(LogFields) /\ FirmSection(LimitFields) /\ FirmSection(GeoFields)
      /\ FirmSection(WorkerFields) /\ FirmSection(PoolFields) /\ FirmSection(HotReloadFields)
      /\ FirmSection(ProbingFields) /\ FirmSection(DashboardFields) /\ FirmSection(TunFields)
  BY QuietLog, QuietLimits, QuietTables, QuietInnerTables, QuietFirm
<1> QED BY <1>1, FirmSections DEF SectionKeys, SectionFields

-----------------------------------------------------------------------------
(* Inbounds and outbounds: the table that parses one depends on its type.  *)

\* Two firm tables make one.
LEMMA JoinedFirm ==
  ASSUME NEW f, NEW g, FirmTable(f), FirmTable(g)
  PROVE  FirmTable(Joined(f, g))
<1> DEFINE T == Joined(f, g)
<1>1. /\ \A k : k \in DOMAIN T <=> k \in DOMAIN f \/ k \in DOMAIN g
      /\ \A k \in DOMAIN f : T[k] = f[k]
      /\ \A k \in DOMAIN g : k \notin DOMAIN f => T[k] = g[k]
  BY JoinedIs
<1> HIDE DEF T
<1> SUFFICES ASSUME NEW k \in DOMAIN T PROVE Firm(k, T[k])
  BY DEF FirmTable, T
<1>2. CASE k \in DOMAIN f
  BY <1>1, <1>2 DEF FirmTable
<1>3. CASE k \notin DOMAIN f
  BY <1>1, <1>3 DEF FirmTable
<1> QED BY <1>2, <1>3

\* A flat table is firm.
LEMMA FlatFirm ==
  ASSUME NEW T, FlatTable(T)
  PROVE  FirmTable(T)
BY DEF FlatTable, FirmTable, Firm

\* The fields of the types of inbound and outbound.
LEMMA TypedFields ==
  ASSUME NEW k
  PROVE  /\ Firm(k, OptFlag) /\ Firm(k, Off) /\ Firm(k, Required(OptText)) /\ Firm(k, OptText)
         /\ Firm(k, Method) /\ Firm(k, PortField) /\ Firm(k, OptionsField)
         /\ Firm(k, Needed(OptTexts)) /\ Firm(k, Field("bytes", Undef))
         /\ k \notin MapKeys =>
               /\ Firm(k, Item(AuthFields)) /\ Firm(k, Required(Item(PeerFields)))
               /\ Firm(k, Section(InboundTlsFields)) /\ Firm(k, Section(OutboundTlsFields))
<1>1. /\ Firm(k, OptFlag) /\ Firm(k, Required(OptText)) /\ Firm(k, OptText)
      /\ Firm(k, Needed(OptTexts)) /\ Firm(k, Field("bytes", Undef))
  BY LastingFields DEF Firm
<1>2. Firm(k, Method) /\ Firm(k, PortField)
  BY LastingFields DEF Firm, Method, PortField
<1>3. Firm(k, OptionsField) /\ Firm(k, Off)
  BY OptionsLast, LastingFlags DEF Firm
<1>4. ASSUME k \notin MapKeys
      PROVE  /\ Firm(k, Item(AuthFields)) /\ Firm(k, Required(Item(PeerFields)))
             /\ Firm(k, Section(InboundTlsFields)) /\ Firm(k, Section(OutboundTlsFields))
  <2>1. /\ FlatTable(InboundTlsFields) /\ Calm(InboundTlsFields)
        /\ FlatTable(OutboundTlsFields) /\ Calm(OutboundTlsFields)
    BY QuietInnerTables, QuietIs
  <2>2. FlatTable(AuthFields) /\ FlatTable(PeerFields)
    BY FlatTables
  <2> QED BY <1>4, <2>1, <2>2, NestedFirms
<1> QED BY <1>1, <1>2, <1>3, <1>4

\* The tables of the types.
LEMMA TypeTables ==
  /\ FirmTable([auth |-> Item(AuthFields)])
  /\ FirmTable([auth |-> Item(AuthFields), udpAssociate |-> OptFlag])
  /\ FirmTable([method |-> Method, password |-> Required(OptText), udp |-> Off])
  /\ FirmTable([password |-> Required(OptText), tls |-> Section(InboundTlsFields)])
  /\ FirmTable([options |-> OptionsField]) /\ FirmTable(<<>>) /\ FirmTable([reason |-> OptText])
  /\ FirmTable([targetHost |-> Required(OptText), targetPort |-> PortField])
  /\ FirmTable(Joined(ServerFields, [method |-> Method]))
  /\ FirmTable(Joined(ServerFields, [tls |-> Section(OutboundTlsFields)]))
  /\ FirmTable(WireGuardFields)
<1>1. /\ FirmTable([auth |-> Item(AuthFields)])
      /\ FirmTable([auth |-> Item(AuthFields), udpAssociate |-> OptFlag])
  BY TypedFields DEF FirmTable, MapKeys
<1>2. FirmTable([method |-> Method, password |-> Required(OptText), udp |-> Off])
  BY TypedFields DEF FirmTable
<1>3. FirmTable([password |-> Required(OptText), tls |-> Section(InboundTlsFields)])
  BY TypedFields DEF FirmTable, MapKeys
<1>4. FirmTable([options |-> OptionsField]) /\ FirmTable(<<>>) /\ FirmTable([reason |-> OptText])
  BY TypedFields DEF FirmTable
<1>5. FirmTable([targetHost |-> Required(OptText), targetPort |-> PortField])
  BY TypedFields DEF FirmTable
<1>6. FirmTable(ServerFields)
  BY FlatTables, FlatFirm
<1>7. FirmTable([method |-> Method]) /\ FirmTable([tls |-> Section(OutboundTlsFields)])
  BY TypedFields DEF FirmTable, MapKeys
<1>8. FirmTable(WireGuardFields)
  BY TypedFields DEF FirmTable, MapKeys, WireGuardFields
<1> QED BY <1>1, <1>2, <1>3, <1>4, <1>5, <1>6, <1>7, <1>8, JoinedFirm

\* Those of the inbounds, with the common fields.
LEMMA InboundTypesFirm ==
  \A s \in DOMAIN InboundTypes : FirmTable(Joined(InboundFields, InboundTypes[s]))
<1>1. InboundTypes =
          [http        |-> [auth |-> Item(AuthFields)],
           socks5      |-> [auth |-> Item(AuthFields), udpAssociate |-> OptFlag],
           shadowsocks |-> [method |-> Method, password |-> Required(OptText), udp |-> Off],
           trojan      |-> [password |-> Required(OptText), tls |-> Section(InboundTlsFields)],
           plugin      |-> [options |-> OptionsField]]
  BY DEF InboundTypes, Off
<1>2. \A s \in DOMAIN InboundTypes : FirmTable(InboundTypes[s])
  BY <1>1, TypeTables
<1>3. FirmTable(InboundFields)
  BY FlatTables, FlatFirm
<1> QED BY <1>2, <1>3, JoinedFirm

\* Those of the outbounds.
LEMMA OutboundTypesFirm ==
  \A s \in DOMAIN OutboundTypes : FirmTable(Joined(OutboundFields, OutboundTypes[s]))
<1>1. \A s \in DOMAIN OutboundTypes : FirmTable(OutboundTypes[s])
  BY TypeTables DEF OutboundTypes
<1>2. FirmTable(OutboundFields)
  BY FlatTables, FlatFirm
<1> QED BY <1>1, <1>2, JoinedFirm

\* A typed object keeps its type, so it is parsed by the same table again.
LEMMA TypedAgain ==
  ASSUME NEW x, Roomy(x), NEW common, NEW types, "type" \in DOMAIN common,
         common["type"] = Required(OptText), ReadItem(ParseTyped(x, common, types)),
         FirmTable(Joined(common, types[TypeKey(x)]))
  PROVE  ParseTyped(ParseTyped(x, common, types), common, types) = ParseTyped(x, common, types)
<1> DEFINE G == types[TypeKey(x)]
           T == Joined(common, G)
           y == ParseTyped(x, common, types)
<1>1. KnownType(x, types) /\ y = Obj(Nodes(x, T)) /\ ~IsBad(Nodes(x, T)["type"])
  BY TypedItem
<1>2. y = ParseNode(x, T)
  BY <1>1 DEF ParseTyped
<1>3. /\ Nodes(x, T)["type"] = ReadField(x.o, "type", Required(OptText))
      /\ "type" \in DOMAIN Nodes(x, T)
  <2> HIDE DEF G
  <2> QED BY TypedField
<1> HIDE DEF T, y
<1>4. Get(y.o, "type") = Get(x.o, "type") /\ isRecord(y)
  <2>1. y.o = Nodes(x, T) /\ isRecord(y)
    BY <1>1, ObjIs DEF isRecord
  <2>2. Nodes(x, T)["type"] = Get(x.o, "type")
    BY <1>1, <1>3, NodeText
  <2> QED BY <1>3, <2>1, <2>2 DEF Get
<1>5. KnownType(y, types) /\ TypeKey(y) = TypeKey(x)
  BY <1>1, <1>4 DEF KnownType, TypeKey
<1>6. ParseTyped(y, common, types) = ParseNode(y, T)
  BY <1>5 DEF ParseTyped, T
<1>7. ReadItem(ParseNode(x, T)) /\ FirmTable(T)
  BY <1>2 DEF y, T
<1>8. ParseNode(y, T) = y
  BY <1>2, <1>7, NodeAgain
<1> QED BY <1>6, <1>8 DEF y

\* An inbound is parsed into itself.
LEMMA InboundAgain ==
  ASSUME NEW x, Roomy(x), ReadItem(parseInbound(x))
  PROVE  parseInbound(parseInbound(x)) = parseInbound(x)
<1>1. KnownType(x, InboundTypes)
  BY TypedItem DEF parseInbound
<1>2. Plugin \in DOMAIN InboundTypes
  BY DEF InboundTypes, Plugin
<1>3. FirmTable(Joined(InboundFields, InboundTypes[TypeKey(x)]))
  BY <1>1, <1>2, KnownKey, InboundTypesFirm
<1>4. "type" \in DOMAIN InboundFields /\ InboundFields["type"] = Required(OptText)
  BY DEF InboundFields
<1> QED BY <1>3, <1>4, TypedAgain DEF parseInbound

\* An outbound is.
LEMMA OutboundAgain ==
  ASSUME NEW x, Roomy(x), ReadItem(parseOutbound(x))
  PROVE  parseOutbound(parseOutbound(x)) = parseOutbound(x)
<1>1. KnownType(x, OutboundTypes)
  BY TypedItem DEF parseOutbound
<1>2. Plugin \in DOMAIN OutboundTypes
  BY DEF OutboundTypes, Plugin
<1>3. FirmTable(Joined(OutboundFields, OutboundTypes[TypeKey(x)]))
  BY <1>1, <1>2, KnownKey, OutboundTypesFirm
<1>4. "type" \in DOMAIN OutboundFields /\ OutboundFields["type"] = Required(OptText)
  BY DEF OutboundFields
<1> QED BY <1>3, <1>4, TypedAgain DEF parseOutbound

\* A list none of whose items is dropped.
LEMMA SameItems ==
  ASSUME NEW a, IsSequence(a), \A y \in ToSet(a) : ReadItem(y)
  PROVE  Collected(a) = Arr(a)
<1>1. DOMAIN a = 1 .. Len(a) /\ \A i \in 1 .. Len(a) : a[i] \in ToSet(a)
  BY SequenceHas
<1>2. \A i \in DOMAIN a : ~IsBad(a[i])
  BY <1>1 DEF ReadItem
<1>3. Those(a, {r \in ToSet(a) : ~IsUndef(r)}) = a
  <2>1. ToSet(a) \subseteq {r \in ToSet(a) : ~IsUndef(r)}
    BY DEF ReadItem
  <2> QED BY <2>1, Filtered
<1> QED BY <1>2, <1>3 DEF Collected

\* The inbounds of a parsed configuration.
LEMMA InboundsParsed ==
  ASSUME NEW g, Value6(g) \/ g = Undef, ~IsBad(ParseNonEmpty(g, parseInbound))
  PROVE  LET v == ParseNonEmpty(g, parseInbound)
         IN  /\ v = Arr(v.a) /\ IsSequence(v.a) /\ ItemsOf(g) # <<>>
             /\ \A y \in ToSet(v.a) : ReadItem(y) /\ \E x : Roomy(x) /\ y = parseInbound(x)
             /\ \A x \in ToSet(ItemsOf(g)) : IsUndef(parseInbound(x)) \/ parseInbound(x) \in ToSet(v.a)
<1> DEFINE v == ParseNonEmpty(g, parseInbound)
           rs == [i \in DOMAIN g.a |-> parseInbound(g.a[i])]
<1>1. g.t = "arr" /\ v = Collected(rs) /\ ~IsBad(v) /\ ItemsOf(g) # <<>>
  BY DEF ParseNonEmpty, ItemsOf, IsBad, Bad
<1> HIDE DEF v, rs
<1>2. Value6(g) /\ IsSequence(g.a) /\ ItemsOf(g) = g.a /\ \A x \in ToSet(g.a) : Value5(x)
  <2>1. Value6(g) /\ ItemsOf(g) = g.a
    BY <1>1 DEF Undef, ItemsOf
  <2> QED BY <1>1, <2>1, ProperValue DEF Proper
<1>3. /\ Len(g.a) \in Nat /\ DOMAIN g.a = 1 .. Len(g.a)
      /\ \A i \in 1 .. Len(g.a) : g.a[i] \in ToSet(g.a)
      /\ \A x \in ToSet(g.a) : \E i \in 1 .. Len(g.a) : x = g.a[i]
  BY <1>2, SequenceHas
<1>4. rs = [i \in 1 .. Len(g.a) |-> parseInbound(g.a[i])]
  BY <1>3 DEF rs
<1>5. rs = [i \in 1 .. Len(g.a) |-> rs[i]]
  BY <1>4
<1>6. IsSequence(rs) /\ Len(rs) = Len(g.a)
  BY <1>3, <1>5, MappedSequence
<1>7. /\ \A i \in 1 .. Len(rs) : ~IsBad(rs[i])
      /\ v = Arr(Those(rs, {r \in ToSet(rs) : ~IsUndef(r)}))
      /\ IsSequence(v.a)
      /\ \A y \in ToSet(v.a) : ~IsUndef(y) /\ \E i \in 1 .. Len(rs) : y = rs[i]
      /\ \A i \in 1 .. Len(rs) : IsUndef(rs[i]) \/ rs[i] \in ToSet(v.a)
  BY <1>1, <1>6, CollectedIs, Zenon
<1>8. v = Arr(v.a)
  BY <1>7 DEF Arr
<1>9. ASSUME NEW y \in ToSet(v.a) PROVE ReadItem(y) /\ \E x : Roomy(x) /\ y = parseInbound(x)
  <2>1. PICK i \in 1 .. Len(rs) : y = rs[i]
    BY <1>7
  <2>2. ReadItem(y) /\ y = parseInbound(g.a[i])
    BY <1>4, <1>6, <1>7, <2>1 DEF ReadItem
  <2>3. Value5(g.a[i])
    BY <1>2, <1>3, <1>6
  <2>4. isRecord(g.a[i])
    <3>1. KnownType(g.a[i], InboundTypes)
      BY <2>2, TypedItem DEF parseInbound
    <3> QED BY <3>1 DEF KnownType
  <2> QED BY <2>2, <2>3, <2>4 DEF Roomy
<1>10. \A x \in ToSet(g.a) : IsUndef(parseInbound(x)) \/ parseInbound(x) \in ToSet(v.a)
  <2>1. \A i \in 1 .. Len(g.a) : rs[i] = parseInbound(g.a[i])
    BY <1>4
  <2> QED BY <1>3, <1>6, <1>7, <2>1
<1> QED BY <1>1, <1>2, <1>7, <1>8, <1>9, <1>10 DEF v

\* One of them at least was kept.
LEMMA InboundsStay ==
  ASSUME NEW g, Value6(g) \/ g = Undef, ~IsBad(ParseNonEmpty(g, parseInbound))
  PROVE  ParseNonEmpty(g, parseInbound).a # <<>>
<1> DEFINE v == ParseNonEmpty(g, parseInbound)
<1>1. /\ ItemsOf(g) # <<>>
      /\ \A x \in ToSet(ItemsOf(g)) : IsUndef(parseInbound(x)) \/ parseInbound(x) \in ToSet(v.a)
  BY InboundsParsed, Zenon
<1>2. g.t = "arr" /\ ~IsBad(Collected([i \in DOMAIN g.a |-> parseInbound(g.a[i])]))
  BY DEF ParseNonEmpty, ItemsOf, IsBad, Bad
<1>3. IsSequence(g.a) /\ ItemsOf(g) = g.a
  BY <1>2, ProperValue DEF Proper, ItemsOf, Undef
<1>4. PICK x \in ToSet(g.a) : TRUE
  <2>1. Len(g.a) \in Nat /\ \A i \in 1 .. Len(g.a) : g.a[i] \in ToSet(g.a)
    BY <1>3, SequenceHas
  <2>2. Len(g.a) # 0
    BY <1>1, <1>3, NoItems
  <2>3. 1 \in 1 .. Len(g.a)
    BY <2>1, <2>2
  <2> QED BY <2>1, <2>3
<1>5. ~IsBad(parseInbound(x))
  <2>1. PICK i \in 1 .. Len(g.a) : x = g.a[i]
    BY <1>3, <1>4, SequenceHas
  <2>2. DOMAIN g.a = 1 .. Len(g.a)
    BY <1>3, SequenceHas
  <2> QED BY <1>2, <2>1, <2>2 DEF Collected, IsBad, Bad
<1>6. parseInbound(x) \in ToSet(v.a)
  BY <1>1, <1>3, <1>4, <1>5, InboundKept, Zenon
<1> HIDE DEF v
<1>7. ToSet(v.a) # {}
  BY <1>6
<1>8. v.a # <<>>
  BY <1>7, NoItems
<1> QED BY <1>8 DEF v

\* They are parsed into themselves.
LEMMA InboundsAgain ==
  ASSUME NEW g, Value6(g) \/ g = Undef, ~IsBad(ParseNonEmpty(g, parseInbound)),
         ParseNonEmpty(g, parseInbound).a # <<>>
  PROVE  ParseNonEmpty(ParseNonEmpty(g, parseInbound), parseInbound) = ParseNonEmpty(g, parseInbound)
<1> DEFINE v == ParseNonEmpty(g, parseInbound)
           rs == [i \in DOMAIN v.a |-> parseInbound(v.a[i])]
<1>1. /\ v = Arr(v.a) /\ IsSequence(v.a)
      /\ \A y \in ToSet(v.a) : ReadItem(y) /\ \E x : Roomy(x) /\ y = parseInbound(x)
  BY InboundsParsed, Zenon
<1>2. v.a # <<>>
  OBVIOUS
<1> HIDE DEF v
<1>3. \A y \in ToSet(v.a) : parseInbound(y) = y
  BY <1>1, InboundAgain
<1>4. /\ DOMAIN v.a = 1 .. Len(v.a) /\ v.a = [i \in 1 .. Len(v.a) |-> v.a[i]]
      /\ \A i \in 1 .. Len(v.a) : v.a[i] \in ToSet(v.a)
  BY <1>1, SequenceHas
<1>5. rs = v.a
  BY <1>3, <1>4
<1>6. ItemsOf(v) = v.a
  BY <1>1, ArrIs DEF ItemsOf
<1>7. ParseNonEmpty(v, parseInbound) = Collected(rs)
  BY <1>2, <1>6 DEF ParseNonEmpty
<1> HIDE DEF rs
<1>8. Collected(v.a) = Arr(v.a)
  BY <1>1, SameItems
<1> QED BY <1>1, <1>5, <1>7, <1>8 DEF v

\* The outbounds of a parsed configuration.
LEMMA OutboundsParsed ==
  ASSUME NEW g, Value6(g) \/ g = Undef, ~IsBad(ParseNonEmpty(g, parseOutbound))
  PROVE  LET v == ParseNonEmpty(g, parseOutbound)
         IN  /\ v = Arr(v.a) /\ IsSequence(v.a) /\ ItemsOf(g) # <<>>
             /\ \A y \in ToSet(v.a) : ReadItem(y) /\ \E x : Roomy(x) /\ y = parseOutbound(x)
             /\ \A x \in ToSet(ItemsOf(g)) : IsUndef(parseOutbound(x)) \/ parseOutbound(x) \in ToSet(v.a)
<1> DEFINE v == ParseNonEmpty(g, parseOutbound)
           rs == [i \in DOMAIN g.a |-> parseOutbound(g.a[i])]
<1>1. g.t = "arr" /\ v = Collected(rs) /\ ~IsBad(v) /\ ItemsOf(g) # <<>>
  BY DEF ParseNonEmpty, ItemsOf, IsBad, Bad
<1> HIDE DEF v, rs
<1>2. Value6(g) /\ IsSequence(g.a) /\ ItemsOf(g) = g.a /\ \A x \in ToSet(g.a) : Value5(x)
  <2>1. Value6(g) /\ ItemsOf(g) = g.a
    BY <1>1 DEF Undef, ItemsOf
  <2> QED BY <1>1, <2>1, ProperValue DEF Proper
<1>3. /\ Len(g.a) \in Nat /\ DOMAIN g.a = 1 .. Len(g.a)
      /\ \A i \in 1 .. Len(g.a) : g.a[i] \in ToSet(g.a)
      /\ \A x \in ToSet(g.a) : \E i \in 1 .. Len(g.a) : x = g.a[i]
  BY <1>2, SequenceHas
<1>4. rs = [i \in 1 .. Len(g.a) |-> parseOutbound(g.a[i])]
  BY <1>3 DEF rs
<1>5. rs = [i \in 1 .. Len(g.a) |-> rs[i]]
  BY <1>4
<1>6. IsSequence(rs) /\ Len(rs) = Len(g.a)
  BY <1>3, <1>5, MappedSequence
<1>7. /\ \A i \in 1 .. Len(rs) : ~IsBad(rs[i])
      /\ v = Arr(Those(rs, {r \in ToSet(rs) : ~IsUndef(r)}))
      /\ IsSequence(v.a)
      /\ \A y \in ToSet(v.a) : ~IsUndef(y) /\ \E i \in 1 .. Len(rs) : y = rs[i]
      /\ \A i \in 1 .. Len(rs) : IsUndef(rs[i]) \/ rs[i] \in ToSet(v.a)
  BY <1>1, <1>6, CollectedIs, Zenon
<1>8. v = Arr(v.a)
  BY <1>7 DEF Arr
<1>9. ASSUME NEW y \in ToSet(v.a) PROVE ReadItem(y) /\ \E x : Roomy(x) /\ y = parseOutbound(x)
  <2>1. PICK i \in 1 .. Len(rs) : y = rs[i]
    BY <1>7
  <2>2. ReadItem(y) /\ y = parseOutbound(g.a[i])
    BY <1>4, <1>6, <1>7, <2>1 DEF ReadItem
  <2>3. Value5(g.a[i])
    BY <1>2, <1>3, <1>6
  <2>4. isRecord(g.a[i])
    <3>1. KnownType(g.a[i], OutboundTypes)
      BY <2>2, TypedItem DEF parseOutbound
    <3> QED BY <3>1 DEF KnownType
  <2> QED BY <2>2, <2>3, <2>4 DEF Roomy
<1>10. \A x \in ToSet(g.a) : IsUndef(parseOutbound(x)) \/ parseOutbound(x) \in ToSet(v.a)
  <2>1. \A i \in 1 .. Len(g.a) : rs[i] = parseOutbound(g.a[i])
    BY <1>4
  <2> QED BY <1>3, <1>6, <1>7, <2>1
<1> QED BY <1>1, <1>2, <1>7, <1>8, <1>9, <1>10 DEF v

\* They are parsed into themselves.
LEMMA OutboundsAgain ==
  ASSUME NEW g, Value6(g) \/ g = Undef, ~IsBad(ParseNonEmpty(g, parseOutbound)),
         ParseNonEmpty(g, parseOutbound).a # <<>>
  PROVE  ParseNonEmpty(ParseNonEmpty(g, parseOutbound), parseOutbound) = ParseNonEmpty(g, parseOutbound)
<1> DEFINE v == ParseNonEmpty(g, parseOutbound)
           rs == [i \in DOMAIN v.a |-> parseOutbound(v.a[i])]
<1>1. /\ v = Arr(v.a) /\ IsSequence(v.a)
      /\ \A y \in ToSet(v.a) : ReadItem(y) /\ \E x : Roomy(x) /\ y = parseOutbound(x)
  BY OutboundsParsed, Zenon
<1>2. v.a # <<>>
  OBVIOUS
<1> HIDE DEF v
<1>3. \A y \in ToSet(v.a) : parseOutbound(y) = y
  BY <1>1, OutboundAgain
<1>4. /\ DOMAIN v.a = 1 .. Len(v.a) /\ v.a = [i \in 1 .. Len(v.a) |-> v.a[i]]
      /\ \A i \in 1 .. Len(v.a) : v.a[i] \in ToSet(v.a)
  BY <1>1, SequenceHas
<1>5. rs = v.a
  BY <1>3, <1>4
<1>6. ItemsOf(v) = v.a
  BY <1>1, ArrIs DEF ItemsOf
<1>7. ParseNonEmpty(v, parseOutbound) = Collected(rs)
  BY <1>2, <1>6 DEF ParseNonEmpty
<1> HIDE DEF rs
<1>8. Collected(v.a) = Arr(v.a)
  BY <1>1, SameItems
<1> QED BY <1>1, <1>5, <1>7, <1>8 DEF v

-----------------------------------------------------------------------------
(* Rules: the entries of geo tags are added at every parse.                *)

\* The concatenation of one more list.
FlatStep(seqs, g, n) == IF n = 1 THEN seqs[n] ELSE g[n - 1] \o seqs[n]
\* The concatenations of the first lists.
FlatUpTo(seqs, m) == CHOOSE g : g = [n \in 1 .. m |-> FlatStep(seqs, g, n)]

\* There is such a function.
LEMMA FlatExists ==
  ASSUME NEW seqs, NEW m \in Nat
  PROVE  \E g : g = [n \in 1 .. m |-> FlatStep(seqs, g, n)]
<1> DEFINE T == {k \in Nat : \E g : g = [n \in 1 .. k |-> FlatStep(seqs, g, n)]}
<1>1. 0 \in T
  <2> DEFINE g == [n \in 1 .. 0 |-> <<>>]
  <2>1. g = [n \in 1 .. 0 |-> FlatStep(seqs, g, n)]
    OBVIOUS
  <2> QED BY <2>1, Zenon
<1>2. ASSUME NEW k \in Nat, k \in T PROVE k + 1 \in T
  <2>1. PICK g : g = [n \in 1 .. k |-> FlatStep(seqs, g, n)]
    BY <1>2
  <2> DEFINE h == [n \in 1 .. (k + 1) |-> IF n = k + 1 THEN FlatStep(seqs, g, n) ELSE g[n]]
  <2>2. \A n \in 1 .. (k + 1) : n # 1 => n - 1 \in 1 .. k /\ h[n - 1] = g[n - 1]
    OBVIOUS
  <2>3. \A n \in 1 .. (k + 1) : h[n] = FlatStep(seqs, g, n)
    BY <2>1
  <2>4. \A n \in 1 .. (k + 1) : FlatStep(seqs, h, n) = FlatStep(seqs, g, n)
    BY <2>2 DEF FlatStep
  <2> HIDE DEF h
  <2>5. h = [n \in 1 .. (k + 1) |-> FlatStep(seqs, h, n)]
    <3>1. h = [n \in 1 .. (k + 1) |-> h[n]]
      BY DEF h
    <3> QED BY <2>3, <2>4, <3>1
  <2> QED BY <2>5
<1>3. Nat \subseteq T
  <2> HIDE DEF T
  <2> QED BY <1>1, <1>2, Upwards
<1> QED BY <1>3

\* A list of trimmed texts.
TrimmedList(a) == IsSequence(a) /\ \A y \in ToSet(a) : ProperText(y) /\ IsText(y) /\ TrimItem(y) = y

\* The items of two lists, one after the other.
LEMMA JoinedItems ==
  ASSUME NEW a, NEW b, IsSequence(a), IsSequence(b)
  PROVE  IsSequence(a \o b) /\ ToSet(a \o b) = ToSet(a) \cup ToSet(b)
<1>1. /\ IsSequence(a \o b) /\ Len(a \o b) = Len(a) + Len(b)
      /\ \A i \in 1 .. Len(a) : (a \o b)[i] = a[i]
      /\ \A i \in 1 .. Len(b) : (a \o b)[Len(a) + i] = b[i]
  BY Concatenated
<1> DEFINE c == a \o b
<1> HIDE DEF c
<1>2. /\ Len(a) \in Nat /\ Len(b) \in Nat /\ DOMAIN a = 1 .. Len(a) /\ DOMAIN b = 1 .. Len(b)
      /\ DOMAIN c = 1 .. Len(c) /\ Len(c) = Len(a) + Len(b)
      /\ \A i \in 1 .. Len(a) : c[i] = a[i]
      /\ \A i \in 1 .. Len(b) : c[Len(a) + i] = b[i]
  BY <1>1, SequenceHas DEF c
<1>3. ASSUME NEW x \in ToSet(c) PROVE x \in ToSet(a) \cup ToSet(b)
  <2>1. PICK i \in 1 .. Len(c) : x = c[i]
    BY <1>2 DEF ToSet
  <2>2. CASE i <= Len(a)
    BY <1>2, <2>1, <2>2 DEF ToSet
  <2>3. CASE ~(i <= Len(a))
    <3>1. i - Len(a) \in 1 .. Len(b) /\ Len(a) + (i - Len(a)) = i
      BY <1>2, <2>1, <2>3
    <3>2. x = b[i - Len(a)]
      BY <1>2, <2>1, <3>1
    <3> QED BY <1>2, <3>1, <3>2 DEF ToSet
  <2> QED BY <2>2, <2>3
<1>4. ASSUME NEW x \in ToSet(a) PROVE x \in ToSet(c)
  <2>1. PICK i \in 1 .. Len(a) : x = a[i]
    BY <1>2 DEF ToSet
  <2>2. i \in 1 .. Len(c) /\ x = c[i]
    BY <1>2, <2>1
  <2> QED BY <1>2, <2>2 DEF ToSet
<1>5. ASSUME NEW x \in ToSet(b) PROVE x \in ToSet(c)
  <2>1. PICK i \in 1 .. Len(b) : x = b[i]
    BY <1>2 DEF ToSet
  <2>2. Len(a) + i \in 1 .. Len(c) /\ x = c[Len(a) + i]
    BY <1>2, <2>1
  <2> QED BY <1>2, <2>2 DEF ToSet
<1>6. ToSet(c) = ToSet(a) \cup ToSet(b)
  BY <1>3, <1>4, <1>5
<1> QED BY <1>1, <1>6 DEF c

\* Two trimmed lists make one.
LEMMA JoinedTrimmed ==
  ASSUME NEW a, NEW b, TrimmedList(a), TrimmedList(b)
  PROVE  TrimmedList(a \o b)
BY JoinedItems DEF TrimmedList

\* So does any number of them.
LEMMA FlattenedTrimmed ==
  ASSUME NEW seqs, IsSequence(seqs), \A i \in 1 .. Len(seqs) : TrimmedList(seqs[i])
  PROVE  TrimmedList(FlattenSeq(seqs))
<1> DEFINE m == Len(seqs)
           P == FlatUpTo(seqs, m)
<1>1. m \in Nat /\ DOMAIN seqs = 1 .. m
  BY SequenceHas
<1>2. CASE m = 0
  <2>1. FlattenSeq(seqs) = seqs
    BY <1>2 DEF FlattenSeq
  <2>2. ToSet(seqs) = {}
    BY <1>1, <1>2 DEF ToSet
  <2> QED BY <2>1, <2>2 DEF TrimmedList
<1>3. CASE m # 0
  <2>1. P = [n \in 1 .. m |-> FlatStep(seqs, P, n)]
    BY <1>1, FlatExists DEF FlatUpTo
  <2>2. FlattenSeq(seqs) = P[m]
    <3>1. FlatUpTo(seqs, Len(seqs)) =
             CHOOSE g : g = [n \in 1 .. Len(seqs) |-> IF n = 1 THEN seqs[n] ELSE g[n - 1] \o seqs[n]]
      BY DEF FlatUpTo, FlatStep
    <3> QED BY <1>3, <3>1 DEF FlattenSeq
  <2> HIDE DEF P, m
  <2> DEFINE T == {n \in Nat : n + 1 <= m => TrimmedList(P[n + 1])}
  <2>3. \A n \in 1 .. m : TrimmedList(seqs[n])
    BY DEF m
  <2>4. 0 \in T
    <3>1. ASSUME 1 <= m PROVE TrimmedList(P[1])
      <4>1. 1 \in 1 .. m
        BY <1>1, <3>1
      <4>2. P[1] = seqs[1]
        BY <2>1, <4>1 DEF FlatStep
      <4> QED BY <2>3, <4>1, <4>2
    <3> QED BY <3>1
  <2>5. ASSUME NEW n \in Nat, n \in T PROVE n + 1 \in T
    <3>1. ASSUME (n + 1) + 1 <= m PROVE TrimmedList(P[(n + 1) + 1])
      <4> DEFINE j == (n + 1) + 1
      <4>1. j \in 1 .. m /\ j # 1 /\ j - 1 = n + 1
        BY <1>1, <3>1
      <4>2. TrimmedList(P[n + 1])
        BY <1>1, <2>5, <3>1
      <4> HIDE DEF j
      <4>3. P[j] = P[j - 1] \o seqs[j]
        BY <2>1, <4>1, Zenon DEF FlatStep
      <4>4. TrimmedList(P[j])
        BY <2>3, <4>1, <4>2, <4>3, JoinedTrimmed
      <4> QED BY <4>4 DEF j
    <3> QED BY <3>1
  <2>6. Nat \subseteq T
    <3> HIDE DEF T
    <3> QED BY <2>4, <2>5, Upwards
  <2>7. m - 1 \in Nat /\ (m - 1) + 1 = m /\ m <= m
    BY <1>1, <1>3
  <2>8. TrimmedList(P[(m - 1) + 1])
    BY <2>6, <2>7
  <2> QED BY <2>2, <2>7, <2>8
<1> QED BY <1>2, <1>3

\* A geo table: its lists are trimmed.
GeoReady(L) == IsSequence(L.o) /\ \A e \in ToSet(L.o) : TrimmedList(e.val.a)

\* What geo tags stand for is a trimmed list.
LEMMA ExpandedTrimmed ==
  ASSUME NEW tags, NEW L, GeoReady(L), IsSequence(ItemsOf(tags))
  PROVE  TrimmedList(ExpandGeo(tags, L))
<1> DEFINE Entry(i) == GeoEntry(L, ItemsOf(tags)[i])
           Part(i) == [j \in DOMAIN Entry(i) |-> Entry(i)[j].val.a]
           parts == [i \in DOMAIN ItemsOf(tags) |-> FlattenSeq(Part(i))]
<1>1. ASSUME NEW i PROVE TrimmedList(FlattenSeq(Part(i)))
  <2> DEFINE E == Entry(i)
             W == {e \in ToSet(L.o) : e.key = Lower(ItemsOf(tags)[i].s)}
  <2>1. E = Those(L.o, W)
    BY DEF GeoEntry
  <2>2. W \subseteq ToSet(L.o)
    OBVIOUS
  <2> HIDE DEF E, W, Entry
  <2>3. IsSequence(E) /\ ToSet(E) \subseteq ToSet(L.o)
    BY <2>1, <2>2, Filtered DEF GeoReady
  <2>4. Len(E) \in Nat /\ DOMAIN E = 1 .. Len(E) /\ \A j \in 1 .. Len(E) : E[j] \in ToSet(E)
    BY <2>3, SequenceHas
  <2> DEFINE p == [j \in DOMAIN E |-> E[j].val.a]
  <2>5. Len(E) \in Nat /\ p = [j \in 1 .. Len(E) |-> p[j]] /\ \A j \in 1 .. Len(E) : p[j] = E[j].val.a
    BY <2>4
  <2> HIDE DEF p
  <2>6. IsSequence(p) /\ Len(p) = Len(E)
    BY <2>5, MappedSequence
  <2>7. \A j \in 1 .. Len(p) : TrimmedList(p[j])
    BY <2>3, <2>4, <2>5, <2>6 DEF GeoReady
  <2>8. TrimmedList(FlattenSeq(p))
    BY <2>6, <2>7, FlattenedTrimmed
  <2> QED BY <2>8 DEF p, E
<1>2. Len(ItemsOf(tags)) \in Nat /\ DOMAIN ItemsOf(tags) = 1 .. Len(ItemsOf(tags))
  BY SequenceHas
<1>3. /\ parts = [i \in 1 .. Len(ItemsOf(tags)) |-> parts[i]]
      /\ \A i \in 1 .. Len(ItemsOf(tags)) : TrimmedList(parts[i])
  BY <1>1, <1>2
<1>4. ExpandGeo(tags, L) = FlattenSeq(parts)
  BY DEF ExpandGeo
<1> HIDE DEF parts
<1>5. IsSequence(parts) /\ Len(parts) = Len(ItemsOf(tags))
  BY <1>2, <1>3, MappedSequence
<1> QED BY <1>3, <1>4, <1>5, FlattenedTrimmed

\* A map of lists that is accepted is a geo table.
LEMMA ListsReady ==
  ASSUME NEW f, f.kind = "lists", NEW k \in MapKeys, NEW g, Fit(k, g), Accepts(f, g)
  PROVE  GeoReady(Converted(f, g))
<1> DEFINE v == LowerKeys(g.o)
<1>1. isRecord(g) /\ \A i \in DOMAIN g.o : g.o[i].val.t = "arr" /\ AllTexts(g.o[i].val.a)
  BY AcceptsLists
<1>2. IsMap(g, Value2)
  BY <1>1 DEF Fit, isRecord, Undef
<1>3. ProperEntries(g)
  BY <1>1, <1>2, EntriesAreProper
<1>4. /\ ProperEntries(v)
      /\ \A i \in 1 .. Len(v.o) : \E j \in 1 .. Len(g.o) : v.o[i] = LowerEntry(g.o[j])
  BY <1>3, LoweredTwice, Zenon
<1>5. Converted(f, g) = v
  BY ConvertedIs, Zenon
<1> HIDE DEF v
<1>6. IsSequence(v.o) /\ DOMAIN g.o = 1 .. Len(g.o)
  BY <1>3, <1>4, SequenceHas DEF ProperEntries
<1>7. ASSUME NEW e \in ToSet(v.o) PROVE TrimmedList(e.val.a)
  <2>1. PICK i \in 1 .. Len(v.o) : e = v.o[i]
    BY <1>6, SequenceHas
  <2>2. PICK j \in 1 .. Len(g.o) : e = LowerEntry(g.o[j])
    BY <1>4, <2>1
  <2> DEFINE h == g.o[j].val
  <2>3. h.t = "arr" /\ ProperEntry(g.o[j])
    BY <1>1, <1>3, <1>6 DEF ProperEntries
  <2>4. e.val = TrimItems(h)
    BY <2>2, <2>3 DEF LowerEntry, TrimVal
  <2>5. ProperTexts(h)
    <3> HIDE DEF h
    <3>1. ~IsText(h)
      BY <2>3 DEF IsText
    <3> QED BY <2>3, <3>1 DEF ProperEntry, h
  <2> HIDE DEF h
  <2>6. /\ ProperTexts(e.val) /\ Len(e.val.a) = Len(h.a)
        /\ \A n \in 1 .. Len(h.a) : e.val.a[n] = TrimItem(h.a[n])
    BY <2>4, <2>5, TrimmedTwice
  <2>7. ASSUME NEW y \in ToSet(e.val.a) PROVE ProperText(y) /\ IsText(y) /\ TrimItem(y) = y
    <3>1. IsSequence(e.val.a)
      BY <2>6 DEF ProperTexts
    <3>2. PICK n \in 1 .. Len(e.val.a) : y = e.val.a[n]
      BY <3>1, SequenceHas
    <3>3. ProperText(y) /\ IsText(y)
      BY <2>6, <3>2 DEF ProperTexts
    <3>4. ProperText(h.a[n]) /\ y = TrimItem(h.a[n])
      BY <2>5, <2>6, <3>2 DEF ProperTexts
    <3> QED BY <3>3, <3>4, TrimmedText
  <2> QED BY <2>6, <2>7 DEF ProperTexts, TrimmedList
<1> QED BY <1>5, <1>6, <1>7 DEF GeoReady

\* The geo section has two.
LEMMA SectionGeoReady ==
  ASSUME NEW root, Value6(Get(root, "geo")) \/ Get(root, "geo") = Undef,
         ~IsBad(ParseSection(root, "geo"))
  PROVE  \A k \in {"geoip", "geosite"} : GeoReady(ParseSection(root, "geo").o[k])
<1> DEFINE g == Get(root, "geo")
           f == Field("lists", Obj(<<>>))
           T == SectionFields["geo"]
<1>1. GeoFields = [geoip |-> f, geosite |-> f] /\ T = GeoFields
  BY DEF GeoFields, SectionFields
<1>2. f.kind = "lists" /\ f.def = Obj(<<>>) /\ NoAlias(f) /\ f.kind \notin Nested
  BY DEF Field, Nested, NoAlias
<1>6. Idle(f)
  BY IdleFields
<1>3. GeoReady(Obj(<<>>))
  <2>1. Obj(<<>>).o = <<>> /\ ToSet(<<>>) = {}
    BY ObjIs, NoItems
  <2> QED BY <2>1, EmptyIsSequence DEF GeoReady
<1> HIDE DEF f
<1>4. CASE IsUndef(g)
  <2>1. ParseSection(root, "geo") = Defaults(T)
    BY <1>4 DEF ParseSection
  <2>2. \A k \in {"geoip", "geosite"} : Defaults(T).o[k] = f.def
    BY <1>1, ObjIs DEF Defaults
  <2> QED BY <1>2, <1>3, <2>1, <2>2
<1>5. CASE ~IsUndef(g)
  <2>1. ParseSection(root, "geo") = ParseNode(g, T)
    BY <1>5 DEF ParseSection, Get, IsUndef, Undef
  <2>2. Value6(g)
    BY <1>5, UndefIs
  <2>3. Fitting(g)
    BY <2>2, Shallower, FieldsFit
  <2> HIDE DEF g, T
  <2>4. \A k \in DOMAIN T : ~T[k].needed
    <3>1. \A k \in DOMAIN T : T[k] = f
      BY <1>1
    <3> QED BY <1>6, <3>1, Zenon DEF Idle
  <2>5. /\ isRecord(g)
        /\ \A k \in DOMAIN T : /\ ParseNode(g, T).o[k] = ReadField(g.o, k, T[k])
                               /\ ~IsBad(ReadField(g.o, k, T[k]))
    BY <2>1, <2>4, NodeKept, Zenon
  <2>6. ASSUME NEW k \in {"geoip", "geosite"} PROVE GeoReady(ParseNode(g, T).o[k])
    <3>1. k \in DOMAIN T /\ T[k] = f /\ k \in MapKeys
      BY <1>1 DEF MapKeys
    <3> DEFINE v == ReadLeaf(g.o, k, f)
               h == Get(g.o, k)
    <3>2. ParseNode(g, T).o[k] = v /\ ~IsBad(v)
      <4>1. v = ReadField(g.o, k, f)
        BY <1>2, FieldRead
      <4> HIDE DEF v
      <4> QED BY <2>5, <3>1, <4>1
    <3>3. v = ReadValue(f, h)
      BY <1>2, LeafSource
    <3>4. Fit(k, h)
      BY <2>3, <2>5 DEF Fitting
    <3> HIDE DEF v, h
    <3>5. \/ v = f.def
          \/ Accepts(f, h) /\ v = Converted(f, h)
      BY <3>2, <3>3, LeafRead
    <3> QED BY <1>2, <1>3, <3>1, <3>2, <3>4, <3>5, ListsReady
  <2> QED BY <2>1, <2>6
<1> QED BY <1>4, <1>5

\* The items of a list that is left out when it is empty.
LEMMA ListIs ==
  ASSUME NEW a
  PROVE  ItemsOf(ListUnlessEmpty(a)) = a
<1>1. CASE a = <<>>
  BY <1>1 DEF ListUnlessEmpty, ItemsOf, Undef
<1>2. CASE a # <<>>
  BY <1>2, ArrIs DEF ListUnlessEmpty, ItemsOf
<1> QED BY <1>1, <1>2

\* Such a list is read as it is.
LEMMA ListStays ==
  ASSUME NEW a, TrimmedList(a), NEW k
  PROVE  /\ Fixed(k, OptTexts, ListUnlessEmpty(a)) /\ ~IsBad(ListUnlessEmpty(a))
<1> DEFINE f == OptTexts
<1>1. f.kind = "texts" /\ NoAlias(f) /\ f.def = Undef
  BY SimpleFields DEF Simple
<1>2. Idle(f)
  BY IdleFields
<1> HIDE DEF f
<1>3. CASE a = <<>>
  <2>1. ListUnlessEmpty(a) = Undef
    BY <1>3 DEF ListUnlessEmpty
  <2>2. ~f.must /\ f.kind \notin Nested
    BY <1>1, <1>2, Zenon DEF Idle, Nested
  <2> QED BY <1>1, <2>1, <2>2, UndefAgain, UndefIs DEF f
<1>4. CASE a # <<>>
  <2> DEFINE v == Arr(a)
  <2>1. v.t = "arr" /\ v.a = a /\ v = Arr(v.a)
    BY ArrIs
  <2> HIDE DEF v
  <2>2. IsSequence(a) /\ DOMAIN a = 1 .. Len(a) /\ a = [i \in DOMAIN a |-> a[i]]
        /\ \A i \in DOMAIN a : ProperText(a[i]) /\ IsText(a[i]) /\ TrimItem(a[i]) = a[i]
    <3>1. IsSequence(a)
      BY DEF TrimmedList
    <3> QED BY <3>1, SequenceHas DEF TrimmedList
  <2>3. AllTexts(v.a)
    BY <2>1, <2>2 DEF AllTexts
  <2>4. TrimItems(v) = v
    <3>1. Proper(v)
      BY <2>1, <2>2, ProperList
    <3>2. TrimItems(v) = Arr([i \in DOMAIN v.a |-> TrimItem(v.a[i])])
      BY <2>1, <3>1, Trimmed
    <3>3. [i \in DOMAIN a |-> TrimItem(a[i])] = a
      BY <2>2
    <3> QED BY <2>1, <3>2, <3>3
  <2>5. Stable(f, v)
    <3>1. Accepts(f, v)
      BY <1>1, <2>1, <2>3, AcceptsTexts
    <3>2. Converted(f, v) = v
      BY <1>1, <2>4, ConvertedIs, Zenon
    <3> QED BY <2>1, <3>1, <3>2 DEF Stable, IsUndef, IsBad
  <2>6. ListUnlessEmpty(a) = v
    BY <1>4 DEF ListUnlessEmpty, v
  <2>7. ~IsBad(v) /\ f.kind \notin Nested
    BY <1>1, <2>1 DEF IsBad, Nested
  <2>8. Fixed(k, f, v)
    BY <2>5, <2>7, ReadAgain
  <2> QED BY <2>6, <2>7, <2>8 DEF f
<1> QED BY <1>3, <1>4

\* A list that reads as texts is one of proper texts.
Legible(g) == g.t = "arr" /\ AllTexts(g.a) => ProperTexts(g)

\* A field of a document can be read as a list of texts.
LEMMA FitIsLegible ==
  ASSUME NEW k, NEW g, Fit(k, g)
  PROVE  Legible(g)
<1> SUFFICES ASSUME g.t = "arr", AllTexts(g.a) PROVE ProperTexts(g)
  BY DEF Legible
<1>1. Value2(g)
  BY DEF Fit, isRecord, Undef
<1> QED BY <1>1, TextsAreProper

\* The texts a field has read are trimmed.
LEMMA TextsRead ==
  ASSUME NEW x, isRecord(x), NEW k, Legible(Get(x.o, k)), ~IsBad(ReadLeaf(x.o, k, OptTexts))
  PROVE  LET v == ReadLeaf(x.o, k, OptTexts)
         IN  TrimmedList(ItemsOf(v)) /\ Legible(v)
<1> DEFINE f == OptTexts
           v == ReadLeaf(x.o, k, f)
           g == Get(x.o, k)
<1>1. f.kind = "texts" /\ NoAlias(f) /\ f.def = Undef
  BY SimpleFields DEF Simple
<1>2. Legible(g)
  OBVIOUS
<1>3. v = ReadValue(f, g) /\ ~IsBad(v)
  <2> HIDE DEF f
  <2>1. v = ReadValue(f, g)
    BY <1>1, LeafSource
  <2> QED BY <2>1 DEF f
<1> HIDE DEF f, g, v
<1>4. \/ v = Undef
      \/ Accepts(f, g) /\ v = Converted(f, g)
  BY <1>1, <1>3, LeafRead
<1>5. CASE v = Undef
  <2>1. ItemsOf(v) = <<>>
    BY <1>5 DEF ItemsOf, Undef
  <2>2. TrimmedList(ItemsOf(v))
    BY <2>1, EmptyIsSequence, NoItems DEF TrimmedList
  <2>3. Legible(v)
    BY <1>5 DEF Legible, Undef
  <2> QED BY <2>2, <2>3 DEF v, f
<1>6. CASE Accepts(f, g) /\ v = Converted(f, g)
  <2>1. g.t = "arr" /\ AllTexts(g.a) /\ v = TrimItems(g)
    BY <1>1, <1>6, AcceptsTexts, ConvertedIs, Zenon
  <2>3. ProperTexts(g)
    BY <1>2, <2>1 DEF Legible
  <2>4. /\ ProperTexts(v) /\ v.t = "arr" /\ Len(v.a) = Len(g.a)
        /\ \A n \in 1 .. Len(g.a) : v.a[n] = TrimItem(g.a[n])
    BY <2>1, <2>3, TrimmedTwice
  <2>5. ASSUME NEW y \in ToSet(v.a) PROVE ProperText(y) /\ IsText(y) /\ TrimItem(y) = y
    <3>1. PICK n \in 1 .. Len(v.a) : y = v.a[n]
      BY <2>4, SequenceHas DEF ProperTexts
    <3>2. ProperText(g.a[n]) /\ y = TrimItem(g.a[n])
      BY <2>3, <2>4, <3>1 DEF ProperTexts
    <3>3. ProperText(y) /\ IsText(y)
      BY <2>4, <3>1 DEF ProperTexts
    <3> QED BY <3>2, <3>3, TrimmedText
  <2>6. ItemsOf(v) = v.a
    BY <2>4 DEF ItemsOf
  <2>7. TrimmedList(v.a)
    BY <2>4, <2>5 DEF ProperTexts, TrimmedList
  <2>8. Legible(v)
    BY <2>4 DEF Legible
  <2> QED BY <2>6, <2>7, <2>8 DEF v, f
<1> QED BY <1>4, <1>5, <1>6

\* The fields of a rule.
RuleKeys == {"outboundTag", "tag", "domain", "domainSuffix", "ipCidr", "geoIp", "geoSite", "port"}

\* They are those of RuleFields.
LEMMA RuleKeysAre ==
  /\ DOMAIN RuleFields = RuleKeys
  /\ RuleFields["domainSuffix"] = OptTexts /\ RuleFields["ipCidr"] = OptTexts
  /\ RuleFields["geoIp"] = OptTexts /\ RuleFields["geoSite"] = OptTexts
BY DEF RuleFields, RuleKeys

\* A function with the keys of a rule.
RuleRecord(o) == DOMAIN o = RuleKeys /\ o = [k \in DOMAIN o |-> o[k]]

\* A rule with its geo tags expanded.
LEMMA ExpandedRule ==
  ASSUME NEW o, RuleRecord(o), NEW geo
  PROVE  /\ RuleRecord(Expanded(o, geo))
         /\ Expanded(o, geo).ipCidr =
               ListUnlessEmpty(ItemsOf(o.ipCidr) \o ExpandGeo(o.geoIp, geo.o.geoip))
         /\ Expanded(o, geo).domainSuffix =
               ListUnlessEmpty(ItemsOf(o.domainSuffix) \o ExpandGeo(o.geoSite, geo.o.geosite))
         /\ \A k \in RuleKeys \ {"ipCidr", "domainSuffix"} : Expanded(o, geo)[k] = o[k]
<1> DEFINE A(x) == ListUnlessEmpty(ItemsOf(x) \o ExpandGeo(o.geoIp, geo.o.geoip))
           B(x) == ListUnlessEmpty(ItemsOf(x) \o ExpandGeo(o.geoSite, geo.o.geosite))
<1>1. Expanded(o, geo) = [o EXCEPT !.ipCidr = A(@), !.domainSuffix = B(@)]
  BY DEF Expanded
<1> HIDE DEF A, B
<1> DEFINE e == Expanded(o, geo)
<1>2. /\ DOMAIN e = RuleKeys /\ e = [k \in DOMAIN e |-> e[k]]
      /\ e.ipCidr = A(o.ipCidr) /\ e.domainSuffix = B(o.domainSuffix)
      /\ \A k \in RuleKeys \ {"ipCidr", "domainSuffix"} : e[k] = o[k]
  BY <1>1, Zenon DEF RuleKeys, RuleRecord
<1>3. RuleRecord(e)
  BY <1>2 DEF RuleRecord
<1> HIDE DEF e
<1> QED BY <1>2, <1>3 DEF A, B, e

\* A parsed rule: its lists are those of the file and those of its tags.
Widened(y, geo) ==
  /\ y = Obj(y.o) /\ DOMAIN y.o = RuleKeys /\ y.o = [k \in DOMAIN y.o |-> y.o[k]]
  /\ ParseObject(y, RuleFields) = y /\ RuleSound(y, geo) /\ ~IsBad(geo)
  /\ \A k \in {"ipCidr", "domainSuffix"} :
        IsSequence(ItemsOf(y.o[k])) /\ y.o[k] = ListUnlessEmpty(ItemsOf(y.o[k]))
  /\ LET e == ExpandGeo(y.o.geoIp, geo.o.geoip)
     IN  IsSequence(e) /\ ToSet(e) \subseteq ToSet(ItemsOf(y.o.ipCidr))
  /\ LET e == ExpandGeo(y.o.geoSite, geo.o.geosite)
     IN  IsSequence(e) /\ ToSet(e) \subseteq ToSet(ItemsOf(y.o.domainSuffix))

\* A list to which the entries of geo tags were added.
LEMMA WidenedList ==
  ASSUME NEW a, NEW e, TrimmedList(a), TrimmedList(e), NEW v, v = ListUnlessEmpty(a \o e), NEW k
  PROVE  /\ Fixed(k, OptTexts, v) /\ ~IsBad(v)
         /\ IsSequence(ItemsOf(v)) /\ v = ListUnlessEmpty(ItemsOf(v))
         /\ IsSequence(e) /\ ToSet(e) \subseteq ToSet(ItemsOf(v))
<1>1. TrimmedList(a \o e) /\ ToSet(a \o e) = ToSet(a) \cup ToSet(e) /\ IsSequence(a \o e)
  BY JoinedTrimmed, JoinedItems DEF TrimmedList
<1>2. ItemsOf(v) = a \o e
  BY ListIs, Zenon
<1>3. Fixed(k, OptTexts, v) /\ ~IsBad(v)
  BY <1>1, ListStays
<1> QED BY <1>1, <1>2, <1>3 DEF TrimmedList

\* A parsed rule and what was read of the file.
LEMMA RuleFrom ==
  ASSUME NEW x, NEW geo, ReadItem(parseRouteRule(x, geo))
  PROVE  LET y == parseRouteRule(x, geo)
             l == Leaves(x, RuleFields)
         IN  /\ isRecord(x) /\ ~IsBad(geo) /\ RuleSound(y, geo)
             /\ \A k \in RuleKeys : /\ l[k] = ReadLeaf(x.o, k, RuleFields[k]) /\ ~IsBad(l[k])
                                    /\ RuleFields[k].needed => ~IsUndef(l[k])
             /\ y = Obj(y.o) /\ DOMAIN y.o = RuleKeys /\ y.o = [k \in DOMAIN y.o |-> y.o[k]]
             /\ y.o.ipCidr =
                   ListUnlessEmpty(ItemsOf(l.ipCidr) \o ExpandGeo(l.geoIp, geo.o.geoip))
             /\ y.o.domainSuffix =
                   ListUnlessEmpty(ItemsOf(l.domainSuffix) \o ExpandGeo(l.geoSite, geo.o.geosite))
             /\ \A k \in RuleKeys \ {"ipCidr", "domainSuffix"} : y.o[k] = l[k]
<1> DEFINE y == parseRouteRule(x, geo)
           r == ParseObject(x, RuleFields)
           l == Leaves(x, RuleFields)
<1>1. /\ ~IsBad(geo) /\ ~IsBad(r) /\ y = Obj(Expanded(r.o, geo)) /\ RuleSound(y, geo)
  BY RuleIs
<1>2. ~IsUndef(r)
  BY <1>1, NeverDrops, InsistentTables
<1>3. /\ r = Obj(l) /\ isRecord(x)
      /\ \A k \in RuleKeys : /\ l[k] = ReadLeaf(x.o, k, RuleFields[k]) /\ ~IsBad(l[k])
                             /\ RuleFields[k].needed => ~IsUndef(l[k])
      /\ DOMAIN l = RuleKeys /\ l = [k \in DOMAIN l |-> l[k]]
  <2>1. ReadItem(r)
    BY <1>1, <1>2 DEF ReadItem
  <2>2. DOMAIN l = RuleKeys /\ l = [k \in DOMAIN l |-> l[k]]
    BY RuleKeysAre DEF Leaves
  <2>3. \A k \in RuleKeys : l[k] = ReadLeaf(x.o, k, RuleFields[k])
    BY RuleKeysAre DEF Leaves
  <2>4. /\ r = Obj(l) /\ isRecord(x)
        /\ \A k \in RuleKeys : /\ ~IsBad(ReadLeaf(x.o, k, RuleFields[k]))
                               /\ RuleFields[k].needed => ~IsUndef(ReadLeaf(x.o, k, RuleFields[k]))
    BY <2>1, ItemIs, RuleKeysAre
  <2> HIDE DEF r, l
  <2> QED BY <2>2, <2>3, <2>4, Zenon
<1>4. y.o = Expanded(l, geo) /\ y = Obj(y.o)
  BY <1>1, <1>3, ObjIs
<1> HIDE DEF r, l, y
<1> DEFINE E1 == ExpandGeo(l.geoIp, geo.o.geoip)
           E2 == ExpandGeo(l.geoSite, geo.o.geosite)
<1>5. /\ DOMAIN y.o = RuleKeys /\ y.o = [k \in DOMAIN y.o |-> y.o[k]]
      /\ y.o.ipCidr = ListUnlessEmpty(ItemsOf(l.ipCidr) \o E1)
      /\ y.o.domainSuffix = ListUnlessEmpty(ItemsOf(l.domainSuffix) \o E2)
      /\ \A k \in RuleKeys \ {"ipCidr", "domainSuffix"} : y.o[k] = l[k]
  <2>1. RuleRecord(l)
    BY <1>3, Zenon DEF RuleRecord
  <2> DEFINE e == Expanded(l, geo)
  <2>2. /\ RuleRecord(e)
        /\ e.ipCidr = ListUnlessEmpty(ItemsOf(l.ipCidr) \o E1)
        /\ e.domainSuffix = ListUnlessEmpty(ItemsOf(l.domainSuffix) \o E2)
        /\ \A k \in RuleKeys \ {"ipCidr", "domainSuffix"} : e[k] = l[k]
    BY <2>1, ExpandedRule
  <2> HIDE DEF E1, E2
  <2>3. y.o = e
    BY <1>4
  <2> HIDE DEF e
  <2> QED BY <2>2, <2>3 DEF RuleRecord
<1> QED BY <1>1, <1>3, <1>4, <1>5 DEF y, l

\* A rule that is parsed has them added.
LEMMA RuleParsed ==
  ASSUME NEW x, Fitting(x), NEW geo, GeoReady(geo.o.geoip), GeoReady(geo.o.geosite),
         ReadItem(parseRouteRule(x, geo))
  PROVE  Widened(parseRouteRule(x, geo), geo)
<1> DEFINE y == parseRouteRule(x, geo)
           l == Leaves(x, RuleFields)
           E1 == ExpandGeo(l.geoIp, geo.o.geoip)
           E2 == ExpandGeo(l.geoSite, geo.o.geosite)
<1>1. /\ isRecord(x) /\ ~IsBad(geo) /\ RuleSound(y, geo) /\ y = Obj(y.o)
      /\ DOMAIN y.o = RuleKeys /\ y.o = [k \in DOMAIN y.o |-> y.o[k]]
      /\ y.o.ipCidr = ListUnlessEmpty(ItemsOf(l.ipCidr) \o E1)
      /\ y.o.domainSuffix = ListUnlessEmpty(ItemsOf(l.domainSuffix) \o E2)
      /\ \A k \in RuleKeys \ {"ipCidr", "domainSuffix"} : y.o[k] = l[k]
      /\ \A k \in RuleKeys : /\ l[k] = ReadLeaf(x.o, k, RuleFields[k]) /\ ~IsBad(l[k])
                             /\ RuleFields[k].needed => ~IsUndef(l[k])
  BY RuleFrom
<1> HIDE DEF y
<1>2. /\ TrimmedList(ItemsOf(l.ipCidr)) /\ TrimmedList(ItemsOf(l.domainSuffix))
      /\ TrimmedList(ItemsOf(l.geoIp)) /\ TrimmedList(ItemsOf(l.geoSite))
  <2>1. ASSUME NEW k \in {"ipCidr", "domainSuffix", "geoIp", "geoSite"}
        PROVE  TrimmedList(ItemsOf(l[k]))
    <3>1. k \in RuleKeys /\ RuleFields[k] = OptTexts
      BY RuleKeysAre DEF RuleKeys
    <3>2. l[k] = ReadLeaf(x.o, k, OptTexts) /\ ~IsBad(l[k])
      BY <1>1, <3>1, Zenon
    <3>3. Legible(Get(x.o, k))
      BY <1>1, FitIsLegible DEF Fitting
    <3> HIDE DEF l
    <3> QED BY <1>1, <3>2, <3>3, TextsRead, Zenon
  <2> QED BY <2>1
<1>3. TrimmedList(E1) /\ TrimmedList(E2)
  BY <1>2, ExpandedTrimmed DEF TrimmedList
<1> HIDE DEF l
<1>4. ExpandGeo(y.o.geoIp, geo.o.geoip) = E1 /\ ExpandGeo(y.o.geoSite, geo.o.geosite) = E2
  <2>1. y.o["geoIp"] = l["geoIp"] /\ y.o["geoSite"] = l["geoSite"]
    BY <1>1 DEF RuleKeys
  <2> QED BY <2>1
<1> HIDE DEF E1, E2
<1>5. /\ \A k : Fixed(k, OptTexts, y.o.ipCidr) /\ Fixed(k, OptTexts, y.o.domainSuffix)
      /\ ~IsBad(y.o.ipCidr) /\ ~IsBad(y.o.domainSuffix)
      /\ \A k \in {"ipCidr", "domainSuffix"} :
            IsSequence(ItemsOf(y.o[k])) /\ y.o[k] = ListUnlessEmpty(ItemsOf(y.o[k]))
      /\ IsSequence(E1) /\ ToSet(E1) \subseteq ToSet(ItemsOf(y.o.ipCidr))
      /\ IsSequence(E2) /\ ToSet(E2) \subseteq ToSet(ItemsOf(y.o.domainSuffix))
  BY <1>1, <1>2, <1>3, WidenedList
<1>6. ASSUME NEW k \in RuleKeys
       PROVE  /\ Fixed(k, RuleFields[k], y.o[k]) /\ ~IsBad(y.o[k])
              /\ RuleFields[k].needed => ~IsUndef(y.o[k])
  <2>1. CASE k \in {"ipCidr", "domainSuffix"}
    <3>1. RuleFields[k] = OptTexts
      BY <2>1, RuleKeysAre
    <3>2. Fixed(k, OptTexts, y.o[k]) /\ ~IsBad(y.o[k])
      BY <1>5, <2>1
    <3>3. ~OptTexts.needed
      BY IdleFields, Zenon DEF Idle
    <3> QED BY <3>1, <3>2, <3>3, Zenon
  <2>2. CASE k \notin {"ipCidr", "domainSuffix"}
    <3> DEFINE f == RuleFields[k]
    <3>1. Lasting(k, f) /\ f.kind \notin Nested
      BY FlatTables, RuleKeysAre DEF FlatTable, Lasting
    <3>2. y.o[k] = ReadLeaf(x.o, k, f) /\ ~IsBad(y.o[k]) /\ (f.needed => ~IsUndef(y.o[k]))
      <4>1. y.o[k] = l[k]
        BY <1>1, <2>2
      <4> QED BY <1>1, <4>1, Zenon
    <3> HIDE DEF f
    <3>3. ReadField(x.o, k, f) = y.o[k]
      BY <3>1, <3>2, FieldRead
    <3>4. Fixed(k, f, y.o[k])
      BY <1>1, <3>1, <3>2, <3>3, LeafFixed
    <3> QED BY <3>2, <3>4, Zenon DEF f
  <2> QED BY <2>1, <2>2
<1>7. ParseObject(y, RuleFields) = y
  <2>1. \A k \in DOMAIN RuleFields : RuleFields[k].kind \notin Nested
    BY FlatTables DEF FlatTable, Lasting
  <2>2. ParseNode(Obj(y.o), RuleFields) = Obj(y.o)
    BY <1>1, <1>6, RuleKeysAre, SameNode
  <2> QED BY <1>1, <2>1, <2>2, FlatNode
<1> QED BY <1>1, <1>4, <1>5, <1>7 DEF Widened, y

\* Parsing it again adds what it has: it matches the same connections.
LEMMA WidenedAgain ==
  ASSUME NEW y, NEW geo, Widened(y, geo)
  PROVE  LET z == parseRouteRule(y, geo)
         IN  ReadItem(z) /\ SameRule(y, z)
<1> DEFINE E1 == ExpandGeo(y.o.geoIp, geo.o.geoip)
           E2 == ExpandGeo(y.o.geoSite, geo.o.geosite)
           z == Obj(Expanded(y.o, geo))
<1>1. /\ DOMAIN z.o = RuleKeys
      /\ z.o.ipCidr = ListUnlessEmpty(ItemsOf(y.o.ipCidr) \o E1)
      /\ z.o.domainSuffix = ListUnlessEmpty(ItemsOf(y.o.domainSuffix) \o E2)
      /\ \A k \in RuleKeys \ {"ipCidr", "domainSuffix"} : z.o[k] = y.o[k]
  <2> DEFINE e == Expanded(y.o, geo)
  <2>1. RuleRecord(y.o)
    BY DEF Widened, RuleRecord
  <2>2. /\ RuleRecord(e)
        /\ e.ipCidr = ListUnlessEmpty(ItemsOf(y.o.ipCidr) \o E1)
        /\ e.domainSuffix = ListUnlessEmpty(ItemsOf(y.o.domainSuffix) \o E2)
        /\ \A k \in RuleKeys \ {"ipCidr", "domainSuffix"} : e[k] = y.o[k]
    BY <2>1, ExpandedRule, Zenon
  <2>3. z.o = e
    BY ObjIs
  <2> HIDE DEF E1, E2, e, z
  <2> QED BY <2>2, <2>3 DEF RuleRecord
<1>2. /\ IsSequence(E1) /\ ToSet(E1) \subseteq ToSet(ItemsOf(y.o.ipCidr))
      /\ IsSequence(E2) /\ ToSet(E2) \subseteq ToSet(ItemsOf(y.o.domainSuffix))
      /\ IsSequence(ItemsOf(y.o.ipCidr)) /\ IsSequence(ItemsOf(y.o.domainSuffix))
      /\ RuleSound(y, geo) /\ ~IsBad(geo) /\ ParseObject(y, RuleFields) = y /\ y.t = "obj"
  BY ObjIs DEF Widened
<1>3. z.t = "obj"
  BY ObjIs
<1>4. parseRouteRule(y, geo) = IF RuleSound(z, geo) THEN z ELSE Bad
  BY <1>2 DEF parseRouteRule, ParsedRule, IsBad
<1> HIDE DEF E1, E2, z
<1>5. ToSet(ItemsOf(z.o.ipCidr)) = ToSet(ItemsOf(y.o.ipCidr))
  <2> DEFINE a == ItemsOf(y.o.ipCidr)
  <2>1. ItemsOf(z.o.ipCidr) = a \o E1
    BY <1>1, ListIs, Zenon
  <2>2. IsSequence(a) /\ IsSequence(E1) /\ ToSet(E1) \subseteq ToSet(a)
    BY <1>2
  <2> HIDE DEF a
  <2>3. ToSet(a \o E1) = ToSet(a) \cup ToSet(E1)
    BY <2>2, JoinedItems
  <2>4. ToSet(ItemsOf(z.o.ipCidr)) = ToSet(a)
    BY <2>1, <2>2, <2>3
  <2> QED BY <2>4 DEF a
<1>6. ToSet(ItemsOf(z.o.domainSuffix)) = ToSet(ItemsOf(y.o.domainSuffix))
  <2> DEFINE a == ItemsOf(y.o.domainSuffix)
  <2>1. ItemsOf(z.o.domainSuffix) = a \o E2
    BY <1>1, ListIs, Zenon
  <2>2. IsSequence(a) /\ IsSequence(E2) /\ ToSet(E2) \subseteq ToSet(a)
    BY <1>2
  <2> HIDE DEF a
  <2>3. ToSet(a \o E2) = ToSet(a) \cup ToSet(E2)
    BY <2>2, JoinedItems
  <2>4. ToSet(ItemsOf(z.o.domainSuffix)) = ToSet(a)
    BY <2>1, <2>2, <2>3
  <2> QED BY <2>4 DEF a
<1>7. z.o["geoIp"] = y.o["geoIp"] /\ z.o["geoSite"] = y.o["geoSite"]
  BY <1>1 DEF RuleKeys
<1>8. RuleSound(z, geo)
  BY <1>2, <1>5, <1>7 DEF RuleSound
<1>9. SameRule(y, z)
  BY <1>1, <1>5, <1>6, RuleKeysAre DEF SameRule
<1> QED BY <1>3, <1>4, <1>8, <1>9 DEF ReadItem, IsBad, IsUndef

\* The same for all rules of a route.
LEMMA RulesAgain ==
  ASSUME NEW v, v = Arr(v.a), IsSequence(v.a), NEW geo, \A y \in ToSet(v.a) : Widened(y, geo),
         NEW x, isRecord(x), Get(x.o, "rules") = v
  PROVE  LET w == RawRules(x, geo)
         IN  /\ w.t = "arr" /\ IsSequence(w.a) /\ Len(w.a) = Len(v.a)
             /\ \A i \in 1 .. Len(v.a) : SameRule(v.a[i], w.a[i])
<1> DEFINE rs == [i \in DOMAIN v.a |-> parseRouteRule(v.a[i], geo)]
<1>1. v.t = "arr" /\ v # Undef
  BY ArrIs DEF Undef
<1>2. x.o["rules"] = v
  BY <1>1 DEF Get
<1>3. RawRules(x, geo) = Collected(rs)
  BY <1>1, <1>2 DEF RawRules
<1>4. /\ Len(v.a) \in Nat /\ DOMAIN v.a = 1 .. Len(v.a)
      /\ \A i \in 1 .. Len(v.a) : v.a[i] \in ToSet(v.a)
  BY SequenceHas
<1>5. /\ rs = [i \in 1 .. Len(v.a) |-> rs[i]]
      /\ \A i \in 1 .. Len(v.a) : rs[i] = parseRouteRule(v.a[i], geo)
  BY <1>4
<1> HIDE DEF rs
<1>6. IsSequence(rs) /\ Len(rs) = Len(v.a)
  BY <1>4, <1>5, MappedSequence
<1>7. \A i \in 1 .. Len(v.a) : ReadItem(rs[i]) /\ SameRule(v.a[i], rs[i])
  BY <1>4, <1>5, WidenedAgain, ZenonT(60)
<1>8. \A y \in ToSet(rs) : ReadItem(y)
  BY <1>6, <1>7, SequenceHas
<1>9. Collected(rs) = Arr(rs)
  BY <1>6, <1>8, SameItems
<1>10. Collected(rs).t = "arr" /\ Collected(rs).a = rs
  BY <1>9, ArrIs
<1> QED BY <1>3, <1>6, <1>7, <1>10

-----------------------------------------------------------------------------
(* The configuration as a whole.                                           *)

\* A section is parsed into itself.
LEMMA SectionAgain ==
  ASSUME NEW root, NEW k \in SectionKeys, Value6(Get(root, k)) \/ Get(root, k) = Undef,
         ~IsBad(ParseSection(root, k)), NEW o, Get(o, k) = ParseSection(root, k)
  PROVE  ParseSection(o, k) = ParseSection(root, k)
<1> DEFINE T == SectionFields[k]
           v == ParseSection(root, k)
           g == Get(root, k)
<1>1. FirmTable(T) /\ Calm(T)
  BY AllSectionsFirm DEF FirmSection
<1>2. v.t = "obj" /\ ParseNode(v, T) = v
  <2>1. CASE IsUndef(g)
    <3>1. v = Defaults(T)
      BY <2>1 DEF ParseSection
    <3> HIDE DEF T, v
    <3> QED BY <1>1, <3>1, NodeDefaults, ObjIs DEF Defaults
  <2>2. CASE ~IsUndef(g)
    <3>1. v = ParseNode(g, T) /\ ~IsBad(ParseNode(g, T))
      BY <2>2 DEF ParseSection, Get, IsUndef, Undef
    <3>2. Value6(g)
      BY <2>2, UndefIs
    <3> HIDE DEF T, v, g
    <3>3. ParseNode(g, T) = Obj(Nodes(g, T)) /\ isRecord(g)
      <4>1. \A j \in DOMAIN T : ~T[j].needed
        BY <1>1, Zenon DEF Calm
      <4> QED BY <3>1, <4>1, NodeRead
    <3>4. Roomy(g)
      BY <3>2, <3>3, Shallower DEF Roomy
    <3>5. ReadItem(ParseNode(g, T))
      BY <3>3, ObjIs DEF ReadItem, IsUndef, IsBad
    <3> QED BY <1>1, <3>1, <3>3, <3>4, <3>5, NodeAgain, ObjIs
  <2> QED BY <2>1, <2>2
<1>3. ~IsUndef(Get(o, k)) /\ o[k] = Get(o, k)
  BY <1>2 DEF IsUndef, Get, Undef
<1>4. ParseSection(o, k) = ParseNode(v, T)
  BY <1>3 DEF ParseSection
<1> QED BY <1>2, <1>4

\* The version of the configuration is.
LEMMA VersionAgain ==
  ASSUME NEW x, ~IsBad(parseConfigVersion(x))
  PROVE  parseConfigVersion(parseConfigVersion(x)) = parseConfigVersion(x)
BY DEF parseConfigVersion, IsBad, Bad

\* A route, and the route that a second parse makes of it.
SameRoute(r, s) ==
  /\ s.t = "obj" /\ s.o.rules.t = "arr" /\ IsSequence(s.o.rules.a) /\ Len(s.o.rules.a) = Len(r.o.rules.a)
  /\ \A k \in {"defaultOutbound", "ruleSetFiles", "policies"} : s.o[k] = r.o[k]
  /\ \A i \in 1 .. Len(r.o.rules.a) : SameRule(r.o.rules.a[i], s.o.rules.a[i])

\* The fields of a route are.
LEMMA RouteFixed ==
  ASSUME NEW x, Roomy(x), NEW k \in DOMAIN RouteFields, ~IsBad(ReadField(x.o, k, RouteFields[k]))
  PROVE  Fixed(k, RouteFields[k], ReadField(x.o, k, RouteFields[k]))
<1>1. CASE k = "defaultOutbound"
  <2>1. RouteFields[k] = Required(OptText) /\ Lasting(k, Required(OptText))
    BY <1>1, RouteFieldsAre, LastingFields
  <2>2. isRecord(x) /\ Fitting(x)
    BY RoomyFields DEF Roomy
  <2> DEFINE f == RouteFields[k]
  <2>3. Lasting(k, f) /\ ~IsBad(ReadField(x.o, k, f))
    BY <2>1
  <2> HIDE DEF f
  <2>4. Fixed(k, f, ReadField(x.o, k, f))
    BY <2>2, <2>3, LeafFixed
  <2> QED BY <2>4 DEF f
<1>2. CASE k # "defaultOutbound"
  <2>1. PICK T : RouteFields[k] = ListOf(T) /\ FlatTable(T)
    BY <1>2, RouteFieldsAre, FlatTables
  <2>2. k \notin MapKeys
    BY RouteFieldsAre DEF MapKeys
  <2> QED BY <2>1, <2>2, ListFixed
<1> QED BY <1>1, <1>2

\* The rules of a file.
LEMMA RulesFrom ==
  ASSUME NEW x, Value6(x) \/ x = Undef, NEW geo, ~IsBad(parseRouter(x, geo))
  PROVE  LET v == RawRules(x, geo)
         IN  /\ parseRouter(x, geo).o.rules = v /\ v = Arr(v.a) /\ IsSequence(v.a)
             /\ \A y \in ToSet(v.a) :
                   ReadItem(y) /\ \E z : Fitting(z) /\ y = parseRouteRule(z, geo)
<1> DEFINE v == RawRules(x, geo)
<1>1. isRecord(x) /\ parseRouter(x, geo).o.rules = v /\ ~IsBad(v)
  BY RouteIs
<1>2. Roomy(x)
  BY <1>1, Shallower DEF Roomy, isRecord, Undef
<1>3. /\ Proper(Get(x.o, "rules"))
      /\ \A z \in ToSet(ItemsOf(Get(x.o, "rules"))) : Fitting(z)
  BY <1>2, RoomyFields DEF MapKeys
<1>4. /\ v = Arr(v.a) /\ IsSequence(v.a) /\ Get(x.o, "rules").t = "arr"
      /\ \A y \in ToSet(v.a) :
            ReadItem(y) /\ \E z \in ToSet(Get(x.o, "rules").a) : y = parseRouteRule(z, geo)
  BY <1>1, <1>3, RulesRead
<1>5. \A z \in ToSet(Get(x.o, "rules").a) : Fitting(z)
  BY <1>3, <1>4 DEF ItemsOf
<1> HIDE DEF v
<1> QED BY <1>1, <1>4, <1>5 DEF v

\* A route is, but for the lists its geo tags lengthen.
LEMMA RouteAgain ==
  ASSUME NEW x, Value6(x) \/ x = Undef, NEW geo, ~IsBad(parseRouter(x, geo)),
         GeoReady(geo.o.geoip), GeoReady(geo.o.geosite)
  PROVE  SameRoute(parseRouter(x, geo), parseRouter(parseRouter(x, geo), geo))
<1> DEFINE r == parseRouter(x, geo)
           v == RawRules(x, geo)
<1>1. /\ isRecord(x) /\ r = Obj(r.o)
      /\ DOMAIN r.o = {"rules", "defaultOutbound", "ruleSetFiles", "policies"}
      /\ r.o.rules = v /\ ~IsBad(v)
  BY RouteIs
<1>2. Roomy(x)
  BY <1>1, Shallower DEF Roomy, isRecord, Undef
<1>3. ASSUME NEW k \in DOMAIN RouteFields
      PROVE  r.o[k] = ReadField(x.o, k, RouteFields[k]) /\ ~IsBad(r.o[k])
  <2>1. CASE k = "defaultOutbound"
    <3>1. r.o[k] = Get(x.o, k) /\ IsText(r.o[k])
      BY <2>1, RouteIs
    <3>2. ParseNode(x, RouteFields) # Bad /\ ~IsBad(ParseNode(x, RouteFields))
      BY DEF parseRouter, WithRules, IsBad, Bad
    <3>3. ~IsBad(Nodes(x, RouteFields)[k])
      BY <3>2, NodeRead
    <3>4. ~IsBad(ReadField(x.o, k, Required(OptText)))
      BY <2>1, <3>3, RouteFieldsAre DEF Nodes
    <3>5. ReadField(x.o, k, Required(OptText)) = Get(x.o, k)
      BY <3>4, NodeText
    <3>6. RouteFields[k] = Required(OptText)
      BY <2>1, RouteFieldsAre
    <3> HIDE DEF r
    <3> QED BY <3>1, <3>4, <3>5, <3>6
  <2>2. CASE k = "ruleSetFiles"
    BY <2>2, RouteIs, RouteFieldsAre
  <2>3. CASE k = "policies"
    BY <2>3, RouteIs, RouteFieldsAre
  <2> QED BY <2>1, <2>2, <2>3, RouteFieldsAre
<1>4. /\ v = Arr(v.a) /\ IsSequence(v.a)
      /\ \A y \in ToSet(v.a) : Widened(y, geo)
  <2>1. /\ v = Arr(v.a) /\ IsSequence(v.a)
        /\ \A y \in ToSet(v.a) :
              ReadItem(y) /\ \E z : Fitting(z) /\ y = parseRouteRule(z, geo)
    BY RulesFrom
  <2> HIDE DEF v
  <2>2. ASSUME NEW y \in ToSet(v.a) PROVE Widened(y, geo)
    <3>1. PICK z : Fitting(z) /\ y = parseRouteRule(z, geo)
      BY <2>1
    <3> QED BY <2>1, <3>1, RuleParsed
  <2> QED BY <2>1, <2>2
<1> HIDE DEF r, v
<1>5. isRecord(r) /\ Get(r.o, "rules") = v
  BY <1>1, ObjIs DEF isRecord, Get
<1> DEFINE w == RawRules(r, geo)
           p == ParseNode(r, RouteFields)
<1>6. /\ w.t = "arr" /\ IsSequence(w.a) /\ Len(w.a) = Len(v.a)
      /\ \A i \in 1 .. Len(v.a) : SameRule(v.a[i], w.a[i])
  BY <1>4, <1>5, RulesAgain
<1>7. p = Obj([k \in DOMAIN RouteFields |-> Get(r.o, k)])
  <2>1. ASSUME NEW k \in DOMAIN RouteFields
        PROVE  /\ Fixed(k, RouteFields[k], Get(r.o, k)) /\ ~IsBad(Get(r.o, k))
               /\ RouteFields[k].needed => ~IsUndef(Get(r.o, k))
    <3> DEFINE f == RouteFields[k]
    <3>1. Get(r.o, k) = r.o[k] /\ r.o[k] = ReadField(x.o, k, f) /\ ~IsBad(r.o[k])
      BY <1>1, <1>3, RouteFieldsAre DEF Get
    <3>2. Fixed(k, f, r.o[k])
      BY <1>2, <3>1, RouteFixed
    <3>3. f.needed => ~IsUndef(r.o[k])
      <4>1. CASE k = "defaultOutbound"
        <5>1. f = Required(OptText)
          BY <4>1, RouteFieldsAre
        <5> HIDE DEF f
        <5>2. ~IsBad(ReadField(x.o, k, Required(OptText)))
          BY <3>1, <5>1
        <5>3. IsText(r.o[k])
          BY <3>1, <5>1, <5>2, NodeText
        <5> QED BY <5>3 DEF IsText, IsUndef
      <4>2. CASE k # "defaultOutbound"
        <5>1. PICK T : f = ListOf(T)
          BY <4>2, RouteFieldsAre
        <5>2. Idle(f)
          BY <5>1, IdleFields
        <5> QED BY <5>2, Zenon DEF Idle
      <4> QED BY <4>1, <4>2
    <3> HIDE DEF f
    <3>4. /\ Fixed(k, f, Get(r.o, k)) /\ ~IsBad(Get(r.o, k))
          /\ f.needed => ~IsUndef(Get(r.o, k))
      BY <3>1, <3>2, <3>3, Zenon
    <3> QED BY <3>4 DEF f
  <2> QED BY <1>5, <2>1, Rebuilt
<1>8. parseRouter(r, geo) = Obj(Joined([rules |-> w], p.o))
  <2>1. ~IsBad(p)
    BY <1>7, ObjIs DEF IsBad
  <2>2. ~IsBad(w)
    BY <1>6 DEF IsBad
  <2> HIDE DEF w, p
  <2>3. parseRouter(r, geo) = WithRules(p, w)
    BY DEF parseRouter, p, w
  <2> QED BY <2>1, <2>2, <2>3 DEF WithRules
<1> DEFINE s == parseRouter(r, geo)
<1>9. s.t = "obj" /\ s.o.rules = w
  <2>1. s.t = "obj" /\ s.o = Joined([rules |-> w], p.o)
    BY <1>8, ObjIs
  <2> HIDE DEF s, w, p
  <2> QED BY <2>1, JoinedIs
<1>10. \A k \in {"defaultOutbound", "ruleSetFiles", "policies"} : s.o[k] = r.o[k]
  <2>1. s.o = Joined([rules |-> w], p.o)
    BY <1>8, ObjIs
  <2>2. p.o = [k \in DOMAIN RouteFields |-> Get(r.o, k)]
    BY <1>7, ObjIs
  <2> HIDE DEF s, w, p
  <2>3. \A k \in {"defaultOutbound", "ruleSetFiles", "policies"} : k \in DOMAIN p.o /\ p.o[k] = r.o[k]
    BY <1>1, <2>2, RouteFieldsAre DEF Get
  <2>4. \A k \in {"defaultOutbound", "ruleSetFiles", "policies"} : k \notin DOMAIN [rules |-> w]
    OBVIOUS
  <2> QED BY <2>1, <2>3, <2>4, JoinedIs
<1> HIDE DEF s, w
<1>11. SameRoute(r, s)
  BY <1>1, <1>6, <1>9, <1>10 DEF SameRoute
<1> QED BY <1>11 DEF s, r

\* The references of a configuration whose rules were parsed again.
LEMMA SameChecks ==
  ASSUME NEW c, NEW d, CrossChecks(c), DOMAIN d = DOMAIN c,
         \A k \in {"inbounds", "outbounds", "plugins", "dns", "reload", "observability", "dashboard"} :
            d[k] = c[k],
         SameRoute(c.route, d.route), IsSequence(c.route.o.rules.a)
  PROVE  CrossChecks(d)
<1>1. /\ d.inbounds = c.inbounds /\ d.outbounds = c.outbounds /\ d.plugins = c.plugins
      /\ d.dns = c.dns /\ d.reload = c.reload /\ d.observability = c.observability
      /\ d.dashboard = c.dashboard
  OBVIOUS
<1>2. /\ d.route.o.policies = c.route.o.policies /\ d.route.o.ruleSetFiles = c.route.o.ruleSetFiles
      /\ d.route.o.defaultOutbound = c.route.o.defaultOutbound
  BY DEF SameRoute
<1>3. TargetsOf(d.route.o.rules) = TargetsOf(c.route.o.rules)
  <2> DEFINE a == c.route.o.rules.a
             b == d.route.o.rules.a
  <2>1. IsSequence(a) /\ IsSequence(b) /\ Len(b) = Len(a) /\ \A i \in 1 .. Len(a) : SameRule(a[i], b[i])
    BY DEF SameRoute
  <2>2. \A i \in 1 .. Len(a) : a[i].o["outboundTag"] = b[i].o["outboundTag"]
    <3>1. "outboundTag" \in DOMAIN RuleFields \ {"ipCidr", "domainSuffix"}
      BY RuleKeysAre DEF RuleKeys
    <3> HIDE DEF a, b
    <3> QED BY <2>1, <3>1 DEF SameRule
  <2>3. DOMAIN a = 1 .. Len(a) /\ DOMAIN b = 1 .. Len(a)
    BY <2>1, SequenceHas
  <2>4. {a[i].o.outboundTag.s : i \in DOMAIN a} = {b[i].o.outboundTag.s : i \in DOMAIN b}
    <3> HIDE DEF a, b
    <3> QED BY <2>2, <2>3
  <2> QED BY <2>4, Zenon DEF TargetsOf
<1>4. \A list \in {d.inbounds, d.outbounds, d.plugins.o.modules, d.plugins.o.wasm,
                   d.dns.o.udpServers, d.route.o.policies} : checkUniqueTags(list)
  BY <1>1, <1>2, Zenon DEF CrossChecks
<1>5. \A x \in ToSet(d.inbounds.a) : TlsComplete(x)
  BY <1>1, Zenon DEF CrossChecks
<1>6. RollbackKept(d)
  BY <1>1, Zenon DEF CrossChecks, RollbackKept
<1>7. checkDnsReferences(d)
  BY <1>1, Zenon DEF CrossChecks, checkDnsReferences
<1>8. checkPublicExposure(d)
  BY <1>1, Zenon DEF CrossChecks, checkPublicExposure
<1>9. RouteTargets(d) = RouteTargets(c)
  BY <1>1, <1>2 DEF RouteTargets
<1>10. checkOutboundReferences(d)
  <2>1. checkOutboundReferences(c)
    BY DEF CrossChecks
  <2> DEFINE r == c.route.o
             s == d.route.o
  <2>2. /\ s.policies = r.policies /\ s.ruleSetFiles = r.ruleSetFiles
        /\ s.defaultOutbound = r.defaultOutbound
    BY <1>2
  <2>3. TargetsOf(s.rules) = TargetsOf(r.rules)
    BY <1>3
  <2>4. /\ TagsOf(r.policies) \cap TagsOf(c.outbounds) = {}
        /\ {r.defaultOutbound.s} \cup TargetsOf(r.rules) \cup TargetsOf(r.ruleSetFiles)
              \subseteq RouteTargets(c)
        /\ \A p \in ToSet(r.policies.a) : \A m \in ToSet(p.o.outbounds.a) : m.s \in TagsOf(c.outbounds)
    BY <2>1 DEF checkOutboundReferences
  <2> HIDE DEF r, s
  <2>5. /\ TagsOf(s.policies) \cap TagsOf(d.outbounds) = {}
        /\ {s.defaultOutbound.s} \cup TargetsOf(s.rules) \cup TargetsOf(s.ruleSetFiles)
              \subseteq RouteTargets(d)
        /\ \A p \in ToSet(s.policies.a) : \A m \in ToSet(p.o.outbounds.a) : m.s \in TagsOf(d.outbounds)
    BY <1>1, <1>9, <2>2, <2>3, <2>4
  <2> QED BY <2>5 DEF checkOutboundReferences, s
<1> QED BY <1>4, <1>5, <1>6, <1>7, <1>8, <1>10 DEF CrossChecks

\* The sections of the second parse.
LEMMA ParsedTwice ==
  ASSUME LoadInv, step = "parsed"
  PROVE  LET c == config.o
             d == Sections(c)
         IN  /\ DOMAIN d = DOMAIN c /\ \A k \in DOMAIN c : k # "route" => d[k] = c[k]
             /\ SameRoute(c.route, d.route) /\ IsSequence(c.route.o.rules.a)
             /\ DOMAIN c.route.o = {"rules", "defaultOutbound", "ruleSetFiles", "policies"}
<1> DEFINE root == Migrated(source).o
           c == config.o
           d == Sections(c)
<1>1. /\ c = Sections(root) /\ \A k \in DOMAIN Sections(root) : ~IsBad(Sections(root)[k])
      /\ \A k : k # "configVersion" => Get(root, k) = Get(source.o, k)
      /\ \A k : k \notin MapKeys => Value6(Get(source.o, k)) \/ Get(source.o, k) = Undef
  BY ParsedLists
<1> HIDE DEF root
<1>2. /\ DOMAIN c = SectionKeys \cup {"configVersion", "inbounds", "outbounds", "route"}
      /\ \A k \in SectionKeys : c[k] = ParseSection(root, k)
      /\ c.configVersion = parseConfigVersion(Get(root, "configVersion"))
      /\ c.inbounds = ParseNonEmpty(Get(root, "inbounds"), parseInbound)
      /\ c.outbounds = ParseNonEmpty(Get(root, "outbounds"), parseOutbound)
      /\ c.route = parseRouter(Get(root, "route"), ParseSection(root, "geo"))
  BY <1>1, SectionsAre, Zenon
<1>3. /\ DOMAIN d = SectionKeys \cup {"configVersion", "inbounds", "outbounds", "route"}
      /\ \A k \in SectionKeys : d[k] = ParseSection(c, k)
      /\ d.configVersion = parseConfigVersion(Get(c, "configVersion"))
      /\ d.inbounds = ParseNonEmpty(Get(c, "inbounds"), parseInbound)
      /\ d.outbounds = ParseNonEmpty(Get(c, "outbounds"), parseOutbound)
      /\ d.route = parseRouter(Get(c, "route"), ParseSection(c, "geo"))
  BY SectionsAre
<1>4. \A k \in SectionKeys \cup {"configVersion", "inbounds", "outbounds", "route"} :
         Get(c, k) = c[k] /\ ~IsBad(c[k])
  BY <1>1, <1>2 DEF Get
<1>5. \A k \in SectionKeys \cup {"inbounds", "outbounds", "route"} :
         /\ k # "configVersion" /\ Get(root, k) = Get(source.o, k)
         /\ Value6(Get(root, k)) \/ Get(root, k) = Undef
  <2>1. \A k \in SectionKeys \cup {"inbounds", "outbounds", "route"} :
           k # "configVersion" /\ k \notin MapKeys
    BY DEF SectionKeys, MapKeys
  <2> QED BY <1>1, <2>1
<1>6. /\ ParseNonEmpty(Get(root, "outbounds"), parseOutbound).a # <<>>
      /\ IsSequence(c.route.o.rules.a)
      /\ DOMAIN c.route.o = {"rules", "defaultOutbound", "ruleSetFiles", "policies"}
  <2>1. Sound(config)
    BY ParsedIsSound
  <2>2. firstSelectedOutbound(config) \in TagsOf(c.outbounds)
    BY <2>1, SelectionExists
  <2>3. c.outbounds.a # <<>>
    BY <2>2, NoItems DEF TagsOf
  <2>4. IsSequence(c.route.o.rules.a)
        /\ DOMAIN c.route.o = {"rules", "defaultOutbound", "ruleSetFiles", "policies"}
    BY <2>1, SoundRoute
  <2> HIDE DEF c
  <2> QED BY <1>2, <2>3, <2>4
<1> HIDE DEF c, d
<1>7. ASSUME NEW k \in SectionKeys PROVE d[k] = c[k] /\ ParseSection(c, k) = ParseSection(root, k)
  <2>1. /\ Value6(Get(root, k)) \/ Get(root, k) = Undef
        /\ ~IsBad(ParseSection(root, k)) /\ Get(c, k) = ParseSection(root, k)
    BY <1>2, <1>4, <1>5
  <2>2. ParseSection(c, k) = ParseSection(root, k)
    BY <2>1, SectionAgain
  <2> QED BY <1>2, <1>3, <2>2
<1>8. d.configVersion = c.configVersion
  <2>1. ~IsBad(parseConfigVersion(Get(root, "configVersion")))
        /\ Get(c, "configVersion") = parseConfigVersion(Get(root, "configVersion"))
    BY <1>2, <1>4
  <2> QED BY <1>2, <1>3, <2>1, VersionAgain
<1>9. d.outbounds = c.outbounds
  <2> DEFINE g == Get(root, "outbounds")
  <2>1. /\ Value6(g) \/ g = Undef
        /\ ~IsBad(ParseNonEmpty(g, parseOutbound))
        /\ Get(c, "outbounds") = ParseNonEmpty(g, parseOutbound)
    BY <1>2, <1>4, <1>5
  <2>2. ParseNonEmpty(g, parseOutbound).a # <<>>
    BY <1>6
  <2> HIDE DEF g
  <2>3. ParseNonEmpty(ParseNonEmpty(g, parseOutbound), parseOutbound) = ParseNonEmpty(g, parseOutbound)
    BY <2>1, <2>2, OutboundsAgain
  <2> QED BY <1>2, <1>3, <2>1, <2>3 DEF g
<1>10. d.inbounds = c.inbounds
  <2> DEFINE g == Get(root, "inbounds")
  <2>1. /\ Value6(g) \/ g = Undef
        /\ ~IsBad(ParseNonEmpty(g, parseInbound))
        /\ Get(c, "inbounds") = ParseNonEmpty(g, parseInbound)
    BY <1>2, <1>4, <1>5
  <2> HIDE DEF g
  <2>2. ParseNonEmpty(g, parseInbound).a # <<>>
    BY <2>1, InboundsStay
  <2>3. ParseNonEmpty(ParseNonEmpty(g, parseInbound), parseInbound) = ParseNonEmpty(g, parseInbound)
    BY <2>1, <2>2, InboundsAgain
  <2> QED BY <1>2, <1>3, <2>1, <2>3 DEF g
<1>11. SameRoute(c.route, d.route)
  <2> DEFINE x == Get(root, "route")
             geo == ParseSection(root, "geo")
  <2>1. "geo" \in SectionKeys
    BY DEF SectionKeys
  <2>2. ParseSection(c, "geo") = geo
    BY <1>7, <2>1
  <2>3. \A k \in {"geoip", "geosite"} : GeoReady(geo.o[k])
    <3>1. /\ Value6(Get(root, "geo")) \/ Get(root, "geo") = Undef
          /\ ~IsBad(ParseSection(root, "geo"))
      BY <1>2, <1>4, <1>5, <2>1
    <3> QED BY <3>1, SectionGeoReady
  <2>4. /\ Value6(x) \/ x = Undef
        /\ ~IsBad(parseRouter(x, geo)) /\ Get(c, "route") = parseRouter(x, geo)
    BY <1>2, <1>4, <1>5
  <2> HIDE DEF x, geo
  <2>5. GeoReady(geo.o.geoip) /\ GeoReady(geo.o.geosite)
    BY <2>3
  <2>6. SameRoute(parseRouter(x, geo), parseRouter(parseRouter(x, geo), geo))
    BY <2>4, <2>5, RouteAgain
  <2>7. d.route = parseRouter(parseRouter(x, geo), geo) /\ c.route = parseRouter(x, geo)
    BY <1>2, <1>3, <2>2, <2>4 DEF x, geo
  <2> QED BY <2>6, <2>7
<1>12. DOMAIN d = DOMAIN c /\ \A k \in DOMAIN c : k # "route" => d[k] = c[k]
  BY <1>2, <1>3, <1>7, <1>8, <1>9, <1>10
<1> QED BY <1>6, <1>11, <1>12 DEF c, d

\* A configuration that was parsed is parsed again into the same one.
LEMMA ParsedStaysSame ==
  ASSUME LoadInv, step = "parsed"
  PROVE  SameConfig(config, parseConfig(config))
<1> DEFINE c == config.o
           d == Sections(c)
<1>1. /\ DOMAIN d = DOMAIN c /\ \A k \in DOMAIN c : k # "route" => d[k] = c[k]
      /\ SameRoute(c.route, d.route) /\ IsSequence(c.route.o.rules.a)
      /\ DOMAIN c.route.o = {"rules", "defaultOutbound", "ruleSetFiles", "policies"}
  BY ParsedTwice
<1>2. /\ config.t = "obj" /\ CrossChecks(c)
      /\ DOMAIN c = SectionKeys \cup {"configVersion", "inbounds", "outbounds", "route"}
      /\ \A k \in DOMAIN c : ~IsBad(c[k])
  BY ParsedIsSound, SoundShape
<1> HIDE DEF d
<1>3. \A k \in DOMAIN d : ~IsBad(d[k])
  <2>1. ~IsBad(d.route)
    BY <1>1 DEF SameRoute, IsBad
  <2> QED BY <1>1, <1>2, <2>1
<1>4. CrossChecks(d)
  <2>1. \A k \in {"inbounds", "outbounds", "plugins", "dns", "reload", "observability", "dashboard"} :
           k \in DOMAIN c /\ k # "route"
    BY <1>2 DEF SectionKeys
  <2> HIDE DEF c
  <2>2. \A k \in {"inbounds", "outbounds", "plugins", "dns", "reload", "observability", "dashboard"} :
           d[k] = c[k]
    BY <1>1, <2>1
  <2> QED BY <1>1, <1>2, <2>2, SameChecks
<1>5. parseConfig(config) = Obj(d)
  <2>1. parseConfig(config) = Checked(d)
    BY <1>2 DEF parseConfig, isRecord, d
  <2> QED BY <1>3, <1>4, <2>1 DEF Checked
<1> DEFINE e == parseConfig(config)
<1>6. e.o = d /\ ~IsBad(e)
  BY <1>5, ObjIs DEF IsBad
<1> DEFINE r == c.route.o
           s == d.route.o
<1>7. \A k \in DOMAIN c \ {"route"} : c[k] = d[k]
  BY <1>1
<1>8. \A k \in DOMAIN r \ {"rules"} : r[k] = s[k]
  BY <1>1 DEF SameRoute
<1>9. Len(r.rules.a) = Len(s.rules.a) /\ \A i \in DOMAIN r.rules.a : SameRule(r.rules.a[i], s.rules.a[i])
  <2>1. DOMAIN r.rules.a = 1 .. Len(r.rules.a)
    BY <1>1, SequenceHas
  <2> QED BY <1>1, <2>1 DEF SameRoute
<1> HIDE DEF e
<1> QED BY <1>6, <1>7, <1>8, <1>9 DEF SameConfig, e

\* A configuration that config/schema.ts returned is accepted when it is parsed
\* again, as config/loader.ts does after it has appended the rules of the rule-set
\* files, and nothing in it changes: defaults, trimmed texts, lowered keys and
\* widened ports stay, and the entries of geo tags, added once more to a rule that
\* has them, select no other connection.
THEOREM Reparsed == PlanSpec => []ReparseStable
<1>1. PlanInv => ReparseStable
  BY ParsedStaysSame DEF PlanInv, ReparseStable
<1> QED BY <1>1, PlanInvariant, PTL

-----------------------------------------------------------------------------
(* Shifts: PowerOfTwo, quotients and the bits of an address.               *)

\* One more doubling.
Doubled(f, n) == IF n = 0 THEN 1 ELSE 2 * f[n - 1]

\* The powers up to m.
DoubledUpTo(m) == CHOOSE f : f = [n \in 0 .. m |-> Doubled(f, n)]

\* The equation has a solution, which is the powers.
LEMMA DoubledExists ==
  ASSUME NEW m \in Nat
  PROVE  DoubledUpTo(m) = [n \in 0 .. m |-> Doubled(DoubledUpTo(m), n)]
<1> DEFINE T == {k \in Nat : \E f : f = [n \in 0 .. k |-> Doubled(f, n)]}
<1>1. 0 \in T
  <2> DEFINE f == [n \in 0 .. 0 |-> 1]
  <2>1. f = [n \in 0 .. 0 |-> Doubled(f, n)]
    BY DEF Doubled
  <2> QED BY <2>1
<1>2. ASSUME NEW k \in Nat, k \in T PROVE k + 1 \in T
  <2>1. PICK f : f = [n \in 0 .. k |-> Doubled(f, n)]
    BY <1>2
  <2> DEFINE h == [n \in 0 .. (k + 1) |-> IF n = k + 1 THEN Doubled(f, n) ELSE f[n]]
  <2>2. ASSUME NEW n \in 0 .. (k + 1) PROVE h[n] = Doubled(h, n)
    <3>1. CASE n = k + 1
      <4>1. n - 1 \in 0 .. (k + 1) /\ n - 1 # k + 1
        BY <3>1
      <4>2. h[n - 1] = f[n - 1] /\ h[n] = Doubled(f, n)
        BY <3>1, <4>1
      <4> HIDE DEF h
      <4> QED BY <4>2 DEF Doubled
    <3>2. CASE n # k + 1
      <4>1. n \in 0 .. k /\ (n # 0 => n - 1 \in 0 .. (k + 1) /\ n - 1 # k + 1)
        BY <3>2
      <4>2. h[n] = f[n] /\ (n # 0 => h[n - 1] = f[n - 1])
        BY <3>2, <4>1
      <4>3. f[n] = Doubled(f, n)
        BY <2>1, <4>1
      <4> HIDE DEF h
      <4> QED BY <4>2, <4>3 DEF Doubled
    <3> QED BY <3>1, <3>2
  <2>3. h = [n \in 0 .. (k + 1) |-> Doubled(h, n)]
    BY <2>2
  <2> HIDE DEF h
  <2> QED BY <2>3
<1>3. m \in T
  BY <1>1, <1>2, Upwards, Zenon
<1> QED BY <1>3 DEF DoubledUpTo

\* They do not depend on m.
LEMMA DoubledSame ==
  ASSUME NEW m \in Nat, NEW k \in Nat, k <= m
  PROVE  DoubledUpTo(m)[k] = DoubledUpTo(k)[k]
<1> DEFINE f == DoubledUpTo(m)
           g == DoubledUpTo(k)
           T == {n \in Nat : n <= k => f[n] = g[n]}
<1>1. /\ \A n \in 0 .. m : f[n] = Doubled(f, n)
      /\ \A n \in 0 .. k : g[n] = Doubled(g, n)
  <2>1. f = [n \in 0 .. m |-> Doubled(f, n)] /\ g = [n \in 0 .. k |-> Doubled(g, n)]
    BY DoubledExists
  <2> HIDE DEF f, g
  <2> QED BY <2>1, Zenon
<1> HIDE DEF f, g
<1>2. 0 \in T
  BY <1>1 DEF Doubled
<1>3. ASSUME NEW n \in Nat, n \in T PROVE n + 1 \in T
  <2> SUFFICES ASSUME n + 1 <= k PROVE f[n + 1] = g[n + 1]
    OBVIOUS
  <2>1. f[n] = g[n]
    BY <1>3
  <2>2. n + 1 \in 0 .. m /\ n + 1 \in 0 .. k /\ (n + 1) - 1 = n /\ n + 1 # 0
    OBVIOUS
  <2> QED BY <1>1, <2>1, <2>2 DEF Doubled
<1>4. k \in T
  BY <1>2, <1>3, Upwards, Zenon
<1> QED BY <1>4 DEF f, g

\* What PowerOfTwo computes.
LEMMA PowersAre ==
  /\ PowerOfTwo[0] = 1
  /\ \A n \in Nat : PowerOfTwo[n + 1] = 2 * PowerOfTwo[n]
  /\ \A n \in Nat : PowerOfTwo[n] \in Nat /\ PowerOfTwo[n] > 0
<1> DEFINE F == [n \in Nat |-> DoubledUpTo(n)[n]]
<1>1. F = [n \in Nat |-> IF n = 0 THEN 1 ELSE 2 * F[n - 1]]
  <2>1. ASSUME NEW n \in Nat PROVE F[n] = IF n = 0 THEN 1 ELSE 2 * F[n - 1]
    <3>1. F[n] = Doubled(DoubledUpTo(n), n)
      <4>1. DoubledUpTo(n) = [i \in 0 .. n |-> Doubled(DoubledUpTo(n), i)]
        BY DoubledExists
      <4>2. n \in 0 .. n
        OBVIOUS
      <4>3. DoubledUpTo(n)[n] = Doubled(DoubledUpTo(n), n)
        BY <4>1, <4>2
      <4> QED BY <4>3
    <3>2. n # 0 => n - 1 \in Nat /\ DoubledUpTo(n)[n - 1] = DoubledUpTo(n - 1)[n - 1]
      BY DoubledSame
    <3>3. n # 0 => F[n - 1] = DoubledUpTo(n)[n - 1]
      BY <3>2
    <3> HIDE DEF F
    <3> QED BY <3>1, <3>3 DEF Doubled
  <2> QED BY <2>1
<1> HIDE DEF F
<1>2. PowerOfTwo = [n \in Nat |-> IF n = 0 THEN 1 ELSE 2 * PowerOfTwo[n - 1]]
  BY <1>1 DEF PowerOfTwo
<1>3. PowerOfTwo[0] = 1 /\ \A n \in Nat : PowerOfTwo[n + 1] = 2 * PowerOfTwo[n]
  <2>1. \A n \in Nat : PowerOfTwo[n] = IF n = 0 THEN 1 ELSE 2 * PowerOfTwo[n - 1]
    BY <1>2
  <2>2. \A n \in Nat : n + 1 \in Nat /\ n + 1 # 0 /\ (n + 1) - 1 = n
    OBVIOUS
  <2> QED BY <2>1, <2>2
<1> DEFINE T == {n \in Nat : PowerOfTwo[n] \in Nat /\ PowerOfTwo[n] > 0}
<1>4. Nat \subseteq T
  <2>1. 0 \in T
    BY <1>3
  <2>2. ASSUME NEW n \in Nat, n \in T PROVE n + 1 \in T
    BY <1>3, <2>2
  <2> HIDE DEF T
  <2> QED BY <2>1, <2>2, Upwards
<1> QED BY <1>3, <1>4

\* Shifting by one number and then by another.
LEMMA PowersMultiply ==
  ASSUME NEW m \in Nat, NEW n \in Nat
  PROVE  PowerOfTwo[m + n] = PowerOfTwo[m] * PowerOfTwo[n]
<1> DEFINE T == {k \in Nat : PowerOfTwo[m + k] = PowerOfTwo[m] * PowerOfTwo[k]}
<1>1. 0 \in T
  BY PowersAre
<1>2. ASSUME NEW k \in Nat, k \in T PROVE k + 1 \in T
  <2>1. PowerOfTwo[m + k] = PowerOfTwo[m] * PowerOfTwo[k]
    BY <1>2
  <2>2. m + k \in Nat /\ m + (k + 1) = (m + k) + 1
    OBVIOUS
  <2>3. PowerOfTwo[m + (k + 1)] = 2 * PowerOfTwo[m + k] /\ PowerOfTwo[k + 1] = 2 * PowerOfTwo[k]
    BY <2>2, PowersAre
  <2>4. PowerOfTwo[m] \in Nat /\ PowerOfTwo[k] \in Nat
    BY PowersAre
  <2>5. \A a, b \in Nat : 2 * (a * b) = a * (2 * b)
    OBVIOUS
  <2> QED BY <2>1, <2>3, <2>4, <2>5
<1> HIDE DEF T
<1>3. n \in T
  BY <1>1, <1>2, Upwards
<1> QED BY <1>3 DEF T

\* A number, its quotient and its rest.
LEMMA Division ==
  ASSUME NEW x \in Nat, NEW m \in Nat, m > 0
  PROVE  x \div m \in Nat /\ x % m \in 0 .. (m - 1) /\ x = m * (x \div m) + (x % m)
OBVIOUS

\* Integer division, twice and by two.
LEMMA Divisions ==
  ASSUME NEW x \in Nat, NEW m \in Nat, m > 0
  PROVE  /\ \A n \in Nat : n > 0 => (x \div m) \div n = x \div (m * n)
         /\ x \div m = 2 * (x \div (2 * m)) + ((x \div m) % 2)
         /\ x \div m \in Nat /\ (x \div m) % 2 \in {0, 1}
         /\ x < m => x \div m = 0
         /\ x \div 1 = x
<1>1. ASSUME NEW n \in Nat, n > 0 PROVE (x \div m) \div n = x \div (m * n)
  <2> DEFINE q == x \div m
             r == x % m
             u == q \div n
             v == q % n
  <2>1. q \in Nat /\ r \in 0 .. (m - 1) /\ x = m * q + r
    BY Division
  <2> HIDE DEF q, r
  <2>2. u \in Nat /\ v \in 0 .. (n - 1) /\ q = n * u + v
    BY <1>1, <2>1, Division
  <2> HIDE DEF u, v
  <2>3. m * q = (m * n) * u + m * v
    BY <2>1, <2>2
  <2>4. m * v <= m * (n - 1) /\ m * v >= 0 /\ m * (n - 1) = m * n - m /\ m * n \in Nat /\ m * n > 0
    BY <1>1, <2>2
  <2>5. \A k \in Nat, w \in Nat, z \in Nat : w < k => (k * z + w) \div k = z
    OBVIOUS
  <2>6. x = (m * n) * u + (m * v + r) /\ m * v + r \in Nat /\ m * v + r < m * n
    BY <2>1, <2>2, <2>3, <2>4
  <2>7. x \div (m * n) = u
    BY <2>2, <2>4, <2>5, <2>6
  <2> QED BY <2>7 DEF u, q
<1>2. x \div m = 2 * (x \div (2 * m)) + ((x \div m) % 2)
  <2> DEFINE q == x \div m
  <2>1. q \in Nat /\ 2 \in Nat /\ 2 > 0 /\ m * 2 = 2 * m
    BY Division
  <2>2. q \div 2 = x \div (2 * m)
    BY <1>1, <2>1
  <2> HIDE DEF q
  <2>3. q = 2 * (q \div 2) + (q % 2)
    BY <2>1
  <2> QED BY <2>2, <2>3 DEF q
<1>3. x \div m \in Nat /\ (x \div m) % 2 \in {0, 1}
  OBVIOUS
<1>4. x < m => x \div m = 0
  OBVIOUS
<1>5. x \div 1 = x
  OBVIOUS
<1> QED BY <1>1, <1>2, <1>3, <1>4, <1>5

\* A bit of a number of t bits, counted from the front.
BitAt(x, t, b) == (x \div PowerOfTwo[t - 1 - b]) % 2

\* Two numbers agree after a shift when their first bits do.
LEMMA CommonBits ==
  ASSUME NEW t \in Nat, NEW x \in Nat, NEW y \in Nat, x < PowerOfTwo[t], y < PowerOfTwo[t],
         NEW p \in 0 .. t
  PROVE  x \div PowerOfTwo[t - p] = y \div PowerOfTwo[t - p]
         <=> \A b \in 0 .. (p - 1) : BitAt(x, t, b) = BitAt(y, t, b)
<1> DEFINE Agree(n) == x \div PowerOfTwo[t - n] = y \div PowerOfTwo[t - n]
           T == {n \in Nat : n <= t =>
                    (Agree(n) <=> \A b \in 0 .. (n - 1) : BitAt(x, t, b) = BitAt(y, t, b))}
<1>1. 0 \in T
  <2>1. x \div PowerOfTwo[t] = 0 /\ y \div PowerOfTwo[t] = 0
    BY PowersAre, Divisions, ZenonT(60)
  <2>2. t - 0 = t /\ 0 .. (0 - 1) = {}
    OBVIOUS
  <2> QED BY <2>1, <2>2
<1>2. ASSUME NEW n \in Nat, n \in T PROVE n + 1 \in T
  <2> SUFFICES ASSUME n + 1 <= t
               PROVE  Agree(n + 1) <=> \A b \in 0 .. n : BitAt(x, t, b) = BitAt(y, t, b)
    OBVIOUS
  <2> DEFINE m == PowerOfTwo[t - (n + 1)]
  <2>1. m \in Nat /\ m > 0 /\ PowerOfTwo[t - n] = 2 * m /\ t - 1 - n = t - (n + 1)
    <3>1. t - (n + 1) \in Nat /\ (t - (n + 1)) + 1 = t - n /\ t - 1 - n = t - (n + 1)
      OBVIOUS
    <3> QED BY <3>1, PowersAre
  <2>2. BitAt(x, t, n) = (x \div m) % 2 /\ BitAt(y, t, n) = (y \div m) % 2
    BY <2>1 DEF BitAt
  <2>3. Agree(n) <=> x \div (2 * m) = y \div (2 * m)
    BY <2>1
  <2>4. /\ x \div m = 2 * (x \div (2 * m)) + ((x \div m) % 2)
        /\ y \div m = 2 * (y \div (2 * m)) + ((y \div m) % 2)
        /\ (x \div m) % 2 \in {0, 1} /\ (y \div m) % 2 \in {0, 1}
        /\ x \div (2 * m) \in Nat /\ y \div (2 * m) \in Nat
    <3>1. \A z \in Nat : /\ z \div m = 2 * (z \div (2 * m)) + ((z \div m) % 2)
                         /\ (z \div m) % 2 \in {0, 1}
      BY <2>1, Divisions, Zenon
    <3>2. 2 * m \in Nat /\ 2 * m > 0
      BY <2>1
    <3>3. \A z \in Nat : z \div (2 * m) \in Nat
      BY <3>2, Divisions
    <3> HIDE DEF m
    <3> QED BY <3>1, <3>3
  <2>5. x \div m = y \div m
        <=> x \div (2 * m) = y \div (2 * m) /\ (x \div m) % 2 = (y \div m) % 2
    <3>1. \A a, b \in Nat : \A c, d \in {0, 1} : 2 * a + c = 2 * b + d => a = b /\ c = d
      OBVIOUS
    <3> QED BY <2>4, <3>1
  <2>6. Agree(n) <=> \A b \in 0 .. (n - 1) : BitAt(x, t, b) = BitAt(y, t, b)
    BY <1>2
  <2>7. 0 .. n = (0 .. (n - 1)) \cup {n}
    OBVIOUS
  <2> HIDE DEF m
  <2>8. Agree(n + 1) <=> x \div m = y \div m
    BY DEF m
  <2> HIDE DEF Agree
  <2> QED BY <2>2, <2>3, <2>5, <2>6, <2>7, <2>8
<1> HIDE DEF T, Agree
<1>3. p \in T
  BY <1>1, <1>2, Upwards
<1> QED BY <1>3 DEF T, Agree

\* One more group of an address.
Gathered(s, f, n) == IF n = 0 THEN 0 ELSE f[n - 1] * PowerOfTwo[GroupBits] + s[n]

\* The numbers of the first groups.
GatheredUpTo(s, m) == CHOOSE f : f = [n \in 0 .. m |-> Gathered(s, f, n)]

\* The equation has a solution, which is those numbers.
LEMMA GatheredExists ==
  ASSUME NEW s, NEW m \in Nat
  PROVE  GatheredUpTo(s, m) = [n \in 0 .. m |-> Gathered(s, GatheredUpTo(s, m), n)]
<1> DEFINE T == {k \in Nat : \E f : f = [n \in 0 .. k |-> Gathered(s, f, n)]}
<1>1. 0 \in T
  <2> DEFINE f == [n \in 0 .. 0 |-> 0]
  <2>1. f = [n \in 0 .. 0 |-> Gathered(s, f, n)]
    BY DEF Gathered
  <2> QED BY <2>1
<1>2. ASSUME NEW k \in Nat, k \in T PROVE k + 1 \in T
  <2>1. PICK f : f = [n \in 0 .. k |-> Gathered(s, f, n)]
    BY <1>2
  <2> DEFINE h == [n \in 0 .. (k + 1) |-> IF n = k + 1 THEN Gathered(s, f, n) ELSE f[n]]
  <2>2. ASSUME NEW n \in 0 .. (k + 1) PROVE h[n] = Gathered(s, h, n)
    <3>1. CASE n = k + 1
      <4>1. n - 1 \in 0 .. (k + 1) /\ n - 1 # k + 1
        BY <3>1
      <4>2. h[n - 1] = f[n - 1] /\ h[n] = Gathered(s, f, n)
        BY <3>1, <4>1
      <4> HIDE DEF h
      <4> QED BY <4>2 DEF Gathered
    <3>2. CASE n # k + 1
      <4>1. n \in 0 .. k /\ (n # 0 => n - 1 \in 0 .. (k + 1) /\ n - 1 # k + 1)
        BY <3>2
      <4>2. h[n] = f[n] /\ (n # 0 => h[n - 1] = f[n - 1])
        BY <3>2, <4>1
      <4>3. f[n] = Gathered(s, f, n)
        BY <2>1, <4>1
      <4> HIDE DEF h
      <4> QED BY <4>2, <4>3 DEF Gathered
    <3> QED BY <3>1, <3>2
  <2>3. h = [n \in 0 .. (k + 1) |-> Gathered(s, h, n)]
    BY <2>2
  <2> HIDE DEF h
  <2> QED BY <2>3
<1>3. m \in T
  BY <1>1, <1>2, Upwards, Zenon
<1> QED BY <1>3 DEF GatheredUpTo

\* Groups that fit.
Groups(s, n) == s = [i \in 1 .. n |-> s[i]] /\ \A i \in 1 .. n : s[i] \in 0 .. (PowerOfTwo[GroupBits] - 1)

\* The bits of a group.
LEMMA GroupBitsAre ==
  /\ GroupBits \in Nat /\ GroupBits > 0
  /\ PowerOfTwo[GroupBits] \in Nat /\ PowerOfTwo[GroupBits] > 0
<1>1. GroupBits \in Nat \ {0}
  BY AddressAssumption, Zenon
<1> QED BY <1>1, PowersAre

\* The number of the first i groups has i * GroupBits bits.
LEMMA GatheredIs ==
  ASSUME NEW s, NEW n \in Nat, Groups(s, n)
  PROVE  LET f == GatheredUpTo(s, n)
             B == PowerOfTwo[GroupBits]
         IN  /\ f[0] = 0
             /\ \A i \in 1 .. n : f[i] = f[i - 1] * B + s[i]
             /\ \A i \in 0 .. n : f[i] \in Nat /\ f[i] < PowerOfTwo[GroupBits * i]
<1> DEFINE f == GatheredUpTo(s, n)
           B == PowerOfTwo[GroupBits]
<1>1. \A i \in 0 .. n : f[i] = Gathered(s, f, i)
  <2>1. f = [i \in 0 .. n |-> Gathered(s, f, i)]
    BY GatheredExists
  <2> HIDE DEF f
  <2> QED BY <2>1
<1> HIDE DEF f
<1>2. f[0] = 0 /\ \A i \in 1 .. n : f[i] = f[i - 1] * B + s[i]
  <2>1. 0 \in 0 .. n /\ \A i \in 1 .. n : i \in 0 .. n /\ i # 0
    OBVIOUS
  <2> QED BY <1>1, <2>1 DEF Gathered
<1>3. GroupBits \in Nat /\ GroupBits > 0 /\ B \in Nat /\ B > 0
  BY GroupBitsAre
<1> HIDE DEF B
<1> DEFINE T == {i \in Nat : i <= n => f[i] \in Nat /\ f[i] < PowerOfTwo[GroupBits * i]}
<1>4. 0 \in T
  <2>1. GroupBits * 0 = 0
    BY <1>3
  <2> QED BY <1>2, <2>1, PowersAre
<1>5. ASSUME NEW i \in Nat, i \in T PROVE i + 1 \in T
  <2> SUFFICES ASSUME i + 1 <= n
               PROVE  f[i + 1] \in Nat /\ f[i + 1] < PowerOfTwo[GroupBits * (i + 1)]
    OBVIOUS
  <2> DEFINE P == PowerOfTwo[GroupBits * i]
  <2>1. f[i] \in Nat /\ f[i] < P
    BY <1>5
  <2>2. P \in Nat /\ PowerOfTwo[GroupBits * (i + 1)] = P * B
    <3>1. GroupBits * i \in Nat /\ GroupBits * (i + 1) = GroupBits * i + GroupBits
      BY <1>3
    <3> QED BY <1>3, <3>1, PowersAre, PowersMultiply, Zenon DEF B
  <2>3. f[i + 1] = f[i] * B + s[i + 1]
    <3>1. i + 1 \in 1 .. n /\ (i + 1) - 1 = i
      OBVIOUS
    <3> QED BY <1>2, <3>1
  <2>4. s[i + 1] \in Nat /\ s[i + 1] < B
    <3>1. i + 1 \in 1 .. n
      OBVIOUS
    <3>2. s[i + 1] \in 0 .. (B - 1)
      BY <3>1 DEF Groups, B
    <3> QED BY <1>3, <3>2
  <2> HIDE DEF P
  <2>5. \A a, b, p, g \in Nat : a < p /\ g < b => a * b + g \in Nat /\ a * b + g < p * b
    <3>1. ASSUME NEW a \in Nat, NEW b \in Nat, NEW p \in Nat, NEW g \in Nat, a < p, g < b
          PROVE  a * b + g \in Nat /\ a * b + g < p * b
      <4>1. PICK k \in Nat : p = a + 1 + k
        <5>1. p - a - 1 \in Nat /\ p = a + 1 + (p - a - 1)
          BY <3>1
        <5> QED BY <5>1
      <4>2. p * b = a * b + b + k * b /\ k * b \in Nat /\ a * b \in Nat
        BY <4>1
      <4> QED BY <3>1, <4>2
    <3> QED BY <3>1
  <2>6. f[i + 1] \in Nat /\ f[i + 1] < P * B
    BY <1>3, <2>1, <2>2, <2>3, <2>4, <2>5
  <2> QED BY <2>2, <2>6
<1> HIDE DEF T
<1>6. \A i \in 0 .. n : i \in T
  BY <1>4, <1>5, Upwards
<1>7. \A i \in 0 .. n : f[i] \in Nat /\ f[i] < PowerOfTwo[GroupBits * i]
  BY <1>6 DEF T
<1> QED BY <1>2, <1>7 DEF f, B

\* Shifted by whole groups, the number is that of the groups that are left.
LEMMA GroupsShifted ==
  ASSUME NEW s, NEW n \in Nat, Groups(s, n), NEW i \in 0 .. n
  PROVE  GatheredUpTo(s, n)[n] \div PowerOfTwo[GroupBits * (n - i)] = GatheredUpTo(s, n)[i]
<1> DEFINE f == GatheredUpTo(s, n)
           B == PowerOfTwo[GroupBits]
<1>1. /\ \A j \in 1 .. n : f[j] = f[j - 1] * B + s[j]
      /\ \A j \in 0 .. n : f[j] \in Nat
  BY GatheredIs
<1>2. GroupBits \in Nat /\ GroupBits > 0 /\ B \in Nat /\ B > 0
  BY GroupBitsAre
<1> HIDE DEF f, B
<1> DEFINE T == {k \in Nat : k <= n => f[n] \div PowerOfTwo[GroupBits * k] = f[n - k]}
<1>3. 0 \in T
  <2>1. GroupBits * 0 = 0 /\ n - 0 = n /\ f[n] \in Nat
    BY <1>1, <1>2
  <2>2. f[n] \div 1 = f[n]
    BY <2>1
  <2> QED BY <2>1, <2>2, PowersAre
<1>4. ASSUME NEW k \in Nat, k \in T PROVE k + 1 \in T
  <2> SUFFICES ASSUME k + 1 <= n
               PROVE  f[n] \div PowerOfTwo[GroupBits * (k + 1)] = f[n - (k + 1)]
    OBVIOUS
  <2> DEFINE P == PowerOfTwo[GroupBits * k]
  <2>1. f[n] \div P = f[n - k]
    BY <1>4
  <2>2. P \in Nat /\ P > 0 /\ PowerOfTwo[GroupBits * (k + 1)] = P * B
    <3>1. GroupBits * k \in Nat /\ GroupBits * (k + 1) = GroupBits * k + GroupBits
      BY <1>2
    <3> QED BY <1>2, <3>1, PowersAre, PowersMultiply, Zenon DEF B
  <2>3. f[n] \in Nat /\ f[n - (k + 1)] \in Nat /\ f[n - k] = f[n - (k + 1)] * B + s[n - k]
    <3>1. n - k \in 1 .. n /\ (n - k) - 1 = n - (k + 1) /\ n \in 0 .. n /\ n - (k + 1) \in 0 .. n
      OBVIOUS
    <3> QED BY <1>1, <3>1
  <2>4. s[n - k] \in Nat /\ s[n - k] < B
    <3>1. n - k \in 1 .. n
      OBVIOUS
    <3>2. s[n - k] \in 0 .. (B - 1)
      BY <3>1 DEF Groups, B
    <3> QED BY <1>2, <3>2
  <2> HIDE DEF P
  <2>5. (f[n] \div P) \div B = f[n] \div (P * B)
    <3>1. \A b \in Nat : b > 0 => (f[n] \div P) \div b = f[n] \div (P * b)
      BY <2>2, <2>3, Divisions, Zenon
    <3> QED BY <1>2, <3>1
  <2>6. \A b, a, g \in Nat : g < b => (a * b + g) \div b = a
    OBVIOUS
  <2>7. f[n - k] \div B = f[n - (k + 1)]
    BY <1>2, <2>3, <2>4, <2>6
  <2> QED BY <2>1, <2>2, <2>5, <2>7
<1> HIDE DEF T
<1>5. n - i \in T /\ n - i \in Nat /\ n - i <= n /\ n - (n - i) = i
  BY <1>3, <1>4, Upwards
<1>6. f[n] \div PowerOfTwo[GroupBits * (n - i)] = f[i]
  BY <1>5 DEF T
<1> QED BY <1>6 DEF f

\* A low bit of a sum is one of the term that is small.
LowBitSame(a, g, j, k) ==
  ((a * PowerOfTwo[(j + 1) + k] + g) \div PowerOfTwo[k]) % 2 = (g \div PowerOfTwo[k]) % 2

\* That is so of every such sum.
LEMMA LowBit ==
  ASSUME NEW a \in Nat, NEW g \in Nat, NEW j \in Nat, NEW k \in Nat
  PROVE  LowBitSame(a, g, j, k)
<1> DEFINE K == PowerOfTwo[k]
           J == PowerOfTwo[j]
           q == g \div K
<1>1. K \in Nat /\ K > 0 /\ J \in Nat /\ PowerOfTwo[(j + 1) + k] = (2 * J) * K
  <2>1. j + 1 \in Nat /\ PowerOfTwo[j + 1] = 2 * PowerOfTwo[j]
    BY PowersAre
  <2>2. PowerOfTwo[(j + 1) + k] = PowerOfTwo[j + 1] * PowerOfTwo[k]
    BY <2>1, PowersMultiply
  <2>3. K \in Nat /\ K > 0 /\ J \in Nat
    BY PowersAre
  <2> QED BY <2>1, <2>2, <2>3
<1> HIDE DEF K, J
<1>2. q \in Nat /\ g % K \in 0 .. (K - 1) /\ g = K * q + (g % K)
  BY <1>1, Division
<1> DEFINE r == g % K
<1> HIDE DEF q, r
<1>3. r \in Nat /\ r < K /\ g = K * q + r
  BY <1>1, <1>2 DEF r
<1> DEFINE u == a * (2 * J) + q
<1>4. u \in Nat /\ a * ((2 * J) * K) + g = K * u + r
  <2>1. a * ((2 * J) * K) = K * (a * (2 * J)) /\ a * (2 * J) \in Nat
    BY <1>1
  <2>2. K * u = K * (a * (2 * J)) + K * q
    BY <1>1, <1>2, <2>1
  <2> QED BY <1>1, <1>2, <1>3, <2>1, <2>2
<1>5. \A m, w, z \in Nat : w < m => (m * z + w) \div m = z
  OBVIOUS
<1>6. (a * ((2 * J) * K) + g) \div K = u
  <2> HIDE DEF u
  <2> QED BY <1>1, <1>3, <1>4, <1>5, Zenon
<1>7. u % 2 = q % 2
  <2>1. a * J \in Nat /\ u = 2 * (a * J) + q
    BY <1>1, <1>2
  <2> DEFINE z == a * J
  <2> HIDE DEF z, u
  <2>2. z \in Nat /\ u = 2 * z + q
    BY <2>1 DEF z
  <2> QED BY <1>2, <2>2
<1> QED BY <1>1, <1>6, <1>7 DEF K, q, LowBitSame

\* A bit of the number is the bit of the group it falls into.
LEMMA NumberBit ==
  ASSUME NEW s, NEW n \in Nat, Groups(s, n), NEW b \in 0 .. (GroupBits * n - 1)
  PROVE  /\ b \div GroupBits + 1 \in 1 .. n
         /\ BitAt(GatheredUpTo(s, n)[n], GroupBits * n, b)
               = (s[b \div GroupBits + 1] \div PowerOfTwo[GroupBits - 1 - (b % GroupBits)]) % 2
<1> DEFINE f == GatheredUpTo(s, n)
           G == GroupBits
           i == b \div G
           j == b % G
           k == G - 1 - j
<1>1. G \in Nat /\ G > 0 /\ G * n \in Nat
  BY GroupBitsAre
<1> HIDE DEF G, f
<1>2. b \in Nat /\ b < G * n
  BY <1>1 DEF G
<1>3. i \in Nat /\ j \in 0 .. (G - 1) /\ b = G * i + j
  BY <1>1, <1>2, Division
<1> HIDE DEF i, j
<1>4. i < n
  <2> SUFFICES ASSUME n <= i PROVE FALSE
    BY <1>3
  <2>1. PICK d \in Nat : i = n + d
    <3>1. i - n \in Nat /\ i = n + (i - n)
      BY <1>3
    <3> QED BY <3>1
  <2>2. G * i = G * n + G * d /\ G * d \in Nat
    BY <1>1, <2>1
  <2> QED BY <1>1, <1>2, <1>3, <2>2
<1>5. i + 1 \in 1 .. n /\ i \in 0 .. n /\ i + 1 \in 0 .. n /\ n - (i + 1) \in Nat
  BY <1>3, <1>4
<1>6. k \in Nat /\ (j + 1) + k = G /\ j \in Nat
  BY <1>1, <1>3
<1>7. G * n - 1 - b = G * (n - (i + 1)) + k /\ G * (n - (i + 1)) \in Nat
  <2>1. G * (n - (i + 1)) = G * n - G * i - G
    BY <1>1, <1>3
  <2>2. G * (n - (i + 1)) \in Nat
    BY <1>1, <1>5
  <2> QED BY <1>1, <1>2, <1>3, <2>1, <2>2
<1> HIDE DEF k
<1> DEFINE H == PowerOfTwo[G * (n - (i + 1))]
           K == PowerOfTwo[k]
<1>8. H \in Nat /\ H > 0 /\ K \in Nat /\ K > 0 /\ PowerOfTwo[G * n - 1 - b] = H * K
  BY <1>6, <1>7, PowersAre, PowersMultiply, Zenon
<1>9. /\ f[n] \in Nat /\ f[i] \in Nat /\ f[n] \div H = f[i + 1]
      /\ f[i + 1] = f[i] * PowerOfTwo[(j + 1) + k] + s[i + 1]
  <2>1. /\ \A l \in 1 .. n : f[l] = f[l - 1] * PowerOfTwo[G] + s[l]
        /\ \A l \in 0 .. n : f[l] \in Nat
    BY GatheredIs DEF f, G
  <2>2. f[n] \div PowerOfTwo[G * (n - (i + 1))] = f[i + 1]
    BY <1>5, GroupsShifted DEF f, G
  <2>3. (i + 1) - 1 = i /\ n \in 0 .. n
    BY <1>3
  <2>4. f[i + 1] = f[i] * PowerOfTwo[G] + s[i + 1]
    BY <1>5, <2>1, <2>3
  <2> QED BY <1>5, <1>6, <2>1, <2>2, <2>3, <2>4
<1>10. s[i + 1] \in Nat
  BY <1>5, GroupBitsAre DEF Groups
<1> HIDE DEF H, K
<1>11. f[n] \div PowerOfTwo[G * n - 1 - b] = f[i + 1] \div K
  <2>1. \A m \in Nat : m > 0 => (f[n] \div H) \div m = f[n] \div (H * m)
    BY <1>8, <1>9, Divisions, Zenon
  <2>2. (f[n] \div H) \div K = f[n] \div (H * K)
    BY <1>8, <2>1
  <2> QED BY <1>8, <1>9, <2>2
<1>12. (f[i + 1] \div K) % 2 = (s[i + 1] \div K) % 2
  <2>1. ((f[i] * PowerOfTwo[(j + 1) + k] + s[i + 1]) \div PowerOfTwo[k]) % 2 = (s[i + 1] \div PowerOfTwo[k]) % 2
    <3>1. f[i] \in Nat /\ s[i + 1] \in Nat /\ j \in Nat /\ k \in Nat
      BY <1>6, <1>9, <1>10
    <3>2. LowBitSame(f[i], s[i + 1], j, k)
      BY <3>1, LowBit
    <3> QED BY <3>2 DEF LowBitSame
  <2> QED BY <1>9, <2>1 DEF K
<1>13. BitAt(f[n], G * n, b) = (s[i + 1] \div K) % 2
  BY <1>11, <1>12 DEF BitAt
<1> QED BY <1>5, <1>13 DEF f, G, i, j, k, K

\* What HostOf gives for a text.
LEMMA HostIs ==
  ASSUME NEW w \in DOMAIN HostOf
  PROVE  LET h == HostOf[w]
             V == 0 .. (PowerOfTwo[GroupBits] - 1)
         IN  /\ h.version \in {0, 4, 6}
             /\ h.head \in Seq(V) /\ h.tail \in Seq(V)
             /\ IsSequence(h.head) /\ IsSequence(h.tail)
             /\ h.gap => h.version = 6
             /\ ~h.gap => h.tail = <<>>
<1>1. /\ HostOf[w].version \in {0, 4, 6}
      /\ {HostOf[w].head, HostOf[w].tail} \subseteq Seq(0 .. (PowerOfTwo[GroupBits] - 1))
      /\ HostOf[w].gap => HostOf[w].version = 6
      /\ HostOf[w].tail # <<>> => HostOf[w].gap
  BY AddressAssumption, Zenon
<1> DEFINE V == 0 .. (PowerOfTwo[GroupBits] - 1)
<1>2. \A s \in Seq(V) : IsSequence(s)
  <2> SUFFICES ASSUME NEW s \in Seq(V) PROVE IsSequence(s)
    OBVIOUS
  <2> HIDE DEF V
  <2>1. Len(s) \in Nat /\ s = [i \in 1 .. Len(s) |-> s[i]]
    OBVIOUS
  <2> QED BY <2>1, SequenceIs
<1>3. HostOf[w].head \in Seq(V) /\ HostOf[w].tail \in Seq(V)
  BY <1>1, Zenon
<1>4. IsSequence(HostOf[w].head) /\ IsSequence(HostOf[w].tail)
  BY <1>2, <1>3, Zenon
<1> QED BY <1>1, <1>3, <1>4, Zenon

\* The address has "::".
HasGap(h) == h.gap

\* An address without "::".
LEMMA PlainAddress ==
  ASSUME NEW h, IsSequence(h.head), h.tail = <<>>, ~HasGap(h), h.version \in {4, 6},
         Len(h.head) = GroupCount(h.version)
  PROVE  ParsedGroups(h) = h.head /\ Address(h) = h.head
<1> DEFINE n == GroupCount(h.version)
<1>1. n \in {4, 8} /\ (h.version = 4 => n = 4) /\ (h.version = 6 => n = 8)
      /\ GroupCount(4) = 4 /\ GroupCount(6) = 8
  BY DEF GroupCount
<1>2. ParsedGroups(h) = h.head
  <2>1. h.version = 4 => ParsedGroups(h) = parseIpv4ToBigInt(h.head)
    BY DEF ParsedGroups
  <2>2. h.version = 6 => ParsedGroups(h) = parseIpv6ToBigInt(h.head, h.gap, h.tail)
    BY DEF ParsedGroups
  <2>3. h.version = 4 => parseIpv4ToBigInt(h.head) = h.head
    BY <1>1 DEF parseIpv4ToBigInt
  <2>4. h.version = 6 => parseIpv6ToBigInt(h.head, h.gap, h.tail) = h.head
    BY <1>1, Zenon DEF parseIpv6ToBigInt, HasGap
  <2> QED BY <2>1, <2>2, <2>3, <2>4
<1>3. Address(h) = [i \in 1 .. n |-> h.head[i]]
  <2>1. Len(h.head) = n
    OBVIOUS
  <2> HIDE DEF n
  <2>2. Address(h) = [i \in 1 .. n |-> CASE i <= Len(h.head) -> h.head[i]
                          [] i > n - Len(h.tail) -> h.tail[i - (n - Len(h.tail))]
                          [] OTHER -> 0]
    BY DEF Address, n
  <2>3. \A i \in 1 .. n : i <= Len(h.head) /\ ~(i > n - Len(h.tail))
    <3>1. Len(h.tail) = 0
      OBVIOUS
    <3> QED BY <1>1, <2>1, <3>1
  <2>4. ASSUME NEW i \in 1 .. n
        PROVE  (CASE i <= Len(h.head) -> h.head[i]
                  [] i > n - Len(h.tail) -> h.tail[i - (n - Len(h.tail))]
                  [] OTHER -> 0) = h.head[i]
    BY <2>3, Zenon
  <2> QED BY <2>2, <2>4
<1>4. h.head = [i \in 1 .. n |-> h.head[i]]
  BY <1>1, SequenceHas
<1> QED BY <1>2, <1>3, <1>4

\* An address with "::".
LEMMA GappedAddress ==
  ASSUME NEW h, IsSequence(h.head), IsSequence(h.tail), HasGap(h), h.version = 6,
         Len(h.head) + Len(h.tail) < 8
  PROVE  ParsedGroups(h) = Address(h)
<1> DEFINE a == h.head
           b == h.tail
           m == GroupCount(6) - Len(a) - Len(b)
           zeros == [i \in 1 .. m |-> 0]
           g == a \o zeros \o b
<1>1. Len(a) \in Nat /\ Len(b) \in Nat /\ GroupCount(6) = 8
  BY SequenceHas DEF GroupCount
<1>2. m \in Nat /\ m >= 1 /\ Len(a) + m + Len(b) = 8 /\ m = 8 - Len(a) - Len(b)
  <2>1. m = 8 - Len(a) - Len(b)
    BY <1>1, Zenon
  <2>2. Len(a) + Len(b) < 8
    BY Zenon
  <2> HIDE DEF a, b, m
  <2> QED BY <1>1, <2>1, <2>2
<1>3. IsSequence(zeros) /\ Len(zeros) = m
  <2> HIDE DEF m
  <2>1. zeros = [i \in 1 .. m |-> zeros[i]] /\ DOMAIN zeros = 1 .. m
    OBVIOUS
  <2>2. IsSequence(zeros)
    BY <1>2, <2>1, SequenceIs, Zenon
  <2> HIDE DEF zeros
  <2>3. DOMAIN zeros = 1 .. Len(zeros) /\ Len(zeros) \in Nat
    BY <2>2, SequenceHas
  <2> QED BY <1>2, <2>1, <2>2, <2>3
<1> HIDE DEF zeros, m, a, b
<1>4. IsSequence(a) /\ IsSequence(b)
  BY DEF a, b
<1>5. /\ IsSequence(g) /\ Len(g) = 8
      /\ \A i \in 1 .. 8 :
            /\ i <= Len(a) => g[i] = a[i]
            /\ i > 8 - Len(b) => g[i] = b[i - (8 - Len(b))]
            /\ i > Len(a) /\ i <= 8 - Len(b) => g[i] = zeros[i - Len(a)]
  <2> DEFINE p == a \o zeros
  <2>1. /\ IsSequence(p) /\ Len(p) = Len(a) + m
        /\ \A i \in 1 .. Len(a) : p[i] = a[i]
        /\ \A i \in 1 .. m : p[Len(a) + i] = zeros[i]
    BY <1>3, <1>4, Concatenated
  <2> HIDE DEF p
  <2> DEFINE q == p \o b
  <2>2. /\ IsSequence(q) /\ Len(q) = Len(p) + Len(b)
        /\ \A i \in 1 .. Len(p) : q[i] = p[i]
        /\ \A i \in 1 .. Len(b) : q[Len(p) + i] = b[i]
    <3>1. IsSequence(p) /\ IsSequence(b)
      BY <1>4, <2>1
    <3> QED BY <3>1, Concatenated
  <2>3. g = q
    BY DEF p
  <2> HIDE DEF g, q
  <2>4. Len(p) = 8 - Len(b) /\ Len(q) = 8
    BY <1>1, <1>2, <2>1, <2>2
  <2>5. ASSUME NEW i \in 1 .. 8
        PROVE  /\ i <= Len(a) => q[i] = a[i]
               /\ i > 8 - Len(b) => q[i] = b[i - (8 - Len(b))]
               /\ i > Len(a) /\ i <= 8 - Len(b) => q[i] = zeros[i - Len(a)]
    <3>1. i <= Len(a) => q[i] = a[i]
      <4>1. i <= Len(a) => i \in 1 .. Len(a) /\ i \in 1 .. Len(p)
        BY <1>1, <1>2, <2>1
      <4> QED BY <2>1, <2>2, <4>1
    <3>2. i > 8 - Len(b) => q[i] = b[i - (8 - Len(b))]
      <4>1. i > 8 - Len(b) => i - (8 - Len(b)) \in 1 .. Len(b) /\ Len(p) + (i - (8 - Len(b))) = i
        BY <1>1, <2>4
      <4> QED BY <2>2, <4>1
    <3>3. i > Len(a) /\ i <= 8 - Len(b) => q[i] = zeros[i - Len(a)]
      <4>1. i > Len(a) /\ i <= 8 - Len(b) =>
               i - Len(a) \in 1 .. m /\ Len(a) + (i - Len(a)) = i /\ i \in 1 .. Len(p)
        BY <1>1, <1>2, <2>4
      <4> QED BY <2>1, <2>2, <4>1
    <3> QED BY <3>1, <3>2, <3>3
  <2> QED BY <2>2, <2>3, <2>4, <2>5
<1>6. ParsedGroups(h) = g
  <2>1. ParsedGroups(h) = parseIpv6ToBigInt(h.head, h.gap, h.tail)
    BY DEF ParsedGroups
  <2>2. g = h.head \o [i \in 1 .. (GroupCount(6) - Len(h.head) - Len(h.tail)) |-> 0] \o h.tail
    BY DEF a, b, m, zeros
  <2>3. ~(m < 1) /\ m = GroupCount(6) - Len(h.head) - Len(h.tail) /\ Len(g) = GroupCount(6)
    BY <1>1, <1>2, <1>5 DEF a, b, m
  <2> HIDE DEF g
  <2>4. parseIpv6ToBigInt(h.head, h.gap, h.tail) = g
    BY <2>2, <2>3, Zenon DEF parseIpv6ToBigInt, HasGap
  <2> QED BY <2>1, <2>4
<1>7. Address(h) = [i \in 1 .. 8 |-> CASE i <= Len(a) -> a[i]
                                       [] i > 8 - Len(b) -> b[i - (8 - Len(b))]
                                       [] OTHER -> 0]
  <2>1. GroupCount(h.version) = 8
    BY <1>1
  <2> QED BY <2>1 DEF Address, a, b
<1>8. \A i \in 1 .. 8 : ~(i <= Len(a) /\ i > 8 - Len(b))
  BY <1>1, <1>2
<1>9. \A i \in 1 .. 8 : i > Len(a) /\ i <= 8 - Len(b) => zeros[i - Len(a)] = 0
  <2>1. \A i \in 1 .. 8 : i > Len(a) /\ i <= 8 - Len(b) => i - Len(a) \in 1 .. m
    BY <1>1, <1>2
  <2> QED BY <2>1 DEF zeros
<1> HIDE DEF g
<1>10. ASSUME NEW i \in 1 .. 8
       PROVE  (CASE i <= Len(a) -> a[i]
                 [] i > 8 - Len(b) -> b[i - (8 - Len(b))]
                 [] OTHER -> 0) = g[i]
  <2>1. CASE i <= Len(a)
    <3>1. ~(i > 8 - Len(b)) /\ g[i] = a[i]
      BY <1>5, <1>8, <2>1
    <3> QED BY <2>1, <3>1, Zenon
  <2>2. CASE i > 8 - Len(b)
    <3>1. ~(i <= Len(a))
      BY <1>8, <2>2
    <3>2. g[i] = b[i - (8 - Len(b))]
      BY <1>5, <2>2, Zenon
    <3> QED BY <2>2, <3>1, <3>2, Zenon
  <2>3. CASE ~(i <= Len(a)) /\ ~(i > 8 - Len(b))
    <3>1. i > Len(a) /\ i <= 8 - Len(b)
      BY <1>1, <2>3
    <3>2. g[i] = 0
      BY <1>5, <1>9, <3>1, Zenon
    <3> QED BY <2>3, <3>2, Zenon
  <2> QED BY <2>1, <2>2, <2>3
<1>11. g = [i \in 1 .. 8 |-> g[i]]
  BY <1>5, SequenceHas
<1>12. Address(h) = [i \in 1 .. 8 |-> g[i]]
  BY <1>7, <1>10
<1> QED BY <1>6, <1>11, <1>12

\* The groups of an address fit.
LEMMA AddressGroups ==
  ASSUME NEW h, NEW n \in Nat, n = GroupCount(h.version),
         h.head \in Seq(0 .. (PowerOfTwo[GroupBits] - 1)),
         h.tail \in Seq(0 .. (PowerOfTwo[GroupBits] - 1)),
         Len(h.head) + Len(h.tail) <= n
  PROVE  Groups(Address(h), n)
<1> DEFINE V == 0 .. (PowerOfTwo[GroupBits] - 1)
           a == h.head
           b == h.tail
           c(i) == CASE i <= Len(a) -> a[i]
                     [] i > n - Len(b) -> b[i - (n - Len(b))]
                     [] OTHER -> 0
<1>1. Address(h) = [i \in 1 .. n |-> c(i)]
  BY DEF Address
<1>2. 0 \in V
  BY GroupBitsAre
<1>3. a \in Seq(V) /\ b \in Seq(V) /\ Len(a) + Len(b) <= n
  BY Zenon
<1> HIDE DEF V, a, b
<1>4. Len(a) \in Nat /\ Len(b) \in Nat /\ (\A i \in 1 .. Len(a) : a[i] \in V)
      /\ \A i \in 1 .. Len(b) : b[i] \in V
  BY <1>3
<1>5. ASSUME NEW i \in 1 .. n PROVE c(i) \in V
  <2>1. CASE i <= Len(a)
    <3>1. i \in 1 .. Len(a) /\ ~(i > n - Len(b))
      BY <1>3, <1>4, <2>1
    <3>2. c(i) = a[i]
      BY <2>1, <3>1, Zenon
    <3> QED BY <1>4, <3>1, <3>2
  <2>2. CASE i > n - Len(b)
    <3>1. i - (n - Len(b)) \in 1 .. Len(b) /\ ~(i <= Len(a))
      BY <1>3, <1>4, <2>2
    <3>2. c(i) = b[i - (n - Len(b))]
      BY <2>2, <3>1, Zenon
    <3> QED BY <1>4, <3>1, <3>2
  <2>3. CASE ~(i <= Len(a)) /\ ~(i > n - Len(b))
    <3>1. c(i) = 0
      BY <2>3, Zenon
    <3> QED BY <1>2, <3>1
  <2> QED BY <2>1, <2>2, <2>3
<1> HIDE DEF c
<1>6. \A i \in 1 .. n : Address(h)[i] = c(i)
  BY <1>1
<1>7. Address(h) = [i \in 1 .. n |-> Address(h)[i]]
  BY <1>1, <1>6
<1>8. \A i \in 1 .. n : Address(h)[i] \in V
  BY <1>5, <1>6
<1> QED BY <1>7, <1>8 DEF Groups, V

\* The groups that are parsed are those of the address.
LEMMA AddressIs ==
  ASSUME NEW w \in DOMAIN HostOf
  PROVE  LET h == HostOf[w]
         IN  /\ IsIp(h) <=> IsAddress(h)
             /\ IsAddress(h) => /\ h.version \in {4, 6} /\ ParsedGroups(h) = Address(h)
                                /\ Groups(Address(h), GroupCount(h.version))
<1> DEFINE h == HostOf[w]
           V == 0 .. (PowerOfTwo[GroupBits] - 1)
           n == GroupCount(h.version)
<1>1. /\ h.version \in {0, 4, 6}
      /\ h.head \in Seq(V) /\ h.tail \in Seq(V) /\ IsSequence(h.head) /\ IsSequence(h.tail)
      /\ HasGap(h) => h.version = 6
      /\ ~HasGap(h) => h.tail = <<>>
  BY HostIs, Zenon DEF HasGap
<1> HIDE DEF h
<1>2. Len(h.head) \in Nat /\ Len(h.tail) \in Nat /\ (h.tail = <<>> => Len(h.tail) = 0)
  BY <1>1
<1>3. GroupCount(4) = 4 /\ GroupCount(6) = 8
  BY DEF GroupCount
<1>4. IsIp(h) <=> h.version # 0 /\ ParsedGroups(h) # <<>>
  BY DEF IsIp
<1>5. IsAddress(h) <=> h.version # 0 /\ IF HasGap(h) THEN Len(h.head) + Len(h.tail) < n
                                                     ELSE Len(h.head) + Len(h.tail) = n
  BY Zenon DEF IsAddress, HasGap
<1>6. ASSUME IsAddress(h)
      PROVE  h.version \in {4, 6} /\ ParsedGroups(h) = Address(h) /\ Groups(Address(h), n)
  <2>1. h.version \in {4, 6} /\ n \in {4, 8} /\ (h.version = 6 => n = 8) /\ n \in Nat
    BY <1>1, <1>3, <1>5, <1>6
  <2>2. Len(h.head) + Len(h.tail) <= n
    <3>1. Len(h.head) + Len(h.tail) < n \/ Len(h.head) + Len(h.tail) = n
      BY <1>5, <1>6, Zenon
    <3>2. \A l, m \in Nat : l < m \/ l = m => l <= m
      OBVIOUS
    <3>3. Len(h.head) + Len(h.tail) \in Nat
      <4>1. \A l, m \in Nat : l + m \in Nat
        OBVIOUS
      <4> QED BY <1>2, <4>1, Zenon
    <3> HIDE DEF n
    <3> QED BY <2>1, <3>1, <3>2, <3>3, Zenon
  <2>3. Groups(Address(h), n)
    BY <1>1, <2>1, <2>2, AddressGroups, Zenon
  <2>4. CASE HasGap(h)
    <3>1. h.version = 6 /\ Len(h.head) + Len(h.tail) < 8
      BY <1>1, <1>5, <1>6, <2>1, <2>4, Zenon
    <3>2. ParsedGroups(h) = Address(h)
      BY <1>1, <2>4, <3>1, GappedAddress, Zenon
    <3> QED BY <2>1, <2>3, <3>2
  <2>5. CASE ~HasGap(h)
    <3>1. h.tail = <<>> /\ Len(h.head) = n
      <4>1. h.tail = <<>> /\ Len(h.head) + Len(h.tail) = n /\ Len(h.tail) = 0
        BY <1>1, <1>2, <1>5, <1>6, <2>5, Zenon
      <4> QED BY <1>2, <2>1, <4>1
    <3>2. ParsedGroups(h) = h.head /\ Address(h) = h.head
      BY <1>1, <2>1, <2>5, <3>1, PlainAddress
    <3> QED BY <2>1, <2>3, <3>2
  <2> QED BY <2>4, <2>5
<1>7. ASSUME IsAddress(h) PROVE IsIp(h)
  <2>1. Groups(Address(h), n) /\ n \in {4, 8} /\ h.version # 0
    BY <1>3, <1>6, <1>7
  <2>2. Address(h) # <<>>
    <3>1. DOMAIN Address(h) = 1 .. n
      BY <2>1 DEF Groups
    <3>2. 1 \in 1 .. n
      BY <2>1
    <3>3. DOMAIN Address(h) # {} /\ DOMAIN <<>> = {}
      BY <3>1, <3>2
    <3> QED BY <3>3, Zenon
  <2> QED BY <1>4, <1>6, <1>7, <2>1, <2>2
<1>8. ASSUME ~IsAddress(h), h.version # 0 PROVE ParsedGroups(h) = <<>>
  <2>1. h.version = 4 => ParsedGroups(h) = parseIpv4ToBigInt(h.head)
    BY DEF ParsedGroups
  <2>2. h.version = 6 => ParsedGroups(h) = parseIpv6ToBigInt(h.head, h.gap, h.tail)
    BY DEF ParsedGroups
  <2>3. CASE HasGap(h)
    <3>1. h.version = 6 /\ n = 8 /\ ~(Len(h.head) + Len(h.tail) < 8)
      BY <1>1, <1>3, <1>5, <1>8, <2>3, Zenon
    <3>2. GroupCount(6) - Len(h.head) - Len(h.tail) < 1
      <4>1. \A a, b \in Nat : ~(a + b < 8) => 8 - a - b < 1
        OBVIOUS
      <4> QED BY <1>2, <1>3, <3>1, <4>1, Zenon
    <3>3. parseIpv6ToBigInt(h.head, h.gap, h.tail) = <<>>
      BY <2>3, <3>2, Zenon DEF parseIpv6ToBigInt, HasGap
    <3> QED BY <2>2, <3>1, <3>3
  <2>4. CASE ~HasGap(h)
    <3>1. Len(h.head) # n
      <4>1. h.tail = <<>> /\ Len(h.head) + Len(h.tail) # n /\ Len(h.tail) = 0
        BY <1>1, <1>2, <1>5, <1>8, <2>4, Zenon
      <4> QED BY <1>2, <4>1
    <3>2. h.version = 4 => parseIpv4ToBigInt(h.head) = <<>>
      BY <3>1 DEF parseIpv4ToBigInt
    <3>3. h.version = 6 => parseIpv6ToBigInt(h.head, h.gap, h.tail) = <<>>
      BY <2>4, <3>1, Zenon DEF parseIpv6ToBigInt, HasGap
    <3> QED BY <1>1, <1>8, <2>1, <2>2, <3>2, <3>3
  <2> QED BY <2>3, <2>4
<1> QED BY <1>4, <1>6, <1>7, <1>8 DEF h

\* The integer of an address is that of its groups.
LEMMA IntegerIs ==
  ASSUME NEW h, NEW n \in Nat, Groups(ParsedGroups(h), n)
  PROVE  parseIpToBigInt(h) = GatheredUpTo(ParsedGroups(h), n)[n]
<1> DEFINE g == ParsedGroups(h)
           m == Len(g)
<1>1. m = n
  <2>1. g = [i \in 1 .. n |-> g[i]]
    BY DEF Groups
  <2> HIDE DEF g
  <2>2. DOMAIN g = 1 .. n
    BY <2>1
  <2> QED BY <2>1, <2>2
<1>2. parseIpToBigInt(h) = (CHOOSE f : f = [i \in 0 .. m |->
                               IF i = 0 THEN 0 ELSE f[i - 1] * PowerOfTwo[GroupBits] + g[i]])[m]
  BY DEF parseIpToBigInt
<1> HIDE DEF g, m
<1>3. GatheredUpTo(g, m) = CHOOSE f : f = [i \in 0 .. m |->
                               IF i = 0 THEN 0 ELSE f[i - 1] * PowerOfTwo[GroupBits] + g[i]]
  BY DEF GatheredUpTo, Gathered
<1> QED BY <1>1, <1>2, <1>3 DEF g

\* A block that the code accepts holds the hosts that share its first bits.
LEMMA BlockMatches ==
  ASSUME NEW c, isValidCidr(c), NEW host, host.w \in DOMAIN HostOf
  PROVE  CidrMatches(c, host) <=> InBlock(c, host)
<1> DEFINE block == HostOf[CidrOf[c.w].address]
           h == HostOf[host.w]
           p == NumberOf(CidrOf[c.w].prefix)
           n == GroupCount(block.version)
           t == BitsOf(block.version)
           Alike == \A b \in 0 .. (p - 1) : Bit(h, b) = Bit(block, b)
           Shifted == parseIpToBigInt(h) \div PowerOfTwo[t - p] = parseIpToBigInt(block) \div PowerOfTwo[t - p]
<1>1. CidrOf[c.w].address \in DOMAIN HostOf /\ IsIp(block) /\ p \in 0 .. t
  BY AddressAssumption, Zenon DEF isValidCidr
<1>2. /\ IsIp(h) <=> IsAddress(h)
      /\ IsAddress(h) => /\ ParsedGroups(h) = Address(h)
                         /\ Groups(Address(h), GroupCount(h.version))
  BY AddressIs
<1>3. /\ IsAddress(block) /\ ParsedGroups(block) = Address(block)
      /\ Groups(Address(block), n) /\ block.version \in {4, 6}
  BY <1>1, AddressIs
<1>4. n \in Nat /\ t = GroupBits * n /\ GroupBits \in Nat /\ GroupBits > 0
  BY <1>3, GroupBitsAre DEF GroupCount, BitsOf
<1>5. CidrMatches(c, host) <=> /\ ~host.pad /\ IsIp(h) /\ h.version = block.version
                               /\ p = 0 \/ Shifted
  BY Zenon DEF CidrMatches
<1>6. InBlock(c, host) <=> /\ ~host.pad /\ IsAddress(h) /\ h.version = block.version
                           /\ Alike
  BY Zenon DEF InBlock
<1> HIDE DEF block, h, p, n, t
<1>7. ASSUME IsAddress(h), h.version = block.version PROVE p = 0 \/ Shifted <=> Alike
  <2> DEFINE x == parseIpToBigInt(h)
             y == parseIpToBigInt(block)
             X == Address(h)
             Y == Address(block)
  <2>1. Groups(X, n) /\ Groups(Y, n) /\ ParsedGroups(h) = X /\ ParsedGroups(block) = Y
    BY <1>2, <1>3, <1>7 DEF n
  <2>2. x = GatheredUpTo(X, n)[n] /\ y = GatheredUpTo(Y, n)[n]
    <3>1. Groups(ParsedGroups(h), n) /\ Groups(ParsedGroups(block), n)
      BY <2>1
    <3>2. /\ parseIpToBigInt(h) = GatheredUpTo(ParsedGroups(h), n)[n]
          /\ parseIpToBigInt(block) = GatheredUpTo(ParsedGroups(block), n)[n]
      BY <1>4, <3>1, IntegerIs
    <3> QED BY <2>1, <3>2
  <2> HIDE DEF x, y, X, Y
  <2>3. x \in Nat /\ y \in Nat /\ x < PowerOfTwo[t] /\ y < PowerOfTwo[t]
    <3>1. n \in 0 .. n
      BY <1>4
    <3>2. \A s : Groups(s, n) => /\ GatheredUpTo(s, n)[n] \in Nat
                                 /\ GatheredUpTo(s, n)[n] < PowerOfTwo[GroupBits * n]
      BY <1>4, <3>1, GatheredIs
    <3> QED BY <1>4, <2>1, <2>2, <3>2
  <2>4. t \in Nat /\ p \in 0 .. t
    BY <1>1, <1>4
  <2>5. Shifted <=> \A b \in 0 .. (p - 1) : BitAt(x, t, b) = BitAt(y, t, b)
    <3>1. x \div PowerOfTwo[t - p] = y \div PowerOfTwo[t - p]
          <=> \A b \in 0 .. (p - 1) : BitAt(x, t, b) = BitAt(y, t, b)
      BY <2>3, <2>4, CommonBits
    <3> QED BY <3>1 DEF x, y
  <2>6. ASSUME NEW b \in 0 .. (p - 1)
        PROVE  BitAt(x, t, b) = Bit(h, b) /\ BitAt(y, t, b) = Bit(block, b)
    <3>1. b \in 0 .. (GroupBits * n - 1)
      BY <1>4, <2>4
    <3>2. \A s : Groups(s, n) =>
             BitAt(GatheredUpTo(s, n)[n], GroupBits * n, b)
               = (s[b \div GroupBits + 1] \div PowerOfTwo[GroupBits - 1 - (b % GroupBits)]) % 2
      BY <1>4, <3>1, NumberBit
    <3>3. /\ BitAt(x, t, b) = (X[b \div GroupBits + 1] \div PowerOfTwo[GroupBits - 1 - (b % GroupBits)]) % 2
          /\ BitAt(y, t, b) = (Y[b \div GroupBits + 1] \div PowerOfTwo[GroupBits - 1 - (b % GroupBits)]) % 2
      BY <1>4, <2>1, <2>2, <3>2
    <3> QED BY <3>3 DEF Bit, X, Y
  <2>7. Shifted <=> Alike
    <3> HIDE DEF Shifted
    <3> QED BY <2>5, <2>6
  <2>8. p = 0 => Alike
    BY <2>4
  <2> HIDE DEF Shifted, Alike
  <2> QED BY <2>7, <2>8
<1> HIDE DEF Shifted, Alike
<1> QED BY <1>2, <1>5, <1>6, <1>7, Zenon DEF h

-----------------------------------------------------------------------------
(* Rules: what a compiled rule matches is what the rule means.             *)

\* What is in one of the lists is in the list made of them.
LEMMA FlattenedHas ==
  ASSUME NEW seqs, IsSequence(seqs), \A i \in 1 .. Len(seqs) : IsSequence(seqs[i]),
         NEW i \in 1 .. Len(seqs)
  PROVE  ToSet(seqs[i]) \subseteq ToSet(FlattenSeq(seqs))
<1> DEFINE m == Len(seqs)
           P == FlatUpTo(seqs, m)
<1>1. m \in Nat /\ m # 0 /\ i \in 1 .. m
  BY SequenceHas
<1>2. P = [n \in 1 .. m |-> FlatStep(seqs, P, n)]
  BY <1>1, FlatExists DEF FlatUpTo
<1>3. FlattenSeq(seqs) = P[m]
  <2>1. FlatUpTo(seqs, Len(seqs)) =
           CHOOSE g : g = [n \in 1 .. Len(seqs) |-> IF n = 1 THEN seqs[n] ELSE g[n - 1] \o seqs[n]]
    BY DEF FlatUpTo, FlatStep
  <2> QED BY <1>1, <2>1 DEF FlattenSeq
<1>4. \A n \in 1 .. m : IsSequence(seqs[n])
  OBVIOUS
<1> HIDE DEF P, m
<1> DEFINE T == {n \in Nat : n + 1 <= m => /\ IsSequence(P[n + 1])
                                           /\ \A j \in 1 .. (n + 1) : ToSet(seqs[j]) \subseteq ToSet(P[n + 1])}
<1>5. 0 \in T
  <2>1. 1 \in 1 .. m
    BY <1>1
  <2>2. P[1] = seqs[1]
    BY <1>2, <2>1 DEF FlatStep
  <2>3. \A j \in 1 .. 1 : j = 1
    OBVIOUS
  <2>4. IsSequence(P[0 + 1]) /\ \A j \in 1 .. (0 + 1) : ToSet(seqs[j]) \subseteq ToSet(P[0 + 1])
    BY <1>4, <2>1, <2>2, <2>3
  <2> QED BY <2>4
<1>6. ASSUME NEW n \in Nat, n \in T PROVE n + 1 \in T
  <2>1. ASSUME (n + 1) + 1 <= m
        PROVE  /\ IsSequence(P[(n + 1) + 1])
               /\ \A j \in 1 .. ((n + 1) + 1) : ToSet(seqs[j]) \subseteq ToSet(P[(n + 1) + 1])
    <3> DEFINE l == (n + 1) + 1
    <3>1. l \in 1 .. m /\ l # 1 /\ l - 1 = n + 1 /\ \A j \in 1 .. l : j = l \/ j \in 1 .. (n + 1)
      BY <1>1, <2>1
    <3>2. IsSequence(P[n + 1]) /\ \A j \in 1 .. (n + 1) : ToSet(seqs[j]) \subseteq ToSet(P[n + 1])
      BY <1>1, <1>6, <2>1
    <3> HIDE DEF l
    <3>3. P[l] = P[n + 1] \o seqs[l]
      BY <1>2, <3>1, Zenon DEF FlatStep
    <3>4. IsSequence(P[l]) /\ ToSet(P[l]) = ToSet(P[n + 1]) \cup ToSet(seqs[l])
      BY <1>4, <3>1, <3>2, <3>3, JoinedItems
    <3>5. \A j \in 1 .. l : ToSet(seqs[j]) \subseteq ToSet(P[l])
      BY <3>1, <3>2, <3>4
    <3> QED BY <3>4, <3>5 DEF l
  <2> QED BY <2>1
<1> HIDE DEF T
<1>7. m - 1 \in Nat /\ (m - 1) + 1 = m /\ m <= m
  BY <1>1
<1>8. m - 1 \in T
  BY <1>5, <1>6, <1>7, Upwards
<1>9. ToSet(seqs[i]) \subseteq ToSet(P[m])
  BY <1>1, <1>7, <1>8 DEF T
<1> QED BY <1>3, <1>9

\* The entry of a tag is expanded.
LEMMA GeoListed ==
  ASSUME NEW tags, NEW L, GeoReady(L), IsSequence(ItemsOf(tags)),
         NEW i \in 1 .. Len(ItemsOf(tags)), NEW e \in ToSet(L.o), e.key = Lower(ItemsOf(tags)[i].s)
  PROVE  ToSet(e.val.a) \subseteq ToSet(ExpandGeo(tags, L))
<1> DEFINE Entry(k) == GeoEntry(L, ItemsOf(tags)[k])
           Part(k) == [j \in DOMAIN Entry(k) |-> Entry(k)[j].val.a]
           parts == [k \in DOMAIN ItemsOf(tags) |-> FlattenSeq(Part(k))]
<1>1. ASSUME NEW k
      PROVE  /\ IsSequence(FlattenSeq(Part(k)))
             /\ \A x \in ToSet(Entry(k)) : ToSet(x.val.a) \subseteq ToSet(FlattenSeq(Part(k)))
  <2> DEFINE E == Entry(k)
             W == {x \in ToSet(L.o) : x.key = Lower(ItemsOf(tags)[k].s)}
  <2>1. E = Those(L.o, W)
    BY DEF GeoEntry
  <2>2. W \subseteq ToSet(L.o)
    OBVIOUS
  <2> HIDE DEF E, W, Entry
  <2>3. IsSequence(E) /\ ToSet(E) \subseteq ToSet(L.o)
    BY <2>1, <2>2, Filtered DEF GeoReady
  <2>4. /\ Len(E) \in Nat /\ DOMAIN E = 1 .. Len(E) /\ \A j \in 1 .. Len(E) : E[j] \in ToSet(E)
        /\ \A x \in ToSet(E) : \E j \in 1 .. Len(E) : x = E[j]
    BY <2>3, SequenceHas
  <2> DEFINE p == [j \in DOMAIN E |-> E[j].val.a]
  <2>5. Len(E) \in Nat /\ p = [j \in 1 .. Len(E) |-> p[j]] /\ \A j \in 1 .. Len(E) : p[j] = E[j].val.a
    BY <2>4
  <2> HIDE DEF p
  <2>6. IsSequence(p) /\ Len(p) = Len(E)
    BY <2>5, MappedSequence
  <2>7. \A j \in 1 .. Len(p) : TrimmedList(p[j])
    BY <2>3, <2>4, <2>5, <2>6 DEF GeoReady
  <2>8. TrimmedList(FlattenSeq(p))
    BY <2>6, <2>7, FlattenedTrimmed
  <2>9. \A j \in 1 .. Len(p) : ToSet(p[j]) \subseteq ToSet(FlattenSeq(p))
    BY <2>6, <2>7, FlattenedHas DEF TrimmedList
  <2>10. \A x \in ToSet(E) : ToSet(x.val.a) \subseteq ToSet(FlattenSeq(p))
    <3> SUFFICES ASSUME NEW x \in ToSet(E) PROVE ToSet(x.val.a) \subseteq ToSet(FlattenSeq(p))
      OBVIOUS
    <3>1. PICK j \in 1 .. Len(E) : x = E[j]
      BY <2>3, SequenceHas
    <3>2. p[j] = x.val.a /\ ToSet(p[j]) \subseteq ToSet(FlattenSeq(p))
      BY <2>5, <2>6, <2>9, <3>1
    <3> QED BY <3>2
  <2> QED BY <2>8, <2>10 DEF p, E, TrimmedList
<1>2. Len(ItemsOf(tags)) \in Nat /\ DOMAIN ItemsOf(tags) = 1 .. Len(ItemsOf(tags))
  BY SequenceHas
<1>3. /\ parts = [k \in 1 .. Len(ItemsOf(tags)) |-> parts[k]]
      /\ \A k \in 1 .. Len(ItemsOf(tags)) : parts[k] = FlattenSeq(Part(k)) /\ IsSequence(parts[k])
  BY <1>1, <1>2, Zenon
<1>4. ExpandGeo(tags, L) = FlattenSeq(parts)
  BY DEF ExpandGeo
<1>5. e \in ToSet(Entry(i))
  <2> DEFINE W == {x \in ToSet(L.o) : x.key = Lower(ItemsOf(tags)[i].s)}
  <2>1. Entry(i) = Those(L.o, W)
    BY DEF GeoEntry
  <2>2. e \in W /\ W \subseteq ToSet(L.o)
    OBVIOUS
  <2> HIDE DEF W, Entry
  <2>3. ToSet(Those(L.o, W)) = ToSet(L.o) \cap W
    <3>1. IsSequence(L.o)
      BY DEF GeoReady
    <3> QED BY <3>1, Filtered
  <2> QED BY <2>1, <2>2, <2>3
<1>6. ToSet(e.val.a) \subseteq ToSet(parts[i])
  <2>1. ToSet(e.val.a) \subseteq ToSet(FlattenSeq(Part(i)))
    BY <1>1, <1>5
  <2> QED BY <1>3, <2>1
<1> HIDE DEF parts, Part, Entry
<1>7. IsSequence(parts) /\ Len(parts) = Len(ItemsOf(tags))
  BY <1>2, <1>3, MappedSequence
<1>8. ToSet(parts[i]) \subseteq ToSet(FlattenSeq(parts))
  BY <1>3, <1>7, FlattenedHas, Zenon
<1> QED BY <1>4, <1>6, <1>8

\* The lists of texts of a rule.
RuleLists == {"domain", "domainSuffix", "ipCidr", "geoIp", "geoSite"}

\* A parsed rule: its lists are texts, and those of its tags are among them.
Understood(y, geo) ==
  /\ y = Obj(y.o) /\ DOMAIN y.o = RuleKeys
  /\ \A k \in RuleLists : TrimmedList(ItemsOf(y.o[k])) /\ Legible(y.o[k])
  /\ RuleSound(y, geo)
  /\ ToSet(ExpandGeo(y.o.geoIp, geo.o.geoip)) \subseteq ToSet(ItemsOf(y.o.ipCidr))
  /\ ToSet(ExpandGeo(y.o.geoSite, geo.o.geosite)) \subseteq ToSet(ItemsOf(y.o.domainSuffix))

\* The texts of a list.
LEMMA TextsAre ==
  ASSUME NEW v, TrimmedList(ItemsOf(v))
  PROVE  /\ ToSet(Texts(v)) = {y.s : y \in ToSet(ItemsOf(v))}
         /\ Texts(v) = <<>> <=> ToSet(Texts(v)) = {}
         /\ \A d \in ToSet(Texts(v)) : d \in Words
<1> DEFINE a == ItemsOf(v)
           t == Texts(v)
<1>1. t = [i \in DOMAIN a |-> a[i].s]
  BY DEF Texts
<1>2. IsSequence(a) /\ \A y \in ToSet(a) : ProperText(y)
  BY DEF TrimmedList
<1> HIDE DEF a, t
<1>3. DOMAIN a = 1 .. Len(a) /\ Len(a) \in Nat
  BY <1>2, SequenceHas
<1>4. ToSet(t) = {y.s : y \in ToSet(a)}
  BY <1>1 DEF ToSet
<1>5. t = <<>> <=> ToSet(t) = {}
  <2>1. ASSUME ToSet(t) = {} PROVE t = <<>>
    <3>1. Len(a) = 0
      <4> SUFFICES ASSUME Len(a) # 0 PROVE FALSE
        OBVIOUS
      <4>1. 1 \in DOMAIN t
        BY <1>1, <1>3
      <4>2. t[1] \in ToSet(t)
        BY <4>1 DEF ToSet
      <4> QED BY <2>1, <4>2
    <3>2. DOMAIN t = 1 .. 0
      BY <1>1, <1>3, <3>1
    <3>3. t = [i \in 1 .. Len(a) |-> t[i]]
      BY <1>1, <1>3
    <3>4. IsSequence(t) /\ Len(t) = 0
      BY <1>3, <3>1, <3>3, MappedSequence, Zenon
    <3> QED BY <3>4, EmptyIsSequence, SameLists
  <2>2. ASSUME t = <<>> PROVE ToSet(t) = {}
    BY <2>2, NoItems
  <2> QED BY <2>1, <2>2
<1>6. \A d \in ToSet(t) : d \in Words
  <2>1. \A y \in ToSet(a) : y.s \in Words
    BY <1>2, Zenon DEF ProperText
  <2> HIDE DEF Words
  <2> QED BY <1>4, <2>1
<1> QED BY <1>4, <1>5, <1>6, Zenon DEF a, t

\* The words of a text, without blanks and in lower case.
LEMMA NormalIs ==
  ASSUME NEW d \in Words
  PROVE  normalizeDomain(d) = [w |-> d.w, pad |-> FALSE, up |-> FALSE]
<1>1. \A e \in Words : Trim(e) \in Words /\ Trim(e).w = e.w /\ Trim(e).pad = FALSE
  BY Zenon DEF Trim, Words
<1>2. \A e \in Words : Lower(e) \in Words /\ Lower(e).w = e.w /\ Lower(e).pad = e.pad /\ Lower(e).up = FALSE
  BY Zenon DEF Lower, Words
<1>3. \A e \in Words : e = [w |-> e.w, pad |-> e.pad, up |-> e.up]
  BY DEF Words
<1> DEFINE e == Lower(Trim(d))
<1> HIDE DEF Words
<1>4. e \in Words /\ e.w = d.w /\ e.pad = FALSE /\ e.up = FALSE
  BY <1>1, <1>2, Zenon
<1> HIDE DEF e
<1>5. e = [w |-> d.w, pad |-> FALSE, up |-> FALSE]
  BY <1>3, <1>4, Zenon
<1> QED BY <1>5 DEF normalizeDomain, e

\* Two texts are the same domain when they have the same word.
LEMMA SameWords ==
  ASSUME NEW d \in Words, NEW e \in Words
  PROVE  /\ normalizeDomain(d).w = d.w
         /\ normalizeDomain(d) = normalizeDomain(e) <=> d.w = e.w
<1> DEFINE Norm(u) == [w |-> u, pad |-> FALSE, up |-> FALSE]
<1>1. normalizeDomain(d) = Norm(d.w) /\ normalizeDomain(e) = Norm(e.w)
  BY NormalIs
<1>2. \A u : Norm(u).w = u
  OBVIOUS
<1> HIDE DEF Norm
<1> QED BY <1>1, <1>2, Zenon

\* The entries of a rule's tags are in its list.
LEMMA MembersListed ==
  ASSUME NEW c, NEW list, NEW tags, NEW v, GeoReady(c.o.geo.o[list]),
         TrimmedList(ItemsOf(tags)), TrimmedList(ItemsOf(v)),
         ToSet(ExpandGeo(tags, c.o.geo.o[list])) \subseteq ToSet(ItemsOf(v))
  PROVE  GeoMembers(c, list, tags) \subseteq ToSet(Texts(v))
<1> DEFINE L == c.o.geo.o[list]
           K == {Lower(t) : t \in ToSet(Texts(tags))}
<1> SUFFICES ASSUME NEW b \in GeoMembers(c, list, tags) PROVE b \in ToSet(Texts(v))
  OBVIOUS
<1>1. PICK f \in ToSet(L.o) : f.key \in K /\ b \in ToSet(Texts(f.val))
  BY DEF GeoMembers
<1>2. PICK t \in ToSet(Texts(tags)) : f.key = Lower(t)
  BY <1>1
<1>3. PICK y \in ToSet(ItemsOf(tags)) : t = y.s
  BY TextsAre
<1>4. IsSequence(ItemsOf(tags))
  BY DEF TrimmedList
<1>5. PICK i \in 1 .. Len(ItemsOf(tags)) : y = ItemsOf(tags)[i]
  BY <1>4, SequenceHas
<1> HIDE DEF L, K
<1>6. ToSet(f.val.a) \subseteq ToSet(ExpandGeo(tags, L))
  BY <1>1, <1>2, <1>3, <1>4, <1>5, GeoListed DEF L
<1>7. PICK j \in DOMAIN ItemsOf(f.val) : b = ItemsOf(f.val)[j].s
  BY <1>1 DEF Texts, ToSet
<1>8. ItemsOf(f.val) = f.val.a
  <2>1. DOMAIN ItemsOf(f.val) # {}
    BY <1>7
  <2>2. DOMAIN <<>> = {}
    OBVIOUS
  <2> QED BY <2>1, <2>2, Zenon DEF ItemsOf
<1>9. ItemsOf(f.val)[j] \in ToSet(f.val.a)
  BY <1>7, <1>8 DEF ToSet
<1>10. ItemsOf(f.val)[j] \in ToSet(ItemsOf(v))
  BY <1>6, <1>9 DEF L
<1>11. ToSet(Texts(v)) = {z.s : z \in ToSet(ItemsOf(v))}
  BY TextsAre
<1> QED BY <1>7, <1>10, <1>11

\* What a compiled rule asks of a request.
LEMMA CompiledMatches ==
  ASSUME NEW x, NEW req
  PROVE  RuleMatches(CompiledRouteRule(x), req) <=>
            /\ ~IsUndef(x.o.domain) =>
                  matchesExactDomain(req.host, {normalizeDomain(d) : d \in ToSet(Texts(x.o.domain))})
            /\ Texts(x.o.domainSuffix) # <<>> => matchesDomainSuffix(req.host, Texts(x.o.domainSuffix))
            /\ Texts(x.o.ipCidr) # <<>> => \E c \in ToSet(Texts(x.o.ipCidr)) : CidrMatches(c, req.host)
            /\ ~IsUndef(x.o.port) => req.port \in ToSet(Numbers(x.o.port))
BY Zenon DEF RuleMatches, CompiledRouteRule

\* The rule as it is compiled is the rule as it is meant.
LEMMA RuleTaken ==
  ASSUME NEW c, NEW x, Understood(x, c.o.geo),
         GeoReady(c.o.geo.o.geoip), GeoReady(c.o.geo.o.geosite),
         NEW req, req.host \in Words, req.host.w \in DOMAIN HostOf
  PROVE  RuleMatches(CompiledRouteRule(x), req) <=> RuleMeans(c, x, req)
<1> DEFINE D == Texts(x.o.domain)
           S == Texts(x.o.domainSuffix)
           B == Texts(x.o.ipCidr)
           host == req.host
           MB == GeoMembers(c, "geoip", x.o.geoIp)
           MS == GeoMembers(c, "geosite", x.o.geoSite)
<1>1. /\ \A k \in RuleLists : TrimmedList(ItemsOf(x.o[k]))
      /\ RuleSound(x, c.o.geo)
      /\ ToSet(ExpandGeo(x.o.geoIp, c.o.geo.o.geoip)) \subseteq ToSet(ItemsOf(x.o.ipCidr))
      /\ ToSet(ExpandGeo(x.o.geoSite, c.o.geo.o.geosite)) \subseteq ToSet(ItemsOf(x.o.domainSuffix))
  BY DEF Understood
<1>2. /\ TrimmedList(ItemsOf(x.o.domain)) /\ TrimmedList(ItemsOf(x.o.domainSuffix))
      /\ TrimmedList(ItemsOf(x.o.ipCidr)) /\ TrimmedList(ItemsOf(x.o.geoIp))
      /\ TrimmedList(ItemsOf(x.o.geoSite))
  BY <1>1 DEF RuleLists
<1>3. /\ \A d \in ToSet(D) : d \in Words
      /\ \A d \in ToSet(S) : d \in Words
      /\ S = <<>> <=> ToSet(S) = {}
      /\ B = <<>> <=> ToSet(B) = {}
  BY <1>2, TextsAre
<1>4. MB \subseteq ToSet(B) /\ MS \subseteq ToSet(S)
  BY <1>1, <1>2, MembersListed
<1>5. \A b \in ToSet(B) : isValidCidr(b)
  <2> SUFFICES ASSUME NEW b \in ToSet(B) PROVE isValidCidr(b)
    OBVIOUS
  <2>1. PICK i \in DOMAIN ItemsOf(x.o.ipCidr) : b = ItemsOf(x.o.ipCidr)[i].s
    BY DEF Texts, ToSet
  <2>2. ItemsOf(x.o.ipCidr)[i] \in ToSet(ItemsOf(x.o.ipCidr))
    BY DEF ToSet
  <2> QED BY <1>1, <2>1, <2>2 DEF RuleSound
<1>6. /\ ToSet(S) \cup MS = ToSet(S) /\ ToSet(B) \cup MB = ToSet(B)
  BY <1>4
<1> HIDE DEF D, S, B, MB, MS
<1>7. matchesExactDomain(host, {normalizeDomain(d) : d \in ToSet(D)}) <=> \E d \in ToSet(D) : d.w = host.w
  <2>1. \A d \in ToSet(D) : normalizeDomain(d) = normalizeDomain(host) <=> d.w = host.w
    BY <1>3, SameWords
  <2> HIDE DEF host
  <2>2. normalizeDomain(host) \in {normalizeDomain(d) : d \in ToSet(D)}
        <=> \E d \in ToSet(D) : normalizeDomain(d) = normalizeDomain(host)
    OBVIOUS
  <2> QED BY <2>1, <2>2, Zenon DEF matchesExactDomain
<1>8. matchesDomainSuffix(host, S) <=> \E d \in ToSet(S) : InDomain(d, host)
  <2>1. \A d \in ToSet(S) : normalizeDomain(d).w = d.w
    BY <1>3, SameWords
  <2>2. normalizeDomain(host).w = host.w
    BY SameWords
  <2> HIDE DEF host
  <2> QED BY <2>1, <2>2, Zenon DEF matchesDomainSuffix, InDomain
<1>9. (\E b \in ToSet(B) : CidrMatches(b, host)) <=> \E b \in ToSet(B) : InBlock(b, host)
  BY <1>5, BlockMatches
<1>10. RuleMatches(CompiledRouteRule(x), req) <=>
          /\ ~IsUndef(x.o.domain) => matchesExactDomain(host, {normalizeDomain(d) : d \in ToSet(D)})
          /\ S # <<>> => matchesDomainSuffix(host, S)
          /\ B # <<>> => \E b \in ToSet(B) : CidrMatches(b, host)
          /\ ~IsUndef(x.o.port) => req.port \in ToSet(Numbers(x.o.port))
  BY CompiledMatches, Zenon DEF D, S, B
<1>11. RuleMeans(c, x, req) <=>
          /\ IsUndef(x.o.domain) \/ \E d \in ToSet(D) : d.w = host.w
          /\ ToSet(S) \cup MS = {} \/ \E d \in ToSet(S) \cup MS : InDomain(d, host)
          /\ ToSet(B) \cup MB = {} \/ \E b \in ToSet(B) \cup MB : InBlock(b, host)
          /\ IsUndef(x.o.port) \/ req.port \in ToSet(Numbers(x.o.port))
  BY Zenon DEF RuleMeans, D, S, B, MS, MB
<1> HIDE DEF host
<1>12. RuleMeans(c, x, req) <=>
          /\ IsUndef(x.o.domain) \/ \E d \in ToSet(D) : d.w = host.w
          /\ S = <<>> \/ \E d \in ToSet(S) : InDomain(d, host)
          /\ B = <<>> \/ \E b \in ToSet(B) : InBlock(b, host)
          /\ IsUndef(x.o.port) \/ req.port \in ToSet(Numbers(x.o.port))
  BY <1>3, <1>6, <1>11, Zenon
<1> QED BY <1>7, <1>8, <1>9, <1>10, <1>12, Zenon

\* A rule of a file, or one that was parsed.
Readable(x) == isRecord(x) => \A k \in RuleLists : Legible(Get(x.o, k))

\* The lists are optional texts.
LEMMA ListFields ==
  ASSUME NEW k \in RuleLists
  PROVE  k \in RuleKeys /\ RuleFields[k] = OptTexts
BY RuleKeysAre DEF RuleLists, RuleKeys, RuleFields

\* A list of texts can be read, an empty one as if it were absent.
LEMMA ListLegible ==
  ASSUME NEW a, TrimmedList(a)
  PROVE  Legible(ListUnlessEmpty(a))
<1>1. CASE a = <<>>
  BY <1>1 DEF ListUnlessEmpty, Legible, Undef
<1>2. CASE a # <<>>
  <2>1. ListUnlessEmpty(a) = Arr(a)
    BY <1>2 DEF ListUnlessEmpty
  <2>2. IsSequence(a) /\ \A i \in 1 .. Len(a) : ProperText(a[i]) /\ IsText(a[i])
    BY SequenceHas DEF TrimmedList
  <2>3. ProperTexts(Arr(a))
    BY <2>2, ArrIs DEF ProperTexts
  <2> QED BY <2>1, <2>3 DEF Legible
<1> QED BY <1>1, <1>2

\* What the parser makes of a rule that can be read is understood.
LEMMA RuleUnderstood ==
  ASSUME NEW x, Readable(x), NEW geo, GeoReady(geo.o.geoip), GeoReady(geo.o.geosite),
         ReadItem(parseRouteRule(x, geo))
  PROVE  Understood(parseRouteRule(x, geo), geo)
<1> DEFINE y == parseRouteRule(x, geo)
           l == Leaves(x, RuleFields)
           E1 == ExpandGeo(l.geoIp, geo.o.geoip)
           E2 == ExpandGeo(l.geoSite, geo.o.geosite)
<1>1. /\ isRecord(x) /\ ~IsBad(geo) /\ RuleSound(y, geo) /\ y = Obj(y.o) /\ DOMAIN y.o = RuleKeys
      /\ y.o.ipCidr = ListUnlessEmpty(ItemsOf(l.ipCidr) \o E1)
      /\ y.o.domainSuffix = ListUnlessEmpty(ItemsOf(l.domainSuffix) \o E2)
      /\ \A k \in RuleKeys \ {"ipCidr", "domainSuffix"} : y.o[k] = l[k]
      /\ \A k \in RuleKeys : /\ l[k] = ReadLeaf(x.o, k, RuleFields[k]) /\ ~IsBad(l[k])
                             /\ RuleFields[k].needed => ~IsUndef(l[k])
  BY RuleFrom, ZenonT(60)
<1> HIDE DEF y
<1>2. \A k \in RuleLists : TrimmedList(ItemsOf(l[k])) /\ Legible(l[k])
  <2> SUFFICES ASSUME NEW k \in RuleLists PROVE TrimmedList(ItemsOf(l[k])) /\ Legible(l[k])
    OBVIOUS
  <2>1. k \in RuleKeys /\ RuleFields[k] = OptTexts
    BY ListFields
  <2>2. l[k] = ReadLeaf(x.o, k, OptTexts) /\ ~IsBad(l[k])
    BY <1>1, <2>1, Zenon
  <2>3. Legible(Get(x.o, k))
    BY <1>1 DEF Readable
  <2> HIDE DEF l
  <2> QED BY <1>1, <2>2, <2>3, TextsRead, Zenon
<1> HIDE DEF l
<1>3. TrimmedList(E1) /\ TrimmedList(E2)
  <2>1. TrimmedList(ItemsOf(l.geoIp)) /\ TrimmedList(ItemsOf(l.geoSite))
    BY <1>2 DEF RuleLists
  <2> QED BY <2>1, ExpandedTrimmed DEF TrimmedList
<1>4. /\ TrimmedList(ItemsOf(y.o.ipCidr)) /\ ToSet(E1) \subseteq ToSet(ItemsOf(y.o.ipCidr))
      /\ TrimmedList(ItemsOf(y.o.domainSuffix)) /\ ToSet(E2) \subseteq ToSet(ItemsOf(y.o.domainSuffix))
      /\ Legible(y.o.ipCidr) /\ Legible(y.o.domainSuffix)
  <2>1. TrimmedList(ItemsOf(l.ipCidr)) /\ TrimmedList(ItemsOf(l.domainSuffix))
    BY <1>2 DEF RuleLists
  <2> HIDE DEF E1, E2
  <2>2. /\ ItemsOf(y.o.ipCidr) = ItemsOf(l.ipCidr) \o E1
        /\ ItemsOf(y.o.domainSuffix) = ItemsOf(l.domainSuffix) \o E2
    BY <1>1, ListIs, Zenon
  <2>3. \A a, e : TrimmedList(a) /\ TrimmedList(e) =>
           /\ TrimmedList(a \o e) /\ ToSet(e) \subseteq ToSet(a \o e)
           /\ Legible(ListUnlessEmpty(a \o e))
    BY JoinedTrimmed, JoinedItems, ListLegible DEF TrimmedList
  <2> QED BY <1>1, <1>3, <2>1, <2>2, <2>3
<1>5. \A k \in RuleLists : TrimmedList(ItemsOf(y.o[k])) /\ Legible(y.o[k])
  <2> SUFFICES ASSUME NEW k \in RuleLists PROVE TrimmedList(ItemsOf(y.o[k])) /\ Legible(y.o[k])
    OBVIOUS
  <2>1. CASE k \in {"ipCidr", "domainSuffix"}
    BY <1>4, <2>1
  <2>2. CASE k \notin {"ipCidr", "domainSuffix"}
    BY <1>1, <1>2, <2>2, ListFields
  <2> QED BY <2>1, <2>2
<1>6. ExpandGeo(y.o.geoIp, geo.o.geoip) = E1 /\ ExpandGeo(y.o.geoSite, geo.o.geosite) = E2
  <2>1. y.o["geoIp"] = l["geoIp"] /\ y.o["geoSite"] = l["geoSite"]
    BY <1>1 DEF RuleKeys
  <2> QED BY <2>1
<1> HIDE DEF E1, E2
<1> QED BY <1>1, <1>4, <1>5, <1>6 DEF Understood, y

\* A parsed rule can be read again.
LEMMA UnderstoodReadable ==
  ASSUME NEW y, NEW geo, Understood(y, geo)
  PROVE  Readable(y)
<1>1. \A k \in RuleLists : k \in DOMAIN y.o /\ Legible(y.o[k])
  BY ListFields DEF Understood
<1> QED BY <1>1 DEF Readable, Get

\* The rules and the geo lists of a configuration that was read.
Routing(c) ==
  /\ GeoReady(c.o.geo.o.geoip) /\ GeoReady(c.o.geo.o.geosite)
  /\ IsSequence(c.o.route.o.rules.a)
  /\ \A y \in ToSet(c.o.route.o.rules.a) : Understood(y, c.o.geo)

\* A list of parsed rules is understood.
LEMMA RulesUnderstood ==
  ASSUME NEW x, Value6(x) \/ x = Undef, NEW geo, ~IsBad(parseRouter(x, geo)),
         GeoReady(geo.o.geoip), GeoReady(geo.o.geosite)
  PROVE  LET v == parseRouter(x, geo).o.rules
         IN  /\ v = Arr(v.a) /\ IsSequence(v.a)
             /\ \A y \in ToSet(v.a) : Widened(y, geo) /\ Understood(y, geo)
<1> DEFINE v == parseRouter(x, geo).o.rules
<1>1. /\ v = Arr(v.a) /\ IsSequence(v.a)
      /\ \A y \in ToSet(v.a) : ReadItem(y) /\ \E z : Fitting(z) /\ y = parseRouteRule(z, geo)
  BY RulesFrom
<1> HIDE DEF v
<1>2. ASSUME NEW y \in ToSet(v.a) PROVE Widened(y, geo) /\ Understood(y, geo)
  <2>1. PICK z : Fitting(z) /\ y = parseRouteRule(z, geo)
    BY <1>1
  <2>2. ReadItem(parseRouteRule(z, geo))
    BY <1>1, <2>1
  <2>3. Widened(parseRouteRule(z, geo), geo)
    BY <2>1, <2>2, RuleParsed
  <2>4. Readable(z)
    BY <2>1, FitIsLegible DEF Readable, Fitting
  <2>5. Understood(parseRouteRule(z, geo), geo)
    BY <2>2, <2>4, RuleUnderstood
  <2> QED BY <2>1, <2>3, <2>5
<1> QED BY <1>1, <1>2 DEF v

\* The configuration of the first parse, before the rules of the files.
LEMMA ConfigReady ==
  ASSUME LoadInv, step = "parsed"
  PROVE  /\ Routing(config)
         /\ \A y \in ToSet(config.o.route.o.rules.a) : Widened(y, config.o.geo)
         /\ \A o : Get(o, "geo") = config.o.geo => ParseSection(o, "geo") = config.o.geo
         /\ config.o.route.o.rules = Arr(config.o.route.o.rules.a)
<1> DEFINE root == Migrated(source).o
           c == config.o
<1>1. /\ c = Sections(root) /\ \A k \in DOMAIN Sections(root) : ~IsBad(Sections(root)[k])
      /\ \A k : k # "configVersion" => Get(root, k) = Get(source.o, k)
      /\ \A k : k \notin MapKeys => Value6(Get(source.o, k)) \/ Get(source.o, k) = Undef
  BY ParsedLists
<1> HIDE DEF root
<1>2. /\ DOMAIN c = SectionKeys \cup {"configVersion", "inbounds", "outbounds", "route"}
      /\ \A k \in SectionKeys : c[k] = ParseSection(root, k)
      /\ c.route = parseRouter(Get(root, "route"), ParseSection(root, "geo"))
  BY <1>1, SectionsAre
<1>3. \A k \in {"geo", "route"} :
         /\ k # "configVersion" /\ Get(root, k) = Get(source.o, k) /\ ~IsBad(c[k])
         /\ Value6(Get(root, k)) \/ Get(root, k) = Undef
  <2>1. \A k \in {"geo", "route"} : k # "configVersion" /\ k \notin MapKeys
    BY DEF MapKeys
  <2>2. \A k \in {"geo", "route"} : k \in DOMAIN c
    BY <1>2 DEF SectionKeys
  <2> QED BY <1>1, <2>1, <2>2
<1>4. "geo" \in SectionKeys
  BY DEF SectionKeys
<1> DEFINE x == Get(root, "route")
           geo == ParseSection(root, "geo")
<1>5. c["geo"] = geo /\ ~IsBad(geo)
  BY <1>2, <1>3, <1>4
<1>6. \A k \in {"geoip", "geosite"} : GeoReady(geo.o[k])
  BY <1>3, <1>5, SectionGeoReady
<1>7. GeoReady(geo.o.geoip) /\ GeoReady(geo.o.geosite)
  BY <1>6
<1>8. /\ Value6(x) \/ x = Undef
      /\ c["route"] = parseRouter(x, geo) /\ ~IsBad(parseRouter(x, geo))
  BY <1>2, <1>3
<1>9. \A o : Get(o, "geo") = geo => ParseSection(o, "geo") = geo
  BY <1>3, <1>4, <1>5, SectionAgain
<1> HIDE DEF x, geo
<1> DEFINE v == parseRouter(x, geo).o.rules
<1>10. /\ v = Arr(v.a) /\ IsSequence(v.a)
       /\ \A y \in ToSet(v.a) : Widened(y, geo) /\ Understood(y, geo)
  BY <1>7, <1>8, RulesUnderstood
<1>11. config.o.geo = geo /\ config.o.route.o.rules = v
  BY <1>5, <1>8
<1> HIDE DEF v, c
<1> QED BY <1>7, <1>9, <1>10, <1>11 DEF Routing

\* Every readable rule of an accepted route is understood.
LEMMA RouteRead ==
  ASSUME NEW a, IsSequence(a), \A y \in ToSet(a) : Readable(y),
         NEW x, Get(x.o, "rules") = Arr(a), NEW geo, ~IsBad(parseRouter(x, geo)),
         GeoReady(geo.o.geoip), GeoReady(geo.o.geosite)
  PROVE  LET b == parseRouter(x, geo).o.rules.a
         IN  /\ IsSequence(b) /\ Len(b) = Len(a)
             /\ \A i \in 1 .. Len(a) : b[i] = parseRouteRule(a[i], geo) /\ Understood(b[i], geo)
<1> DEFINE v == Arr(a)
           rs == [i \in DOMAIN a |-> parseRouteRule(a[i], geo)]
<1>1. parseRouter(x, geo).o.rules = RawRules(x, geo) /\ ~IsBad(RawRules(x, geo)) /\ isRecord(x)
  BY RouteIs
<1>2. RawRules(x, geo) = Collected(rs)
  <2>1. v.t = "arr" /\ v.a = a /\ v # Undef
    BY ArrIs DEF Undef
  <2>2. x.o["rules"] = v
    BY <2>1 DEF Get
  <2> HIDE DEF v
  <2>3. Get(x.o, "rules").t = "arr" /\ x.o["rules"].a = a
    BY <2>1, <2>2 DEF v
  <2> QED BY <1>1, <2>3 DEF RawRules
<1>3. /\ Len(a) \in Nat /\ DOMAIN a = 1 .. Len(a)
      /\ \A i \in 1 .. Len(a) : a[i] \in ToSet(a)
  BY SequenceHas
<1>4. /\ rs = [i \in 1 .. Len(a) |-> rs[i]]
      /\ \A i \in 1 .. Len(a) : rs[i] = parseRouteRule(a[i], geo)
  BY <1>3
<1> HIDE DEF rs
<1>5. IsSequence(rs) /\ Len(rs) = Len(a)
  BY <1>3, <1>4, MappedSequence
<1>6. \A i \in 1 .. Len(rs) : ~IsBad(rs[i])
  BY <1>1, <1>2, <1>5, CollectedIs, Zenon
<1>7. \A i \in 1 .. Len(a) : ReadItem(rs[i])
  <2>1. \A y : ~IsUndef(parseRouteRule(y, geo))
    BY ObjIs DEF parseRouteRule, ParsedRule, IsUndef, Bad
  <2> QED BY <1>4, <1>5, <1>6, <2>1, Zenon DEF ReadItem
<1>8. \A y \in ToSet(rs) : ReadItem(y)
  BY <1>5, <1>7, SequenceHas
<1>9. Collected(rs) = Arr(rs)
  BY <1>5, <1>8, SameItems
<1>10. parseRouter(x, geo).o.rules.a = rs
  BY <1>1, <1>2, <1>9, ArrIs
<1>11. \A i \in 1 .. Len(a) : Understood(rs[i], geo)
  BY <1>3, <1>4, <1>7, RuleUnderstood
<1> QED BY <1>4, <1>5, <1>10, <1>11

\* What the second parse makes of the expanded configuration.
LEMMA Reread ==
  ASSUME LoadInv, step = "parsed", \A x \in ToSet(expanded) : Readable(x),
         NEW r, r = parseConfig(ExpandedConfig), ~IsBad(r)
  PROVE  LET a == config.o.route.o.rules.a
             b == r.o.route.o.rules.a
         IN  /\ Routing(r) /\ Len(b) = Len(expanded) + Len(a)
             /\ \A i \in 1 .. Len(a) : SameRule(a[i], b[Len(expanded) + i])
<1> DEFINE a == config.o.route.o.rules.a
           b == r.o.route.o.rules.a
           all == expanded \o a
           geo == config.o.geo
           x == ExpandedConfig.o.route
<1>1. /\ Routing(config)
      /\ \A y \in ToSet(a) : Widened(y, geo)
      /\ \A o : Get(o, "geo") = geo => ParseSection(o, "geo") = geo
  BY ConfigReady
<1>2. Sound(config)
  BY ParsedIsSound
<1>3. DOMAIN config.o = SectionKeys \cup {"configVersion", "inbounds", "outbounds", "route"}
  BY <1>2, SoundShape
<1>4. "geo" \in DOMAIN config.o /\ "route" \in DOMAIN config.o /\ "geo" \in SectionKeys
  BY <1>3 DEF SectionKeys
<1>5. DOMAIN config.o.route.o = {"rules", "defaultOutbound", "ruleSetFiles", "policies"}
  BY <1>2, SoundRoute
<1>6. /\ DOMAIN ExpandedConfig.o = DOMAIN config.o
      /\ ExpandedConfig.o["geo"] = geo
      /\ DOMAIN x.o = DOMAIN config.o.route.o
      /\ x.o["rules"] = Arr(all)
  BY <1>2, <1>4, ExpandedIs
<1> HIDE DEF x, all, geo
<1>7. /\ Get(ExpandedConfig.o, "geo") = geo /\ Get(x.o, "rules") = Arr(all)
      /\ Get(ExpandedConfig.o, "route") = x
  BY <1>4, <1>5, <1>6 DEF Get, x
<1>8. /\ r.o = Sections(ExpandedConfig.o)
      /\ \A k \in DOMAIN Sections(ExpandedConfig.o) : ~IsBad(Sections(ExpandedConfig.o)[k])
  BY ConfigIs, ObjIs
<1>9. /\ DOMAIN r.o = SectionKeys \cup {"configVersion", "inbounds", "outbounds", "route"}
      /\ \A k \in SectionKeys : r.o[k] = ParseSection(ExpandedConfig.o, k)
      /\ r.o["route"] = parseRouter(Get(ExpandedConfig.o, "route"), ParseSection(ExpandedConfig.o, "geo"))
  BY <1>8, SectionsAre
<1>10. r.o["geo"] = geo /\ r.o["route"] = parseRouter(x, geo) /\ ~IsBad(parseRouter(x, geo))
  <2>1. ParseSection(ExpandedConfig.o, "geo") = geo
    BY <1>1, <1>7
  <2>2. "route" \in DOMAIN r.o
    BY <1>9
  <2> QED BY <1>4, <1>7, <1>8, <1>9, <2>1, <2>2
<1>11. /\ GeoReady(geo.o.geoip) /\ GeoReady(geo.o.geosite)
       /\ IsSequence(a) /\ \A y \in ToSet(a) : Understood(y, geo)
  BY <1>1 DEF Routing, geo
<1>12. IsSequence(expanded)
  BY DEF LoadInv
<1> HIDE DEF a
<1>13. /\ IsSequence(all) /\ Len(all) = Len(expanded) + Len(a)
       /\ \A i \in 1 .. Len(expanded) : all[i] = expanded[i]
       /\ \A i \in 1 .. Len(a) : all[Len(expanded) + i] = a[i]
  BY <1>11, <1>12, Concatenated DEF all
<1>14. Len(expanded) \in Nat /\ Len(a) \in Nat
  BY <1>11, <1>12, SequenceHas
<1>15. \A y \in ToSet(all) : Readable(y)
  <2>1. ToSet(all) = ToSet(expanded) \cup ToSet(a)
    BY <1>11, <1>12, JoinedItems DEF all
  <2> QED BY <1>11, <2>1, UnderstoodReadable
<1>16. /\ IsSequence(b) /\ Len(b) = Len(all)
       /\ \A i \in 1 .. Len(all) : b[i] = parseRouteRule(all[i], geo) /\ Understood(b[i], geo)
  <2>1. /\ Get(x.o, "rules") = Arr(all) /\ ~IsBad(parseRouter(x, geo))
        /\ GeoReady(geo.o.geoip) /\ GeoReady(geo.o.geosite)
        /\ IsSequence(all) /\ \A y \in ToSet(all) : Readable(y)
    BY <1>7, <1>10, <1>11, <1>13, <1>15
  <2> DEFINE u == parseRouter(x, geo).o.rules.a
  <2>2. /\ IsSequence(u) /\ Len(u) = Len(all)
        /\ \A i \in 1 .. Len(all) : u[i] = parseRouteRule(all[i], geo) /\ Understood(u[i], geo)
    BY <2>1, RouteRead, Zenon
  <2>3. b = u
    BY <1>10
  <2> HIDE DEF u, b
  <2> QED BY <2>2, <2>3
<1>17. \A y \in ToSet(b) : Understood(y, geo)
  <2>1. \A y \in ToSet(b) : \E i \in 1 .. Len(b) : y = b[i]
    BY <1>16, SequenceHas
  <2> QED BY <1>16, <2>1
<1>18. \A i \in 1 .. Len(a) : SameRule(a[i], b[Len(expanded) + i])
  <2> SUFFICES ASSUME NEW i \in 1 .. Len(a) PROVE SameRule(a[i], b[Len(expanded) + i])
    OBVIOUS
  <2>1. Len(expanded) + i \in 1 .. Len(all)
    BY <1>13, <1>14
  <2>2. b[Len(expanded) + i] = parseRouteRule(a[i], geo)
    BY <1>13, <1>16, <2>1
  <2>3. a[i] \in ToSet(a)
    BY <1>11, SequenceHas
  <2>4. Widened(a[i], geo)
    BY <1>1, <2>3 DEF a
  <2> QED BY <2>2, <2>4, WidenedAgain
<1>19. Routing(r)
  BY <1>10, <1>11, <1>16, <1>17 DEF Routing
<1> QED BY <1>13, <1>16, <1>18, <1>19 DEF a

-----------------------------------------------------------------------------
(* The first rule that takes a request, before and after the second parse. *)

\* Rules that differ in repeated entries only take the same requests.
LEMMA SameTaken ==
  ASSUME NEW x, NEW y, SameRule(x, y), NEW req,
         \A k \in {"ipCidr", "domainSuffix"} :
            TrimmedList(ItemsOf(x.o[k])) /\ TrimmedList(ItemsOf(y.o[k]))
  PROVE  RuleMatches(CompiledRouteRule(x), req) <=> RuleMatches(CompiledRouteRule(y), req)
<1>1. {"domain", "port"} \subseteq DOMAIN RuleFields \ {"ipCidr", "domainSuffix"}
  BY RuleKeysAre DEF RuleKeys
<1>2. x.o["domain"] = y.o["domain"] /\ x.o["port"] = y.o["port"]
  BY <1>1 DEF SameRule
<1>3. ASSUME NEW k \in {"ipCidr", "domainSuffix"}
      PROVE  /\ ToSet(Texts(x.o[k])) = ToSet(Texts(y.o[k]))
             /\ Texts(x.o[k]) = <<>> <=> Texts(y.o[k]) = <<>>
  <2> DEFINE u == x.o[k]
             v == y.o[k]
  <2>1. TrimmedList(ItemsOf(u)) /\ TrimmedList(ItemsOf(v)) /\ ToSet(ItemsOf(u)) = ToSet(ItemsOf(v))
    BY DEF SameRule
  <2> HIDE DEF u, v
  <2>2. /\ ToSet(Texts(u)) = {z.s : z \in ToSet(ItemsOf(u))}
        /\ Texts(u) = <<>> <=> ToSet(Texts(u)) = {}
        /\ ToSet(Texts(v)) = {z.s : z \in ToSet(ItemsOf(v))}
        /\ Texts(v) = <<>> <=> ToSet(Texts(v)) = {}
    BY <2>1, TextsAre
  <2>3. /\ ToSet(Texts(u)) = ToSet(Texts(v)) /\ (Texts(u) = <<>> <=> Texts(v) = <<>>)
    BY <2>1, <2>2, Zenon
  <2> QED BY <2>3 DEF u, v
<1> DEFINE S == Texts(x.o.domainSuffix)
           R == Texts(y.o.domainSuffix)
           B == Texts(x.o.ipCidr)
           A == Texts(y.o.ipCidr)
<1>4. /\ ToSet(S) = ToSet(R) /\ (S = <<>> <=> R = <<>>)
      /\ ToSet(B) = ToSet(A) /\ (B = <<>> <=> A = <<>>)
  BY <1>3
<1> DEFINE D(z) == matchesExactDomain(req.host, {normalizeDomain(d) : d \in ToSet(Texts(z))})
           P(z) == req.port \in ToSet(Numbers(z))
<1>5. RuleMatches(CompiledRouteRule(x), req) <=>
            /\ ~IsUndef(x.o["domain"]) => D(x.o["domain"])
            /\ S # <<>> => matchesDomainSuffix(req.host, S)
            /\ B # <<>> => \E c \in ToSet(B) : CidrMatches(c, req.host)
            /\ ~IsUndef(x.o["port"]) => P(x.o["port"])
  BY CompiledMatches, Zenon
<1>6. RuleMatches(CompiledRouteRule(y), req) <=>
            /\ ~IsUndef(y.o["domain"]) => D(y.o["domain"])
            /\ R # <<>> => matchesDomainSuffix(req.host, R)
            /\ A # <<>> => \E c \in ToSet(A) : CidrMatches(c, req.host)
            /\ ~IsUndef(y.o["port"]) => P(y.o["port"])
  BY CompiledMatches, Zenon
<1> HIDE DEF S, R, B, A, D, P
<1>7. matchesDomainSuffix(req.host, S) <=> matchesDomainSuffix(req.host, R)
  BY <1>4, Zenon DEF matchesDomainSuffix
<1> QED BY <1>2, <1>4, <1>5, <1>6, <1>7, Zenon

\* The first of a set of indices, and zero when there is none.
FirstOf(T) == IF T = {} THEN 0 ELSE CHOOSE i \in T : \A j \in T : i <= j

\* What FirstOf chooses.
LEMMA FirstIs ==
  ASSUME NEW T \in SUBSET (Nat \ {0})
  PROVE  /\ FirstOf(T) \in Nat /\ (FirstOf(T) = 0 <=> T = {})
         /\ T # {} => FirstOf(T) \in T /\ \A j \in T : FirstOf(T) <= j
<1>1. CASE T = {}
  BY <1>1 DEF FirstOf
<1>2. CASE T # {}
  <2>1. \E i \in T : \A j \in T : i <= j
    BY <1>2, LeastNatural
  <2>2. FirstOf(T) \in T /\ \A j \in T : FirstOf(T) <= j
    BY <1>2, <2>1, Zenon DEF FirstOf
  <2> QED BY <1>2, <2>2, Zenon
<1> QED BY <1>1, <1>2

\* The members of T beyond n are those of S, n places further.
Shifted(n, m, S, T) ==
  /\ n \in Nat /\ m \in Nat /\ S \subseteq 1 .. m /\ T \subseteq 1 .. (n + m)
  /\ \A i \in 1 .. m : i \in S <=> n + i \in T

\* When no rule before the others applies, the first is the first of the others.
LEMMA FirstShifted ==
  ASSUME NEW n, NEW m, NEW S, NEW T, Shifted(n, m, S, T), FirstOf(T) = 0 \/ FirstOf(T) > n
  PROVE  FirstOf(T) = IF FirstOf(S) = 0 THEN 0 ELSE FirstOf(S) + n
<1> USE DEF Shifted
<1>1. S \in SUBSET (Nat \ {0}) /\ T \in SUBSET (Nat \ {0})
  OBVIOUS
<1>2. /\ FirstOf(T) \in Nat /\ (FirstOf(T) = 0 <=> T = {})
      /\ T # {} => FirstOf(T) \in T /\ \A j \in T : FirstOf(T) <= j
  BY <1>1, FirstIs
<1>3. /\ FirstOf(S) \in Nat /\ (FirstOf(S) = 0 <=> S = {})
      /\ S # {} => FirstOf(S) \in S /\ \A j \in S : FirstOf(S) <= j
  BY <1>1, FirstIs
<1>4. CASE T = {}
  <2>1. S = {}
    BY <1>4
  <2> QED BY <1>2, <1>3, <1>4, <2>1
<1>5. CASE T # {}
  <2> DEFINE t == FirstOf(T)
  <2>1. t \in T /\ t \in Nat /\ t > n /\ \A j \in T : t <= j
    BY <1>2, <1>5
  <2> HIDE DEF t
  <2>2. t - n \in 1 .. m /\ n + (t - n) = t
    BY <2>1
  <2>3. t - n \in S
    BY <2>1, <2>2
  <2> DEFINE s == FirstOf(S)
  <2>4. s \in S /\ s \in Nat /\ \A j \in S : s <= j
    BY <1>3, <2>3
  <2>5. s # 0
    BY <1>3, <2>3
  <2> HIDE DEF s
  <2>6. n + s \in T
    BY <2>4
  <2>7. s <= t - n /\ t <= n + s
    BY <2>1, <2>3, <2>4, <2>6
  <2>8. t = s + n
    BY <2>1, <2>4, <2>7
  <2> QED BY <2>5, <2>8 DEF s, t
<1> QED BY <1>4, <1>5

\* The rules that take a request, and the first of them.
Taking(c, req) == {i \in DOMAIN c.o.route.o.rules.a :
                      RuleMatches(CompiledRouteRule(c.o.route.o.rules.a[i]), req)}

\* The router takes the first rule that matches.
LEMMA TakenIsFirst ==
  ASSUME NEW c, NEW req
  PROVE  RouteMatch(CompiledRules(c), req) = FirstOf(Taking(c, req))
<1> DEFINE rules == c.o.route.o.rules.a
           done == CompiledRules(c)
<1>1. DOMAIN done = DOMAIN rules /\ \A i \in DOMAIN rules : done[i] = CompiledRouteRule(rules[i])
  BY DEF CompiledRules
<1>2. {i \in DOMAIN done : RuleMatches(done[i], req)} = Taking(c, req)
  <2> HIDE DEF done
  <2> QED BY <1>1 DEF Taking
<1>3. \A d : RouteMatch(d, req) = FirstOf({i \in DOMAIN d : RuleMatches(d[i], req)})
  BY Zenon DEF RouteMatch, FirstOf
<1>4. RouteMatch(done, req) = FirstOf(Taking(c, req))
  <2> HIDE DEF done
  <2> QED BY <1>2, <1>3
<1> QED BY <1>4 DEF done

\* The rules that match are those whose meaning is met.
LEMMA TakenAsMeant ==
  ASSUME NEW c, Routing(c), NEW req, req.host \in Words, req.host.w \in DOMAIN HostOf
  PROVE  Taking(c, req) = {i \in DOMAIN c.o.route.o.rules.a : RuleMeans(c, c.o.route.o.rules.a[i], req)}
<1> DEFINE rules == c.o.route.o.rules.a
<1>1. /\ GeoReady(c.o.geo.o.geoip) /\ GeoReady(c.o.geo.o.geosite)
      /\ IsSequence(rules) /\ \A y \in ToSet(rules) : Understood(y, c.o.geo)
  BY DEF Routing
<1>2. ASSUME NEW i \in DOMAIN rules
      PROVE  RuleMatches(CompiledRouteRule(rules[i]), req) <=> RuleMeans(c, rules[i], req)
  <2>1. rules[i] \in ToSet(rules)
    BY DEF ToSet
  <2>2. Understood(rules[i], c.o.geo)
    BY <1>1, <2>1
  <2> QED BY <1>1, <2>2, RuleTaken
<1> HIDE DEF rules
<1>3. Taking(c, req) = {i \in DOMAIN rules : RuleMatches(CompiledRouteRule(rules[i]), req)}
  BY DEF Taking, rules
<1>4. {i \in DOMAIN rules : RuleMatches(CompiledRouteRule(rules[i]), req)} =
          {i \in DOMAIN rules : RuleMeans(c, rules[i], req)}
  BY <1>2
<1> QED BY <1>3, <1>4 DEF rules

\* What the decisions of r are, and those of c, of which r is made by
\* putting n rules before its own.
RoutedAs(c, r, n) ==
  \A req \in Requests :
     LET rules == r.o.route.o.rules.a
         taken == RouteMatch(CompiledRules(r), req)
         met   == {i \in DOMAIN rules : RuleMeans(r, rules[i], req)}
         alone == RouteMatch(CompiledRules(c), req)
     IN  /\ taken = (IF met = {} THEN 0 ELSE CHOOSE i \in met : \A j \in met : i <= j)
         /\ taken = 0 \/ taken > n => taken = (IF alone = 0 THEN 0 ELSE alone + n)

\* The rules of the files come first, and leave the others as they were.
LEMMA TakenFurther ==
  ASSUME NEW c, NEW r, NEW n \in Nat, Routing(c), Routing(r),
         Len(r.o.route.o.rules.a) = n + Len(c.o.route.o.rules.a),
         \A i \in 1 .. Len(c.o.route.o.rules.a) :
            SameRule(c.o.route.o.rules.a[i], r.o.route.o.rules.a[n + i])
  PROVE  RoutedAs(c, r, n)
<1> DEFINE a == c.o.route.o.rules.a
           b == r.o.route.o.rules.a
           m == Len(a)
<1>1. /\ IsSequence(a) /\ \A y \in ToSet(a) : Understood(y, c.o.geo)
      /\ IsSequence(b) /\ \A y \in ToSet(b) : Understood(y, r.o.geo)
  BY DEF Routing
<1>2. /\ Len(b) = n + m /\ \A i \in 1 .. m : SameRule(a[i], b[n + i])
  OBVIOUS
<1> SUFFICES ASSUME NEW req \in Requests
             PROVE  LET taken == RouteMatch(CompiledRules(r), req)
                        met   == {i \in DOMAIN b : RuleMeans(r, b[i], req)}
                        alone == RouteMatch(CompiledRules(c), req)
                    IN  /\ taken = (IF met = {} THEN 0 ELSE CHOOSE i \in met : \A j \in met : i <= j)
                        /\ taken = 0 \/ taken > n => taken = (IF alone = 0 THEN 0 ELSE alone + n)
  BY Zenon DEF RoutedAs
<1>3. req.host \in Words /\ req.host.w \in DOMAIN HostOf
  BY RequestsAssumption
<1>4. Taking(r, req) = {i \in DOMAIN b : RuleMeans(r, b[i], req)}
  BY <1>3, TakenAsMeant
<1> DEFINE S == Taking(c, req)
           T == Taking(r, req)
<1>5. /\ S = {i \in DOMAIN a : RuleMatches(CompiledRouteRule(a[i]), req)}
      /\ T = {i \in DOMAIN b : RuleMatches(CompiledRouteRule(b[i]), req)}
  BY DEF Taking
<1> HIDE DEF a, b, S, T
<1>6. /\ m \in Nat /\ DOMAIN a = 1 .. m /\ \A i \in 1 .. m : a[i] \in ToSet(a)
      /\ DOMAIN b = 1 .. (n + m) /\ \A i \in 1 .. (n + m) : b[i] \in ToSet(b)
  <2>1. /\ DOMAIN a = 1 .. Len(a) /\ Len(a) \in Nat /\ \A i \in 1 .. Len(a) : a[i] \in ToSet(a)
    BY <1>1, SequenceHas
  <2>2. DOMAIN b = 1 .. Len(b) /\ \A i \in 1 .. Len(b) : b[i] \in ToSet(b)
    BY <1>1, SequenceHas
  <2> QED BY <1>2, <2>1, <2>2
<1>7. S \in SUBSET (1 .. m) /\ T \in SUBSET (1 .. n + m)
  BY <1>5, <1>6
<1>8. ASSUME NEW i \in 1 .. m PROVE i \in S <=> n + i \in T
  <2>1. n + i \in 1 .. (n + m)
    BY <1>6
  <2>2. Understood(a[i], c.o.geo) /\ Understood(b[n + i], r.o.geo)
    BY <1>1, <1>6, <2>1
  <2>3. \A k \in {"ipCidr", "domainSuffix"} :
           TrimmedList(ItemsOf(a[i].o[k])) /\ TrimmedList(ItemsOf(b[n + i].o[k]))
    BY <2>2 DEF Understood, RuleLists
  <2>4. RuleMatches(CompiledRouteRule(a[i]), req) <=> RuleMatches(CompiledRouteRule(b[n + i]), req)
    BY <1>2, <2>3, SameTaken, Zenon
  <2> QED BY <1>5, <1>6, <2>1, <2>4
<1>9. FirstOf(T) = 0 \/ FirstOf(T) > n => FirstOf(T) = (IF FirstOf(S) = 0 THEN 0 ELSE FirstOf(S) + n)
  <2> HIDE DEF m
  <2>1. Shifted(n, m, S, T)
    BY <1>6, <1>7, <1>8 DEF Shifted
  <2> SUFFICES ASSUME FirstOf(T) = 0 \/ FirstOf(T) > n
               PROVE  FirstOf(T) = (IF FirstOf(S) = 0 THEN 0 ELSE FirstOf(S) + n)
    OBVIOUS
  <2> QED BY <2>1, FirstShifted, Zenon
<1>10. RouteMatch(CompiledRules(r), req) = FirstOf(T) /\ RouteMatch(CompiledRules(c), req) = FirstOf(S)
  BY TakenIsFirst DEF S, T
<1> DEFINE met == {i \in DOMAIN b : RuleMeans(r, b[i], req)}
<1>11. FirstOf(met) = (IF met = {} THEN 0 ELSE CHOOSE i \in met : \A j \in met : i <= j)
  BY Zenon DEF FirstOf
<1>12. T = met
  BY <1>4 DEF T
<1> HIDE DEF met
<1> QED BY <1>9, <1>10, <1>11, <1>12 DEF met

\* The last step of loading.
LEMMA LoadedRoutes ==
  ASSUME LoadInv, \A x \in ToSet(expanded) : Readable(x), FinishExpansion
  PROVE  RoutesAsWritten'
<1>1. /\ step = "parsed" /\ filesRead = Len(RuleSets)
      /\ result' = (IF RuleSets = <<>> THEN config ELSE parseConfig(ExpandedConfig))
      /\ step' = (IF IsBad(result') THEN "failed" ELSE "loaded")
      /\ config' = config /\ expanded' = expanded
  BY DEF FinishExpansion
<1>2. Routing(config)
  BY <1>1, ConfigReady
<1>3. IsSequence(expanded) /\ Len(expanded) \in Nat
  BY SequenceHas DEF LoadInv
<1>4. ASSUME step' = "loaded" PROVE RoutedAs(config, result', Len(expanded))
  <2>1. ~IsBad(result')
    BY <1>1, <1>4
  <2>2. CASE RuleSets = <<>>
    <3>1. result' = config
      BY <1>1, <2>2
    <3>2. Len(expanded) = 0
      <4>1. filesRead = 0
        BY <1>1, <2>2
      <4> QED BY <4>1 DEF LoadInv
    <3> DEFINE a == config.o.route.o.rules.a
    <3>3. IsSequence(a)
      BY <1>2 DEF Routing
    <3> HIDE DEF a
    <3>4. Len(a) \in Nat
      BY <3>3, SequenceHas
    <3>5. Len(a) = 0 + Len(a) /\ \A i \in 1 .. Len(a) : SameRule(a[i], a[0 + i])
      <4>1. \A x : SameRule(x, x)
        BY DEF SameRule
      <4>2. \A i \in 1 .. Len(a) : 0 + i = i
        BY <3>4
      <4> QED BY <3>4, <4>1, <4>2
    <3>6. RoutedAs(config, config, 0)
      BY <1>2, <3>5, TakenFurther DEF a
    <3> QED BY <3>1, <3>2, <3>6
  <2>3. CASE RuleSets # <<>>
    <3>1. result' = parseConfig(ExpandedConfig)
      BY <1>1, <2>3
    <3> DEFINE r == parseConfig(ExpandedConfig)
               a == config.o.route.o.rules.a
               b == r.o.route.o.rules.a
    <3>2. /\ Routing(r) /\ Len(b) = Len(expanded) + Len(a)
          /\ \A i \in 1 .. Len(a) : SameRule(a[i], b[Len(expanded) + i])
      BY <1>1, <2>1, <3>1, Reread
    <3>3. RoutedAs(config, r, Len(expanded))
      BY <1>2, <1>3, <3>2, TakenFurther, Zenon
    <3> QED BY <3>1, <3>3
  <2> QED BY <2>2, <2>3
<1>5. RoutesAsWritten' <=> (step' = "loaded" => RoutedAs(config', result', Len(expanded')))
  BY Zenon DEF RoutesAsWritten, RoutedAs
<1> QED BY <1>1, <1>4, <1>5

\* The rules of a file are records of lists that can be read.
LEMMA FileItems ==
  ASSUME NEW input \in RuleSetFiles, input # Unreadable, NEW rules,
         rules = extractRuleSetRules(input), ~IsUndef(rules)
  PROVE  IsSequence(rules.a) /\ \A x \in ToSet(rules.a) : Fitting(x)
<1>1. Parsed(input)
  BY FilesAssumption
<1>2. Value6(rules) /\ rules.t = "arr"
  <2>1. CASE input.t = "arr"
    <3>1. rules = input
      BY <2>1 DEF extractRuleSetRules, isRecord
    <3> QED BY <1>1, <2>1, <3>1, Shallower
  <2>2. CASE input.t # "arr"
    <3>1. rules # Undef
      BY DEF IsUndef, Undef
    <3>2. isRecord(input) /\ Get(input.o, "rules").t = "arr" /\ rules = input.o["rules"]
      BY <2>2, <3>1 DEF extractRuleSetRules
    <3>3. Get(input.o, "rules") = input.o["rules"] /\ rules # Undef
      BY <3>1, <3>2 DEF Get, Undef
    <3>4. "rules" \notin MapKeys
      BY DEF MapKeys
    <3>5. Value6(Get(input.o, "rules")) \/ Get(input.o, "rules") = Undef
      BY <1>1, <3>2, <3>4, FieldOf
    <3> QED BY <3>2, <3>3, <3>5
  <2> QED BY <2>1, <2>2
<1>3. Proper(rules) /\ \A x \in ToSet(rules.a) : Value5(x)
  BY <1>2, ProperValue
<1>4. IsSequence(rules.a)
  BY <1>2, <1>3 DEF Proper
<1> QED BY <1>3, <1>4, Shallower, FieldsFit

\* A rule of a file keeps its lists.
LEMMA RuleOfSetReadable ==
  ASSUME NEW set, NEW i, NEW x, isRecord(x), Fitting(x)
  PROVE  Readable(RuleOfSet(set, i, x))
<1> DEFINE f == [tag |-> Str(set.o.tag.s.w \o ":" \o
                               (IF NonEmptyText(Get(x.o, "tag")) THEN Get(x.o, "tag").s.w ELSE ToString(i - 1))),
                 outboundTag |-> IF NonEmptyText(Get(x.o, "outboundTag")) THEN x.o.outboundTag
                                 ELSE set.o.outboundTag]
           o == Joined(f, x.o)
<1>1. RuleOfSet(set, i, x) = Obj(o)
  BY DEF RuleOfSet
<1>2. \A k \in RuleLists : k \notin DOMAIN f
  BY DEF RuleLists
<1> HIDE DEF f
<1>3. \A k \in RuleLists : /\ k \in DOMAIN o <=> k \in DOMAIN x.o
                           /\ k \in DOMAIN x.o => o[k] = x.o[k]
  BY <1>2, JoinedIs
<1> HIDE DEF o
<1>4. \A k \in RuleLists : Get(o, k) = Get(x.o, k)
  BY <1>3 DEF Get
<1>5. \A k \in RuleLists : Legible(Get(o, k))
  BY <1>4, FitIsLegible DEF Fitting
<1> QED BY <1>1, <1>5, ObjIs DEF Readable

\* Loading one more file of rules.
LEMMA FilesAddReadable ==
  ASSUME LoadInv, \A x \in ToSet(expanded) : Readable(x), LoadRuleSetFile
  PROVE  /\ \A x \in ToSet(expanded') : Readable(x)
         /\ step' # "loaded"
<1>1. step = "parsed" /\ IsSequence(expanded)
  BY DEF LoadRuleSetFile, LoadInv
<1>2. PICK input \in RuleSetFiles :
         LET set   == RuleSets[filesRead + 1]
             rules == IF input = Unreadable THEN Undef ELSE extractRuleSetRules(input)
         IN  IF IsUndef(rules) \/ (\E i \in DOMAIN rules.a : ~isRecord(rules.a[i])) THEN Fail
             ELSE /\ expanded' = expanded \o [i \in DOMAIN rules.a |-> RuleOfSet(set, i, rules.a[i])]
                  /\ filesRead' = filesRead + 1
                  /\ UNCHANGED <<step, source, config, result>>
  BY DEF LoadRuleSetFile
<1> DEFINE set == RuleSets[filesRead + 1]
           rules == IF input = Unreadable THEN Undef ELSE extractRuleSetRules(input)
           more == [i \in DOMAIN rules.a |-> RuleOfSet(set, i, rules.a[i])]
<1>3. CASE Fail
  BY <1>3 DEF Fail
<1>4. CASE ~Fail
  <2>1. /\ ~IsUndef(rules) /\ expanded' = expanded \o more /\ step' = step
        /\ \A i \in DOMAIN rules.a : isRecord(rules.a[i])
    BY <1>2, <1>4
  <2>2. input # Unreadable /\ rules = extractRuleSetRules(input)
    <3>1. IsUndef(Undef)
      BY DEF IsUndef, Undef
    <3> QED BY <2>1, <3>1
  <2> HIDE DEF rules, set
  <2>3. IsSequence(rules.a) /\ \A x \in ToSet(rules.a) : Fitting(x)
    BY <2>1, <2>2, FileItems
  <2>4. /\ Len(rules.a) \in Nat /\ DOMAIN rules.a = 1 .. Len(rules.a)
        /\ \A i \in 1 .. Len(rules.a) : rules.a[i] \in ToSet(rules.a)
    BY <2>3, SequenceHas
  <2>5. more = [i \in 1 .. Len(rules.a) |-> more[i]]
    BY <2>4
  <2>6. \A i \in 1 .. Len(rules.a) : Readable(more[i])
    <3> SUFFICES ASSUME NEW i \in 1 .. Len(rules.a) PROVE Readable(more[i])
      BY Zenon
    <3>1. more[i] = RuleOfSet(set, i, rules.a[i])
      BY <2>4
    <3>2. isRecord(rules.a[i]) /\ Fitting(rules.a[i])
      BY <2>1, <2>3, <2>4, Zenon
    <3>3. Readable(RuleOfSet(set, i, rules.a[i]))
      BY <3>2, RuleOfSetReadable
    <3> QED BY <3>1, <3>3
  <2> HIDE DEF more
  <2>7. IsSequence(more) /\ Len(more) = Len(rules.a)
    BY <2>4, <2>5, MappedSequence
  <2>8. \A x \in ToSet(more) : Readable(x)
    <3>1. \A x \in ToSet(more) : \E i \in 1 .. Len(more) : x = more[i]
      BY <2>7, SequenceHas
    <3> QED BY <2>6, <2>7, <3>1
  <2>9. ToSet(expanded \o more) = ToSet(expanded) \cup ToSet(more)
    BY <1>1, <2>7, JoinedItems
  <2> QED BY <1>1, <2>1, <2>8, <2>9
<1> QED BY <1>3, <1>4

\* The routes are those that were written, and the rules of the files can be read.
RouteInv == (\A x \in ToSet(expanded) : Readable(x)) /\ RoutesAsWritten

\* Before anything is read.
LEMMA RouteInitInv == PlanInit => RouteInv
<1> SUFFICES ASSUME PlanInit PROVE RouteInv
  OBVIOUS
<1>1. step = "start" /\ expanded = <<>>
  BY DEF PlanInit, LoaderInit
<1>2. \A x \in ToSet(expanded) : Readable(x)
  BY <1>1, NoItems
<1>3. RoutesAsWritten
  BY <1>1 DEF RoutesAsWritten
<1> QED BY <1>2, <1>3 DEF RouteInv

\* Every step of loading and comparing.
LEMMA RouteNextInv ==
  ASSUME LoadInv, RouteInv, [PlanNext]_planVars
  PROVE  RouteInv'
<1>1. \A x \in ToSet(expanded) : Readable(x)
  BY DEF RouteInv
<1>2. CASE UNCHANGED loaderVars
  <2>1. UNCHANGED <<step, config, expanded, result>>
    BY <1>2 DEF loaderVars
  <2>2. RoutesAsWritten'
    BY <2>1, Zenon DEF RouteInv, RoutesAsWritten
  <2> QED BY <1>1, <2>1, <2>2 DEF RouteInv
<1>3. CASE ReadConfig \/ ParseFirst
  <2>1. expanded' = expanded /\ step' # "loaded"
    BY <1>3 DEF ReadConfig, ParseFirst, Fail
  <2>2. RoutesAsWritten'
    BY <2>1, Zenon DEF RoutesAsWritten
  <2> QED BY <1>1, <2>1, <2>2 DEF RouteInv
<1>4. CASE LoadRuleSetFile
  <2>1. (\A x \in ToSet(expanded') : Readable(x)) /\ step' # "loaded"
    BY <1>1, <1>4, FilesAddReadable
  <2>2. RoutesAsWritten'
    BY <2>1, Zenon DEF RoutesAsWritten
  <2> QED BY <2>1, <2>2 DEF RouteInv
<1>5. CASE FinishExpansion
  <2>1. expanded' = expanded
    BY <1>5 DEF FinishExpansion
  <2>2. RoutesAsWritten'
    BY <1>1, <1>5, LoadedRoutes
  <2> QED BY <1>1, <2>1, <2>2 DEF RouteInv
<1>6. ASSUME ~UNCHANGED loaderVars
      PROVE  ReadConfig \/ ParseFirst \/ LoadRuleSetFile \/ FinishExpansion
  <2>1. ~Compare
    BY <1>6 DEF Compare
  <2>2. ~UNCHANGED planVars
    BY <1>6 DEF planVars
  <2> QED BY <1>6, <2>1, <2>2 DEF PlanNext, LoaderNext, Settled
<1> QED BY <1>2, <1>3, <1>4, <1>5, <1>6

\* RoutesAsWritten: a request takes the first rule whose criteria it meets, the
\* rules of the rule-set files first, and when none of those applies the decision
\* is that of the configuration without rule-set files (router.ts, matcher.ts,
\* loader.ts), for every address width, file and request.
THEOREM RoutedAsWritten == PlanSpec => []RoutesAsWritten
<1>1. PlanInv => LoadInv
  BY DEF PlanInv
<1>2. LoadInv /\ RouteInv /\ [PlanNext]_planVars => RouteInv'
  BY RouteNextInv
<1>3. RouteInv => RoutesAsWritten
  BY DEF RouteInv
<1> QED BY <1>1, <1>2, <1>3, RouteInitInv, PlanInvariant, PTL DEF PlanSpec
=============================================================================
